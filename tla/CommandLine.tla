----------------------------- MODULE CommandLine -----------------------------
(***************************************************************************)
(* How the guest gets its arguments and environment: it asks for the       *)
(* number and sizes of the strings (cmdsize), makes room for them, and has *)
(* them copied there (cmdval).  Each call goes through the arguments and   *)
(* the environment of the process on its own; an iteration of one of these *)
(* loops is one step.  Arguments are words; of an environment variable the *)
(* lengths of key and value tell them apart.                               *)
(***************************************************************************)
EXTENDS Integers, Sequences

CONSTANTS MAX_ARGC, MAX_ENVC,
          Words            \* what a command line is made of

ASSUME LimitAssumption == MAX_ARGC \in Nat \ {0} /\ MAX_ENVC \in Nat

VARIABLES
    args, environ,   \* of the process
    call,            \* the call and the loop it is in, or that it "panicked"
    at,              \* how many elements the loop has been through
    counter, found_separator, separator_pos,   \* locals of the call
    argc, argsz, envc, envsz,   \* SysCmdsize
    argv, envp,      \* the guest's strings, by their slots
    overrun          \* a string did not fit into the room made for it

inputs == <<args, environ>>
locals == <<at, counter, found_separator, separator_pos>>
sizeVars == <<argc, argsz, envc, envsz>>
copyVars == <<argv, envp, overrun>>
cmdVars == <<inputs, call, locals, sizeVars, copyVars>>

\* A word or a variable that is not Unicode: the iterators panic over it.
Garbled == "garbled"
GarbledVariable == [key |-> 0, value |-> 0]

path == "kernel"
len(word) == CASE word = "--" -> 2 [] word = "x" -> 1 [] word = "" -> 0 [] OTHER -> 6
Put(f, k, x) == [j \in DOMAIN f \cup {k} |-> IF j = k THEN x ELSE f[j]]

CmdInit ==
    /\ call = "none"
    /\ at = 0 /\ counter = 0 /\ found_separator = FALSE /\ separator_pos = 0
    /\ argc = 0 /\ argsz = <<>> /\ envc = 0 /\ envsz = <<>>
    /\ argv = <<>> /\ envp = <<>> /\ overrun = FALSE

\* A loop begins; or it ends the thread.
Restart == at' = 0 /\ counter' = 0
Panic == call' = "panicked" /\ UNCHANGED locals

-------------------------------------------------------------------------------
(* cmdsize *)

cmdsize ==
    /\ call = "none"
    /\ call' = "size_args"
    /\ Restart /\ found_separator' = FALSE /\ separator_pos' = 0
    /\ argc' = 0 /\ envc' = 0
    /\ argsz' = Put(argsz, 0, len(path) + 1)
    /\ UNCHANGED <<inputs, envsz, copyVars>>

\* One argument; argsz has MAX_ARGC elements.
cmdsize_arg ==
    /\ call = "size_args" /\ at < Len(args)
    /\ LET argument == args[at + 1]
           found == found_separator \/ argument = "--"
           pos == IF ~found_separator /\ argument = "--" THEN counter + 1 ELSE separator_pos
           passed == found /\ counter >= pos
           slot == counter - pos + 1
       IN  IF argument = Garbled \/ (passed /\ slot >= MAX_ARGC)
           THEN Panic /\ UNCHANGED argsz
           ELSE /\ argsz' = IF passed THEN Put(argsz, slot, len(argument) + 1) ELSE argsz
                /\ found_separator' = found /\ separator_pos' = pos
                /\ at' = at + 1 /\ counter' = counter + 1
                /\ UNCHANGED call
    /\ UNCHANGED <<inputs, argc, envc, envsz, copyVars>>

\* Mutant of cmdsize_args_end: the separator counts as an argument.
cmdsize_args_end_separator ==
    /\ call = "size_args" /\ at = Len(args)
    /\ argc' = IF found_separator /\ counter >= separator_pos
               THEN counter - separator_pos + 2 ELSE 1
    /\ Restart /\ call' = "size_vars"
    /\ UNCHANGED <<inputs, found_separator, separator_pos, argsz, envc, envsz, copyVars>>

cmdsize_args_end ==
    /\ call = "size_args" /\ at = Len(args)
    /\ argc' = IF found_separator /\ counter >= separator_pos
               THEN counter - separator_pos + 1 ELSE 1
    /\ Restart /\ call' = "size_vars"
    /\ UNCHANGED <<inputs, found_separator, separator_pos, argsz, envc, envsz, copyVars>>

\* One environment variable; those behind the first MAX_ENVC are left out.
cmdsize_var ==
    /\ call = "size_vars" /\ at < Len(environ)
    /\ LET variable == environ[at + 1]
       IN  IF variable = GarbledVariable THEN Panic /\ UNCHANGED envsz
           ELSE /\ IF counter < MAX_ENVC
                   THEN /\ envsz' = Put(envsz, counter, variable.key + variable.value + 2)
                        /\ counter' = counter + 1
                   ELSE UNCHANGED <<envsz, counter>>
                /\ at' = at + 1
                /\ UNCHANGED <<call, found_separator, separator_pos>>
    /\ UNCHANGED <<inputs, argc, argsz, envc, copyVars>>

cmdsize_vars_end ==
    /\ call = "size_vars" /\ at = Len(environ)
    /\ envc' = counter
    /\ call' = "sized"
    /\ UNCHANGED <<inputs, locals, argc, argsz, envsz, copyVars>>

-------------------------------------------------------------------------------
(* cmdval *)

\* The guest (external) has made room: argc strings of argsz bytes, envc of
\* envsz bytes.  A string is written with its NUL.
Fits(k, count, sizes, bytes) == k < count /\ k \in DOMAIN sizes /\ bytes <= sizes[k]

cmdval ==
    /\ call = "sized"
    /\ call' = "copy_args"
    /\ Restart /\ found_separator' = FALSE /\ separator_pos' = 0
    /\ argv' = Put(argv, 0, path)
    /\ overrun' = ~Fits(0, argc, argsz, len(path) + 1)
    /\ UNCHANGED <<inputs, sizeVars, envp>>

cmdval_arg ==
    /\ call = "copy_args" /\ at < Len(args)
    /\ LET argument == args[at + 1]
           found == found_separator \/ argument = "--"
           pos == IF ~found_separator /\ argument = "--" THEN counter + 1 ELSE separator_pos
           slot == counter - pos + 1
       IN  IF argument = Garbled THEN Panic /\ UNCHANGED <<argv, overrun>>
           ELSE /\ IF found /\ counter >= pos
                   THEN /\ argv' = Put(argv, slot, argument)
                        /\ overrun' = (overrun \/ ~Fits(slot, argc, argsz, len(argument) + 1))
                   ELSE UNCHANGED <<argv, overrun>>
                /\ found_separator' = found /\ separator_pos' = pos
                /\ at' = at + 1 /\ counter' = counter + 1
                /\ UNCHANGED call
    /\ UNCHANGED <<inputs, sizeVars, envp>>

cmdval_args_end ==
    /\ call = "copy_args" /\ at = Len(args)
    /\ Restart /\ call' = "copy_vars"
    /\ UNCHANGED <<inputs, found_separator, separator_pos, sizeVars, copyVars>>

\* key=value, with a NUL
cmdval_var ==
    /\ call = "copy_vars" /\ at < Len(environ)
    /\ LET variable == environ[at + 1]
           bytes == variable.key + 1 + variable.value + 1
       IN  IF variable = GarbledVariable THEN Panic /\ UNCHANGED <<envp, overrun>>
           ELSE /\ IF counter < MAX_ENVC
                   THEN /\ envp' = Put(envp, counter, variable)
                        /\ overrun' = (overrun \/ ~Fits(counter, envc, envsz, bytes))
                        /\ counter' = counter + 1
                   ELSE UNCHANGED <<envp, overrun, counter>>
                /\ at' = at + 1
                /\ UNCHANGED <<call, found_separator, separator_pos>>
    /\ UNCHANGED <<inputs, sizeVars, argv>>

cmdval_vars_end ==
    /\ call = "copy_vars" /\ at = Len(environ)
    /\ call' = "done"
    /\ UNCHANGED <<inputs, locals, sizeVars, copyVars>>

CmdNext ==
    \/ cmdsize \/ cmdsize_arg \/ cmdsize_args_end \/ cmdsize_var \/ cmdsize_vars_end
    \/ cmdval \/ cmdval_arg \/ cmdval_args_end \/ cmdval_var \/ cmdval_vars_end

\* The calls, for any arguments and any environment.
CmdSpec ==
    /\ args \in Seq({"uhyve"} \cup Words) /\ environ \in Seq([key : Nat, value : Nat])
    /\ CmdInit /\ [][CmdNext]_cmdVars

-------------------------------------------------------------------------------
(* Properties *)

\* What the guest gets is the kernel's path and everything behind the first
\* "--", in order and in rooms of the announced sizes, and as much of the
\* environment as there are slots; a call panics only for more arguments than
\* slots, and for an argument or a variable that is not Unicode.
CmdvalFits ==
    LET separators == {n \in DOMAIN args : args[n] = "--"}
        first == CHOOSE n \in separators : \A m \in separators : n <= m
        expected == <<path>> \o (IF separators = {} THEN <<>>
                                 ELSE SubSeq(args, first + 1, Len(args)))
    IN  /\ ~overrun
        /\ call = "done" =>
              /\ argc = Len(expected) /\ DOMAIN argv = 0 .. argc - 1
              /\ \A k \in 1 .. argc : argv[k - 1] = expected[k]
              /\ DOMAIN envp = 0 .. envc - 1
              /\ \A k \in 1 .. envc : envp[k - 1] = environ[k]
              /\ envc = IF Len(environ) < MAX_ENVC THEN Len(environ) ELSE MAX_ENVC
        /\ call = "panicked" =>
              \/ Len(expected) > MAX_ARGC
              \/ \E n \in DOMAIN args : args[n] = Garbled
              \/ \E n \in DOMAIN environ : environ[n] = GarbledVariable
===============================================================================
