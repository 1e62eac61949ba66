-------------------------------- MODULE MacRun --------------------------------
(***************************************************************************)
(* Uhyve::run on macOS: vCPU threads that send their exit code through an  *)
(* unbounded channel to the calling thread, which returns the first one.   *)
(* Nobody stops or joins the vCPU threads: they outlive run.               *)
(***************************************************************************)
EXTENDS Integers, Sequences

CONSTANTS NumCpus,  \* num_cpus of the VM
          Codes,    \* exit codes the guest can pass
          None,     \* "no code"
          Faults    \* which host-side failures may happen

ASSUME NumCpusAssumption == NumCpus \in Nat \ {0}
ASSUME CodesAssumption   == None \notin Codes
ASSUME FaultsAssumption  == Faults \subseteq {"init", "run", "panic"}

Cpu == 0 .. NumCpus - 1

VARIABLES
    spawned,     \* threads the calling thread has spawned
    ret,         \* the code recv() gave, None before
    open,        \* the receiver lives: run has not returned yet
    chan,        \* exit codes sent and not yet received
    cpu,         \* where the thread of each vCPU is
    result,      \* the exit code cpu.run() gave
    cpu_online,  \* BootInfo.cpu_online
    online,      \* the cores that have finished the guest's startup code
    sends        \* history: the vCPUs in the order of their sends

vars == <<spawned, ret, open, chan, cpu, result, cpu_online, online, sends>>

guestVars == <<cpu_online, online>>

CpuPc == {"unborn", "create", "spin", "guest", "exit", "ended", "panicked"}

Init ==
    /\ spawned = 0 /\ ret = None /\ open = TRUE /\ chan = <<>>
    /\ cpu = [c \in Cpu |-> "unborn"]
    /\ result = [c \in Cpu |-> None]
    /\ cpu_online = 0 /\ online = {}
    /\ sends = <<>>

Goto(c, pc) == cpu' = [cpu EXCEPT ![c] = pc]

-------------------------------------------------------------------------------
(* The thread of vCPU c *)

Create(c) ==
    /\ cpu[c] = "create"
    /\ Goto(c, "spin")
    /\ UNCHANGED <<spawned, ret, open, chan, result, guestVars, sends>>

\* create_cpu or init fails and unwrap() unwinds the thread.
CreateFails(c) ==
    /\ "init" \in Faults
    /\ cpu[c] = "create"
    /\ Goto(c, "panicked")
    /\ UNCHANGED <<spawned, ret, open, chan, result, guestVars, sends>>

\* Mutant of Spin: the comparison is reversed, successors go first.
SpinAhead(c) ==
    /\ cpu[c] = "spin"
    /\ c >= cpu_online
    /\ Goto(c, "guest")
    /\ UNCHANGED <<spawned, ret, open, chan, result, guestVars, sends>>

\* The loop that waits for the predecessor core ends; cpu.run() starts.
Spin(c) ==
    /\ cpu[c] = "spin"
    /\ c = cpu_online
    /\ Goto(c, "guest")
    /\ UNCHANGED <<spawned, ret, open, chan, result, guestVars, sends>>

\* The guest core finishes its startup code and lets its successor in.
GuestOnline(c) ==
    /\ cpu[c] = "guest"
    /\ c \notin online
    /\ online' = online \cup {c}
    /\ cpu_online' = cpu_online + 1
    /\ UNCHANGED <<spawned, ret, open, chan, cpu, result, sends>>

\* cpu.run() gives Ok(Some(exit_code)).
ExitWithCode(c) ==
    /\ cpu[c] = "guest"
    /\ Goto(c, "exit")
    /\ \E exit_code \in Codes : result' = [result EXCEPT ![c] = exit_code]
    /\ UNCHANGED <<spawned, ret, open, chan, guestVars, sends>>

\* cpu.run() fails: the error is logged and the thread ends.
RunError(c) ==
    /\ "run" \in Faults
    /\ cpu[c] = "guest"
    /\ Goto(c, "ended")
    /\ UNCHANGED <<spawned, ret, open, chan, result, guestVars, sends>>

\* An exit that cpu.run() does not handle unwinds the thread.
HandlerPanics(c) ==
    /\ "panic" \in Faults
    /\ cpu[c] = "guest"
    /\ Goto(c, "panicked")
    /\ UNCHANGED <<spawned, ret, open, chan, result, guestVars, sends>>

\* Mutant of Send: the code is returned by the thread and never sent.
SendNot(c) ==
    /\ cpu[c] = "exit"
    /\ Goto(c, "ended")
    /\ UNCHANGED <<spawned, ret, open, chan, result, guestVars, sends>>

\* exit_tx.send(exit_code).unwrap(): the receiver is gone once run has
\* returned, and then unwrap() unwinds the thread.
Send(c) ==
    /\ cpu[c] = "exit"
    /\ IF open
       THEN /\ chan' = Append(chan, result[c])
            /\ sends' = Append(sends, c)
            /\ Goto(c, "ended")
       ELSE Goto(c, "panicked") /\ UNCHANGED <<chan, sends>>
    /\ UNCHANGED <<spawned, ret, open, result, guestVars>>

-------------------------------------------------------------------------------
(* The calling thread *)

Spawn ==
    /\ spawned < NumCpus
    /\ Goto(spawned, "create")
    /\ spawned' = spawned + 1
    /\ UNCHANGED <<ret, open, chan, result, guestVars, sends>>

\* Mutant of Recv: a code made up on a timeout.
RecvTimeout ==
    /\ spawned = NumCpus /\ ret = None
    /\ ret' = IF chan # <<>> THEN Head(chan) ELSE 0
    /\ UNCHANGED chan
    /\ UNCHANGED <<spawned, open, cpu, result, guestVars, sends>>

\* exit_rx.recv().unwrap(); run holds an exit_tx itself, so recv() cannot
\* fail.
Recv ==
    /\ spawned = NumCpus /\ ret = None
    /\ chan # <<>>
    /\ ret' = Head(chan)
    /\ chan' = Tail(chan)
    /\ UNCHANGED <<spawned, open, cpu, result, guestVars, sends>>

\* run returns: the receiver and what is queued in it are dropped.
Return ==
    /\ open /\ ret # None
    /\ open' = FALSE
    /\ chan' = <<>>
    /\ UNCHANGED <<spawned, ret, cpu, result, guestVars, sends>>

-------------------------------------------------------------------------------

MainStep == Spawn \/ Recv \/ Return
HostStep(c) == Create(c) \/ Spin(c) \/ Send(c)
GuestStep(c) ==
    \/ GuestOnline(c) \/ ExitWithCode(c)
    \/ CreateFails(c) \/ RunError(c) \/ HandlerPanics(c)

Next == MainStep \/ \E c \in Cpu : HostStep(c) \/ GuestStep(c)

Spec == Init /\ [][Next]_vars

\* The host schedules every thread; nothing is assumed about the guest.
FairSpec ==
    /\ Spec
    /\ WF_vars(MainStep)
    /\ \A c \in Cpu : WF_vars(HostStep(c))

-------------------------------------------------------------------------------
(* Properties *)

TypeOK ==
    /\ spawned \in 0 .. NumCpus
    /\ ret \in Codes \cup {None}
    /\ open \in BOOLEAN
    /\ chan \in Seq(Codes)
    /\ cpu \in [Cpu -> CpuPc]
    /\ result \in [Cpu -> Codes \cup {None}]
    /\ cpu_online \in Nat
    /\ online \subseteq Cpu
    /\ sends \in Seq(Cpu)

InStartup(c) == cpu[c] = "guest" /\ c \notin online

\* Only one core at a time is in the guest's startup code.
StartupExclusive ==
    \A c, d \in Cpu : InStartup(c) /\ InStartup(d) => c = d

\* run returns the code that was sent first, whatever later vCPUs send.
FirstCodeWins == ret # None => sends # <<>> /\ ret = result[Head(sends)]

Lifecycle == INSTANCE VmLifecycle
             WITH outcome <- IF open THEN "running" ELSE "returned",
                  ret <- IF open THEN None ELSE ret,
                  Detached <- TRUE
\* run implements the promise of VmLifecycle, with vCPUs that outlive it.
KeepsLifecycle == Lifecycle!Spec

\* An exit code ends run, whatever the other vCPUs do and however many fail.
ExitEndsTheVm == (\E c \in Cpu : result[c] # None) ~> ~open
===============================================================================
