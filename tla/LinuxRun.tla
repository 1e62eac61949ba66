------------------------------- MODULE LinuxRun -------------------------------
(***************************************************************************)
(* Uhyve::run_no_gdb on Linux: the main thread, one thread per vCPU, the   *)
(* two-party barrier between an exiting vCPU and main, and the kick signal *)
(* that takes the remaining vCPUs out of KVM_RUN.                          *)
(*                                                                         *)
(* A vCPU thread is at "enter" before its first KVM_RUN, "guest" while it  *)
(* is inside KVM_RUN and "host" while it handles an exit.  The handler of  *)
(* the kick signal is empty, so a kick has an effect on a thread that is   *)
(* inside KVM_RUN and on no other.                                         *)
(***************************************************************************)
EXTENDS Integers

CONSTANTS NumCpus,  \* num_cpus of the VM
          Codes,    \* exit codes the guest can pass (Shutdown passes 0)
          None,     \* Option::None
          Faults    \* which host-side failures may happen

ASSUME NumCpusAssumption == NumCpus \in Nat \ {0}
ASSUME CodesAssumption   == None \notin Codes
ASSUME FaultsAssumption  == Faults \subseteq {"init", "run", "panic"}

Cpu == 0 .. NumCpus - 1

VARIABLES
    main,        \* where the main thread is
    i,           \* index of its current loop (spawn, kick, join)
    code,        \* the vCPUs whose Some(code) the join loop has collected
    ret,         \* the value returned by run_no_gdb
    cpu,         \* where the thread of each vCPU is
    result,      \* the Option<i32> a vCPU thread returns
    cpu_online,  \* BootInfo.cpu_online, in guest memory
    online,      \* the cores that have finished the guest's startup code
    lost         \* history: vCPUs that were kicked outside KVM_RUN

vars == <<main, i, code, ret, cpu, result, cpu_online, online, lost>>

mainVars  == <<main, i, code, ret>>
guestVars == <<cpu_online, online>>

MainPc == {"spawn", "arrive", "wait", "kick", "join", "done", "panicked"}

\* "exit": cpu.run() gave Some(code); "wait": blocked in barrier.wait();
\* "ended": the closure returned; "panicked": it unwound.
CpuPc == {"unborn", "create", "spin", "enter", "guest", "host",
          "exit", "wait", "ended", "panicked"}

Init ==
    /\ main = "spawn" /\ i = 0 /\ code = {} /\ ret = None
    /\ cpu = [c \in Cpu |-> "unborn"]
    /\ result = [c \in Cpu |-> None]
    /\ cpu_online = 0 /\ online = {}
    /\ lost = {}

-------------------------------------------------------------------------------
(* The thread of vCPU c *)

Goto(c, pc) == cpu' = [cpu EXCEPT ![c] = pc]

\* create_cpu and init succeed.
Create(c) ==
    /\ cpu[c] = "create"
    /\ Goto(c, "spin")
    /\ UNCHANGED <<mainVars, guestVars, result, lost>>

\* create_cpu or init fails and unwrap() unwinds the thread.
CreateFails(c) ==
    /\ "init" \in Faults
    /\ cpu[c] = "create"
    /\ Goto(c, "panicked")
    /\ UNCHANGED <<mainVars, guestVars, result, lost>>

\* Mutant of Spin: the vCPU does not wait for its predecessor.
SpinNot(c) ==
    /\ cpu[c] = "spin"
    /\ Goto(c, "enter")
    /\ UNCHANGED <<mainVars, guestVars, result, lost>>

\* The loop that waits for the predecessor core ends.
Spin(c) ==
    /\ cpu[c] = "spin"
    /\ c = cpu_online
    /\ Goto(c, "enter")
    /\ UNCHANGED <<mainVars, guestVars, result, lost>>

\* KVM_RUN is entered.
EnterGuest(c) ==
    /\ cpu[c] \in {"enter", "host"}
    /\ Goto(c, "guest")
    /\ UNCHANGED <<mainVars, guestVars, result, lost>>

\* The guest core finishes its startup code and lets its successor in.
GuestOnline(c) ==
    /\ cpu[c] = "guest"
    /\ c \notin online
    /\ online' = online \cup {c}
    /\ cpu_online' = cpu_online + 1
    /\ UNCHANGED <<mainVars, cpu, result, lost>>

\* KVM_RUN returns with an exit that `continue` handles and resumes from.
HandledExit(c) ==
    /\ cpu[c] = "guest"
    /\ Goto(c, "host")
    /\ UNCHANGED <<mainVars, guestVars, result, lost>>

\* Shutdown, or the guest writes its exit code to UHYVE_PORT_EXIT.
ExitWithCode(c) ==
    /\ cpu[c] = "guest"
    /\ Goto(c, "exit")
    /\ \E exit_code \in Codes : result' = [result EXCEPT ![c] = exit_code]
    /\ UNCHANGED <<mainVars, guestVars, lost>>

\* KVM_RUN or a handler returns an error: it is logged and the thread ends
\* without a code and without visiting the barrier.
RunError(c) ==
    /\ "run" \in Faults
    /\ cpu[c] \in {"guest", "host"}
    /\ Goto(c, "ended")
    /\ UNCHANGED <<mainVars, guestVars, result, lost>>

\* An exit that `continue` does not handle unwinds the thread.
HandlerPanics(c) ==
    /\ "panic" \in Faults
    /\ cpu[c] = "host"
    /\ Goto(c, "panicked")
    /\ UNCHANGED <<mainVars, guestVars, result, lost>>

\* Mutant of BarrierWait: the vCPU ends without visiting the barrier.
BarrierSkip(c) ==
    /\ cpu[c] = "exit"
    /\ Goto(c, "ended")
    /\ UNCHANGED <<mainVars, guestVars, result, lost>>

\* barrier.wait() of a vCPU: whoever is blocked there is released together
\* with it; otherwise it blocks.
BarrierWait(c) ==
    /\ cpu[c] = "exit"
    /\ \/ /\ main = "wait"
          /\ main' = "kick" /\ i' = 0
          /\ Goto(c, "ended")
       \/ /\ main # "wait"
          /\ \E d \in Cpu :
                /\ cpu[d] = "wait"
                /\ cpu' = [cpu EXCEPT ![c] = "ended", ![d] = "ended"]
          /\ UNCHANGED <<main, i>>
       \/ /\ main # "wait"
          /\ \A d \in Cpu : cpu[d] # "wait"
          /\ Goto(c, "wait")
          /\ UNCHANGED <<main, i>>
    /\ UNCHANGED <<code, ret, guestVars, result, lost>>

-------------------------------------------------------------------------------
(* The main thread *)

\* thread::spawn of one vCPU; after the last one main goes to the barrier.
Spawn ==
    /\ main = "spawn"
    /\ Goto(i, "create")
    /\ i' = i + 1
    /\ main' = IF i + 1 = NumCpus THEN "arrive" ELSE "spawn"
    /\ UNCHANGED <<code, ret, guestVars, result, lost>>

\* barrier.wait() of main.
MainBarrierWait ==
    /\ main = "arrive"
    /\ \/ \E d \in Cpu :
             /\ cpu[d] = "wait"
             /\ Goto(d, "ended")
             /\ main' = "kick" /\ i' = 0
       \/ /\ \A d \in Cpu : cpu[d] # "wait"
          /\ main' = "wait"
          /\ UNCHANGED <<cpu, i>>
    /\ UNCHANGED <<code, ret, guestVars, result, lost>>

\* pthread_kill of one thread: KVM_RUN returns EINTR, run() returns
\* Ok(None) and the thread ends; anywhere else the signal does nothing.
Kick ==
    /\ main = "kick"
    /\ IF cpu[i] = "guest"
       THEN Goto(i, "ended") /\ UNCHANGED lost
       ELSE /\ lost' = IF cpu[i] \in {"create", "spin", "enter", "host"}
                       THEN lost \cup {i} ELSE lost
            /\ UNCHANGED cpu
    /\ i' = IF i + 1 = NumCpus THEN 0 ELSE i + 1
    /\ main' = IF i + 1 = NumCpus THEN "join" ELSE "kick"
    /\ UNCHANGED <<code, ret, guestVars, result>>

\* join() of one thread returns; join().unwrap() propagates its panic.
Join ==
    /\ main = "join" /\ i < NumCpus
    /\ \/ /\ cpu[i] = "ended"
          /\ code' = IF result[i] # None THEN code \cup {i} ELSE code
          /\ i' = i + 1
          /\ UNCHANGED main
       \/ /\ cpu[i] = "panicked"
          /\ main' = "panicked"
          /\ UNCHANGED <<code, i>>
    /\ UNCHANGED <<ret, cpu, result, guestVars, lost>>

\* Mutants of Finish: without the assertion; with the last thread's value.
FinishUnchecked ==
    /\ main = "join" /\ i = NumCpus
    /\ \E c \in code :
          /\ \A d \in code : c <= d
          /\ ret' = result[c]
    /\ main' = "done"
    /\ UNCHANGED <<i, code, cpu, result, guestVars, lost>>
FinishWithLast ==
    /\ main = "join" /\ i = NumCpus
    /\ ret' = result[NumCpus - 1]
    /\ main' = "done"
    /\ UNCHANGED <<i, code, cpu, result, guestVars, lost>>

\* assert_eq!(1, code.len()) and code[0].
Finish ==
    /\ main = "join" /\ i = NumCpus
    /\ \/ \E c \in Cpu :
             /\ code = {c}
             /\ ret' = result[c]
             /\ main' = "done"
       \/ /\ \A c \in Cpu : code # {c}
          /\ main' = "panicked"
          /\ UNCHANGED ret
    /\ UNCHANGED <<i, code, cpu, result, guestVars, lost>>

-------------------------------------------------------------------------------

\* The steps of a vCPU's own thread that hypervisor code decides.
HostStep(c) ==
    \/ Create(c) \/ Spin(c) \/ EnterGuest(c) \/ BarrierWait(c)

\* What the guest, or a failure, may do at any time and need never do.
GuestStep(c) ==
    \/ GuestOnline(c) \/ HandledExit(c) \/ ExitWithCode(c)
    \/ CreateFails(c) \/ RunError(c) \/ HandlerPanics(c)

MainStep == Spawn \/ MainBarrierWait \/ Kick \/ Join \/ Finish

Next ==
    \/ MainStep
    \/ \E c \in Cpu : HostStep(c) \/ GuestStep(c)

Spec == Init /\ [][Next]_vars

\* The host schedules every thread; nothing is assumed about the guest.
FairSpec ==
    /\ Spec
    /\ WF_vars(MainStep)
    /\ \A c \in Cpu : WF_vars(HostStep(c))

-------------------------------------------------------------------------------
(* Properties *)

TypeOK ==
    /\ main \in MainPc
    /\ i \in 0 .. NumCpus
    /\ main \in {"spawn", "kick"} => i \in Cpu
    /\ code \subseteq Cpu
    /\ ret \in Codes \cup {None}
    /\ cpu \in [Cpu -> CpuPc]
    /\ result \in [Cpu -> Codes \cup {None}]
    /\ cpu_online \in Nat
    /\ online \subseteq Cpu
    /\ lost \subseteq Cpu

\* vCPU c runs the guest's startup code (or a hypercall made from it).
InStartup(c) == cpu[c] \in {"enter", "guest", "host"} /\ c \notin online

\* Only one core at a time is in the guest's startup code: the spin on
\* cpu_online hands the startup code from each core to the next one.
StartupExclusive ==
    \A c, d \in Cpu : InStartup(c) /\ InStartup(d) => c = d

\* Main starts kicking and joining only after some vCPU has produced an exit
\* code: the barrier never lets it through because of a crash or a kick.
KickOnlyAfterExit ==
    main \in {"kick", "join", "done"} => \E c \in Cpu : result[c] # None

\* When run_no_gdb returns, exactly one vCPU has produced a code, that is the
\* code returned, and no vCPU thread is running any more.
ReturnsTheOnlyCode ==
    main = "done" =>
        /\ \A c \in Cpu : cpu[c] = "ended"
        /\ \E c \in Cpu : /\ result[c] # None
                          /\ ret = result[c]
                          /\ \A d \in Cpu \ {c} : result[d] = None

\* The abstract promise of run, over the state of this module.
Outcome == IF main = "done" THEN "returned"
           ELSE IF main = "panicked" THEN "panicked" ELSE "running"
Lifecycle == INSTANCE VmLifecycle WITH outcome <- Outcome, Detached <- FALSE
\* run_no_gdb implements the abstract promise: one code per vCPU at most, and
\* it returns once, with the code of a vCPU that had exited.
KeepsLifecycle == Lifecycle!Spec

\* After an exit code run_no_gdb returns, unless a kick missed its vCPU, a
\* second vCPU exited, or a vCPU thread unwound: these three are all the ways
\* in which it can fail to.
Exited == {c \in Cpu : result[c] # None}
Disturbed ==
    \/ lost # {}
    \/ \E c, d \in Exited : c # d
    \/ \E c \in Cpu : cpu[c] = "panicked"
ExitEndsTheVm ==
    (Exited # {}) ~> (main = "done" \/ Disturbed)

-------------------------------------------------------------------------------
(* What the comments and assertions of linux/mod.rs say and the code does  *)
(* not guarantee.                                                          *)

\* The assertion after the join loop: one thread, and no more, finished with
\* an exit code.
OneCodeCollected ==
    main = "join" /\ i = NumCpus => \E c \in Cpu : code = {c}

\* The kick signal "is used to stop a vCPU from another thread": a vCPU that
\* main has kicked ends.
Kicked(c) == main \in {"join", "done"} \/ (main = "kick" /\ c < i)
KickStopsVcpu ==
    \A c \in Cpu : Kicked(c) ~> (cpu[c] \in {"ended", "panicked"})
===============================================================================
