------------------------------- MODULE GdbLoop -------------------------------
(***************************************************************************)
(* Debugging with run_gdb: the main thread runs gdbstub's event loop and   *)
(* the only vCPU; a helper thread watches the TCP stream and kicks the     *)
(* main thread out of KVM_RUN when data arrives, so that the debugger can  *)
(* interrupt a running guest.                                              *)
(*                                                                         *)
(* The stream carries whole requests: "cmd" (answered while stopped),      *)
(* "resume" (continue or step), "int" (the interrupt byte) and "quit"      *)
(* (detach or kill).  gdbstub and the debugger are external: the stub      *)
(* answers requests while it is idle, the debugger sends one request at a  *)
(* time, may interrupt the guest once it has resumed it, and does not      *)
(* close the stream without a "quit".                                      *)
(***************************************************************************)
EXTENDS Naturals, Sequences

CONSTANTS MaxExits  \* bound: exits the guest causes without stopping

ASSUME BoundAssumption == MaxExits \in Nat

VARIABLES
    conn,    \* requests in the TCP stream, unread: "cmd", "resume", "int", "quit"
    client,  \* the debugger: "ask", "reply", "running", "interrupting", "gone"
    stub,    \* the main thread: "idle" in gdbstub; "wait" where it has called
             \* wait_for_stop_reason; "enter", "guest", "host" before, inside and
             \* between two KVM_RUN; "sigint" where run() gave Signal(SIGINT);
             \* "exited", "panicked"
    helper,  \* the helper thread: "unborn", "read", "kick", "sleep"
    exits    \* exits handled so far

loopVars == <<conn, client, stub, helper, exits>>

LoopInit ==
    /\ conn = <<>> /\ client = "ask" /\ stub = "idle"
    /\ helper = "unborn" /\ exits = 0

------------------------------------------------------------------------------
(* The debugger *)

ClientSend ==
    /\ \/ client = "ask" /\ conn' = Append(conn, "cmd") /\ client' = "reply"
       \/ client = "ask" /\ conn' = Append(conn, "resume") /\ client' = "running"
       \/ client = "ask" /\ conn' = Append(conn, "quit") /\ client' = "gone"
       \/ client = "running" /\ conn' = Append(conn, "int") /\ client' = "interrupting"
    /\ UNCHANGED <<stub, helper, exits>>

------------------------------------------------------------------------------
(* gdbstub while the target is stopped *)

\* A command is read and answered.  An interrupt that arrives when the guest
\* has stopped already is read and changes nothing.
StubCommand ==
    /\ stub = "idle" /\ conn # <<>>
    /\ Head(conn) \in {"cmd", "int"}
    /\ conn' = Tail(conn)
    /\ client' = IF Head(conn) = "cmd" THEN "ask" ELSE client
    /\ UNCHANGED <<stub, helper, exits>>

\* resume() or step(): apply_guest_debug succeeds.
StubResume ==
    /\ stub = "idle" /\ conn # <<>>
    /\ Head(conn) = "resume"
    /\ conn' = Tail(conn)
    /\ stub' = "wait"
    /\ UNCHANGED <<client, helper, exits>>

\* resume() or step() is asked to deliver a signal, or the ioctl fails: the
\* event loop returns the error and run_gdb unwraps it.
StubResumeFails ==
    /\ stub = "idle" /\ conn # <<>>
    /\ Head(conn) = "resume"
    /\ conn' = Tail(conn)
    /\ stub' = "panicked"
    /\ UNCHANGED <<client, helper, exits>>

\* The debugger detaches or kills the target: run_gdb returns 0.
StubQuits ==
    /\ stub = "idle" /\ conn # <<>>
    /\ Head(conn) = "quit"
    /\ conn' = Tail(conn)
    /\ stub' = "exited"
    /\ UNCHANGED <<client, helper, exits>>

------------------------------------------------------------------------------
(* wait_for_stop_reason and the vCPU *)

\* SPAWN_THREAD.call_once.
SpawnHelper ==
    /\ stub = "wait"
    /\ helper' = IF helper = "unborn" THEN "read" ELSE helper
    /\ stub' = "enter"
    /\ UNCHANGED <<conn, client, exits>>

EnterGuest ==
    /\ stub \in {"enter", "host"}
    /\ stub' = "guest"
    /\ UNCHANGED <<conn, client, helper, exits>>

\* An exit that `continue` handles and resumes from.
HandledExit ==
    /\ stub = "guest" /\ exits < MaxExits
    /\ stub' = "host" /\ exits' = exits + 1
    /\ UNCHANGED <<conn, client, helper>>

\* A breakpoint or a single step: TargetStopped is reported.
TargetStops ==
    /\ stub = "guest"
    /\ stub' = "idle" /\ client' = "ask"
    /\ UNCHANGED <<conn, helper, exits>>

\* The guest exits (Exited is reported and run_gdb returns), or its vCPU
\* fails (the error is unwrapped).
TargetEnds ==
    /\ stub = "guest"
    /\ stub' \in {"exited", "panicked"}
    /\ UNCHANGED <<conn, client, helper, exits>>

\* Mutant of IncomingData: the stop is reported and the guest runs on.
IncomingDataRunsOn ==
    /\ stub = "sigint"
    /\ IF conn = <<>>
       THEN stub' = "panicked" /\ UNCHANGED <<conn, client>>
       ELSE /\ conn' = Tail(conn)
            /\ stub' = "wait"
            /\ client' = IF Head(conn) = "int" THEN "ask" ELSE client
    /\ UNCHANGED <<helper, exits>>

\* The branch for Signal(SIGINT): peek, the assertion, and the read; an
\* interrupt makes gdbstub report a stop (on_interrupt), any other byte
\* leaves the target running.
IncomingData ==
    /\ stub = "sigint"
    /\ IF conn = <<>>
       THEN stub' = "panicked" /\ UNCHANGED <<conn, client>>
       ELSE /\ conn' = Tail(conn)
            /\ stub' = IF Head(conn) = "int" THEN "idle" ELSE "wait"
            /\ client' = IF Head(conn) = "int" THEN "ask" ELSE client
    /\ UNCHANGED <<helper, exits>>

------------------------------------------------------------------------------
(* The helper thread *)

\* The zero-length read returns once there is data.
HelperRead ==
    /\ helper = "read" /\ conn # <<>>
    /\ helper' = "kick"
    /\ UNCHANGED <<conn, client, stub, exits>>

\* Mutant of HelperKick: the thread does not loop.
HelperKickOnce ==
    /\ helper = "kick"
    /\ helper' = "ended"
    /\ stub' = IF stub = "guest" THEN "sigint" ELSE stub
    /\ UNCHANGED <<conn, client, exits>>

\* pthread_kill(parent_thread): only a KVM_RUN in progress notices.
HelperKick ==
    /\ helper = "kick"
    /\ helper' = "sleep"
    /\ stub' = IF stub = "guest" THEN "sigint" ELSE stub
    /\ UNCHANGED <<conn, client, exits>>

\* The 20 ms are over.
HelperWake ==
    /\ helper = "sleep"
    /\ helper' = "read"
    /\ UNCHANGED <<conn, client, stub, exits>>

------------------------------------------------------------------------------

StubStep ==
    \/ StubCommand \/ StubResume \/ StubResumeFails \/ StubQuits
    \/ SpawnHelper \/ EnterGuest \/ IncomingData
HelperStep == HelperRead \/ HelperKick \/ HelperWake
GuestStep == HandledExit \/ TargetStops \/ TargetEnds

Running == stub \notin {"exited", "panicked"}

LoopNext == Running /\ (ClientSend \/ StubStep \/ HelperStep \/ GuestStep)

LoopSpec == LoopInit /\ [][LoopNext]_loopVars

\* Both threads are scheduled; the guest and the debugger owe nothing.
LoopFairSpec ==
    /\ LoopSpec
    /\ WF_loopVars(Running /\ StubStep)
    /\ WF_loopVars(Running /\ HelperStep)

------------------------------------------------------------------------------
(* Properties *)

\* The debugger and the stub agree on whether the guest runs: the debugger
\* believes it stopped only while it is.
StoppedMeansStopped == client \in {"ask", "reply"} => stub \in {"idle", "panicked"}

\* An interrupt stops a running guest in the end, although a kick that meets
\* the vCPU outside KVM_RUN is lost: the helper kicks again.
InterruptServed ==
    (client = "interrupting") ~> (client # "interrupting" \/ ~Running)

\* The assertion of wait_for_stop_reason: when a kick has taken the vCPU out
\* of KVM_RUN, there is data in the stream.
PeekFindsData == stub = "sigint" => conn # <<>>
==============================================================================
