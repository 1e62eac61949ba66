----------------------------- MODULE VmLifecycle -----------------------------
(***************************************************************************)
(* What Uhyve::run promises its caller, on every platform: each vCPU ends  *)
(* at most once with an exit code, and the value run returns is the code   *)
(* of a vCPU that had ended by then.  run may also give up (a panic of the *)
(* calling thread); it never makes a code up and never returns twice.      *)
(***************************************************************************)
CONSTANTS Cpu,    \* the vCPU ids
          Codes,  \* exit codes a guest can pass
          None,   \* "no code"
          Detached  \* may vCPU threads outlive run?

VARIABLES result,   \* result[c]: the exit code of vCPU c, or None
          outcome,  \* "running", "returned" or "panicked"
          ret       \* the value returned by run, None before

vars == <<result, outcome, ret>>

Init ==
    /\ result  = [c \in Cpu |-> None]
    /\ outcome = "running"
    /\ ret     = None

\* vCPU c stops with an exit code.
Exit(c) ==
    /\ outcome = "returned" => Detached
    /\ result[c] = None
    /\ \E code \in Codes : result' = [result EXCEPT ![c] = code]
    /\ UNCHANGED <<outcome, ret>>

\* run returns the code of a vCPU that has stopped with one.
Return(c) ==
    /\ outcome = "running"
    /\ result[c] # None
    /\ outcome' = "returned"
    /\ ret' = result[c]
    /\ UNCHANGED result

\* run panics instead of returning.
GiveUp ==
    /\ outcome = "running"
    /\ outcome' = "panicked"
    /\ UNCHANGED <<result, ret>>

Next ==
    \/ \E c \in Cpu : Exit(c) \/ Return(c)
    \/ GiveUp

Spec == Init /\ [][Next]_vars
==============================================================================
