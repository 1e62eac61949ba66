------------------------------ MODULE GdbTarget ------------------------------
(***************************************************************************)
(* GdbUhyve, the target gdbstub drives: software breakpoints in guest      *)
(* memory, hardware breakpoints in the debug registers, and a vCPU that is *)
(* stopped while the debugger works on either.                             *)
(***************************************************************************)
EXTENDS SwBreakpoints, HwBreakpoints

vars == <<swVars, hwVars>>

Init == SwInit /\ HwInit

\* The stub serves requests only while the target is stopped.
SwRequest == vcpu = "stopped" /\ SwNext /\ UNCHANGED hwVars

Next == SwRequest \/ (HwNext /\ UNCHANGED swVars)

Spec == Init /\ [][Next]_vars

------------------------------------------------------------------------------
(* Properties *)

TypeOK == SwTypeOK /\ HwTypeOK
==============================================================================
