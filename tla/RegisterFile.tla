----------------------------- MODULE RegisterFile -----------------------------
(***************************************************************************)
(* What a guest expects of emulated registers: each operation names its    *)
(* register, a read answers with the value last written there, and a write *)
(* changes that register and no other.                                     *)
(***************************************************************************)
CONSTANTS Users,      \* who reads and writes
          Registers,
          Values

VARIABLES regs,   \* contents of the registers
          last    \* last[u]: the last operation of u

vars == <<regs, last>>

Operation(kind, r, v) == [kind |-> kind, reg |-> r, val |-> v]

Init ==
    /\ DOMAIN regs = Registers    \* with any contents
    /\ \A u \in Users : last[u].kind = "none"

Write(u, r, v) ==
    /\ regs' = [regs EXCEPT ![r] = v]
    /\ last' = [last EXCEPT ![u] = Operation("write", r, v)]

Read(u, r) ==
    /\ last' = [last EXCEPT ![u] = Operation("read", r, regs[r])]
    /\ UNCHANGED regs

Next ==
    \E u \in Users, r \in Registers :
        Read(u, r) \/ \E v \in Values : Write(u, r, v)

Spec == Init /\ [][Next]_vars
===============================================================================
