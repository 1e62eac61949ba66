------------------------------- MODULE NetFifo -------------------------------
(***************************************************************************)
(* What a shared ring of the uhyve network device promises: a bounded FIFO *)
(* of packets.  Packets leave in the order in which they entered, each     *)
(* once, and the ring never holds more than Size of them.                  *)
(***************************************************************************)
EXTENDS Naturals, Sequences

CONSTANTS Size,    \* capacity of the ring
          Packets  \* what can be put into it

VARIABLES q,   \* the packets in the ring
          out  \* every packet that has left it, in order

Init == q = <<>> /\ out = <<>>

Put(p) ==
    /\ Len(q) < Size
    /\ q' = Append(q, p)
    /\ UNCHANGED out

Get ==
    /\ q # <<>>
    /\ out' = Append(out, Head(q))
    /\ q' = Tail(q)

Next == Get \/ \E p \in Packets : Put(p)

Spec == Init /\ [][Next]_<<q, out>>
==============================================================================
