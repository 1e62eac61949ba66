----------------------------- MODULE SharedQueue -----------------------------
(***************************************************************************)
(* A ring of the uhyve network device in guest memory: two counters that   *)
(* only grow, and the slots they select modulo the size.  NetTx and NetRx  *)
(* are the two uses of it.                                                 *)
(***************************************************************************)
EXTENDS Integers, Sequences

CONSTANTS Size,       \* UHYVE_QUEUE_SIZE
          MaxPackets  \* bound: packets that pass through the ring

ASSUME SizeAssumption  == Size \in Nat \ {0}
ASSUME BoundAssumption == MaxPackets \in Nat

VARIABLES
    read, written,  \* the counters
    inner           \* the slots; 0 is an empty one

ring == <<read, written, inner>>

Slots == 0 .. Size - 1

\* The subtraction written - read of the threads never underflows, and the
\* ring never holds more than it has slots.
CountersSane == read <= written /\ written - read <= Size
==============================================================================
