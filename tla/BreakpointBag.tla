---------------------------- MODULE BreakpointBag ----------------------------
(***************************************************************************)
(* What the table of hardware breakpoints promises the debugger: a bag of  *)
(* breakpoints.  An insertion fails exactly when the bag is full, a        *)
(* removal exactly when the breakpoint is not in it.                       *)
(***************************************************************************)
EXTENDS Naturals, FiniteSets

CONSTANTS Breakpoints,  \* what can be inserted
          Capacity      \* how many at a time

VARIABLES count,  \* count[b]: how often b is in the bag
          answer  \* what the last operation told the debugger

Init == count = [b \in Breakpoints |-> 0] /\ answer = TRUE

\* The copies in the bag, numbered for each breakpoint.
Copies == UNION {{b} \X (1 .. count[b]) : b \in Breakpoints}
Size == Cardinality(Copies)

Insert(b) ==
    /\ answer' = (Size < Capacity)
    /\ count' = IF Size < Capacity THEN [count EXCEPT ![b] = @ + 1] ELSE count

Remove(b) ==
    /\ answer' = (count[b] > 0)
    /\ count' = IF count[b] > 0 THEN [count EXCEPT ![b] = @ - 1] ELSE count

\* A request for something that is not a breakpoint is refused.
Refuse == answer' = FALSE /\ UNCHANGED count

Next == Refuse \/ \E b \in Breakpoints : Insert(b) \/ Remove(b)

Spec == Init /\ [][Next]_<<count, answer>>
==============================================================================
