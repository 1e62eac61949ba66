------------------------------ MODULE GdbProofs ------------------------------
(***************************************************************************)
(* Breakpoints of the GDB target, for code of any size, any number of      *)
(* debug registers and any breakpoints; and the event loop of run_gdb, for *)
(* any number of exits.                                                    *)
(***************************************************************************)
EXTENDS GdbTarget, GdbLoop, FiniteSetTheorems, TLAPS

\* The saved bytes of a breakpoint: the opcode where one that was there
\* before it covers the byte, the program text elsewhere.
SavedIsOverlay ==
    \A b \in Installed : \A a \in Cells(b) :
        sw_breakpoints[b][a] =
            IF \E d \in below[b] : a \in Cells(d) THEN OPCODE ELSE text[a]

\* The history orders the installed breakpoints.
BelowIsOrder ==
    /\ \A b \in Installed : below[b] \subseteq Installed \ {b}
    /\ \A b, d \in Installed : b # d => b \in below[d] \/ d \in below[b]

\* The debugger that keeps its breakpoints apart.
KeptApart ==
    nesting = "disjoint" => \A b, d \in Installed : b = d \/ ~Overlap(b, d)

\* The inductive invariant of the software breakpoints.
SwInv == SwTypeOK /\ SavedIsOverlay /\ BelowIsOrder /\ KeptApart /\ MemoryIsOverlay

\* The inductive invariant of the hardware breakpoints: while the guest runs,
\* the debug registers are those of the table.
HwInv == HwTypeOK /\ (vcpu = "running" => debugreg = slots)

\* The tables of a new GdbUhyve are empty.
LEMMA InitSwInv == SwInit => SwInv
<1> SUFFICES ASSUME SwInit PROVE SwInv
  OBVIOUS
<1>1. Installed = {} /\ DOMAIN below = {}
  BY DEF SwInit, Installed
<1>2. SwTypeOK
  <2>1. memory \in [Addr -> Bytes \cup {OPCODE}] /\ text \in [Addr -> Bytes]
    BY DEF SwInit
  <2>2. below \in [Installed -> SUBSET SwBreakpoint]
    BY <1>1 DEF SwInit
  <2> QED
    BY <1>1, <2>1, <2>2 DEF SwInit, SwTypeOK
<1>3. MemoryIsOverlay
  BY <1>1 DEF SwInit, MemoryIsOverlay, Covered
<1> QED
  BY <1>1, <1>2, <1>3 DEF SwInv, SavedIsOverlay, BelowIsOrder, KeptApart

\* add_sw_breakpoint keeps the invariant of the software breakpoints.
LEMMA AddsKeep ==
    ASSUME SwInv, NEW b \in SwBreakpoint, DebuggerAdds(b)
    PROVE  SwInv'
<1>1. CASE b \in Installed
  <2>1. UNCHANGED swVars
    BY <1>1 DEF DebuggerAdds, add_sw_breakpoint, swVars
  <2> QED
    BY <2>1 DEF swVars, SwInv, SwTypeOK, SavedIsOverlay, BelowIsOrder, KeptApart,
                MemoryIsOverlay, Installed, Covered
<1>2. CASE b \notin Installed
  <2>1. /\ sw_breakpoints' = [d \in Installed \cup {b} |->
               IF d = b THEN [a \in Cells(b) |-> memory[a]] ELSE sw_breakpoints[d]]
        /\ below' = [d \in Installed \cup {b} |-> IF d = b THEN Installed ELSE below[d]]
        /\ memory' = [a \in Addr |-> IF a \in Cells(b) THEN OPCODE ELSE memory[a]]
        /\ nesting' = nesting /\ text' = text
        /\ nesting = "disjoint" => \A d \in Installed : d = b \/ ~Overlap(b, d)
    BY <1>2 DEF DebuggerAdds, add_sw_breakpoint
  <2>2. Installed' = Installed \cup {b}
    BY <2>1 DEF Installed
  <2>3. Cells(b) \subseteq Addr
    BY DEF SwBreakpoint
  <2>4. SwTypeOK'
    <3>1. memory' \in [Addr -> Bytes \cup {OPCODE}]
      BY <2>1 DEF SwInv, SwTypeOK
    <3>2. below' \in [Installed' -> SUBSET SwBreakpoint]
      BY <2>1, <2>2 DEF SwInv, SwTypeOK
    <3>3. \A d \in Installed' :
             sw_breakpoints'[d] \in [Cells(d) -> Bytes \cup {OPCODE}]
      BY <2>1, <2>2, <2>3 DEF SwInv, SwTypeOK
    <3> QED
      BY <2>1, <2>2, <3>1, <3>2, <3>3, Zenon DEF SwInv, SwTypeOK
  <2>5. MemoryIsOverlay'
    BY <2>1, <2>2 DEF SwInv, MemoryIsOverlay, Covered
  <2>6. SavedIsOverlay'
    <3>0. text' = text
      BY <2>1
    <3> SUFFICES ASSUME NEW d \in Installed', NEW a \in Cells(d)
                 PROVE  sw_breakpoints'[d][a] =
                           IF \E e \in below'[d] : a \in Cells(e) THEN OPCODE ELSE text[a]
      BY <3>0 DEF SavedIsOverlay
    <3>1. CASE d = b
      BY <2>1, <2>2, <2>3, <3>1 DEF SwInv, MemoryIsOverlay, Covered
    <3>2. CASE d # b
      BY <2>1, <2>2, <3>2 DEF SwInv, SavedIsOverlay
    <3> QED
      BY <3>1, <3>2
  <2>7. BelowIsOrder'
    BY <1>2, <2>1, <2>2 DEF SwInv, BelowIsOrder
  <2>8. KeptApart'
    BY <2>1, <2>2 DEF SwInv, KeptApart, Overlap
  <2> QED
    BY <2>4, <2>5, <2>6, <2>7, <2>8 DEF SwInv
<1> QED
  BY <1>1, <1>2

\* remove_sw_breakpoint keeps the invariant of the software breakpoints.
LEMMA RemovesKeep ==
    ASSUME SwInv, NEW b \in SwBreakpoint, DebuggerRemoves(b)
    PROVE  SwInv'
<1>1. CASE b \notin Installed
  <2>1. UNCHANGED swVars
    BY <1>1 DEF DebuggerRemoves, remove_sw_breakpoint, swVars
  <2> QED
    BY <2>1 DEF swVars, SwInv, SwTypeOK, SavedIsOverlay, BelowIsOrder, KeptApart,
                MemoryIsOverlay, Installed, Covered
<1>2. CASE b \in Installed
  <2>1. /\ memory' = [a \in Addr |->
               IF a \in Cells(b) THEN sw_breakpoints[b][a] ELSE memory[a]]
        /\ sw_breakpoints' = [d \in Installed \ {b} |-> sw_breakpoints[d]]
        /\ below' = [d \in Installed \ {b} |-> below[d] \ {b}]
        /\ nesting' = nesting /\ text' = text
        /\ nesting = "lifo" => \A d \in Installed : b \notin below[d]
    BY <1>2 DEF DebuggerRemoves, remove_sw_breakpoint
  <2>2. Installed' = Installed \ {b}
    BY <2>1 DEF Installed
  <2>3. \* A byte of b is saved as the opcode iff another breakpoint covers it.
        \A a \in Cells(b) : (\E d \in below[b] : a \in Cells(d))
                            <=> (\E d \in Installed \ {b} : a \in Cells(d))
    <3>1. CASE nesting = "lifo"
      <4>1. below[b] = Installed \ {b}
        BY <1>2, <2>1, <3>1 DEF SwInv, BelowIsOrder
      <4> QED
        BY <4>1
    <3>2. CASE nesting = "disjoint"
      BY <1>2, <3>2 DEF SwInv, BelowIsOrder, KeptApart, Overlap
    <3> QED
      BY <3>1, <3>2 DEF SwInv, SwTypeOK
  <2>4. SwTypeOK'
    <3>1. memory' \in [Addr -> Bytes \cup {OPCODE}]
      BY <1>2, <2>1 DEF SwInv, SwTypeOK
    <3>2. below' \in [Installed' -> SUBSET SwBreakpoint]
      BY <2>1, <2>2 DEF SwInv, SwTypeOK
    <3> QED
      BY <2>1, <2>2, <3>1, <3>2 DEF SwInv, SwTypeOK
  <2>5. MemoryIsOverlay'
    <3> SUFFICES ASSUME NEW a \in Addr
                 PROVE  memory'[a] = IF Covered(a)' THEN OPCODE ELSE text[a]
      BY <2>1 DEF MemoryIsOverlay, Covered
    <3>1. Covered(a)' <=> \E d \in Installed \ {b} : a \in Cells(d)
      BY <2>2 DEF Covered
    <3>2. CASE a \in Cells(b)
      BY <1>2, <2>1, <2>3, <3>1, <3>2 DEF SwInv, SavedIsOverlay
    <3>3. CASE a \notin Cells(b)
      <4>1. Covered(a) <=> Covered(a)'
        BY <3>1, <3>3 DEF Covered
      <4> QED
        BY <2>1, <3>3, <4>1 DEF SwInv, MemoryIsOverlay
    <3> QED
      BY <3>2, <3>3
  <2>6. SavedIsOverlay'
    <3>0. text' = text
      BY <2>1
    <3> SUFFICES ASSUME NEW d \in Installed', NEW a \in Cells(d)
                 PROVE  sw_breakpoints'[d][a] =
                           IF \E e \in below'[d] : a \in Cells(e) THEN OPCODE ELSE text[a]
      BY <3>0 DEF SavedIsOverlay
    <3>1. (\E e \in below'[d] : a \in Cells(e)) <=> (\E e \in below[d] : a \in Cells(e))
      <4>1. b \notin below[d] \/ a \notin Cells(b)
        BY <1>2, <2>1, <2>2 DEF SwInv, SwTypeOK, KeptApart, Overlap
      <4> QED
        BY <2>1, <2>2, <4>1
    <3> QED
      BY <2>1, <2>2, <3>1 DEF SwInv, SavedIsOverlay
  <2>7. BelowIsOrder'
    BY <2>1, <2>2 DEF SwInv, BelowIsOrder
  <2>8. KeptApart'
    BY <2>1, <2>2 DEF SwInv, KeptApart, Overlap
  <2> QED
    BY <2>4, <2>5, <2>6, <2>7, <2>8 DEF SwInv
<1> QED
  BY <1>1, <1>2

\* Writing bytes that no breakpoint covers keeps the invariant.
LEMMA WritesKeep ==
    ASSUME SwInv, NEW x \in Addr, NEW byte \in Bytes, DebuggerWrites(x, byte)
    PROVE  SwInv'
<1>1. /\ memory' = [memory EXCEPT ![x] = byte]
      /\ text' = [text EXCEPT ![x] = byte]
      /\ UNCHANGED <<nesting, sw_breakpoints, below>>
      /\ \A d \in Installed : x \notin Cells(d)
  BY DEF DebuggerWrites, write_addrs
<1>2. Installed' = Installed
  BY <1>1 DEF Installed
<1>3. SwTypeOK'
  BY <1>1, <1>2 DEF SwInv, SwTypeOK
<1>4. MemoryIsOverlay'
  BY <1>1, <1>2 DEF SwInv, SwTypeOK, MemoryIsOverlay, Covered
<1>5. SavedIsOverlay'
  BY <1>1, <1>2 DEF SwInv, SwTypeOK, SavedIsOverlay
<1>6. BelowIsOrder' /\ KeptApart'
  BY <1>1, <1>2 DEF SwInv, BelowIsOrder, KeptApart
<1> QED
  BY <1>3, <1>4, <1>5, <1>6 DEF SwInv

\* Every step of the target keeps the invariant of the software breakpoints.
LEMMA SwStep == SwInv /\ [Next]_vars => SwInv'
<1> SUFFICES ASSUME SwInv, [Next]_vars PROVE SwInv'
  OBVIOUS
<1>1. CASE UNCHANGED swVars
  BY <1>1 DEF swVars, SwInv, SwTypeOK, SavedIsOverlay, BelowIsOrder, KeptApart,
              MemoryIsOverlay, Installed, Covered
<1>2. CASE SwRequest
  BY <1>2, AddsKeep, RemovesKeep, WritesKeep DEF SwRequest, SwNext
<1> QED
  BY <1>1, <1>2 DEF Next, vars

\* Guest memory is the program text with the opcode exactly on the installed
\* software breakpoints.
THEOREM OverlayHolds == Spec => []MemoryIsOverlay
<1>1. Init => SwInv
  BY InitSwInv DEF Init
<1>2. SwInv => MemoryIsOverlay
  BY DEF SwInv
<1> QED
  BY <1>1, <1>2, SwStep, PTL DEF Spec

\* Every step of the target keeps the invariant of the hardware breakpoints.
LEMMA HwStep == HwInv /\ [Next]_vars => HwInv'
<1> SUFFICES ASSUME HwInv, [Next]_vars PROVE HwInv'
  OBVIOUS
<1> USE DEF HwInv, HwTypeOK
<1>1. CASE UNCHANGED hwVars
  BY <1>1 DEF hwVars
<1>2. ASSUME NEW b \in HwBreakpoint, Add(b) PROVE HwInv'
  BY <1>2, Zenon DEF Add, try_insert
<1>3. ASSUME NEW b \in HwBreakpoint, Remove(b) PROVE HwInv'
  BY <1>3, Zenon DEF Remove, take
<1>4. CASE Refuse
  BY <1>4, Zenon DEF Refuse
<1>5. CASE Resume
  BY <1>5 DEF Resume
<1>6. ASSUME NEW stepped, NEW traps, stop_reason(stepped, traps),
             UNCHANGED <<slots, debugreg, step, answer>>
      PROVE  HwInv'
  <2>1. reason' \in {DoneStep, Other} \cup {StopReason(b) : b \in HwBreakpoint}
    BY <1>6 DEF stop_reason
  <2>2. vcpu' \in {"stopped", "panicked"}
    BY <1>6 DEF stop_reason
  <2> QED
    BY <1>6, <2>1, <2>2
<1>7. CASE DebugException
  BY <1>6, <1>7 DEF DebugException
<1>8. CASE GeneralDetect
  BY <1>6, <1>8, Zenon DEF GeneralDetect
<1>9. CASE OtherStop
  BY <1>9 DEF OtherStop
<1>10. CASE NotCanonical
  BY <1>10 DEF NotCanonical
<1> QED
  BY <1>1, <1>2, <1>3, <1>4, <1>5, <1>7, <1>8, <1>9, <1>10
  DEF Next, HwNext, SwRequest, vars

\* The debug registers and the table of a new GdbUhyve are empty.
LEMMA InitHwInv == HwInit => HwInv
BY Zenon DEF HwInit, HwInv, HwTypeOK

\* The types of the target hold.
THEOREM TypeCorrect == Spec => []TypeOK
<1>1. Init => SwInv /\ HwInv
  BY InitSwInv, InitHwInv DEF Init
<1>2. SwInv /\ HwInv => TypeOK
  BY DEF SwInv, HwInv, TypeOK
<1> QED
  BY <1>1, <1>2, SwStep, HwStep, PTL DEF Spec

\* A debug exception is reported as what the guest was running with, and does
\* not make the target panic.
THEOREM TrapsGetTheirReason == Spec => TrapsAreTranslated
<1> DEFINE Step == DebugException =>
        /\ vcpu' = "stopped"
        /\ \/ reason' = DoneStep /\ step
           \/ \E n \in Slot : debugreg[n] # None /\ reason' = StopReason(debugreg[n])
<1>1. Init => HwInv
  BY InitHwInv DEF Init
<1>2. HwInv /\ [Next]_vars => [Step]_hwVars
  <2> SUFFICES ASSUME HwInv, DebugException PROVE Step
    OBVIOUS
  <2>1. PICK traps \in SUBSET {n \in Slot : debugreg[n] # None},
             stepped \in {step, FALSE} :
                (traps # {} \/ stepped) /\ stop_reason(stepped, traps)
    BY Zenon DEF DebugException
  <2>2. debugreg = slots
    BY DEF HwInv, DebugException
  <2>3. CASE stepped
    BY <2>1, <2>3, Zenon DEF stop_reason, HwInv, HwTypeOK
  <2>4. CASE ~stepped
    BY <2>1, <2>2, <2>4 DEF stop_reason, IsFirst
  <2> QED
    BY <2>3, <2>4
<1> QED
  BY <1>1, <1>2, HwStep, PTL DEF Spec, TrapsAreTranslated

------------------------------------------------------------------------------
(* The table is a bag *)

\* The copies in a bag with c[b] times b.
CopiesOf(c) == UNION {{b} \X (1 .. c[b]) : b \in HwBreakpoint}

Occupied == {n \in Slot : slots[n] # None}

\* The inductive invariant of the bag: it has as many copies as slots are taken.
BagInv == IsFiniteSet(Table!Copies) /\ Table!Size = Cardinality(Occupied)

\* Sets of slots are finite.
LEMMA SlotSets ==
    ASSUME NEW S \in SUBSET Slot
    PROVE  /\ IsFiniteSet(S) /\ Cardinality(S) \in Nat
           /\ Cardinality(S) <= NumSlots /\ (Cardinality(S) = NumSlots => S = Slot)
<1>1. IsFiniteSet(Slot) /\ Cardinality(Slot) = NumSlots
  <2>1. 0 \in Int /\ NumSlots - 1 \in Int /\ ~(0 > NumSlots - 1) /\ NumSlots - 1 - 0 + 1 = NumSlots
    BY NumSlotsAssumption
  <2>2. IsFiniteSet(0 .. NumSlots - 1)
        /\ Cardinality(0 .. NumSlots - 1) = NumSlots - 1 - 0 + 1
    BY <2>1, FS_Interval
  <2> QED
    BY <2>1, <2>2 DEF Slot
<1>2. IsFiniteSet(S) /\ Cardinality(S) <= Cardinality(Slot) /\ (Cardinality(Slot) = Cardinality(S) => Slot = S)
  BY <1>1, FS_Subset
<1>3. Cardinality(S) \in Nat
  BY <1>2, FS_CardinalityType
<1> QED
  BY <1>1, <1>2, <1>3

\* One more of a breakpoint is one more copy.
LEMMA MoreCopies ==
    ASSUME NEW c \in [HwBreakpoint -> Nat], NEW b \in HwBreakpoint
    PROVE  /\ CopiesOf([c EXCEPT ![b] = c[b] + 1]) = CopiesOf(c) \cup {<<b, c[b] + 1>>}
           /\ <<b, c[b] + 1>> \notin CopiesOf(c)
<1> DEFINE d == [c EXCEPT ![b] = c[b] + 1]
<1>1. ASSUME NEW e \in [HwBreakpoint -> Nat], NEW x
      PROVE  x \in CopiesOf(e) <=> \E a \in HwBreakpoint : \E k \in 1 .. e[a] : x = <<a, k>>
  BY DEF CopiesOf
<1>2. d \in [HwBreakpoint -> Nat] /\ d[b] = c[b] + 1 /\ \A a \in HwBreakpoint : a # b => d[a] = c[a]
  OBVIOUS
<1>3. ASSUME NEW k PROVE k \in 1 .. d[b] <=> k \in 1 .. c[b] \/ k = c[b] + 1
  <2>1. c[b] \in Nat
    OBVIOUS
  <2> QED
    BY <1>2, <2>1
<1> HIDE DEF d
<1>4. ASSUME NEW x PROVE x \in CopiesOf(d) <=> x \in CopiesOf(c) \/ x = <<b, c[b] + 1>>
  <2>1. ASSUME x \in CopiesOf(d) PROVE x \in CopiesOf(c) \/ x = <<b, c[b] + 1>>
    <3>1. PICK a \in HwBreakpoint : \E k \in 1 .. d[a] : x = <<a, k>>
      BY <1>1, <1>2, <2>1
    <3> QED
      BY <1>1, <1>2, <1>3, <3>1
  <2>2. ASSUME x \in CopiesOf(c) PROVE x \in CopiesOf(d)
    <3>1. PICK a \in HwBreakpoint : \E k \in 1 .. c[a] : x = <<a, k>>
      BY <1>1, <2>2
    <3>2. \E k \in 1 .. d[a] : x = <<a, k>>
      BY <1>2, <1>3, <3>1
    <3> QED
      BY <1>1, <1>2, <3>2
  <2>3. <<b, c[b] + 1>> \in CopiesOf(d)
    <3>1. c[b] + 1 \in 1 .. d[b]
      BY <1>3
    <3> QED
      BY <1>1, <1>2, <3>1
  <2> QED
    BY <2>1, <2>2, <2>3
<1>5. <<b, c[b] + 1>> \notin CopiesOf(c)
  <2> SUFFICES ASSUME <<b, c[b] + 1>> \in CopiesOf(c) PROVE FALSE
    OBVIOUS
  <2>1. PICK a \in HwBreakpoint, k \in Int : k \in 1 .. c[a] /\ <<b, c[b] + 1>> = <<a, k>>
    BY <1>1
  <2>2. a = b /\ k = c[b] + 1 /\ c[b] \in Nat
    BY <2>1
  <2> QED
    BY <2>1, <2>2
<1>6. CopiesOf(d) = CopiesOf(c) \cup {<<b, c[b] + 1>>}
  BY <1>4
<1> QED
  BY <1>5, <1>6, Zenon DEF d

\* One less is one copy less.
LEMMA FewerCopies ==
    ASSUME NEW c \in [HwBreakpoint -> Nat], NEW b \in HwBreakpoint, c[b] > 0
    PROVE  /\ CopiesOf([c EXCEPT ![b] = c[b] - 1]) = CopiesOf(c) \ {<<b, c[b]>>}
           /\ <<b, c[b]>> \in CopiesOf(c)
<1> DEFINE d == [c EXCEPT ![b] = c[b] - 1]
<1>1. c[b] \in Nat /\ c[b] - 1 \in Nat /\ c[b] - 1 + 1 = c[b]
  OBVIOUS
<1>2. d \in [HwBreakpoint -> Nat] /\ d[b] = c[b] - 1
  BY <1>1
<1>3. [d EXCEPT ![b] = d[b] + 1] = c /\ d[b] + 1 = c[b]
  <2>1. d[b] + 1 = c[b]
    BY <1>1, <1>2
  <2>2. [d EXCEPT ![b] = c[b]] = c
    BY <1>2, Zenon
  <2> QED
    BY <2>1, <2>2
<1> HIDE DEF d
<1>4. CopiesOf(c) = CopiesOf(d) \cup {<<b, c[b]>>} /\ <<b, c[b]>> \notin CopiesOf(d)
  <2>1. /\ CopiesOf([d EXCEPT ![b] = d[b] + 1]) = CopiesOf(d) \cup {<<b, d[b] + 1>>}
        /\ <<b, d[b] + 1>> \notin CopiesOf(d)
    BY <1>2, MoreCopies, Zenon
  <2> QED
    BY <1>3, <2>1, Zenon
<1> QED
  BY <1>4 DEF d

\* Counting is the same in the abstract specification.
LEMMA SameCardinality == ASSUME NEW S PROVE Table!Cardinality(S) = Cardinality(S)
<1> QED
  BY DEF Table!Cardinality, Cardinality

\* The table as a bag.
LEMMA CountType == Count \in [HwBreakpoint -> Nat] /\ Table!Copies = CopiesOf(Count)
<1>1. ASSUME NEW b \in HwBreakpoint PROVE Cardinality(Holding(b)) \in Nat
  <2>1. Holding(b) \in SUBSET Slot
    BY DEF Holding
  <2> QED
    BY <2>1, SlotSets
<1> QED
  BY <1>1 DEF Count, Table!Copies, CopiesOf

\* Filling a free slot.
LEMMA Filling ==
    ASSUME HwTypeOK, BagInv, NEW b \in HwBreakpoint, NEW n \in Slot, slots[n] = None,
           slots' = [slots EXCEPT ![n] = b]
    PROVE  Count' = [Count EXCEPT ![b] = Count[b] + 1] /\ BagInv'
<1>1. slots'[n] = b /\ b # None /\ \A m \in Slot : m # n => slots'[m] = slots[m]
  BY NoneAssumption DEF HwTypeOK
<1>2. Holding(b)' = Holding(b) \cup {n} /\ n \notin Holding(b)
  BY <1>1 DEF Holding
<1>3. Cardinality(Holding(b)') = Cardinality(Holding(b)) + 1
  <2>1. Holding(b) \in SUBSET Slot
    BY DEF Holding
  <2> QED
    BY <1>2, <2>1, SlotSets, FS_AddElement
<1>4. ASSUME NEW a \in HwBreakpoint, a # b PROVE Holding(a)' = Holding(a)
  <2>1. slots[n] # a /\ slots'[n] # a
    BY <1>1, <1>4, NoneAssumption
  <2> QED
    BY <1>1, <2>1 DEF Holding
<1>5. Count' = [Count EXCEPT ![b] = Count[b] + 1]
  BY <1>3, <1>4, Zenon DEF Count
<1>6. /\ Table!Copies' = Table!Copies \cup {<<b, Count[b] + 1>>}
      /\ <<b, Count[b] + 1>> \notin Table!Copies
  <2>1. Table!Copies' = CopiesOf(Count')
    BY DEF Table!Copies, CopiesOf
  <2>2. CopiesOf([Count EXCEPT ![b] = Count[b] + 1]) = CopiesOf(Count) \cup {<<b, Count[b] + 1>>}
        /\ <<b, Count[b] + 1>> \notin CopiesOf(Count)
    BY CountType, MoreCopies, Zenon
  <2> QED
    BY <1>5, <2>1, <2>2, CountType, Zenon
<1>7. Occupied' = Occupied \cup {n} /\ n \notin Occupied /\ Occupied \in SUBSET Slot
  BY <1>1 DEF Occupied
<1>8. Cardinality(Occupied') = Cardinality(Occupied) + 1
  BY <1>7, SlotSets, FS_AddElement
<1>9. IsFiniteSet(Table!Copies') /\ Cardinality(Table!Copies') = Cardinality(Table!Copies) + 1
  BY <1>6, FS_AddElement, Zenon DEF BagInv
<1>10. Table!Size = Cardinality(Table!Copies) /\ Table!Size' = Cardinality(Table!Copies')
  BY SameCardinality, Zenon DEF Table!Size
<1>11. Table!Size' = Cardinality(Occupied')
  BY <1>8, <1>9, <1>10 DEF BagInv
<1> QED
  BY <1>5, <1>9, <1>11, Zenon DEF BagInv

\* Clearing a slot.
LEMMA Clearing ==
    ASSUME HwTypeOK, BagInv, NEW b \in HwBreakpoint, NEW n \in Slot, slots[n] = b,
           slots' = [slots EXCEPT ![n] = None]
    PROVE  Count[b] > 0 /\ Count' = [Count EXCEPT ![b] = Count[b] - 1] /\ BagInv'
<1>1. slots'[n] = None /\ b # None /\ \A m \in Slot : m # n => slots'[m] = slots[m]
  BY NoneAssumption DEF HwTypeOK
<1>2. Holding(b)' = Holding(b) \ {n} /\ n \in Holding(b) /\ Holding(b) \in SUBSET Slot
  BY <1>1 DEF Holding
<1>3. Cardinality(Holding(b)') = Cardinality(Holding(b)) - 1 /\ Cardinality(Holding(b)) > 0
  <2>1. IsFiniteSet(Holding(b)) /\ Cardinality(Holding(b)) \in Nat
    BY <1>2, SlotSets
  <2>2. Cardinality(Holding(b)) # 0
    <3>1. Holding(b) # {}
      BY <1>2
    <3> QED
      BY <2>1, <3>1, FS_EmptySet, Zenon
  <2>3. Cardinality(Holding(b) \ {n}) = Cardinality(Holding(b)) - 1
    BY <1>2, <2>1, FS_RemoveElement
  <2> QED
    BY <1>2, <2>1, <2>2, <2>3
<1>4. ASSUME NEW a \in HwBreakpoint, a # b PROVE Holding(a)' = Holding(a)
  <2>1. slots[n] # a /\ slots'[n] # a
    BY <1>1, <1>4, NoneAssumption
  <2> QED
    BY <1>1, <2>1 DEF Holding
<1>5. Count' = [Count EXCEPT ![b] = Count[b] - 1] /\ Count[b] > 0
  BY <1>3, <1>4, Zenon DEF Count
<1>6. Table!Copies' = Table!Copies \ {<<b, Count[b]>>} /\ <<b, Count[b]>> \in Table!Copies
  <2>1. Table!Copies' = CopiesOf(Count')
    BY DEF Table!Copies, CopiesOf
  <2>2. CopiesOf([Count EXCEPT ![b] = Count[b] - 1]) = CopiesOf(Count) \ {<<b, Count[b]>>}
        /\ <<b, Count[b]>> \in CopiesOf(Count)
    BY <1>5, CountType, FewerCopies, Zenon
  <2> QED
    BY <1>5, <2>1, <2>2, CountType, Zenon
<1>7. Occupied' = Occupied \ {n} /\ n \in Occupied /\ Occupied \in SUBSET Slot
  BY <1>1 DEF Occupied
<1>8. Cardinality(Occupied') = Cardinality(Occupied) - 1
  BY <1>7, SlotSets, FS_RemoveElement
<1>9. IsFiniteSet(Table!Copies') /\ Cardinality(Table!Copies') = Cardinality(Table!Copies) - 1
  BY <1>6, FS_RemoveElement, SMTT(30) DEF BagInv
<1>10. Table!Size = Cardinality(Table!Copies) /\ Table!Size' = Cardinality(Table!Copies')
  BY SameCardinality, Zenon DEF Table!Size
<1>11. Table!Size' = Cardinality(Occupied')
  BY <1>8, <1>9, <1>10 DEF BagInv
<1> QED
  BY <1>5, <1>9, <1>11, Zenon DEF BagInv

\* The bag is full when no slot is free.
LEMMA FullWhenTaken == BagInv => Table!Size \in Nat /\ (Table!Size < NumSlots <=> Free # {})
<1> SUFFICES ASSUME BagInv PROVE Table!Size \in Nat /\ (Table!Size < NumSlots <=> Free # {})
  OBVIOUS
<1>1. Occupied \in SUBSET Slot /\ (Occupied = Slot <=> Free = {})
  BY DEF Occupied, Free
<1>2. /\ Cardinality(Occupied) \in Nat /\ Cardinality(Occupied) <= NumSlots
      /\ Cardinality(Occupied) = NumSlots => Occupied = Slot
  BY <1>1, SlotSets
<1>3. Cardinality(Slot) = NumSlots
  <2>1. NumSlots - 1 \in Int /\ ~(0 > NumSlots - 1) /\ NumSlots - 1 - 0 + 1 = NumSlots
    BY NumSlotsAssumption
  <2> QED
    BY <2>1, FS_Interval DEF Slot
<1> QED
  BY <1>1, <1>2, <1>3, NumSlotsAssumption DEF BagInv

\* Every step of the target is a step of the bag.
LEMMA BagStep ==
    HwInv /\ BagInv /\ [Next]_vars => BagInv' /\ [Table!Next]_<<Count, answer>>
<1> SUFFICES ASSUME HwTypeOK, BagInv, [Next]_vars
             PROVE  BagInv' /\ [Table!Next]_<<Count, answer>>
  BY DEF HwInv
<1>1. ASSUME UNCHANGED slots PROVE Count' = Count /\ BagInv'
  <2>1. Count' = Count /\ Occupied' = Occupied
    BY <1>1 DEF Count, Holding, Occupied
  <2> QED
    BY <2>1 DEF BagInv, Table!Size, Table!Copies
<1>2. ASSUME NEW b \in HwBreakpoint, Add(b) PROVE BagInv' /\ Table!Insert(b)
  <2>1. CASE Free = {} /\ answer' = FALSE /\ UNCHANGED slots
    <3>1. Table!Size \in Nat /\ ~(Table!Size < NumSlots)
      BY <2>1, FullWhenTaken
    <3>2. (Table!Size < NumSlots) = FALSE
      BY <3>1, NumSlotsAssumption
    <3> QED
      BY <1>1, <2>1, <3>2, Zenon DEF Table!Insert
  <2>2. CASE \E n \in Slot : IsFirst(n, Free) /\ slots' = [slots EXCEPT ![n] = b] /\ answer' = TRUE
    <3>1. PICK n \in Slot : n \in Free /\ slots' = [slots EXCEPT ![n] = b] /\ answer' = TRUE
      BY <2>2, Zenon DEF IsFirst
    <3>2. slots[n] = None /\ Free # {}
      BY <3>1 DEF Free
    <3>3. Count' = [Count EXCEPT ![b] = Count[b] + 1] /\ BagInv'
      BY <3>1, <3>2, Filling, Zenon
    <3>4. (Table!Size < NumSlots) = TRUE
      BY <3>2, FullWhenTaken, Zenon
    <3> QED
      BY <3>1, <3>3, <3>4, Zenon DEF Table!Insert
  <2> QED
    BY <1>2, <2>1, <2>2, Zenon DEF Add, try_insert
<1>3. ASSUME NEW b \in HwBreakpoint, Remove(b) PROVE BagInv' /\ Table!Remove(b)
  <2>1. CASE Holding(b) = {} /\ answer' = FALSE /\ UNCHANGED slots
    <3>1. Count[b] = 0
      BY <2>1, FS_EmptySet DEF Count
    <3>2. (Count[b] > 0) = FALSE
      BY <3>1
    <3> QED
      BY <1>1, <2>1, <3>2, Zenon DEF Table!Remove
  <2>2. CASE \E n \in Slot : IsFirst(n, Holding(b)) /\ slots' = [slots EXCEPT ![n] = None] /\ answer' = TRUE
    <3>1. PICK n \in Slot : n \in Holding(b) /\ slots' = [slots EXCEPT ![n] = None] /\ answer' = TRUE
      BY <2>2, Zenon DEF IsFirst
    <3>2. slots[n] = b
      BY <3>1 DEF Holding
    <3>3. Count[b] > 0 /\ Count' = [Count EXCEPT ![b] = Count[b] - 1] /\ BagInv'
      BY <3>1, <3>2, Clearing, Zenon
    <3>4. (Count[b] > 0) = TRUE
      BY <3>3
    <3> QED
      BY <3>1, <3>3, <3>4, Zenon DEF Table!Remove
  <2> QED
    BY <1>3, <2>1, <2>2, Zenon DEF Remove, take
<1>4. CASE Refuse
  <2>1. UNCHANGED slots /\ answer' = FALSE
    BY <1>4 DEF Refuse
  <2> QED
    BY <1>1, <2>1, Zenon DEF Table!Next, Table!Refuse
<1>5. CASE \/ NotCanonical \/ Resume \/ DebugException \/ GeneralDetect \/ OtherStop
            \/ SwRequest \/ UNCHANGED vars
  <2>1. UNCHANGED <<slots, answer>>
    BY <1>5, Zenon
    DEF NotCanonical, Resume, DebugException, GeneralDetect, OtherStop, SwRequest, vars, hwVars
  <2> QED
    BY <1>1, <2>1
<1> QED
  BY <1>2, <1>3, <1>4, <1>5, Zenon DEF Next, HwNext, Table!Next

\* HwBreakpoints: the slots are a bag of breakpoints, for any number of debug
\* registers.  try_insert fails exactly when all are taken, take removes one copy
\* and fails exactly when there is none, and the debugger is told so.
THEOREM ImplementsBag == Spec => IsBag
<1>1. Init => BagInv /\ Table!Init
  <2> SUFFICES ASSUME HwInit PROVE BagInv /\ Table!Init
    BY DEF Init
  <2>1. \A n \in Slot : slots[n] = None
    BY DEF HwInit
  <2>2. Occupied = {} /\ \A b \in HwBreakpoint : Holding(b) = {}
    BY <2>1, NoneAssumption DEF Occupied, Holding
  <2>3. Count = [b \in HwBreakpoint |-> 0]
    BY <2>2, FS_EmptySet DEF Count
  <2>4. Table!Copies = {}
    BY <2>3 DEF Table!Copies
  <2> QED
    BY <2>2, <2>3, <2>4, FS_EmptySet, SameCardinality DEF HwInit, BagInv, Table!Size, Table!Init
<1>2. Init => HwInv
  BY InitHwInv DEF Init
<1> QED
  BY <1>1, <1>2, HwStep, BagStep, PTL DEF Spec, IsBag, Table!Spec

------------------------------------------------------------------------------
(* GdbLoop *)

\* The stream holds interrupts that came too late, and msg at place m.
Holds(msg, m) ==
    /\ m \in 1 .. Len(conn)
    /\ \A j \in 1 .. Len(conn) : conn[j] = IF j = m THEN msg ELSE "int"

Requests == {"cmd", "resume", "int", "quit"}
Active == {"wait", "enter", "guest", "host", "sigint"}

\* The inductive invariant of the loop: what is in the stream follows from what
\* the debugger and the stub are doing.
LoopInv ==
    /\ conn \in Seq(Requests)
    /\ client \in {"ask", "reply", "running", "interrupting", "gone"}
    /\ stub \in Active \cup {"idle", "exited", "panicked"}
    /\ StoppedMeansStopped
    /\ client = "ask" => \A j \in 1 .. Len(conn) : conn[j] = "int"
    /\ client = "reply" => Holds("cmd", Len(conn))
    /\ client = "running" =>
          /\ stub = "idle" => Holds("resume", Len(conn))
          /\ stub \in Active => conn = <<>>
    /\ client = "interrupting" =>
          /\ stub = "idle" => Holds("resume", Len(conn) - 1)
          /\ stub \in Active => Len(conn) = 1 /\ conn[1] = "int"
    /\ client = "gone" =>
          /\ stub = "idle" => Holds("quit", Len(conn))
          /\ stub \notin Active

\* What the debugger sends goes to the end of the stream.
LEMMA SendKeeps == LoopInv /\ ClientSend => LoopInv'
<1> SUFFICES ASSUME LoopInv, ClientSend PROVE LoopInv'
  OBVIOUS
<1>1. stub' = stub /\ conn \in Seq(Requests) /\ Len(conn) \in Nat
  BY DEF LoopInv, ClientSend
<1>2. ASSUME NEW m \in Requests, conn' = Append(conn, m)
      PROVE  /\ conn' \in Seq(Requests) /\ Len(conn') = Len(conn) + 1
             /\ conn'[Len(conn')] = m
             /\ \A j \in 1 .. Len(conn) : conn'[j] = conn[j]
             /\ \A j \in 1 .. Len(conn') : j # Len(conn') => j \in 1 .. Len(conn)
  BY <1>1, <1>2
<1>3. CASE client = "ask" /\ conn' = Append(conn, "cmd") /\ client' = "reply"
  <2>1. Holds("cmd", Len(conn))'
    BY <1>1, <1>2, <1>3 DEF LoopInv, Holds
  <2> QED
    BY <1>1, <1>2, <1>3, <2>1 DEF LoopInv, StoppedMeansStopped, Requests
<1>4. CASE client = "ask" /\ conn' = Append(conn, "resume") /\ client' = "running"
  <2>1. Holds("resume", Len(conn))'
    BY <1>1, <1>2, <1>4 DEF LoopInv, Holds
  <2> QED
    BY <1>1, <1>2, <1>4, <2>1 DEF LoopInv, StoppedMeansStopped, Requests, Active
<1>5. CASE client = "running" /\ conn' = Append(conn, "int") /\ client' = "interrupting"
  <2>1. stub = "idle" => Holds("resume", Len(conn) - 1)'
    BY <1>1, <1>2, <1>5 DEF LoopInv, Holds
  <2>2. stub \in Active => Len(conn') = 1 /\ conn'[1] = "int"
    <3>1. stub \in Active => Len(conn) = 0
      BY <1>5 DEF LoopInv
    <3> QED
      BY <1>1, <1>2, <1>5, <3>1
  <2> QED
    BY <1>1, <1>2, <1>5, <2>1, <2>2 DEF LoopInv, StoppedMeansStopped, Requests
<1>6. CASE client = "ask" /\ conn' = Append(conn, "quit") /\ client' = "gone"
  <2>1. Holds("quit", Len(conn))'
    BY <1>1, <1>2, <1>6 DEF LoopInv, Holds
  <2> QED
    BY <1>1, <1>2, <1>6, <2>1 DEF LoopInv, StoppedMeansStopped, Requests, Active
<1> QED
  BY <1>3, <1>4, <1>5, <1>6 DEF ClientSend

\* What is read is at the head of the stream.
LEMMA ReadKeeps ==
    LoopInv /\ (StubCommand \/ StubResume \/ StubResumeFails \/ StubQuits) => LoopInv'
<1> SUFFICES ASSUME LoopInv, StubCommand \/ StubResume \/ StubResumeFails \/ StubQuits
             PROVE  LoopInv'
  OBVIOUS
<1>1. /\ conn \in Seq(Requests) /\ conn # <<>> /\ conn' = Tail(conn)
      /\ stub = "idle"
  BY DEF LoopInv, StubCommand, StubResume, StubResumeFails, StubQuits
<1>2. /\ conn' \in Seq(Requests) /\ Len(conn) \in Nat /\ Len(conn) >= 1
      /\ Len(conn') = Len(conn) - 1 /\ Head(conn) = conn[1]
      /\ \A j \in 1 .. Len(conn') : conn'[j] = conn[j + 1] /\ j + 1 \in 1 .. Len(conn)
      /\ Len(conn) = 1 => conn' = <<>>
  BY <1>1
<1>3. ASSUME NEW msg, NEW m, Holds(msg, m), conn[1] # msg
      PROVE  Holds(msg, m - 1)' /\ conn[1] = "int"
  BY <1>2, <1>3 DEF Holds
<1>4. ASSUME NEW msg, NEW m, Holds(msg, m), conn[1] = msg, msg # "int"
      PROVE  m = 1 /\ \A j \in 1 .. Len(conn') : conn'[j] = "int"
  BY <1>2, <1>4 DEF Holds
<1>5. CASE client = "ask"
  <2>1. conn[1] = "int"
    BY <1>2, <1>5 DEF LoopInv
  <2>2. stub' = stub /\ client' = client
    BY <1>2, <2>1 DEF StubCommand, StubResume, StubResumeFails, StubQuits
  <2> QED
    BY <1>2, <1>5, <2>2 DEF LoopInv, StoppedMeansStopped
<1>6. CASE client = "reply"
  <2>1. Holds("cmd", Len(conn)) /\ conn[1] \in {"cmd", "int"}
    BY <1>2, <1>6 DEF LoopInv, Holds
  <2>2. stub' = stub /\ client' = IF conn[1] = "cmd" THEN "ask" ELSE client
    BY <1>2, <2>1 DEF StubCommand, StubResume, StubResumeFails, StubQuits
  <2>3. CASE conn[1] = "cmd"
    BY <1>1, <1>2, <1>4, <2>1, <2>2, <2>3 DEF LoopInv, StoppedMeansStopped
  <2>4. CASE conn[1] # "cmd"
    <3>1. Holds("cmd", Len(conn))'
      BY <1>2, <1>3, <2>1, <2>4
    <3> QED
      BY <1>1, <1>2, <1>6, <2>2, <2>4, <3>1 DEF LoopInv, StoppedMeansStopped
  <2> QED
    BY <2>3, <2>4
<1>7. CASE client = "running"
  <2>1. Holds("resume", Len(conn)) /\ conn[1] \in {"resume", "int"}
    <3>1. Holds("resume", Len(conn))
      BY <1>1, <1>7 DEF LoopInv
    <3>2. 1 \in 1 .. Len(conn)
      BY <1>2
    <3> QED
      BY <3>1, <3>2 DEF Holds
  <2>2. client' = client /\ IF conn[1] = "resume" THEN stub' \in {"wait", "panicked"} ELSE stub' = stub
    BY <1>2, <2>1 DEF StubCommand, StubResume, StubResumeFails, StubQuits
  <2>3. CASE conn[1] = "resume"
    <3>1. conn' = <<>>
      BY <1>2, <1>4, <2>1, <2>3
    <3> QED
      BY <1>2, <1>7, <2>2, <2>3, <3>1 DEF LoopInv, StoppedMeansStopped, Active
  <2>4. CASE conn[1] # "resume"
    <3>1. Holds("resume", Len(conn))'
      BY <1>2, <1>3, <2>1, <2>4
    <3> QED
      BY <1>1, <1>2, <1>7, <2>2, <2>4, <3>1 DEF LoopInv, StoppedMeansStopped, Active
  <2> QED
    BY <2>3, <2>4
<1>8. CASE client = "interrupting"
  <2>1. Holds("resume", Len(conn) - 1) /\ conn[1] \in {"resume", "int"}
    <3>1. Holds("resume", Len(conn) - 1)
      BY <1>1, <1>8 DEF LoopInv
    <3>2. 1 \in 1 .. Len(conn)
      BY <1>2
    <3> QED
      BY <3>1, <3>2 DEF Holds
  <2>2. client' = client /\ IF conn[1] = "resume" THEN stub' \in {"wait", "panicked"} ELSE stub' = stub
    BY <1>2, <2>1 DEF StubCommand, StubResume, StubResumeFails, StubQuits
  <2>3. CASE conn[1] = "resume"
    <3>1. Len(conn) - 1 = 1 /\ \A j \in 1 .. Len(conn') : conn'[j] = "int"
      BY <1>4, <2>1, <2>3, Zenon
    <3>2. Len(conn') = 1 /\ conn'[1] = "int"
      <4>1. Len(conn') = 1
        BY <1>2, <3>1, Zenon
      <4>2. 1 \in 1 .. Len(conn')
        BY <4>1
      <4> QED
        BY <3>1, <4>1, <4>2
    <3> QED
      BY <1>2, <1>8, <2>2, <2>3, <3>2, Zenon DEF LoopInv, StoppedMeansStopped, Active
  <2>4. CASE conn[1] # "resume"
    <3>1. Holds("resume", Len(conn) - 1)'
      BY <1>2, <1>3, <2>1, <2>4
    <3> QED
      BY <1>1, <1>2, <1>8, <2>2, <2>4, <3>1 DEF LoopInv, StoppedMeansStopped, Active
  <2> QED
    BY <2>3, <2>4
<1>9. CASE client = "gone"
  <2>1. Holds("quit", Len(conn)) /\ conn[1] \in {"quit", "int"}
    <3>1. Holds("quit", Len(conn))
      BY <1>1, <1>9 DEF LoopInv
    <3>2. 1 \in 1 .. Len(conn)
      BY <1>2
    <3> QED
      BY <3>1, <3>2 DEF Holds
  <2>2. client' = client /\ stub' = IF conn[1] = "quit" THEN "exited" ELSE stub
    BY <1>2, <2>1 DEF StubCommand, StubResume, StubResumeFails, StubQuits
  <2>3. CASE conn[1] = "quit"
    BY <1>2, <1>9, <2>2, <2>3 DEF LoopInv, StoppedMeansStopped, Active
  <2>4. CASE conn[1] # "quit"
    <3>1. Holds("quit", Len(conn))'
      BY <1>2, <1>3, <2>1, <2>4
    <3> QED
      BY <1>1, <1>2, <1>9, <2>2, <2>4, <3>1 DEF LoopInv, StoppedMeansStopped, Active
  <2> QED
    BY <2>3, <2>4
<1> QED
  BY <1>5, <1>6, <1>7, <1>8, <1>9 DEF LoopInv

\* The steps of the vCPU: while it is about to run, runs or is out in a handler
\* of the loop, the debugger waits, with at most its one interrupt under way.
LEMMA RunKeeps ==
    LoopInv /\ (\/ SpawnHelper \/ EnterGuest \/ HandledExit
                \/ TargetStops \/ TargetEnds \/ IncomingData) => LoopInv'
<1> SUFFICES ASSUME LoopInv,
                    \/ SpawnHelper \/ EnterGuest \/ HandledExit
                    \/ TargetStops \/ TargetEnds \/ IncomingData
             PROVE  LoopInv'
  OBVIOUS
<1>1. stub \in Active
  BY DEF SpawnHelper, EnterGuest, HandledExit, TargetStops,
         TargetEnds, IncomingData, Active
<1>2. /\ client \in {"running", "interrupting"}
      /\ client = "running" => conn = <<>>
      /\ client = "interrupting" => Len(conn) = 1 /\ conn[1] = "int"
  BY <1>1 DEF LoopInv, StoppedMeansStopped, Active
<1>3. CASE SpawnHelper \/ EnterGuest \/ HandledExit
  <2>1. stub' \in Active /\ client' = client /\ conn' = conn
    BY <1>3 DEF SpawnHelper, EnterGuest, HandledExit, Active
  <2> QED
    BY <1>2, <2>1 DEF LoopInv, StoppedMeansStopped, Active
<1>4. CASE TargetStops
  BY <1>2, <1>4 DEF LoopInv, StoppedMeansStopped, TargetStops
<1>5. CASE TargetEnds
  BY <1>2, <1>5 DEF LoopInv, StoppedMeansStopped, TargetEnds, Active
<1>6. CASE IncomingData
  <2>1. CASE client = "running"
    BY <1>2, <1>6, <2>1 DEF LoopInv, StoppedMeansStopped, IncomingData, Active
  <2>2. CASE client = "interrupting"
    <3>1. conn \in Seq(Requests) /\ Len(conn) = 1 /\ conn[1] = "int"
      BY <1>2, <2>2 DEF LoopInv
    <3>2. conn # <<>> /\ Head(conn) = "int"
      BY <3>1
    <3>3. Tail(conn) \in Seq(Requests) /\ Len(Tail(conn)) = 0
      BY <3>1, <3>2
    <3>4. conn' = Tail(conn) /\ stub' = "idle" /\ client' = "ask"
      BY <1>6, <3>2 DEF IncomingData
    <3> QED
      BY <3>3, <3>4 DEF LoopInv, StoppedMeansStopped
  <2> QED
    BY <1>2, <2>1, <2>2
<1> QED
  BY <1>3, <1>4, <1>5, <1>6

\* The helper thread takes nothing from the stream; its kick only brings the
\* vCPU out of the guest.
LEMMA HelperKeeps ==
    LoopInv /\ (HelperRead \/ HelperKick \/ HelperWake) => LoopInv'
BY DEF LoopInv, StoppedMeansStopped, HelperRead, HelperKick,
       HelperWake, Active, Holds

\* run_gdb: a debugger that sees its target stopped, and one whose command is
\* being served, is right: the vCPU is not running, however interrupts that come
\* too late, kicks and stops of the target's own interleave.
THEOREM StoppedWhenReported == LoopSpec => []StoppedMeansStopped
<1>1. LoopInit => LoopInv
  BY DEF LoopInit, LoopInv, StoppedMeansStopped, Active
<1>2. LoopInv /\ [LoopNext]_loopVars => LoopInv'
  <2>1. LoopInv /\ LoopNext => LoopInv'
    BY SendKeeps, ReadKeeps, RunKeeps, HelperKeeps
    DEF LoopNext, StubStep, HelperStep, GuestStep
  <2>2. LoopInv /\ UNCHANGED loopVars => LoopInv'
    BY DEF loopVars, LoopInv, StoppedMeansStopped, Holds
  <2> QED
    BY <2>1, <2>2
<1>3. LoopInv => StoppedMeansStopped
  BY DEF LoopInv
<1> QED
  BY <1>1, <1>2, <1>3, PTL DEF LoopSpec
==============================================================================
