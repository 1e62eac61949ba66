----------------------------- MODULE NetProofs -------------------------------
(***************************************************************************)
(* Theorems about NetTx, for every ring size, any number of packets and    *)
(* any finite set of guest cores; and about NetRx, for every ring size and *)
(* any number of frames.                                                   *)
(***************************************************************************)
EXTENDS NetTx, NetRx, FiniteSetTheorems, SequenceTheorems, TLAPS

(* Free-running counters and the ring slots they denote: the index           *)
(* counter % UHYVE_QUEUE_SIZE of both network threads.                       *)

\* Two counter values less than a ring apart denote different slots.
LEMMA SlotsDiffer ==
    ASSUME NEW a \in Nat, NEW b \in Nat, NEW n \in Nat \ {0}, a < b, b - a < n
    PROVE  a % n # b % n
<1> SUFFICES ASSUME a % n = b % n
             PROVE  FALSE
  OBVIOUS
<1> DEFINE p == a \div n
           q == b \div n
           r == a % n
<1>1. /\ p \in Int /\ q \in Int /\ r \in Int
      /\ a = n * p + r
      /\ b = n * q + r
  OBVIOUS
<1> HIDE DEF p, q, r
<1>2. b - a = n * (q - p)
  BY <1>1
<1>3. q - p >= 1
  BY <1>1, <1>2
<1>4. n * (q - p) >= n
  BY <1>1, <1>3
<1> QED
  BY <1>2, <1>4

\* Every counter value denotes a slot of the ring.
LEMMA SlotInRing ==
    ASSUME NEW a \in Nat, NEW n \in Nat \ {0}
    PROVE  a % n \in 0 .. n - 1
OBVIOUS

\* The consecutive numbers f + 1, ..., w as a sequence: the packets between
\* the counters f and w.
Window(f, w) == [k \in 1 .. w - f |-> f + k]

\* A window is a sequence of numbers, of length w - f.
LEMMA WindowSeq ==
    ASSUME NEW f \in Nat, NEW w \in Nat, f <= w
    PROVE  Window(f, w) \in Seq(Nat) /\ Len(Window(f, w)) = w - f
BY DEF Window

\* Advancing w appends one packet.
LEMMA WindowAppend ==
    ASSUME NEW f \in Nat, NEW w \in Nat, f <= w
    PROVE  Window(f, w + 1) = Append(Window(f, w), w + 1)
<1> DEFINE v == w + 1
           s == Window(f, v)
           t == Append(Window(f, w), v)
<1>0. v \in Nat /\ f <= v
  OBVIOUS
<1>1. /\ Window(f, w) \in Seq(Nat) /\ Len(Window(f, w)) = w - f
      /\ s \in Seq(Nat) /\ Len(s) = v - f
  <2> HIDE DEF v
  <2> QED BY <1>0, WindowSeq, Zenon
<1>2. t \in Seq(Nat) /\ Len(t) = v - f
  <2> DEFINE p == Window(f, w)
  <2>1. p \in Seq(Nat) /\ Len(p) = v - f - 1
    BY <1>1
  <2>2. Append(p, v) \in Seq(Nat) /\ Len(Append(p, v)) = Len(p) + 1
    <3> HIDE DEF p, v
    <3> QED BY <1>0, <2>1, AppendProperties
  <2> QED
    BY <1>0, <2>1, <2>2
<1>3. \A k \in 1 .. v - f : s[k] = t[k]
  BY <1>1 DEF Window
<1>4. Len(s) = Len(t) /\ \A k \in 1 .. Len(s) : s[k] = t[k]
  <2> HIDE DEF v, s, t
  <2> QED BY <1>1, <1>2, <1>3
<1>5. s = t
  <2> HIDE DEF v, s, t
  <2> QED BY <1>1, <1>2, <1>4, SeqEqual
<1> QED
  BY <1>5

\* Advancing f takes the head off.
LEMMA WindowTail ==
    ASSUME NEW f \in Nat, NEW w \in Nat, f < w
    PROVE  /\ Window(f, w) # <<>>
           /\ Head(Window(f, w)) = f + 1
           /\ Tail(Window(f, w)) = Window(f + 1, w)
<1>0. f + 1 \in Nat /\ f + 1 <= w /\ f <= w
  OBVIOUS
<1>1. /\ Window(f, w) \in Seq(Nat) /\ Len(Window(f, w)) = w - f
      /\ Window(f + 1, w) \in Seq(Nat) /\ Len(Window(f + 1, w)) = w - (f + 1)
  BY <1>0, WindowSeq, Zenon
<1>2. Window(f, w) # <<>> /\ Head(Window(f, w)) = f + 1
  BY <1>1 DEF Window
<1>3. /\ Tail(Window(f, w)) \in Seq(Nat)
      /\ Len(Tail(Window(f, w))) = w - f - 1
  BY <1>1, <1>2
<1>4. ASSUME NEW k \in 1 .. w - f - 1
      PROVE  Tail(Window(f, w))[k] = Window(f + 1, w)[k]
  BY <1>1, <1>2 DEF Window
<1>5. Len(Tail(Window(f, w))) = Len(Window(f + 1, w))
  BY <1>1, <1>3
<1>6. \A k \in 1 .. Len(Tail(Window(f, w))) : Tail(Window(f, w))[k] = Window(f + 1, w)[k]
  BY <1>3, <1>4
<1>7. Tail(Window(f, w)) = Window(f + 1, w)
  <2> DEFINE s == Tail(Window(f, w))
             t == Window(f + 1, w)
  <2>1. s \in Seq(Nat) /\ t \in Seq(Nat) /\ Len(s) = Len(t)
    BY <1>1, <1>3, <1>5
  <2>2. \A k \in 1 .. Len(s) : s[k] = t[k]
    BY <1>6
  <2> HIDE DEF s, t
  <2>3. s = t
    BY <2>1, <2>2, SeqEqual
  <2> QED
    BY <2>3 DEF s, t
<1> QED
  BY <1>2, <1>7

------------------------------------------------------------------------------
(* NetTx *)

\* A core is inside the driver, between filling a slot and publishing it.
Filled(c) == core[c] = "filled"

\* A guest that waits for init() has not touched the ring before.
FreshInv ==
    writer \in {"init", "clear"} =>
        /\ read = 0
        /\ ~ early => /\ written = 0 /\ chan = 0 /\ numbered = 0 /\ sent = <<>>
                      /\ \A c \in Cores : core[c] = "idle"

\* Whatever the guest does: the core inside the driver still finds room, also
\* when init() has reset the counters under it.
CounterInv ==
    /\ CountersSane
    /\ writer \in {"send", "bump"} => read < written
    /\ \A c \in Cores : Filled(c) => written <= holder /\ holder - read < Size
    /\ \A c, d \in Cores : Filled(c) /\ Filled(d) => c = d

\* The token the writer thread has taken and not yet used up.
InHand == IF writer \in {"load", "send", "bump"} THEN 1 ELSE 0

\* Tokens and packets are matched, one to one.
TokenInv ==
    ~ early /\ writer # "dead" =>
        written - read = chan + Cardinality(Owing) + InHand

\* The slots between read and written hold the packets in order.
ContentInv ==
    ~ early =>
        /\ \A k \in Nat : read <= k /\ k < written => inner[k % Size] = k + 1
        /\ \A c \in Cores : Filled(c) =>
               /\ holder = written /\ numbered = written + 1
               /\ inner[written % Size] = written + 1
        /\ (\A c \in Cores : ~ Filled(c)) => numbered = written

IInv == TxTypeOK /\ FreshInv /\ CounterInv /\ TokenInv /\ ContentInv

USE SizeAssumption, BoundAssumption, CoresAssumption

------------------------------------------------------------------------------

\* The invariant holds before the writer thread has started.
LEMMA InitIInv == TxInit => IInv
<1> SUFFICES ASSUME TxInit PROVE IInv
  OBVIOUS
<1> USE DEF TxInit
<1>1. TxTypeOK
  <2>1. 0 \in 0 .. MaxPackets /\ sent \in Seq(0 .. MaxPackets)
    OBVIOUS
  <2>2. inner \in [Slots -> 0 .. MaxPackets] /\ core \in [Cores -> CorePc]
    BY <2>1 DEF CorePc
  <2>3. early \in BOOLEAN
    OBVIOUS
  <2> QED BY <2>1, <2>2, <2>3 DEF TxTypeOK, WriterPc
<1>2. FreshInv /\ CounterInv /\ ContentInv
  BY DEF FreshInv, CounterInv, CountersSane, ContentInv, Filled
<1>3. TokenInv
  <2>1. Owing = {}
    BY DEF Owing
  <2>2. Cardinality(Owing) = 0
    BY <2>1, FS_EmptySet
  <2> QED BY <2>2 DEF TokenInv, InHand
<1> QED
  BY <1>1, <1>2, <1>3 DEF IInv

\* Types are preserved; the slot filled or sent is always one of the ring.
LEMMA TypeStep == TxTypeOK /\ [TxNext]_txVars => TxTypeOK'
<1> SUFFICES ASSUME TxTypeOK, [TxNext]_txVars
             PROVE  TxTypeOK'
  OBVIOUS
<1> USE DEF TxTypeOK, WriterPc, CorePc, guest, ring
<1>0. read % Size \in Slots /\ written % Size \in Slots
  BY SlotInRing DEF Slots
<1>1. CASE WriterInit      BY <1>1 DEF WriterInit
<1>2. CASE WriterClear
  <2>1. 0 \in 0 .. MaxPackets
    OBVIOUS
  <2>2. inner' \in [Slots -> 0 .. MaxPackets]
    BY <1>2, <2>1 DEF WriterClear
  <2> QED BY <1>2, <2>2 DEF WriterClear
<1>3. CASE WriterRecv      BY <1>3 DEF WriterRecv
<1>4. CASE WriterLoad      BY <1>4 DEF WriterLoad
<1>5. CASE WriterSend
  <2>1. inner[read % Size] \in 0 .. MaxPackets
    BY <1>0
  <2> QED BY <1>5, <2>1 DEF WriterSend
<1>6. CASE WriterSendFails BY <1>6 DEF WriterSendFails
<1>7. CASE WriterBump      BY <1>7 DEF WriterBump
<1>8. ASSUME NEW c \in Cores, GuestFill(c)
      PROVE  TxTypeOK'
  BY <1>0, <1>8 DEF GuestFill
<1>9. ASSUME NEW c \in Cores, GuestPublish(c)
      PROVE  TxTypeOK'
  BY <1>9 DEF GuestPublish
<1>10. ASSUME NEW c \in Cores, NetWrite(c)
       PROVE  TxTypeOK'
  BY <1>10 DEF NetWrite
<1>11. CASE UNCHANGED txVars BY <1>11, SMTT(30) DEF txVars
<1> QED
  BY <1>1, <1>2, <1>3, <1>4, <1>5, <1>6, <1>7, <1>8, <1>9, <1>10, <1>11, ZenonT(30)
     DEF TxNext, WriterStep, GuestStep

\* The counters stay a ring apart: init() only lowers written while read is
\* zero, the driver fills a slot only while one is free, and the writer sends
\* only what it has seen published.
LEMMA CounterStep == IInv /\ [TxNext]_txVars => FreshInv' /\ CounterInv'
<1> SUFFICES ASSUME IInv, [TxNext]_txVars
             PROVE  FreshInv' /\ CounterInv'
  OBVIOUS
<1> USE DEF IInv, TxTypeOK, FreshInv, CounterInv, CountersSane, Filled, guest, ring
<1>1. CASE WriterInit      BY <1>1 DEF WriterInit
<1>2. CASE WriterClear     BY <1>2 DEF WriterClear
<1>3. CASE WriterRecv      BY <1>3 DEF WriterRecv
<1>4. CASE WriterLoad      BY <1>4 DEF WriterLoad
<1>5. CASE WriterSend      BY <1>5 DEF WriterSend
<1>6. CASE WriterSendFails BY <1>6 DEF WriterSendFails
<1>7. CASE WriterBump      BY <1>7 DEF WriterBump
<1>8. ASSUME NEW c \in Cores, GuestFill(c)
      PROVE  FreshInv' /\ CounterInv'
  <2>1. FreshInv'
    BY <1>8 DEF GuestFill
  <2>2. \A d \in Cores : Filled(d)' => d = c
    BY <1>8 DEF GuestFill
  <2> QED BY <1>8, <2>1, <2>2 DEF GuestFill
<1>9. ASSUME NEW c \in Cores, GuestPublish(c)
      PROVE  FreshInv' /\ CounterInv'
  <2>1. FreshInv'
    BY <1>9 DEF GuestPublish
  <2>2. \A d \in Cores : ~ Filled(d)'
    BY <1>9 DEF GuestPublish
  <2>3. written <= holder /\ holder - read < Size
    BY <1>9 DEF GuestPublish
  <2> QED BY <1>9, <2>1, <2>2, <2>3 DEF GuestPublish
<1>10. ASSUME NEW c \in Cores, NetWrite(c)
       PROVE  FreshInv' /\ CounterInv'
  <2>1. \A d \in Cores : Filled(d)' => Filled(d)
    BY <1>10 DEF NetWrite
  <2>2. FreshInv'
    BY <1>10 DEF NetWrite
  <2> QED BY <1>10, <2>1, <2>2 DEF NetWrite
<1>11. CASE UNCHANGED txVars BY <1>11 DEF txVars
<1> QED
  BY <1>1, <1>2, <1>3, <1>4, <1>5, <1>6, <1>7, <1>8, <1>9, <1>10, <1>11, ZenonT(30)
     DEF TxNext, WriterStep, GuestStep

\* Every packet comes with one token and every token takes one packet away.
LEMMA TokenStep == IInv /\ [TxNext]_txVars => TokenInv'
<1> SUFFICES ASSUME IInv, [TxNext]_txVars, ~ early, writer' # "dead"
             PROVE  written' - read' = chan' + Cardinality(Owing)' + InHand'
  BY DEF TokenInv, TxNext, WriterStep, GuestStep, WriterInit, WriterClear, WriterRecv,
         WriterLoad, WriterSend, WriterSendFails, WriterBump, GuestFill, GuestPublish,
         NetWrite, guest, txVars
<1> USE DEF InHand, guest, ring
<1>1. /\ IsFiniteSet(Owing) /\ Cardinality(Owing) \in Nat
      /\ read \in Nat /\ written \in Nat /\ chan \in 0 .. 1
      /\ core \in [Cores -> CorePc]
  <2>1. IsFiniteSet(Owing)
    BY FS_Subset DEF Owing
  <2> QED BY <2>1, FS_CardinalityType DEF IInv, TxTypeOK
<1>2. ~ early' /\ (writer # "dead" => written - read = chan + Cardinality(Owing) + InHand)
  BY DEF IInv, TokenInv, TxNext, WriterStep, GuestStep, WriterInit, WriterClear,
         WriterRecv, WriterLoad, WriterSend, WriterSendFails, WriterBump, GuestFill,
         GuestPublish, NetWrite, txVars
<1>3. ASSUME core' = core
      PROVE  Owing' = Owing
  BY <1>3 DEF Owing
<1>4. CASE WriterInit
  BY <1>1, <1>2, <1>3, <1>4 DEF WriterInit, IInv, FreshInv
<1>5. CASE WriterClear
  BY <1>1, <1>2, <1>3, <1>5 DEF WriterClear
<1>6. CASE WriterRecv
  BY <1>1, <1>2, <1>3, <1>6 DEF WriterRecv
<1>7. CASE WriterLoad
  BY <1>1, <1>2, <1>3, <1>7 DEF WriterLoad
<1>8. CASE WriterSend \/ WriterSendFails
  BY <1>1, <1>2, <1>3, <1>8 DEF WriterSend, WriterSendFails
<1>9. CASE WriterBump
  BY <1>1, <1>2, <1>3, <1>9 DEF WriterBump
<1>10. ASSUME NEW c \in Cores, GuestFill(c)
       PROVE  written' - read' = chan' + Cardinality(Owing)' + InHand'
  <2>1. Owing' = Owing
    BY <1>1, <1>10 DEF GuestFill, Owing
  <2> QED BY <1>1, <1>2, <1>10, <2>1 DEF GuestFill
<1>11. ASSUME NEW c \in Cores, GuestPublish(c)
       PROVE  written' - read' = chan' + Cardinality(Owing)' + InHand'
  <2>1. Owing' = Owing \cup {c} /\ c \notin Owing
    BY <1>1, <1>11 DEF GuestPublish, Owing
  <2>2. Cardinality(Owing') = Cardinality(Owing) + 1
    BY <1>1, <2>1, FS_AddElement, Zenon
  <2>3. written' = written + 1
    BY <1>11 DEF GuestPublish, IInv, ContentInv, Filled
  <2> QED BY <1>1, <1>2, <1>11, <2>2, <2>3 DEF GuestPublish
<1>12. ASSUME NEW c \in Cores, NetWrite(c)
       PROVE  written' - read' = chan' + Cardinality(Owing)' + InHand'
  <2>1. chan' = chan + 1 /\ core' = [core EXCEPT ![c] = "idle"] /\ core[c] = "notify"
    BY <1>12 DEF NetWrite
  <2>2. Owing' = Owing \ {c} /\ c \in Owing
    BY <1>1, <2>1 DEF Owing
  <2>3. Cardinality(Owing') = Cardinality(Owing) - 1
    BY <1>1, <2>2, FS_RemoveElement, ZenonT(30)
  <2> QED BY <1>1, <1>2, <1>12, <2>1, <2>3 DEF NetWrite
<1>13. CASE UNCHANGED txVars
  BY <1>1, <1>2, <1>3, <1>13, SMTT(30) DEF txVars
<1> QED
  BY <1>4, <1>5, <1>6, <1>7, <1>8, <1>9, <1>10, <1>11, <1>12, <1>13, SMTT(30)
     DEF TxNext, WriterStep, GuestStep

\* A packet stays in its slot until the writer has sent it: the driver fills a
\* slot different from every slot that holds a packet.
LEMMA ContentStep == IInv /\ [TxNext]_txVars => ContentInv'
<1> SUFFICES ASSUME IInv, [TxNext]_txVars, ~ early'
             PROVE  ContentInv'
  BY DEF ContentInv
<1>0. ~ early
  BY DEF TxNext, WriterStep, GuestStep, WriterInit, WriterClear, WriterRecv, WriterLoad,
         WriterSend, WriterSendFails, WriterBump, GuestFill, GuestPublish, NetWrite,
         guest, txVars
<1> USE DEF IInv, TxTypeOK, ContentInv, Filled, guest, ring
<1>1. CASE WriterInit      BY <1>0, <1>1 DEF WriterInit, FreshInv
<1>2. CASE WriterClear     BY <1>0, <1>2 DEF WriterClear, FreshInv
<1>3. CASE WriterRecv      BY <1>0, <1>3 DEF WriterRecv
<1>4. CASE WriterLoad      BY <1>0, <1>4 DEF WriterLoad
<1>5. CASE WriterSend      BY <1>0, <1>5 DEF WriterSend
<1>6. CASE WriterSendFails BY <1>0, <1>6 DEF WriterSendFails
<1>7. CASE WriterBump
  <2>1. \A k \in Nat : read + 1 <= k => read <= k
    OBVIOUS
  <2>2. \A k \in Nat : read + 1 <= k /\ k < written => inner[k % Size] = k + 1
    BY <1>0, <2>1, Zenon
  <2> QED BY <1>0, <1>7, <2>2 DEF WriterBump
<1>8. ASSUME NEW c \in Cores, GuestFill(c)
      PROVE  ContentInv'
  <2>1. written % Size \in Slots
    BY SlotInRing, Zenon DEF Slots
  <2>2. numbered = written
    BY <1>0, <1>8 DEF GuestFill
  <2>3. inner'[written % Size] = written + 1
    BY <1>8, <2>1, <2>2 DEF GuestFill
  <2>4. ASSUME NEW k \in Nat, read <= k, k < written
        PROVE  inner'[k % Size] = k + 1
    <3>1. written - k < Size
      BY <1>8, <2>4 DEF GuestFill
    <3>2. k % Size # written % Size
      BY <2>4, <3>1, SlotsDiffer, Zenon
    <3>3. k % Size \in Slots
      BY SlotInRing, Zenon DEF Slots
    <3> QED BY <1>0, <1>8, <2>4, <3>2, <3>3, Zenon DEF GuestFill
  <2>5. Filled(c)'
    BY <1>8 DEF GuestFill, CorePc
  <2> QED BY <1>8, <2>2, <2>3, <2>4, <2>5 DEF GuestFill
<1>9. ASSUME NEW c \in Cores, GuestPublish(c)
      PROVE  ContentInv'
  <2>1. /\ holder = written /\ numbered = written + 1
        /\ inner[written % Size] = written + 1
    BY <1>0, <1>9 DEF GuestPublish
  <2>2. \A d \in Cores : ~ Filled(d)'
    BY <1>9 DEF GuestPublish, CounterInv
  <2>3. \A k \in Nat : k < written + 1 => k < written \/ k = written
    OBVIOUS
  <2>4. \A k \in Nat : read <= k /\ k < written + 1 => inner[k % Size] = k + 1
    BY <1>0, <2>1, <2>3, Zenon
  <2> QED BY <1>9, <2>1, <2>2, <2>4 DEF GuestPublish
<1>10. ASSUME NEW c \in Cores, NetWrite(c)
       PROVE  ContentInv'
  <2>1. \A d \in Cores : Filled(d)' <=> Filled(d)
    BY <1>10 DEF NetWrite, CorePc
  <2> QED BY <1>0, <1>10, <2>1 DEF NetWrite
<1>11. CASE UNCHANGED txVars BY <1>0, <1>11 DEF txVars
<1> QED
  BY <1>1, <1>2, <1>3, <1>4, <1>5, <1>6, <1>7, <1>8, <1>9, <1>10, <1>11, SMTT(30)
     DEF TxNext, WriterStep, GuestStep

\* Hence it holds in every reachable state.
LEMMA Invariance == TxSpec => []IInv
<1>1. IInv /\ [TxNext]_txVars => IInv'
  BY TypeStep, CounterStep, TokenStep, ContentStep DEF IInv
<1> QED
  BY <1>1, InitIInv, PTL DEF TxSpec

------------------------------------------------------------------------------

\* Every variable of the transmit path keeps its type; the channel never
\* holds more than the one token sync_channel(1) has room for.
THEOREM TxTypeCorrect == TxSpec => []TxTypeOK
BY Invariance, PTL DEF IInv

\* written - read of the writer thread stays between 0 and the ring size,
\* whether or not the guest waits for init().
THEOREM TxCountersStaySane == TxSpec => []CountersSane
<1>1. IInv => CountersSane
  BY DEF IInv, CounterInv
<1> QED
  BY <1>1, Invariance, PTL

\* When no token is left anywhere, a guest that started after init() has no
\* packet in the ring.
THEOREM NoneStranded == TxSpec => []NothingStranded
<1>1. ASSUME IInv
      PROVE  NothingStranded
  <2> SUFFICES ASSUME ~ early, writer = "recv", chan = 0, Owing = {}
               PROVE  written = read
    BY DEF NothingStranded
  <2>1. Cardinality(Owing) = 0
    BY FS_EmptySet
  <2> QED BY <1>1, <2>1 DEF IInv, TxTypeOK, TokenInv, InHand
<1> QED
  BY <1>1, Invariance, PTL

------------------------------------------------------------------------------
(* The ring implements a FIFO *)

\* The counter value of the first packet the writer has not sent yet.
First == IF writer = "bump" THEN read + 1 ELSE read

\* The queue and the output of the abstract FIFO.
Queue == IF early THEN <<>> ELSE TxPending
Output == IF early THEN <<>> ELSE sent

\* In reachable states the queue is the run of packets First + 1 .. written.
LEMMA PendingIsWindow ==
    IInv /\ ~ early =>
        First \in Nat /\ First <= written /\ TxPending = Window(First, written)
<1> SUFFICES ASSUME IInv, ~ early
             PROVE  First \in Nat /\ First <= written /\ TxPending = Window(First, written)
  OBVIOUS
<1>1. /\ First \in Nat /\ First <= written
      /\ written \in Nat /\ read \in Nat /\ read <= First
  BY DEF IInv, TxTypeOK, CounterInv, CountersSane, First
<1>2. TxPending = [k \in 1 .. written - First |-> inner[(First + k - 1) % Size]]
  BY DEF TxPending, First
<1>3. ASSUME NEW k \in 1 .. written - First
      PROVE  inner[(First + k - 1) % Size] = First + k
  <2> DEFINE m == First + k - 1
  <2>1. m \in Nat /\ read <= m /\ m < written /\ m + 1 = First + k
    BY <1>1
  <2> HIDE DEF m
  <2>2. inner[m % Size] = m + 1
    BY <2>1 DEF IInv, ContentInv
  <2> QED BY <2>1, <2>2 DEF m
<1> QED
  BY <1>1, <1>2, <1>3, SMTT(30) DEF Window

\* Publishing a packet puts it into the queue, sending one takes it out, and
\* every other step leaves the queue alone.
LEMMA FifoStep ==
    IInv /\ IInv' /\ [TxNext]_txVars => [TxFifo!Next]_<<Queue, Output>>
<1> SUFFICES ASSUME IInv, IInv', [TxNext]_txVars
             PROVE  [TxFifo!Next]_<<Queue, Output>>
  OBVIOUS
<1> USE DEF guest, ring
<1>0. early' = early
  BY DEF TxNext, WriterStep, GuestStep, WriterInit, WriterClear, WriterRecv, WriterLoad,
         WriterSend, WriterSendFails, WriterBump, GuestFill, GuestPublish, NetWrite, txVars
<1>1. CASE early
  BY <1>0, <1>1 DEF Queue, Output
<1>2. CASE ~ early
  <2>1. First \in Nat /\ First <= written /\ TxPending = Window(First, written)
    BY <1>2, PendingIsWindow
  <2>2. TxPending' = Window(First', written')
    <3>1. (IInv /\ ~ early =>
            First \in Nat /\ First <= written /\ TxPending = Window(First, written))'
      BY PendingIsWindow, PTL
    <3> QED BY <1>0, <1>2, <3>1 DEF Window
  <2>3. written \in Nat /\ read \in Nat
    BY DEF IInv, TxTypeOK
  <2>4. /\ Queue = TxPending /\ Queue' = TxPending'
        /\ Output = sent /\ Output' = sent'
    BY <1>0, <1>2 DEF Queue, Output
  <2>5. ASSUME NEW c \in Cores, GuestPublish(c)
        PROVE  TxFifo!Next
    <3>0. /\ holder = written /\ numbered = written + 1
          /\ holder - read < Size
      BY <1>2, <2>5 DEF GuestPublish, IInv, ContentInv, CounterInv, Filled
    <3>1. First' = First /\ written' = written + 1 /\ sent' = sent
      BY <2>5, <3>0 DEF GuestPublish, First
    <3>2. TxPending' = Append(TxPending, written + 1)
      BY <2>1, <2>2, <2>3, <3>1, WindowAppend, Zenon
    <3>3. Len(TxPending) < Size
      <4>1. Len(TxPending) = written - First
        BY <2>1, <2>3, WindowSeq, Zenon
      <4>2. written - First < Size
        BY <2>3, <3>0 DEF First
      <4> QED BY <4>1, <4>2
    <3>4. written + 1 \in 1 .. MaxPackets
      BY <2>3, <3>0 DEF IInv, TxTypeOK
    <3> QED
      BY <2>4, <3>1, <3>2, <3>3, <3>4, SMTT(30) DEF TxFifo!Next, TxFifo!Put, Queue, Output
  <2>6. CASE WriterSend
    <3>1. First = read /\ First' = First + 1 /\ written' = written /\ First < written
      BY <2>3, <2>6 DEF WriterSend, First, IInv, CounterInv
    <3>2. sent' = Append(sent, First + 1)
      <4>1. inner[read % Size] = read + 1
        BY <1>2, <2>3, <3>1, SMTT(30) DEF IInv, ContentInv
      <4> QED BY <2>6, <3>1, <4>1 DEF WriterSend
    <3>3. /\ TxPending # <<>> /\ Head(TxPending) = First + 1
          /\ Tail(TxPending) = Window(First + 1, written)
      BY <2>1, <2>3, <3>1, WindowTail
    <3> QED
      BY <2>2, <2>4, <3>1, <3>2, <3>3, Zenon DEF TxFifo!Next, TxFifo!Get, Queue, Output
  <2>7. CASE First' = First /\ written' = written /\ sent' = sent
    BY <2>1, <2>2, <2>4, <2>7
  <2>8. CASE WriterInit
    BY <1>2, <2>7, <2>8 DEF WriterInit, First, IInv, FreshInv
  <2>9. CASE WriterClear \/ WriterRecv \/ WriterLoad \/ WriterSendFails
    BY <2>7, <2>9 DEF WriterClear, WriterRecv, WriterLoad, WriterSendFails, First
  <2>10. CASE WriterBump
    BY <2>3, <2>7, <2>10 DEF WriterBump, First
  <2>11. ASSUME NEW c \in Cores, GuestFill(c) \/ NetWrite(c)
         PROVE  UNCHANGED <<Queue, Output>>
    BY <2>1, <2>2, <2>4, <2>11 DEF GuestFill, NetWrite, First
  <2>12. CASE UNCHANGED txVars
    BY <2>7, <2>12 DEF txVars, First
  <2> QED
    BY <2>5, <2>6, <2>8, <2>9, <2>10, <2>11, <2>12, SMTT(30) DEF TxNext, WriterStep, GuestStep
<1> QED
  BY <1>1, <1>2

\* The transmit path implements the abstract FIFO of NetFifo.
THEOREM TxImplementsFifo == TxSpec => TxIsFifo
<1>1. TxInit => TxFifo!Init
  <2> SUFFICES ASSUME TxInit PROVE TxPending = <<>> /\ sent = <<>>
    BY DEF TxFifo!Init
  <2> QED BY DEF TxInit, TxPending
<1>2. IInv /\ IInv' /\ [TxNext]_txVars =>
        [TxFifo!Next]_<<IF early THEN <<>> ELSE TxPending, IF early THEN <<>> ELSE sent>>
  BY FifoStep DEF Queue, Output
<1> QED
  BY <1>1, <1>2, Invariance, PTL DEF TxSpec, TxIsFifo, TxFifo!Spec

------------------------------------------------------------------------------
(* The receive ring, under the same names: NetRx *)

\* Before SharedQueue::init has run, nobody has touched the ring.
RxFreshInv ==
    reader = "init" =>
        read = 0 /\ written = 0 /\ irq = FALSE /\ driver = "idle" /\ arrived = 0 /\ got = <<>>

\* The reader writes a slot only while one is free, the guest reads one only
\* while one is filled.
RxCounterInv ==
    /\ CountersSane
    /\ reader \in {"recv", "publish"} => written - read < Size
    /\ driver \in {"copy", "consume"} => read < written
    /\ arrived = IF reader = "publish" THEN written + 1 ELSE written

\* The slots between read and written hold the frames in order.
RxContentInv ==
    /\ \A k \in Nat : read <= k /\ k < written => inner[k % Size] = k + 1
    /\ reader = "publish" => inner[written % Size] = written + 1
    /\ Len(got) = IF driver = "consume" THEN read + 1 ELSE read
    /\ InOrder

RxIInv == RxTypeOK /\ RxFreshInv /\ RxCounterInv /\ RxContentInv /\ NoLostWakeup

------------------------------------------------------------------------------

\* The invariant holds before the reader thread has started.
LEMMA RxInitIInv == RxInit => RxIInv
<1> SUFFICES ASSUME RxInit PROVE RxIInv
  OBVIOUS
<1> USE DEF RxInit
<1>1. RxTypeOK
  <2>1. irq \in BOOLEAN
    BY Zenon
  <2>2. 0 \in 0 .. MaxPackets
    OBVIOUS
  <2>3. inner \in [Slots -> 0 .. MaxPackets]
    BY <2>2
  <2>4. got \in Seq(0 .. MaxPackets)
    OBVIOUS
  <2> QED BY <2>1, <2>2, <2>3, <2>4 DEF RxTypeOK, ReaderPc, DriverPc
<1>2. RxFreshInv /\ RxCounterInv /\ NoLostWakeup
  BY DEF RxFreshInv, RxCounterInv, CountersSane, NoLostWakeup
<1>3. RxContentInv
  BY SMTT(30) DEF RxContentInv, InOrder
<1> QED
  BY <1>1, <1>2, <1>3 DEF RxIInv

\* Types are preserved; the slot written or read is always one of the ring.
LEMMA RxTypeStep == RxTypeOK /\ [RxNext]_rxVars => RxTypeOK'
<1> SUFFICES ASSUME RxTypeOK, [RxNext]_rxVars
             PROVE  RxTypeOK'
  OBVIOUS
<1> USE DEF RxTypeOK, ReaderPc, DriverPc
<1>0. read % Size \in Slots /\ written % Size \in Slots
  BY SlotInRing DEF Slots
<1>1. CASE ReaderInit      BY <1>1 DEF ReaderInit
<1>2. CASE ReaderLoad      BY <1>2 DEF ReaderLoad
<1>3. CASE ReaderRecv      BY <1>3, <1>0 DEF ReaderRecv
<1>4. CASE ReaderRecvFails BY <1>4 DEF ReaderRecvFails
<1>5. CASE ReaderPublish   BY <1>5 DEF ReaderPublish
<1>6. CASE ReaderIrq \/ ReaderIrqFails
  BY <1>6 DEF ReaderIrq, ReaderIrqFails
<1>7. CASE TakeIrq         BY <1>7, Zenon DEF TakeIrq
<1>8. CASE DriverCheck     BY <1>8 DEF DriverCheck
<1>9. CASE DriverCopy
  <2>1. inner[read % Size] \in 0 .. MaxPackets
    BY <1>0
  <2> QED BY <1>9, <2>1 DEF DriverCopy
<1>10. CASE DriverConsume  BY <1>10 DEF DriverConsume
<1>11. CASE UNCHANGED rxVars BY <1>11 DEF rxVars
<1> QED
  BY <1>1, <1>2, <1>3, <1>4, <1>5, <1>6, <1>7, <1>8, <1>9, <1>10, <1>11, SMTT(30)
     DEF RxNext, ReaderStep, DriverStep

\* The counters, the guards of the two threads and the interrupt.
LEMMA RxCounterStep ==
    RxIInv /\ [RxNext]_rxVars => RxFreshInv' /\ RxCounterInv' /\ NoLostWakeup'
<1> SUFFICES ASSUME RxIInv, [RxNext]_rxVars
             PROVE  RxFreshInv' /\ RxCounterInv' /\ NoLostWakeup'
  OBVIOUS
<1> USE DEF RxIInv, RxTypeOK, RxFreshInv, RxCounterInv, CountersSane, NoLostWakeup
<1>1. CASE ReaderInit      BY <1>1 DEF ReaderInit
<1>2. CASE ReaderLoad      BY <1>2 DEF ReaderLoad
<1>3. CASE ReaderRecv      BY <1>3 DEF ReaderRecv
<1>4. CASE ReaderRecvFails BY <1>4 DEF ReaderRecvFails
<1>5. CASE ReaderPublish   BY <1>5 DEF ReaderPublish
<1>6. CASE ReaderIrq \/ ReaderIrqFails
  BY <1>6 DEF ReaderIrq, ReaderIrqFails
<1>7. CASE TakeIrq         BY <1>7 DEF TakeIrq
<1>8. CASE DriverCheck     BY <1>8 DEF DriverCheck
<1>9. CASE DriverCopy      BY <1>9 DEF DriverCopy
<1>10. CASE DriverConsume  BY <1>10 DEF DriverConsume
<1>11. CASE UNCHANGED rxVars BY <1>11, SMTT(30) DEF rxVars
<1> QED
  BY <1>1, <1>2, <1>3, <1>4, <1>5, <1>6, <1>7, <1>8, <1>9, <1>10, <1>11, Zenon
     DEF RxNext, ReaderStep, DriverStep

\* A frame stays in its slot until the guest has taken it: the reader fills
\* a slot different from every slot that holds a frame.
LEMMA RxContentStep == RxIInv /\ [RxNext]_rxVars => RxContentInv'
<1> SUFFICES ASSUME RxIInv, [RxNext]_rxVars
             PROVE  RxContentInv'
  OBVIOUS
<1> USE DEF RxIInv, RxTypeOK, RxContentInv, InOrder
<1>1. CASE ReaderInit      BY <1>1 DEF ReaderInit, RxFreshInv
<1>2. CASE ReaderLoad      BY <1>2 DEF ReaderLoad
<1>3. CASE ReaderRecv
  <2>1. written % Size \in Slots
    BY SlotInRing, Zenon DEF Slots
  <2>2. inner'[written % Size] = written + 1
    BY <1>3, <2>1 DEF ReaderRecv, RxCounterInv
  <2>3. ASSUME NEW k \in Nat, read <= k, k < written
        PROVE  inner'[k % Size] = k + 1
    <3>1. written - k < Size
      BY <1>3, <2>3 DEF ReaderRecv, RxCounterInv
    <3>2. k % Size # written % Size
      BY <2>3, <3>1, SlotsDiffer, Zenon
    <3>3. k % Size \in Slots
      BY SlotInRing, Zenon DEF Slots
    <3> QED BY <1>3, <2>3, <3>2, <3>3, Zenon DEF ReaderRecv
  <2> QED BY <1>3, <2>2, <2>3 DEF ReaderRecv
<1>4. CASE ReaderRecvFails BY <1>4 DEF ReaderRecvFails
<1>5. CASE ReaderPublish
  <2>1. \A k \in Nat : k < written + 1 => k < written \/ k = written
    OBVIOUS
  <2>2. \A k \in Nat : read <= k /\ k < written + 1 => inner[k % Size] = k + 1
    BY <1>5, <2>1, Zenon DEF ReaderPublish
  <2> QED BY <1>5, <2>2 DEF ReaderPublish
<1>6. CASE ReaderIrq \/ ReaderIrqFails
  BY <1>6 DEF ReaderIrq, ReaderIrqFails
<1>7. CASE TakeIrq         BY <1>7 DEF TakeIrq
<1>8. CASE DriverCheck     BY <1>8 DEF DriverCheck
<1>9. CASE DriverCopy
  <2>1. inner[read % Size] = read + 1 /\ Len(got) = read
    BY <1>9 DEF DriverCopy, RxCounterInv
  <2> QED BY <1>9, <2>1 DEF DriverCopy
<1>10. CASE DriverConsume
  <2>1. \A k \in Nat : read + 1 <= k => read <= k
    OBVIOUS
  <2>2. \A k \in Nat : read + 1 <= k /\ k < written => inner[k % Size] = k + 1
    BY <2>1, Zenon
  <2> QED BY <1>10, <2>2 DEF DriverConsume
<1>11. CASE UNCHANGED rxVars BY <1>11 DEF rxVars
<1> QED
  BY <1>1, <1>2, <1>3, <1>4, <1>5, <1>6, <1>7, <1>8, <1>9, <1>10, <1>11, SMTT(30)
     DEF RxNext, ReaderStep, DriverStep

\* Hence it holds in every reachable state.
LEMMA RxInvariance == RxSpec => []RxIInv
<1>1. RxIInv /\ [RxNext]_rxVars => RxIInv'
  BY RxTypeStep, RxCounterStep, RxContentStep DEF RxIInv
<1> QED
  BY <1>1, RxInitIInv, PTL DEF RxSpec

------------------------------------------------------------------------------

\* Every variable of the receive path keeps its type.
THEOREM RxTypeCorrect == RxSpec => []RxTypeOK
BY RxInvariance, PTL DEF RxIInv

\* written - read of the reader thread stays between 0 and the ring size.
THEOREM RxCountersStaySane == RxSpec => []CountersSane
<1>1. RxIInv => CountersSane
  BY DEF RxIInv, RxCounterInv
<1> QED
  BY <1>1, RxInvariance, PTL

\* The reader thread and the guest never work on the same slot.
THEOREM SlotsAreNotShared == RxSpec => []NoSlotRace
<1>1. ASSUME RxIInv
      PROVE  NoSlotRace
  <2> SUFFICES ASSUME reader \in {"recv", "publish"}, driver \in {"copy", "consume"}
               PROVE  written % Size # read % Size
    BY DEF NoSlotRace
  <2>1. /\ read \in Nat /\ written \in Nat
        /\ read < written /\ written - read < Size
    BY <1>1 DEF RxIInv, RxTypeOK, RxCounterInv
  <2> QED BY <2>1, SlotsDiffer, Zenon
<1> QED
  BY <1>1, RxInvariance, PTL

\* The guest never sleeps on a filled ring without an interrupt on its way.
THEOREM WakeupsAreNotLost == RxSpec => []NoLostWakeup
BY RxInvariance, PTL DEF RxIInv

\* The guest receives the frames in the order of arrival, each once.
THEOREM ReceivedInOrder == RxSpec => []InOrder
<1>1. RxIInv => InOrder
  BY DEF RxIInv, RxContentInv
<1> QED
  BY <1>1, RxInvariance, PTL

------------------------------------------------------------------------------
(* The ring implements a FIFO *)

\* The counter value of the first frame the guest has not copied yet.
RxFirst == IF driver = "consume" THEN read + 1 ELSE read

\* In reachable states the queue is the run of frames First + 1 .. written.
LEMMA RxPendingIsWindow ==
    RxIInv => RxFirst \in Nat /\ RxFirst <= written /\ RxPending = Window(RxFirst, written)
<1> SUFFICES ASSUME RxIInv
             PROVE  RxFirst \in Nat /\ RxFirst <= written /\ RxPending = Window(RxFirst, written)
  OBVIOUS
<1>1. /\ RxFirst \in Nat /\ RxFirst <= written
      /\ written \in Nat /\ read \in Nat /\ read <= RxFirst
  BY DEF RxIInv, RxTypeOK, RxCounterInv, CountersSane, RxFirst
<1>2. RxPending = [k \in 1 .. written - RxFirst |-> inner[(RxFirst + k - 1) % Size]]
  BY DEF RxPending, RxFirst
<1>3. ASSUME NEW k \in 1 .. written - RxFirst
      PROVE  inner[(RxFirst + k - 1) % Size] = RxFirst + k
  <2> DEFINE m == RxFirst + k - 1
  <2>1. m \in Nat /\ read <= m /\ m < written /\ m + 1 = RxFirst + k
    BY <1>1
  <2> HIDE DEF m
  <2>2. inner[m % Size] = m + 1
    BY <2>1 DEF RxIInv, RxContentInv
  <2> QED BY <2>1, <2>2 DEF m
<1>4. [k \in 1 .. written - RxFirst |-> inner[(RxFirst + k - 1) % Size]]
        = [k \in 1 .. written - RxFirst |-> RxFirst + k]
  BY <1>3, Zenon
<1> QED
  BY <1>1, <1>2, <1>4, Zenon DEF Window

\* Publishing a frame puts it into the queue, copying one takes it out, and
\* every other step leaves the queue alone.
LEMMA RxFifoStep ==
    RxIInv /\ RxIInv' /\ [RxNext]_rxVars => [RxFifo!Next]_<<RxPending, got>>
<1> SUFFICES ASSUME RxIInv, RxIInv', [RxNext]_rxVars
             PROVE  [RxFifo!Next]_<<RxPending, got>>
  OBVIOUS
<1>1. RxFirst \in Nat /\ RxFirst <= written /\ RxPending = Window(RxFirst, written)
  BY RxPendingIsWindow
<1>2. RxPending' = Window(RxFirst', written')
  <2>1. (RxFirst \in Nat /\ RxFirst <= written /\ RxPending = Window(RxFirst, written))'
    BY RxPendingIsWindow, PTL
  <2> QED BY <2>1 DEF Window
<1>3. written \in Nat /\ read \in Nat
  BY DEF RxIInv, RxTypeOK
<1>4. CASE ReaderPublish
  <2>1. RxFirst' = RxFirst /\ written' = written + 1 /\ got' = got
    BY <1>4 DEF ReaderPublish, RxFirst
  <2>2. RxPending' = Append(RxPending, written + 1)
    BY <1>1, <1>2, <1>3, <2>1, WindowAppend
  <2>3. Len(RxPending) < Size
    <3>1. Len(RxPending) = written - RxFirst
      BY <1>1, <1>3, WindowSeq, Zenon
    <3>2. written - RxFirst < Size
      BY <1>3, <1>4 DEF ReaderPublish, RxIInv, RxCounterInv, RxFirst
    <3> QED BY <3>1, <3>2
  <2>4. written + 1 \in 1 .. MaxPackets
    BY <1>3, <1>4 DEF ReaderPublish, RxIInv, RxTypeOK, RxCounterInv
  <2> QED BY <2>1, <2>2, <2>3, <2>4 DEF RxFifo!Next, RxFifo!Put
<1>5. CASE DriverCopy
  <2>1. RxFirst = read /\ RxFirst' = RxFirst + 1 /\ written' = written /\ RxFirst < written
    BY <1>3, <1>5 DEF DriverCopy, RxFirst, RxIInv, RxCounterInv
  <2>2. got' = Append(got, RxFirst + 1)
    BY <1>3, <1>5, <2>1 DEF DriverCopy, RxIInv, RxContentInv
  <2>3. /\ RxPending # <<>> /\ Head(RxPending) = RxFirst + 1
        /\ Tail(RxPending) = Window(RxFirst + 1, written)
    BY <1>1, <1>3, <2>1, WindowTail
  <2> QED BY <1>2, <2>1, <2>2, <2>3 DEF RxFifo!Next, RxFifo!Get
<1>6. CASE RxFirst' = RxFirst /\ written' = written /\ got' = got
  BY <1>1, <1>2, <1>6
<1>7. CASE ReaderInit
  BY <1>6, <1>7 DEF ReaderInit, RxFirst, RxIInv, RxFreshInv
<1>8. CASE ReaderLoad \/ ReaderRecv \/ ReaderRecvFails \/ ReaderIrq \/ ReaderIrqFails
  BY <1>6, <1>8 DEF ReaderLoad, ReaderRecv, ReaderRecvFails, ReaderIrq, ReaderIrqFails, RxFirst
<1>9. CASE TakeIrq \/ DriverCheck
  BY <1>6, <1>9 DEF TakeIrq, DriverCheck, RxFirst
<1>10. CASE DriverConsume
  BY <1>3, <1>6, <1>10 DEF DriverConsume, RxFirst
<1>11. CASE UNCHANGED rxVars
  BY <1>6, <1>11 DEF rxVars, RxFirst
<1> QED
  BY <1>4, <1>5, <1>7, <1>8, <1>9, <1>10, <1>11, SMTT(30) DEF RxNext, ReaderStep, DriverStep

\* The receive path implements the abstract FIFO of NetFifo.
THEOREM RxImplementsFifo == RxSpec => RxIsFifo
<1>1. RxInit => RxFifo!Init
  <2> SUFFICES ASSUME RxInit PROVE RxPending = <<>> /\ got = <<>>
    BY DEF RxFifo!Init
  <2> QED BY DEF RxInit, RxPending
<1> QED
  BY <1>1, RxFifoStep, RxInvariance, PTL DEF RxSpec, RxIsFifo, RxFifo!Spec
==============================================================================
