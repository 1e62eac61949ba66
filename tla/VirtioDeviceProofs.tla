-------------------------- MODULE VirtioDeviceProofs --------------------------
(***************************************************************************)
(* What the virtio device keeps, for any number of vCPUs, any features and *)
(* any number of queues; and what its transmit queue does, for every size  *)
(* of the ring and any number of descriptors and resets.                   *)
(***************************************************************************)
EXTENDS VirtioDevice, SequenceTheorems, TLAPS

\* The statuses the handshake can reach.
Handshaken ==
    ~reckless => status \in {BROKEN, {}, ACK, DRIVER, FEATURES, LIVE, LIVE \cup BROKEN}

\* The inductive invariant: what is configured can be compared with the status only
\* because the handshake reaches just these statuses.
IInv ==
    /\ TypeOK
    /\ Handshaken
    /\ ConfigurationMatchesStatus

\* The device as created by VirtioNetPciDevice::new satisfies the invariant.
LEMMA InitIInv == Init => IInv
<1> SUFFICES ASSUME Init PROVE IInv
  OBVIOUS
<1>1. "ACKNOWLEDGE" \in LIVE /\ "ACKNOWLEDGE" \notin BROKEN
  BY DEF LIVE, FEATURES, DRIVER, ACK, BROKEN
<1>2. TypeOK
  <2>1. status \in SUBSET Bits /\ requested_features \in SUBSET HOST_FEATURES
    BY DEF Init, Bits
  <2>2. 0 \in 0 .. MaxQueues - 1 /\ 0 \in 0 .. MaxQueues
    BY QueueAssumption
  <2> QED
    BY <2>1, <2>2, Zenon DEF Init, TypeOK
<1>3. Handshaken
  BY DEF Init, Handshaken
<1>4. ConfigurationMatchesStatus
  BY <1>1 DEF Init, ConfigurationMatchesStatus, read_link_status
<1> QED
  BY <1>2, <1>3, <1>4 DEF IInv

\* Every port access keeps the types.
LEMMA TypeStep == TypeOK /\ [Next]_vars => TypeOK'
<1> SUFFICES ASSUME TypeOK, [Next]_vars PROVE TypeOK'
  OBVIOUS
<1> USE FeatureAssumption, QueueAssumption
    DEF TypeOK, Locked, Bits, LIVE, FEATURES, DRIVER, ACK, BROKEN
<1>1. CASE UNCHANGED vars
  BY <1>1 DEF vars, device
<1>2. ASSUME NEW c \in Cpus, LockPanics(c) PROVE TypeOK'
  BY <1>2 DEF LockPanics, device
<1>3. ASSUME NEW c \in Cpus, Reset(c) PROVE TypeOK'
  <2>1. 0 \in 0 .. MaxQueues - 1 /\ 0 \in 0 .. MaxQueues
    OBVIOUS
  <2>2. (status \in SUBSET Bits /\ requested_features \in SUBSET HOST_FEATURES)'
    BY <1>3 DEF Reset
  <2>3. (selected_queue_num \in 0 .. MaxQueues - 1 /\ virt_queues \in 0 .. MaxQueues)'
    BY <1>3, <2>1 DEF Reset
  <2>4. (reckless \in BOOLEAN /\ checked \in BOOLEAN /\ iface \in BOOLEAN /\ poisoned \in BOOLEAN)'
    BY <1>3, Zenon DEF Reset
  <2>5. (cpu \in [Cpus -> {"running", "panicked"}])'
    BY <1>3 DEF Reset
  <2> QED
    BY <2>2, <2>3, <2>4, <2>5
<1>4. ASSUME NEW c \in Cpus, NEW byte \in {ACK, DRIVER, FEATURES}, Handshake(c, byte)
      PROVE TypeOK'
  BY <1>4 DEF Handshake
<1>5. ASSUME NEW c \in Cpus, NEW tap \in BOOLEAN, NEW mac \in BOOLEAN,
             write_status_ok(c, tap, mac)
      PROVE TypeOK'
  BY <1>5 DEF write_status_ok
<1>6. ASSUME NEW c \in Cpus, NEW wanted \in SUBSET Features,
             write_requested_features(c, wanted)
      PROVE TypeOK'
  BY <1>6 DEF write_requested_features
<1>7. ASSUME NEW c \in Cpus, NEW n \in 0 .. MaxQueues - 1, write_selected_queue(c, n)
      PROVE TypeOK'
  BY <1>7 DEF write_selected_queue
<1>8. ASSUME NEW c \in Cpus, write_pfn(c) PROVE TypeOK'
  BY <1>8 DEF write_pfn
<1>9. ASSUME NEW c \in Cpus, NEW packets \in BOOLEAN, send_available_packets(c, packets)
      PROVE TypeOK'
  BY <1>9 DEF send_available_packets
<1>10. ASSUME NEW c \in Cpus, NotifyPanics(c) PROVE TypeOK'
  BY <1>10 DEF NotifyPanics, Poison, device
<1>11. ASSUME NEW c \in Cpus, NEW byte \in SUBSET Bits, handle_write(c, byte)
       PROVE TypeOK'
  BY <1>11 DEF handle_write
<1>12. ASSUME NEW c \in Cpus, AccessPanics(c) PROVE TypeOK'
  BY <1>12 DEF AccessPanics, Poison, device
<1>13. ASSUME NEW c \in Cpus, NEW packets \in BOOLEAN, SendPanics(c, packets)
       PROVE TypeOK'
  BY <1>13 DEF SendPanics, Poison
<1> QED
  BY <1>1, <1>2, <1>3, <1>4, <1>5, <1>6, <1>7, <1>8, <1>9, <1>10, <1>11, <1>12, <1>13
  DEF Next, Access, Configure

\* Every port access keeps the invariant.
LEMMA IInvStep == IInv /\ [Next]_vars => IInv'
<1> SUFFICES ASSUME IInv, [Next]_vars
             PROVE (Handshaken /\ ConfigurationMatchesStatus)'
  BY TypeStep DEF IInv
<1> DEFINE Goal == (Handshaken /\ ConfigurationMatchesStatus)'
<1> USE QueueAssumption
    DEF IInv, TypeOK, Handshaken, ConfigurationMatchesStatus,
        read_link_status, Locked, TX_QUEUE, Bits, LIVE, FEATURES, DRIVER, ACK, BROKEN
<1>1. CASE UNCHANGED vars
  BY <1>1 DEF vars, device
<1>2. ASSUME NEW c \in Cpus, LockPanics(c) PROVE Goal
  BY <1>2 DEF LockPanics, device
<1>3. ASSUME NEW c \in Cpus, Reset(c) PROVE Goal
  BY <1>3 DEF Reset
<1>4. ASSUME NEW c \in Cpus, NEW byte \in {ACK, DRIVER, FEATURES}, Handshake(c, byte)
      PROVE Goal
  BY <1>4 DEF Handshake
<1>5. ASSUME NEW c \in Cpus, NEW tap \in BOOLEAN, NEW mac \in BOOLEAN,
             write_status_ok(c, tap, mac)
      PROVE Goal
  BY <1>5 DEF write_status_ok
<1>6. ASSUME NEW c \in Cpus, NEW wanted \in SUBSET Features,
             write_requested_features(c, wanted)
      PROVE Goal
  BY <1>6 DEF write_requested_features
<1>7. ASSUME NEW c \in Cpus, NEW n \in 0 .. MaxQueues - 1, write_selected_queue(c, n)
      PROVE Goal
  BY <1>7 DEF write_selected_queue
<1>8. ASSUME NEW c \in Cpus, write_pfn(c) PROVE Goal
  BY <1>8 DEF write_pfn
<1>9. ASSUME NEW c \in Cpus, NEW packets \in BOOLEAN, send_available_packets(c, packets)
      PROVE Goal
  BY <1>9 DEF send_available_packets
<1>10. ASSUME NEW c \in Cpus, NotifyPanics(c) PROVE Goal
  BY <1>10 DEF NotifyPanics, Poison, device
<1>11. ASSUME NEW c \in Cpus, NEW byte \in SUBSET Bits, handle_write(c, byte)
       PROVE Goal
  BY <1>11 DEF handle_write
<1>12. ASSUME NEW c \in Cpus, AccessPanics(c) PROVE Goal
  BY <1>12 DEF AccessPanics, Poison, device
<1>13. ASSUME NEW c \in Cpus, NEW packets \in BOOLEAN, SendPanics(c, packets)
       PROVE Goal
  BY <1>13 DEF SendPanics, Poison
<1> HIDE DEF IInv, TypeOK, Handshaken, ConfigurationMatchesStatus, Locked,
             read_link_status, TX_QUEUE, Bits,
             LIVE, FEATURES, DRIVER, ACK, BROKEN
<1> QED
  BY <1>1, <1>2, <1>3, <1>4, <1>5, <1>6, <1>7, <1>8, <1>9, <1>10, <1>11, <1>12, <1>13
  DEF Next, Access, Configure

\* The types hold for every guest, whatever it writes where.
THEOREM TypeCorrect == Spec => []TypeOK
<1>1. Init => TypeOK
  BY InitIInv DEF IInv
<1> QED
  BY <1>1, TypeStep, PTL DEF Spec

\* The configuration of the device agrees with the status the guest reads.
THEOREM ConfigurationFollowsStatus ==
    Spec => []ConfigurationMatchesStatus
<1>1. IInv /\ [Next]_vars => IInv'
  BY IInvStep
<1>2. IInv => ConfigurationMatchesStatus
  BY DEF IInv
<1> QED
  BY InitIInv, <1>1, <1>2, PTL DEF Spec

\* A device that broke while it was live stays broken until it is reset.
THEOREM StaysBroken == Spec => BrokenUntilReset
<1> DEFINE Step == ~reckless /\ BROKEN \subseteq status /\ status # BROKEN
                   => BROKEN \subseteq status' \/ status' = {}
<1>1. IInv /\ [Next]_vars => IInv'
  BY IInvStep
<1>2. IInv /\ [Next]_vars => [Step]_vars
  BY DEF Next, Access, Configure, vars, device, LockPanics, Reset, Handshake, write_status_ok,
         write_requested_features, write_selected_queue, write_pfn, AccessPanics,
         send_available_packets, NotifyPanics, SendPanics, Poison, handle_write, Locked,
         IInv, Handshaken, LIVE, FEATURES, DRIVER, ACK, BROKEN
<1> QED
  BY InitIInv, <1>1, <1>2, PTL DEF Spec, BrokenUntilReset

-------------------------------------------------------------------------------
(* The transmit queue.  The history says how many descriptors were offered  *)
(* and reclaimed; how many the device has returned, u, is determined by the *)
(* index of the used ring, because the counts are less than Width apart.    *)

\* The 16-bit index and the slot of the ring that stand for a count.
Wrap(n) == n % Width
Slot(n) == n % queue_size

\* How many descriptors the device has collected, if it has returned u.
Seen(u) == u + Len(send_indices)

Alive == tx \in {"idle", "collect", "send"}

\* The driver has reclaimed no more than the device has returned, and that is
\* no more than it has collected, and that no more than was offered.
Counts(u) ==
    /\ Len(returned) <= u /\ Seen(u) <= Len(offered)
    /\ Len(offered) <= Len(returned) + queue_size

\* The indices are the counts, wrapped around.
Indices(u) ==
    /\ avail = Wrap(Len(offered)) /\ last_used = Wrap(Len(returned)) /\ used = Wrap(u)
    /\ Alive => last_seen_available = Wrap(Seen(u))

\* Descriptors are offered in the order of the ring, and are collected, put
\* into the used ring and reclaimed in that order.
InOrder(u) ==
    /\ \A k \in 1 .. Len(offered) : offered[k] = Slot(k - 1)
    /\ \A k \in 1 .. Len(returned) : returned[k] = Slot(k - 1)
    /\ \A k \in Len(returned) .. u - 1 : used_ring[Slot(k)] = Slot(k)
    /\ Alive => \A k \in 1 .. Len(send_indices) : send_indices[k] = Slot(u + k - 1)

\* What has been offered was collected, or will be, or a notification is owed.
Noticed(u) ==
    /\ tx = "collect" => \E l \in Seen(u) .. Len(offered) :
                            loaded = Wrap(l) /\ (kicks \/ l = Len(offered))
    /\ tx \in {"send", "idle"} => kicks \/ Seen(u) = Len(offered)

Linked(u) == Counts(u) /\ Indices(u) /\ InOrder(u) /\ Noticed(u)

RingTypeOK ==
    /\ offered \in Seq(queue!Descriptor) /\ returned \in Seq(queue!Descriptor)
    /\ send_indices \in Seq(queue!Descriptor)
    /\ used_ring \in [queue!Descriptor -> queue!Descriptor]
    /\ tx \in {"idle", "collect", "send", "panicked", "crashed"}
    /\ kicks \in BOOLEAN

\* Whoever works on the ring holds the mutex, a panic has poisoned it, and
\* without a queue there is nothing to work on.
GateInv ==
    /\ tx \in {"collect", "send"} => notifier # None
    /\ tx = "panicked" => poisoned
    /\ tx = "idle" => send_indices = <<>>
    /\ reckless \/ virt_queues <= TX_QUEUE =>
         tx = "idle" /\ offered = <<>> /\ returned = <<>>

RingInv == ~reckless /\ virt_queues > TX_QUEUE => \E u \in Nat : Linked(u)

-------------------------------------------------------------------------------

\* Adding one to a counter that wraps at w.
LEMMA WrapNext ==
    ASSUME NEW a \in Nat, NEW w \in Nat \ {0}
    PROVE  ((a % w) + 1) % w = (a + 1) % w
<1> DEFINE q == a \div w
           r == a % w
           p == (a + 1) \div w
           t == (a + 1) % w
<1>1. /\ q \in Int /\ r \in 0 .. w - 1 /\ a = w * q + r
      /\ p \in Int /\ t \in 0 .. w - 1 /\ a + 1 = w * p + t
  OBVIOUS
<1> HIDE DEF q, r, p, t
<1>2. w * (p - q) = r + 1 - t
  BY <1>1
<1>3. CASE r + 1 < w
  <2>1. (r + 1) % w = r + 1
    BY <1>1, <1>3
  <2>2. p - q < 1 /\ p - q > -1
    BY <1>1, <1>2, <1>3
  <2> QED BY <1>1, <1>2, <2>1, <2>2 DEF r, t
<1>4. CASE r + 1 = w
  <2>1. (r + 1) % w = 0
    BY <1>1, <1>4
  <2>2. p - q < 2 /\ p - q > 0
    BY <1>1, <1>2, <1>4
  <2> QED BY <1>1, <1>2, <1>4, <2>1, <2>2 DEF r, t
<1> QED BY <1>1, <1>3, <1>4

\* A counter that wraps at a multiple of n denotes the same slot.
LEMMA WrapSlot ==
    ASSUME NEW a \in Nat, NEW w \in Nat \ {0}, NEW n \in Nat \ {0}, w % n = 0
    PROVE  (a % w) % n = a % n
<1> DEFINE q == a \div w
           r == a % w
           m == w \div n
           p == r \div n
           t == r % n
           g == a \div n
           h == a % n
<1>1. /\ q \in Int /\ r \in Nat /\ a = w * q + r
      /\ m \in Int /\ w = n * m
      /\ p \in Int /\ t \in 0 .. n - 1 /\ r = n * p + t
      /\ g \in Int /\ h \in 0 .. n - 1 /\ a = n * g + h
  OBVIOUS
<1> HIDE DEF q, r, m, p, t, g, h
<1> DEFINE d == m * q + p - g
<1>2. d \in Int /\ n * d = h - t
  BY <1>1
<1> HIDE DEF d
<1>3. d < 1 /\ d > -1
  BY <1>1, <1>2
<1>4. h = t
  BY <1>1, <1>2, <1>3
<1> QED BY <1>4 DEF t, r, h

\* Counts less than n apart that are equal modulo n are equal.
LEMMA WrapInjective ==
    ASSUME NEW a \in Nat, NEW b \in Nat, NEW n \in Nat \ {0},
           a <= b, b - a < n, a % n = b % n
    PROVE  a = b
<1> DEFINE p == a \div n
           q == b \div n
           r == a % n
<1>1. p \in Int /\ q \in Int /\ r \in Int /\ a = n * p + r /\ b = n * q + r
  OBVIOUS
<1> HIDE DEF p, q, r
<1>2. b - a = n * (q - p)
  BY <1>1
<1>3. ~(q - p >= 1)
  <2> SUFFICES ASSUME q - p >= 1 PROVE FALSE
    OBVIOUS
  <2>1. n * (q - p) >= n
    BY <1>1
  <2> QED
    BY <1>2, <2>1
<1>4. ~(q - p <= -1)
  <2> SUFFICES ASSUME q - p <= -1 PROVE FALSE
    OBVIOUS
  <2>1. n * (q - p) <= -n
    BY <1>1
  <2> QED
    BY <1>2, <2>1
<1> QED
  BY <1>1, <1>3, <1>4

\* Wrapping an index does not change its slot, and counts that are at most the
\* ring apart are told apart by their indices.
LEMMA Wrapping ==
    ASSUME NEW n \in Nat
    PROVE  /\ Wrap(n) \in Nat /\ Slot(n) \in queue!Descriptor
           /\ (Wrap(n) + 1) % Width = Wrap(n + 1)
           /\ Wrap(n) % queue_size = Slot(n)
           /\ \A m \in Nat : n <= m /\ m <= n + queue_size /\ Wrap(n) = Wrap(m) => n = m
           /\ \A m \in Nat : n < m /\ m < n + queue_size => Slot(n) # Slot(m)
<1>0. Width \in Nat \ {0} /\ queue_size \in Nat \ {0}
  BY RingAssumption
<1>1. Wrap(n) \in Nat /\ Slot(n) \in queue!Descriptor
  BY <1>0 DEF Wrap, Slot, queue!Descriptor
<1>2. (Wrap(n) + 1) % Width = Wrap(n + 1)
  BY <1>0, WrapNext, Zenon DEF Wrap
<1>3. Wrap(n) % queue_size = Slot(n)
  BY <1>0, RingAssumption, WrapSlot, Zenon DEF Wrap, Slot
<1>4. ASSUME NEW m \in Nat, n <= m, m <= n + queue_size, Wrap(n) = Wrap(m), n # m
      PROVE  FALSE
  <2>1. m - n < Width
    BY <1>4, RingAssumption
  <2> QED BY <1>0, <1>4, <2>1, WrapInjective, Zenon DEF Wrap
<1>5. ASSUME NEW m \in Nat, n < m, m < n + queue_size
      PROVE  Slot(n) # Slot(m)
  <2>1. m - n < queue_size /\ n <= m /\ n # m
    BY <1>0, <1>5
  <2> QED BY <1>0, <2>1, WrapInjective, Zenon DEF Slot
<1> QED
  BY <1>1, <1>2, <1>3, <1>4, <1>5

\* The device takes the mutex and reads the index.
LEMMA NotifyRing ==
    ASSUME RingTypeOK, NEW u \in Nat, Linked(u), queue!handle_notify_output
    PROVE  RingTypeOK' /\ Linked(u)'
<1>1. /\ tx = "idle" /\ tx' = "collect" /\ kicks' \in BOOLEAN /\ loaded' = avail
      /\ UNCHANGED <<avail, last_seen_available, used, used_ring, send_indices, last_used,
                     offered, returned>>
  BY Zenon DEF queue!handle_notify_output
<1>2. Counts(u)' /\ Indices(u)' /\ InOrder(u)'
  BY <1>1 DEF Linked, Counts, Indices, InOrder, Seen, Alive
<1>3. Noticed(u)'
  <2>1. /\ Len(offered) \in Nat /\ Seen(u) \in Nat /\ Seen(u) <= Len(offered)
        /\ avail = Wrap(Len(offered))
    BY DEF Linked, Counts, Indices, Seen, RingTypeOK
  <2>2. Seen(u)' = Seen(u)
    BY <1>1 DEF Seen
  <2> QED BY <1>1, <2>1, <2>2 DEF Noticed
<1> QED
  BY <1>1, <1>2, <1>3 DEF Linked, RingTypeOK

\* One entry is collected, or there is none.
LEMMA NextRing ==
    ASSUME RingTypeOK, NEW u \in Nat, Linked(u), queue!next
    PROVE  RingTypeOK' /\ Linked(u)'
<1> DEFINE s == Seen(u)
<1>1. /\ tx = "collect" /\ loaded' \in {loaded, avail}
      /\ UNCHANGED <<avail, used, used_ring, last_used, kicks, offered, returned>>
  BY DEF queue!next, queue!driverVars
<1>2. /\ s \in Nat /\ Len(send_indices) \in Nat /\ Len(offered) \in Nat /\ Len(returned) \in Nat
      /\ s <= Len(offered) /\ Len(offered) <= s + queue_size
      /\ last_seen_available = Wrap(s)
  BY <1>1, RingAssumption DEF RingTypeOK, Linked, Counts, Indices, Seen, Alive
<1>3. PICK l \in s .. Len(offered) : loaded' = Wrap(l) /\ (kicks \/ l = Len(offered))
  BY <1>1, <1>2 DEF Linked, Noticed, Indices
<1>4. CASE last_seen_available = loaded'
  <2>1. tx' = "send" /\ UNCHANGED <<last_seen_available, send_indices>>
    BY <1>4 DEF queue!next
  <2>2. s = l
    <3>1. l \in Nat /\ s <= l /\ l <= s + queue_size
      BY <1>2, <1>3, RingAssumption
    <3>2. Wrap(s) = Wrap(l)
      BY <1>2, <1>3, <1>4
    <3> HIDE DEF s
    <3> QED BY <1>2, <3>1, <3>2, Wrapping
  <2>3. s' = s
    BY <2>1 DEF Seen
  <2>4. Counts(u)' /\ Indices(u)' /\ InOrder(u)'
    BY <1>1, <2>1 DEF Linked, Counts, Indices, InOrder, Seen, Alive
  <2>5. Noticed(u)'
    BY <1>1, <1>3, <2>1, <2>2, <2>3 DEF Noticed
  <2> QED BY <1>1, <2>1, <2>4, <2>5 DEF Linked, RingTypeOK
<1>5. CASE last_seen_available # loaded' /\ queue!Overflows(last_seen_available)
  <2>1. tx' = "panicked" /\ UNCHANGED <<last_seen_available, send_indices>>
    BY <1>5 DEF queue!next
  <2>2. Counts(u)' /\ Indices(u)' /\ InOrder(u)'
    BY <1>1, <2>1 DEF Linked, Counts, Indices, InOrder, Seen, Alive
  <2>3. Noticed(u)'
    BY <2>1 DEF Noticed
  <2> QED BY <1>1, <2>1, <2>2, <2>3 DEF Linked, RingTypeOK
<1>6. CASE last_seen_available # loaded' /\ ~ queue!Overflows(last_seen_available)
  <2>1. /\ send_indices' = Append(send_indices, last_seen_available % queue_size)
        /\ last_seen_available' = queue!bump(last_seen_available) /\ tx' = tx
    BY <1>6 DEF queue!next
  <2>2. /\ last_seen_available % queue_size = Slot(s) /\ Slot(s) \in queue!Descriptor
        /\ queue!bump(last_seen_available) = Wrap(s + 1)
    BY <1>2, Wrapping, Zenon DEF queue!bump
  <2>3. /\ send_indices' \in Seq(queue!Descriptor)
        /\ Len(send_indices') = Len(send_indices) + 1
        /\ \A k \in 1 .. Len(send_indices) : send_indices'[k] = send_indices[k]
        /\ send_indices'[Len(send_indices) + 1] = Slot(s)
    BY <2>1, <2>2, AppendProperties DEF RingTypeOK
  <2>4. s' = s + 1
    BY <1>2, <2>3 DEF Seen
  <2>5. s < l
    BY <1>2, <1>3, <1>6
  <2>6. Counts(u)'
    BY <1>1, <1>2, <2>4, <2>5 DEF Linked, Counts
  <2>7. Indices(u)'
    BY <1>1, <2>1, <2>2, <2>4 DEF Linked, Indices
  <2>8. InOrder(u)'
    <3>1. \A k \in 1 .. Len(send_indices') : send_indices'[k] = Slot(u + k - 1)
      <4> SUFFICES ASSUME NEW k \in 1 .. Len(send_indices) + 1
                   PROVE  send_indices'[k] = Slot(u + k - 1)
        BY <2>3
      <4>1. CASE k \in 1 .. Len(send_indices)
        BY <1>1, <2>3, <4>1 DEF Linked, InOrder, Alive
      <4>2. CASE k = Len(send_indices) + 1
        <5>1. u + k - 1 = s
          BY <1>2, <4>2 DEF Seen
        <5> QED BY <2>3, <4>2, <5>1
      <4> QED BY <1>2, <4>1, <4>2
    <3> QED BY <1>1, <3>1 DEF Linked, InOrder
  <2>9. Noticed(u)'
    <3>1. l \in s + 1 .. Len(offered)
      BY <1>2, <1>3, <2>5
    <3> QED BY <1>1, <1>3, <2>1, <2>4, <3>1 DEF Noticed
  <2> QED BY <1>1, <2>1, <2>3, <2>6, <2>7, <2>8, <2>9 DEF Linked, RingTypeOK
<1> QED
  BY <1>4, <1>5, <1>6

\* One collected descriptor is put into the used ring.
LEMMA AddUsedRing ==
    ASSUME RingTypeOK, NEW u \in Nat, Linked(u), queue!add_used
    PROVE  RingTypeOK' /\ \E n \in Nat : Linked(n)'
<1>1. /\ tx = "send" /\ send_indices # <<>> /\ send_indices' = Tail(send_indices)
      /\ used_ring' = [used_ring EXCEPT ![used % queue_size] = Head(send_indices)]
      /\ UNCHANGED <<avail, last_seen_available, loaded, last_used, kicks, offered, returned>>
  BY DEF queue!add_used, queue!driverVars
<1>2. /\ Len(send_indices) \in Nat /\ Len(send_indices) > 0
      /\ send_indices' \in Seq(queue!Descriptor) /\ Len(send_indices') = Len(send_indices) - 1
      /\ \A k \in 1 .. Len(send_indices') : send_indices'[k] = send_indices[k + 1]
      /\ Head(send_indices) = send_indices[1]
  BY <1>1 DEF RingTypeOK
<1>3. /\ Len(offered) \in Nat /\ Len(returned) \in Nat
      /\ Len(returned) <= u /\ u + Len(send_indices) <= Len(offered)
      /\ Len(offered) <= Len(returned) + queue_size
  BY DEF RingTypeOK, Linked, Counts, Seen
<1>4. Head(send_indices) = Slot(u) /\ used % queue_size = Slot(u) /\ Slot(u) \in queue!Descriptor
  <2>1. send_indices[1] = Slot(u + 1 - 1)
    BY <1>1, <1>2 DEF Linked, InOrder, Alive
  <2>2. u + 1 - 1 = u
    OBVIOUS
  <2>3. used = Wrap(u)
    BY DEF Linked, Indices
  <2> QED BY <1>2, <2>1, <2>2, <2>3, Wrapping
<1>5. used_ring' = [used_ring EXCEPT ![Slot(u)] = Slot(u)]
  BY <1>1, <1>4, Zenon
<1>6. used_ring' \in [queue!Descriptor -> queue!Descriptor]
  BY <1>4, <1>5 DEF RingTypeOK
<1>7. used_ring'[Slot(u)] = Slot(u)
  BY <1>4, <1>5 DEF RingTypeOK
<1>8. \A k \in Len(returned) .. u - 1 : used_ring'[Slot(k)] = Slot(k)
  <2> SUFFICES ASSUME NEW k \in Len(returned) .. u - 1
               PROVE  used_ring'[Slot(k)] = Slot(k)
    OBVIOUS
  <2>1. k \in Nat /\ k < u /\ u < k + queue_size
    BY <1>2, <1>3, RingAssumption
  <2>2. Slot(k) # Slot(u) /\ Slot(k) \in queue!Descriptor
    BY <2>1, Wrapping
  <2>3. used_ring[Slot(k)] = Slot(k)
    BY DEF Linked, InOrder
  <2> QED BY <1>5, <2>2, <2>3 DEF RingTypeOK
<1>9. CASE queue!Overflows(used)
  <2>1. tx' = "panicked" /\ used' = used
    BY <1>9 DEF queue!add_used
  <2>2. Counts(u)'
    BY <1>1, <1>2, <1>3 DEF Counts, Seen
  <2>3. Indices(u)'
    BY <1>1, <2>1 DEF Linked, Indices, Alive
  <2>4. InOrder(u)'
    BY <1>1, <1>8, <2>1 DEF Linked, InOrder, Alive
  <2>5. Noticed(u)'
    BY <2>1 DEF Noticed
  <2>6. RingTypeOK'
    BY <1>1, <1>2, <1>6, <2>1 DEF RingTypeOK
  <2> QED BY <2>2, <2>3, <2>4, <2>5, <2>6 DEF Linked
<1>10. CASE ~ queue!Overflows(used)
  <2>1. tx' = tx /\ used' = queue!bump(used)
    BY <1>10 DEF queue!add_used
  <2>2. used' = Wrap(u + 1)
    BY <2>1, Wrapping DEF queue!bump, Linked, Indices
  <2>3. Seen(u + 1)' = Seen(u)
    BY <1>2 DEF Seen
  <2>4. Counts(u + 1)'
    BY <1>1, <1>2, <1>3, <2>3 DEF Linked, Counts
  <2>5. Indices(u + 1)'
    BY <1>1, <2>1, <2>2, <2>3, SMTT(30) DEF Linked, Indices, Alive
  <2>6. \A k \in Len(returned) .. u : used_ring'[Slot(k)] = Slot(k)
    BY <1>3, <1>7, <1>8
  <2>7. \A k \in 1 .. Len(send_indices') : send_indices'[k] = Slot(u + 1 + k - 1)
    <3> SUFFICES ASSUME NEW k \in 1 .. Len(send_indices')
                 PROVE  send_indices'[k] = Slot(u + 1 + k - 1)
      OBVIOUS
    <3>1. k + 1 \in 1 .. Len(send_indices) /\ u + 1 + k - 1 = u + (k + 1) - 1
      BY <1>2
    <3>2. send_indices[k + 1] = Slot(u + (k + 1) - 1)
      BY <1>1, <3>1 DEF Linked, InOrder, Alive
    <3> QED BY <1>2, <3>1, <3>2, Zenon
  <2>8. InOrder(u + 1)'
    <3>1. u + 1 - 1 = u
      OBVIOUS
    <3> QED BY <1>1, <2>6, <2>7, <3>1 DEF Linked, InOrder
  <2>9. Noticed(u + 1)'
    BY <1>1, <2>1, <2>3 DEF Linked, Noticed
  <2>10. RingTypeOK'
    BY <1>1, <1>2, <1>6, <2>1 DEF RingTypeOK
  <2> QED BY <2>4, <2>5, <2>8, <2>9, <2>10 DEF Linked
<1> QED
  BY <1>9, <1>10

\* The process dies, a build panics, or the device is done.
LEMMA EndRing ==
    ASSUME RingTypeOK, NEW u \in Nat, Linked(u), queue!send_crashes \/ queue!send_done
    PROVE  RingTypeOK' /\ Linked(u)'
<1>1. /\ tx = "send"
      /\ UNCHANGED <<avail, last_seen_available, used, used_ring, loaded, send_indices,
                     last_used, kicks, offered, returned>>
  BY DEF queue!send_crashes, queue!send_done, queue!driverVars
<1>2. tx' \in {"crashed", "panicked", "idle"}
  BY DEF queue!send_crashes, queue!send_done
<1>3. Counts(u)' /\ Indices(u)' /\ InOrder(u)' /\ Noticed(u)'
  BY <1>1, <1>2, SMTT(30) DEF Linked, Counts, Indices, InOrder, Noticed, Seen, Alive
<1> QED
  BY <1>1, <1>2, <1>3 DEF Linked, RingTypeOK

\* The driver offers the next descriptor of the ring.
LEMMA OfferRing ==
    ASSUME RingTypeOK, NEW u \in Nat, Linked(u), queue!Offer
    PROVE  RingTypeOK' /\ Linked(u)'
<1>1. /\ offered' = Append(offered, avail % queue_size) /\ avail' = (avail + 1) % Width
      /\ kicks' = TRUE /\ Len(offered) - Len(returned) < queue_size
      /\ UNCHANGED <<last_seen_available, used, used_ring, loaded, send_indices, tx,
                     last_used, returned>>
  BY DEF queue!Offer
<1>2. /\ Len(offered) \in Nat /\ Len(returned) \in Nat /\ Len(send_indices) \in Nat
      /\ Len(returned) <= u /\ Seen(u) <= Len(offered) /\ Seen(u) \in Nat
  BY DEF RingTypeOK, Linked, Counts, Seen
<1>3. /\ avail % queue_size = Slot(Len(offered)) /\ Slot(Len(offered)) \in queue!Descriptor
      /\ avail' = Wrap(Len(offered) + 1)
  <2>1. avail = Wrap(Len(offered))
    BY DEF Linked, Indices
  <2> QED BY <1>1, <1>2, <2>1, Wrapping
<1>4. /\ offered' \in Seq(queue!Descriptor) /\ Len(offered') = Len(offered) + 1
      /\ \A k \in 1 .. Len(offered) : offered'[k] = offered[k]
      /\ offered'[Len(offered) + 1] = Slot(Len(offered))
  BY <1>1, <1>3, AppendProperties DEF RingTypeOK
<1>5. Seen(u)' = Seen(u)
  BY <1>1 DEF Seen
<1>6. Counts(u)'
  BY <1>1, <1>2, <1>4, <1>5, RingAssumption DEF Counts
<1>7. Indices(u)'
  BY <1>1, <1>3, <1>4, <1>5 DEF Linked, Indices, Alive
<1>8. \A k \in 1 .. Len(offered') : offered'[k] = Slot(k - 1)
  <2> SUFFICES ASSUME NEW k \in 1 .. Len(offered) + 1
               PROVE  offered'[k] = Slot(k - 1)
    BY <1>4
  <2>1. CASE k \in 1 .. Len(offered)
    BY <1>4, <2>1 DEF Linked, InOrder
  <2>2. CASE k = Len(offered) + 1
    <3>1. k - 1 = Len(offered)
      BY <1>2, <2>2
    <3> QED BY <1>4, <2>2, <3>1
  <2> QED BY <1>2, <2>1, <2>2
<1>9. InOrder(u)'
  BY <1>1, <1>8 DEF Linked, InOrder, Alive
<1>10. Noticed(u)'
  <2>1. ASSUME tx = "collect"
        PROVE  \E l \in Seen(u) .. Len(offered) + 1 : loaded = Wrap(l)
    BY <1>2, <2>1, SMTT(30) DEF Linked, Noticed
  <2> QED BY <1>1, <1>4, <1>5, <2>1 DEF Noticed
<1> QED
  BY <1>1, <1>4, <1>6, <1>7, <1>9, <1>10 DEF Linked, RingTypeOK

\* The driver reclaims a descriptor from the used ring.
LEMMA ReclaimRing ==
    ASSUME RingTypeOK, NEW u \in Nat, Linked(u), queue!Reclaim
    PROVE  RingTypeOK' /\ Linked(u)'
<1>1. /\ last_used # used /\ last_used' = (last_used + 1) % Width
      /\ returned' = Append(returned, used_ring[last_used % queue_size])
      /\ UNCHANGED <<avail, last_seen_available, used, used_ring, loaded, send_indices, tx,
                     kicks, offered>>
  BY DEF queue!Reclaim
<1>2. /\ Len(offered) \in Nat /\ Len(returned) \in Nat /\ Len(send_indices) \in Nat
      /\ Len(returned) <= u /\ Seen(u) <= Len(offered) /\ Seen(u) \in Nat
      /\ Len(offered) <= Len(returned) + queue_size
  BY DEF RingTypeOK, Linked, Counts, Seen
<1>3. last_used = Wrap(Len(returned)) /\ used = Wrap(u)
  BY DEF Linked, Indices
<1>4. Len(returned) < u
  BY <1>1, <1>2, <1>3
<1>5. /\ last_used % queue_size = Slot(Len(returned))
      /\ Slot(Len(returned)) \in queue!Descriptor
      /\ last_used' = Wrap(Len(returned) + 1)
  BY <1>1, <1>2, <1>3, Wrapping
<1>6. used_ring[Slot(Len(returned))] = Slot(Len(returned))
  <2>1. Len(returned) \in Len(returned) .. u - 1
    BY <1>2, <1>4
  <2> QED BY <2>1 DEF Linked, InOrder
<1>7. /\ returned' \in Seq(queue!Descriptor) /\ Len(returned') = Len(returned) + 1
      /\ \A k \in 1 .. Len(returned) : returned'[k] = returned[k]
      /\ returned'[Len(returned) + 1] = Slot(Len(returned))
  BY <1>1, <1>5, <1>6, AppendProperties DEF RingTypeOK
<1>8. Seen(u)' = Seen(u)
  BY <1>1 DEF Seen
<1>9. Counts(u)'
  BY <1>1, <1>2, <1>4, <1>7, <1>8, RingAssumption DEF Counts
<1>10. Indices(u)'
  BY <1>1, <1>5, <1>7, <1>8 DEF Linked, Indices, Alive
<1>11. \A k \in 1 .. Len(returned') : returned'[k] = Slot(k - 1)
  <2> SUFFICES ASSUME NEW k \in 1 .. Len(returned) + 1
               PROVE  returned'[k] = Slot(k - 1)
    BY <1>7
  <2>1. CASE k \in 1 .. Len(returned)
    BY <1>7, <2>1 DEF Linked, InOrder
  <2>2. CASE k = Len(returned) + 1
    <3>1. k - 1 = Len(returned)
      BY <1>2, <2>2
    <3> QED BY <1>7, <2>2, <3>1
  <2> QED BY <1>2, <2>1, <2>2, SMTT(30)
<1>12. \A k \in Len(returned') .. u - 1 : used_ring[Slot(k)] = Slot(k)
  <2> SUFFICES ASSUME NEW k \in Len(returned') .. u - 1
               PROVE  used_ring[Slot(k)] = Slot(k)
    OBVIOUS
  <2>1. k \in Len(returned) .. u - 1
    BY <1>2, <1>7
  <2> QED BY <2>1 DEF Linked, InOrder
<1>13. InOrder(u)'
  BY <1>1, <1>11, <1>12 DEF Linked, InOrder, Alive
<1>14. Noticed(u)'
  BY <1>1, <1>8 DEF Linked, Noticed
<1> QED
  BY <1>1, <1>7, <1>9, <1>10, <1>13, <1>14 DEF Linked, RingTypeOK

\* The inductive invariant of the device with its queue.
DevInv == TypeOK /\ RingTypeOK /\ GateInv /\ RingInv

\* A step of the device with its queue is one of the device alone, or leaves
\* its registers as they are.
LEMMA DeviceStepIsAccess == [DeviceNext]_allVars => [Next]_vars
<1> SUFFICES ASSUME [DeviceNext]_allVars PROVE [Next]_vars
  OBVIOUS
<1>1. ASSUME NEW c \in Cpus, Notify(c) PROVE UNCHANGED vars
  BY <1>1 DEF Notify
<1>2. ASSUME NEW c \in Cpus, Send(c) PROVE Next
  <2>1. \E packets \in BOOLEAN : send_available_packets(c, packets) \/ SendPanics(c, packets)
    BY <1>2, Zenon DEF Send, Served
  <2> QED BY <2>1 DEF Next, Access
<1>3. ASSUME NEW c \in Cpus, ResetQueue(c) PROVE Next
  BY <1>3 DEF ResetQueue, Next, Access
<1>4. ASSUME NEW c \in Cpus, Register(c) PROVE Next
  BY <1>4 DEF Register, Next, Access
<1>5. ASSUME NEW c \in Cpus, Other(c) PROVE Next
  BY <1>5 DEF Other, Next, Access
<1>6. CASE Driver
  BY <1>6 DEF Driver
<1>7. CASE UNCHANGED allVars
  BY <1>7 DEF allVars
<1> QED
  BY <1>1, <1>2, <1>3, <1>4, <1>5, <1>6, <1>7 DEF DeviceNext

\* What accesses leave alone: nothing heals the mutex, and only a reset and the
\* registration of a queue change how many there are.
LEMMA AccessKeeps ==
    ASSUME NEW c \in Cpus, Access(c)
    PROVE  /\ reckless' = reckless /\ (poisoned => poisoned')
           /\ Configure(c) => virt_queues' = virt_queues
<1>1. /\ reckless' = reckless /\ (poisoned => poisoned')
  BY SMTT(30) DEF Access, Configure, LockPanics, Handshake, write_status_ok, write_requested_features,
         write_selected_queue, NotifyPanics, handle_write, AccessPanics, Reset, write_pfn,
         send_available_packets, SendPanics, Locked, Poison
<1>2. Configure(c) => virt_queues' = virt_queues
  BY DEF Configure, LockPanics, Handshake, write_status_ok, write_requested_features,
         write_selected_queue, NotifyPanics, handle_write, AccessPanics, device
<1> QED
  BY <1>1, <1>2, SMTT(30)

\* A step that does not touch the ring.
LEMMA RingUntouched ==
    ASSUME RingTypeOK, GateInv, RingInv, UNCHANGED <<ring, notifier, reckless>>,
           poisoned => poisoned', virt_queues' = virt_queues \/ reckless
    PROVE  RingTypeOK' /\ GateInv' /\ RingInv'
<1>1. UNCHANGED <<avail, last_seen_available, used, used_ring, loaded, send_indices, tx,
                  last_used, kicks, offered, returned>>
  BY SMTT(30) DEF ring
<1>2. \A u \in Nat : Linked(u) => Linked(u)'
  BY <1>1, Zenon DEF Linked, Counts, Indices, InOrder, Noticed, Seen, Alive
<1>3. RingTypeOK' /\ GateInv'
  BY <1>1 DEF RingTypeOK, GateInv
<1> QED
  BY <1>2, <1>3 DEF RingInv

\* Before a queue is registered nothing has been offered.
LEMMA InitDevInv == DeviceInit => RingTypeOK /\ GateInv /\ RingInv
<1> SUFFICES ASSUME DeviceInit PROVE RingTypeOK /\ GateInv /\ RingInv
  OBVIOUS
<1>1. 0 \in queue!Descriptor
  BY RingAssumption DEF queue!Descriptor
<1>2. RingTypeOK
  BY <1>1 DEF DeviceInit, queue!Init, RingTypeOK
<1>3. GateInv
  BY DEF DeviceInit, queue!Init, GateInv
<1>4. RingInv
  BY DEF DeviceInit, Init, RingInv, TX_QUEUE
<1> QED
  BY <1>2, <1>3, <1>4

\* Every step of the device and of the driver keeps the invariant.
LEMMA DevInvStep ==
    ASSUME DevInv, [DeviceNext]_allVars
    PROVE  RingTypeOK' /\ GateInv' /\ RingInv'
<1>0. RingTypeOK /\ GateInv /\ RingInv /\ virt_queues \in Nat
  BY DEF DevInv, TypeOK
<1>1. ASSUME NEW c \in Cpus, Notify(c) PROVE RingTypeOK' /\ GateInv' /\ RingInv'
  <2>1. /\ ~reckless /\ virt_queues > TX_QUEUE /\ queue!handle_notify_output
        /\ notifier' = c /\ UNCHANGED <<reckless, virt_queues>>
    BY <1>1 DEF Notify, Serving, vars, device
  <2>2. PICK u \in Nat : Linked(u)
    BY <1>0, <2>1 DEF RingInv
  <2>3. RingTypeOK' /\ Linked(u)'
    BY <1>0, <2>1, <2>2, NotifyRing
  <2>4. tx' = "collect" /\ c # None
    BY <2>1, NotifierAssumption DEF queue!handle_notify_output
  <2>5. ~ (reckless' \/ virt_queues' <= TX_QUEUE)
    BY <1>0, <2>1 DEF TX_QUEUE
  <2>6. GateInv'
    BY <2>1, <2>4, <2>5 DEF GateInv
  <2> QED BY <2>3, <2>6 DEF RingInv
<1>2. ASSUME NEW c \in Cpus, Send(c) PROVE RingTypeOK' /\ GateInv' /\ RingInv'
  <2>1. /\ queue!add_used \/ queue!next \/ queue!send_crashes \/ queue!send_done
        /\ notifier' = IF tx' \in {"collect", "send"} THEN c ELSE None
        /\ \E packets \in BOOLEAN : Served(c, packets)
    BY <1>2, Zenon DEF Send
  <2>2. tx # "idle"
    BY <2>1 DEF queue!add_used, queue!next, queue!send_crashes, queue!send_done
  <2>3. ~reckless /\ virt_queues > TX_QUEUE
    BY <1>0, <2>2 DEF GateInv, TX_QUEUE
  <2>4. UNCHANGED <<reckless, virt_queues>> /\ (tx' = "panicked" => poisoned')
    BY <2>1 DEF Served, SendPanics, send_available_packets, Poison, Locked
  <2>5. PICK u \in Nat : Linked(u)
    BY <1>0, <2>3 DEF RingInv
  <2>6. RingTypeOK' /\ \E n \in Nat : Linked(n)'
    <3>1. CASE queue!add_used
      BY <1>0, <2>5, <3>1, AddUsedRing
    <3>2. CASE queue!next
      BY <1>0, <2>5, <3>2, NextRing
    <3>3. CASE queue!send_crashes \/ queue!send_done
      BY <1>0, <2>5, <3>3, EndRing, SMTT(30)
    <3> QED BY <2>1, <3>1, <3>2, <3>3
  <2>7. tx' = "idle" => send_indices' = <<>>
    BY <2>1, <2>2 DEF queue!add_used, queue!next, queue!send_crashes, queue!send_done
  <2>8. ~ (reckless' \/ virt_queues' <= TX_QUEUE)
    BY <1>0, <2>3, <2>4 DEF TX_QUEUE
  <2>9. tx' \in {"collect", "send"} => notifier' # None
    BY <2>1, NotifierAssumption
  <2>10. GateInv'
    BY <2>4, <2>7, <2>8, <2>9 DEF GateInv
  <2> QED BY <2>6, <2>10 DEF RingInv
<1>3. ASSUME NEW c \in Cpus, ResetQueue(c) PROVE RingTypeOK' /\ GateInv' /\ RingInv'
  <2>1. /\ notifier = None /\ tx # "crashed" /\ ~poisoned /\ virt_queues' = 0
        /\ kicks' = FALSE /\ offered' = <<>> /\ returned' = <<>>
        /\ UNCHANGED <<used_ring, send_indices, tx, notifier>>
    BY <1>3 DEF ResetQueue, Free, Reset, Locked
  <2>2. tx = "idle" /\ send_indices = <<>>
    BY <1>0, <2>1 DEF RingTypeOK, GateInv
  <2>3. RingTypeOK'
    BY <1>0, <2>1, <2>2, Zenon DEF RingTypeOK
  <2>4. GateInv'
    BY <2>1, <2>2 DEF GateInv
  <2> QED BY <2>1, <2>3, <2>4 DEF RingInv, TX_QUEUE
<1>4. ASSUME NEW c \in Cpus, Register(c) PROVE RingTypeOK' /\ GateInv' /\ RingInv'
  <2>1. /\ virt_queues' = virt_queues + 1 /\ UNCHANGED <<reckless, poisoned, notifier>> /\ ~reckless
        /\ IF virt_queues = TX_QUEUE THEN FreshQueue ELSE UNCHANGED ring
    BY <1>4 DEF Register, write_pfn, Locked
  <2>2. CASE virt_queues = TX_QUEUE
    <3>1. /\ last_seen_available' = 0 /\ avail' = 0 /\ used' = 0 /\ last_used' = 0
          /\ used_ring' = [n \in queue!Descriptor |-> 0]
          /\ UNCHANGED <<loaded, send_indices, tx, kicks, offered, returned>>
      BY <2>1, <2>2 DEF FreshQueue
    <3>2. tx = "idle" /\ offered = <<>> /\ returned = <<>> /\ send_indices = <<>>
      BY <1>0, <2>2 DEF GateInv
    <3>3. 0 \in queue!Descriptor /\ Wrap(0) = 0
      BY RingAssumption DEF queue!Descriptor, Wrap
    <3>4. RingTypeOK'
      BY <1>0, <3>1, <3>3 DEF RingTypeOK
    <3>5. Counts(0)'
      BY <3>1, <3>2, RingAssumption DEF Counts, Seen
    <3>6. Indices(0)'
      BY <3>1, <3>2, <3>3 DEF Indices, Seen
    <3>7. InOrder(0)' /\ Noticed(0)'
      BY <3>1, <3>2 DEF InOrder, Noticed, Seen
    <3>8. GateInv'
      BY <2>1, <2>2, <3>1, <3>2 DEF GateInv, TX_QUEUE
    <3> QED BY <3>4, <3>5, <3>6, <3>7, <3>8 DEF RingInv, Linked
  <2>3. CASE virt_queues # TX_QUEUE
    <3>1. UNCHANGED <<avail, last_seen_available, used, used_ring, loaded, send_indices, tx,
                      last_used, kicks, offered, returned>>
      BY <2>1, <2>3, SMTT(30) DEF ring
    <3>2. \A u \in Nat : Linked(u) => Linked(u)'
      BY <3>1 DEF Linked, Counts, Indices, InOrder, Noticed, Seen, Alive
    <3>3. RingTypeOK'
      BY <1>0, <3>1 DEF RingTypeOK
    <3>4. virt_queues' > TX_QUEUE <=> virt_queues > TX_QUEUE
      BY <1>0, <2>1, <2>3 DEF TX_QUEUE
    <3>5. virt_queues' <= TX_QUEUE => virt_queues <= TX_QUEUE
      BY <1>0, <2>1, <2>3 DEF TX_QUEUE
    <3>6. GateInv'
      BY <1>0, <2>1, <3>1, <3>5, Zenon DEF GateInv
    <3> QED BY <1>0, <2>1, <3>2, <3>3, <3>4, <3>6 DEF RingInv
  <2> QED BY <2>2, <2>3
<1>5. ASSUME NEW c \in Cpus, Other(c) PROVE RingTypeOK' /\ GateInv' /\ RingInv'
  <2>1. Access(c) /\ (Configure(c) \/ reckless) /\ UNCHANGED <<ring, notifier>>
    BY <1>5 DEF Other, Access
  <2>2. reckless' = reckless /\ (poisoned => poisoned') /\ (virt_queues' = virt_queues \/ reckless)
    BY <2>1, AccessKeeps
  <2> QED BY <1>0, <2>1, <2>2, RingUntouched
<1>6. CASE Driver
  <2>1. /\ ~reckless /\ virt_queues > TX_QUEUE
        /\ queue!Offer \/ queue!Reclaim
        /\ UNCHANGED <<reckless, virt_queues, poisoned, notifier>>
    BY <1>6 DEF Driver, Serving, vars, device
  <2>2. UNCHANGED <<tx, send_indices>>
    BY <2>1 DEF queue!Offer, queue!Reclaim
  <2>3. PICK u \in Nat : Linked(u)
    BY <1>0, <2>1 DEF RingInv
  <2>4. RingTypeOK' /\ Linked(u)'
    <3>1. CASE queue!Offer
      BY <1>0, <2>3, <3>1, OfferRing
    <3>2. CASE queue!Reclaim
      BY <1>0, <2>3, <3>2, ReclaimRing
    <3> QED BY <2>1, <3>1, <3>2
  <2>5. GateInv'
    BY <1>0, <2>1, <2>2 DEF GateInv, TX_QUEUE
  <2> QED BY <2>4, <2>5 DEF RingInv
<1>7. CASE UNCHANGED allVars
  <2>1. UNCHANGED <<ring, notifier, reckless, poisoned, virt_queues>>
    BY <1>7 DEF allVars, vars, device
  <2> QED BY <1>0, <2>1, RingUntouched
<1> QED
  BY <1>1, <1>2, <1>3, <1>4, <1>5, <1>6, <1>7 DEF DeviceNext

\* The device with its queue is the device: what holds of the registers of
\* VirtioNet holds while a vCPU works on the ring.
THEOREM DeviceIsVirtioNet == DeviceSpec => Spec
<1>1. DeviceInit => Init
  BY DEF DeviceInit
<1> QED
  BY <1>1, DeviceStepIsAccess, PTL DEF DeviceSpec, Spec

\* The invariant holds in every reachable state of the device.
LEMMA DevInvariance == DeviceSpec => []DevInv
<1>1. DeviceSpec => []TypeOK
  BY DeviceIsVirtioNet, TypeCorrect, PTL
<1> DEFINE Ring == RingTypeOK /\ GateInv /\ RingInv
<1>2. DeviceInit => Ring
  BY InitDevInv
<1>3. TypeOK /\ Ring /\ [DeviceNext]_allVars => Ring'
  BY DevInvStep DEF DevInv
<1>4. TypeOK /\ Ring <=> DevInv
  BY DEF DevInv
<1> HIDE DEF Ring
<1> QED
  BY <1>1, <1>2, <1>3, <1>4, PTL DEF DeviceSpec

\* The driver gets its descriptors back in the order in which it offered them,
\* each once, for every width of the indices and every size of the ring that
\* divides it, through any number of resets.
THEOREM ReturnsInOrder == DeviceSpec => []ReturnedInOrder
<1>1. DevInv => ReturnedInOrder
  <2> SUFFICES ASSUME DevInv PROVE ReturnedInOrder
    OBVIOUS
  <2>0. RingTypeOK /\ GateInv /\ RingInv /\ virt_queues \in Nat
    BY DEF DevInv, TypeOK
  <2>1. CASE reckless \/ virt_queues <= TX_QUEUE
    <3>1. offered = <<>> /\ returned = <<>>
      BY <2>0, <2>1 DEF GateInv
    <3> QED BY <3>1 DEF ReturnedInOrder, queue!ReturnedInOrder
  <2>2. CASE ~reckless /\ virt_queues > TX_QUEUE
    <3>1. PICK u \in Nat : Linked(u)
      BY <2>0, <2>2 DEF RingInv
    <3>2. Len(returned) \in Nat /\ Len(offered) \in Nat /\ Len(returned) <= Len(offered)
      BY <2>0, <3>1 DEF RingTypeOK, Linked, Counts, Seen
    <3>3. /\ \A k \in 1 .. Len(offered) : offered[k] = Slot(k - 1)
          /\ \A k \in 1 .. Len(returned) : returned[k] = Slot(k - 1)
      BY <3>1 DEF Linked, InOrder
    <3>4. \A k \in 1 .. Len(returned) : k \in 1 .. Len(offered)
      BY <3>2
    <3> QED BY <3>2, <3>3, <3>4, Zenon DEF ReturnedInOrder, queue!ReturnedInOrder
  <2> QED BY <2>0, <2>1, <2>2 DEF TX_QUEUE
<1> QED
  BY <1>1, DevInvariance, PTL

\* No notification is lost: an idle device that is owed none has collected all
\* that was offered.
THEOREM LeavesNothing == DeviceSpec => []NothingLeftBehind
<1>1. DevInv => NothingLeftBehind
  <2> SUFFICES ASSUME DevInv, Serving, tx = "idle", ~kicks
               PROVE  last_seen_available = avail
    BY DEF NothingLeftBehind, queue!NothingLeftBehind
  <2>1. PICK u \in Nat : Linked(u)
    BY DEF DevInv, RingInv, Serving
  <2>2. Seen(u) = Len(offered)
    BY <2>1 DEF Linked, Noticed
  <2> QED BY <2>1, <2>2 DEF Linked, Indices, Alive
<1> QED
  BY <1>1, DevInvariance, PTL
==============================================================================
