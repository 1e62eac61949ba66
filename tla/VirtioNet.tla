------------------------------ MODULE VirtioNet ------------------------------
(***************************************************************************)
(* The virtio network device behind the legacy PCI ports: handshake,       *)
(* feature negotiation, queue registration, transmission and reset.  Every *)
(* port access of a vCPU is one action, executed under the device's mutex; *)
(* the guest may make any access at any time from any vCPU.  A handler     *)
(* that panics holds the mutex and poisons it.                             *)
(***************************************************************************)
EXTENDS Naturals, FiniteSets

CONSTANTS Cpus,           \* vCPUs
          Features,       \* feature bits a guest may ask for
          HOST_FEATURES,  \* those the device offers
          MaxQueues       \* bound: queue numbers the guest selects

ASSUME FeatureAssumption == HOST_FEATURES \subseteq Features
ASSUME QueueAssumption == MaxQueues \in Nat \ {0}

TX_QUEUE == 1

\* The status register, as the set of its bits.
ACK       == {"ACKNOWLEDGE"}
DRIVER    == ACK \cup {"DRIVER"}
FEATURES  == DRIVER \cup {"FEATURES_OK"}
LIVE      == FEATURES \cup {"DRIVER_OK"}
BROKEN    == {"DRIVER_NEEDS_RESET"}
Bits      == LIVE \cup BROKEN \cup {"FAILED"}

VARIABLES
    reckless,            \* does this guest write the PCI configuration space, or
                         \* access a port in another width than its register's?
    checked,             \* does the build check for overflow?
    status,              \* registers[STATUS_REGISTER]
    requested_features,
    selected_queue_num,
    virt_queues,         \* how many queues are registered
    iface,               \* is there a TAP device?
    poisoned,            \* a handler panicked while it held the mutex
    cpu                  \* "running", or "panicked" in a handler

device == <<status, requested_features, selected_queue_num, virt_queues, iface>>
vars == <<reckless, checked, device, poisoned, cpu>>

Init ==
    /\ reckless \in BOOLEAN /\ checked \in BOOLEAN
    /\ status = BROKEN /\ requested_features = {} /\ selected_queue_num = 0
    /\ virt_queues = 0 /\ iface = FALSE /\ poisoned = FALSE
    /\ cpu = [c \in Cpus |-> "running"]

\* lock().unwrap() succeeds, and the handler does not panic.
Locked(c) ==
    /\ cpu[c] = "running" /\ ~poisoned
    /\ UNCHANGED <<reckless, checked, poisoned, cpu>>

\* lock().unwrap() on the poisoned mutex.
LockPanics(c) ==
    /\ cpu[c] = "running" /\ poisoned
    /\ cpu' = [cpu EXCEPT ![c] = "panicked"]
    /\ UNCHANGED <<reckless, checked, device, poisoned>>

\* A handler panics while it holds the mutex.
Poison(c) ==
    /\ cpu[c] = "running" /\ ~poisoned
    /\ poisoned' = TRUE
    /\ cpu' = [cpu EXCEPT ![c] = "panicked"]
    /\ UNCHANGED <<reckless, checked>>

------------------------------------------------------------------------------
(* VIRTIO_PCI_STATUS *)

\* Mutant of Reset: the TAP device is kept.
ResetKeepsTap(c) ==
    /\ Locked(c)
    /\ status' = {} /\ requested_features' = {} /\ selected_queue_num' = 0
    /\ virt_queues' = 0
    /\ UNCHANGED iface

\* write_status(0)
Reset(c) ==
    /\ Locked(c)
    /\ status' = {} /\ requested_features' = {} /\ selected_queue_num' = 0
    /\ virt_queues' = 0 /\ iface' = FALSE

\* Mutant of Handshake: a broken device can be acknowledged again.
HandshakeForgives(c, byte) ==
    /\ Locked(c)
    /\ \/ (status = {} \/ BROKEN \subseteq status) /\ byte = ACK
       \/ status = ACK /\ byte = DRIVER
       \/ status = DRIVER /\ byte = FEATURES
    /\ status' = byte
    /\ UNCHANGED <<requested_features, selected_queue_num, virt_queues, iface>>

\* write_status_reset, write_status_acknowledge, write_status_features: the
\* byte written must be the next status; any other write is ignored.
Handshake(c, byte) ==
    /\ Locked(c)
    /\ \/ status \in {BROKEN, {}} /\ byte = ACK
       \/ status = ACK /\ byte = DRIVER
       \/ status = DRIVER /\ byte = FEATURES
    /\ status' = byte
    /\ UNCHANGED <<requested_features, selected_queue_num, virt_queues, iface>>

\* write_status_ok: the TAP device may fail to open, and get_mac_addr may
\* find no address; either marks the device broken.
write_status_ok(c, tap, mac) ==
    /\ Locked(c)
    /\ status = FEATURES
    /\ iface' = tap
    /\ status' = IF tap /\ mac THEN LIVE ELSE LIVE \cup BROKEN
    /\ UNCHANGED <<requested_features, selected_queue_num, virt_queues>>

------------------------------------------------------------------------------
(* VIRTIO_PCI_GUEST_FEATURES, QUEUE_SEL, QUEUE_PFN, QUEUE_NOTIFY *)

write_requested_features(c, wanted) ==
    /\ Locked(c)
    /\ status = DRIVER
    /\ requested_features' = (requested_features \cup wanted) \cap HOST_FEATURES
    /\ UNCHANGED <<status, selected_queue_num, virt_queues, iface>>

write_selected_queue(c, n) ==
    /\ Locked(c)
    /\ selected_queue_num' = n
    /\ UNCHANGED <<status, requested_features, virt_queues, iface>>

write_pfn(c) ==
    /\ Locked(c)
    /\ "FEATURES_OK" \in status /\ "DRIVER_OK" \notin status
    /\ selected_queue_num = virt_queues
    /\ virt_queues' = virt_queues + 1
    /\ UNCHANGED <<status, requested_features, selected_queue_num, iface>>

\* handle_notify_output for the transmit queue, with available packets or
\* without (Virtqueue has the ring): without a TAP device, packets mark the
\* device broken.
send_available_packets(c, packets) ==
    /\ Locked(c)
    /\ "DRIVER_OK" \in status
    /\ virt_queues > TX_QUEUE
    /\ status' = IF packets /\ ~iface THEN status \cup BROKEN ELSE status
    /\ UNCHANGED <<requested_features, selected_queue_num, virt_queues, iface>>

\* virt_queues[TX_QUEUE] is out of bounds.
NotifyPanics(c) ==
    /\ Poison(c)
    /\ "DRIVER_OK" \in status
    /\ virt_queues <= TX_QUEUE
    /\ UNCHANGED device

\* An index of the ring or the translated address overflows in a build that
\* checks for it; or there is a TAP device and desc.len is less than the header:
\* the difference panics or, wrapped around, is no size of a vector.  Packets
\* before may have marked the device broken.
SendPanics(c, packets) ==
    /\ Poison(c)
    /\ checked \/ iface
    /\ "DRIVER_OK" \in status
    /\ virt_queues > TX_QUEUE
    /\ status' = IF packets /\ ~iface THEN status \cup BROKEN ELSE status
    /\ UNCHANGED <<requested_features, selected_queue_num, virt_queues, iface>>

------------------------------------------------------------------------------
(* PCI_CONFIG_DATA_PORT: the virtio status is a byte of these registers *)

\* handle_write covering the status register.
handle_write(c, byte) ==
    /\ Locked(c)
    /\ reckless
    /\ status' = byte
    /\ UNCHANGED <<requested_features, selected_queue_num, virt_queues, iface>>

\* handle_write or handle_read past the 0x40 registers there are; features read,
\* or a queue notified, with a narrower access than the slices taken of it.
AccessPanics(c) ==
    /\ Poison(c)
    /\ reckless
    /\ UNCHANGED device

\* What a read of the link status gives.
read_link_status == "FAILED" \notin status /\ ~(BROKEN \subseteq status) /\ iface

\* Accesses that do not concern the queues.
Configure(c) ==
    \/ LockPanics(c)
    \/ \E byte \in {ACK, DRIVER, FEATURES} : Handshake(c, byte)
    \/ \E tap, mac \in BOOLEAN : write_status_ok(c, tap, mac)
    \/ \E wanted \in SUBSET Features : write_requested_features(c, wanted)
    \/ \E n \in 0 .. MaxQueues - 1 : write_selected_queue(c, n)
    \/ NotifyPanics(c)
    \/ \E byte \in SUBSET Bits : handle_write(c, byte)
    \/ AccessPanics(c)

Access(c) ==
    \/ Configure(c) \/ Reset(c) \/ write_pfn(c)
    \/ \E packets \in BOOLEAN : send_available_packets(c, packets) \/ SendPanics(c, packets)

Next == \E c \in Cpus : Access(c)

Spec == Init /\ [][Next]_vars

------------------------------------------------------------------------------
(* Properties *)

TypeOK ==
    /\ reckless \in BOOLEAN /\ checked \in BOOLEAN
    /\ status \in SUBSET Bits
    /\ requested_features \in SUBSET HOST_FEATURES
    /\ selected_queue_num \in 0 .. MaxQueues - 1
    /\ virt_queues \in 0 .. MaxQueues
    /\ iface \in BOOLEAN /\ poisoned \in BOOLEAN
    /\ cpu \in [Cpus -> {"running", "panicked"}]

\* What is configured agrees with the status a guest reads, whatever vCPUs
\* interleave their accesses: queues exist only after FEATURES_OK, features
\* only after DRIVER, the TAP device exactly when DRIVER_OK and not broken,
\* or broken by a missing MAC address; and the link is up exactly when the
\* status says that all is well.  (For guests that leave the status in the PCI
\* configuration space alone.)
ConfigurationMatchesStatus ==
    ~reckless =>
        /\ virt_queues > 0 => FEATURES \subseteq status
        /\ requested_features # {} => DRIVER \subseteq status
        /\ iface => LIVE \subseteq status
        /\ status = LIVE <=> read_link_status

\* A device that broke while it was live stays broken until it is reset
\* (or its status is overwritten through the PCI configuration space).
BrokenUntilReset ==
    [][ ~reckless /\ BROKEN \subseteq status /\ status # BROKEN
        => BROKEN \subseteq status' \/ status' = {} ]_vars
==============================================================================
