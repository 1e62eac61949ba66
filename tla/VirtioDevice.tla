----------------------------- MODULE VirtioDevice -----------------------------
(***************************************************************************)
(* The virtio device with its transmit queue: VirtioNet, whose mutex the   *)
(* vCPU that notifies the device holds while it works on the ring of       *)
(* Virtqueue, and whose reset drops the queue and lets the driver register *)
(* another one.  A reckless guest sends through VirtioNet alone.           *)
(***************************************************************************)
EXTENDS VirtioNet, Sequences

CONSTANTS Width, queue_size, MaxOffers,   \* as in Virtqueue
          None                            \* nobody

ASSUME RingAssumption == /\ queue_size \in Nat \ {0} /\ Width \in Nat
                         /\ Width > queue_size /\ Width % queue_size = 0
ASSUME OfferAssumption == MaxOffers \in Nat
ASSUME NotifierAssumption == None \notin Cpus

VARIABLES
    avail, last_seen_available, used, used_ring, loaded, send_indices,
    last_used, kicks, offered, returned,   \* as in Virtqueue
    tx,          \* where send_available_packets is
    notifier     \* the vCPU in it, which holds the mutex, or None

queue == INSTANCE Virtqueue WITH device <- tx

ring == <<avail, last_seen_available, used, used_ring, loaded, send_indices, tx,
          last_used, kicks, offered, returned>>
allVars == <<vars, ring, notifier>>

DeviceInit == Init /\ queue!Init /\ notifier = None

\* The mutex is free and the process lives.
Free == notifier = None /\ tx # "crashed"

\* The transmit queue is registered and the handshake done.
Serving == ~reckless /\ LIVE \subseteq status /\ virt_queues > TX_QUEUE

-------------------------------------------------------------------------------

\* The vCPU takes the mutex to serve the driver's notification.
Notify(c) ==
    /\ Free /\ Serving
    /\ cpu[c] = "running" /\ ~poisoned
    /\ queue!handle_notify_output
    /\ notifier' = c
    /\ UNCHANGED vars

\* One step of send_available_packets on the ring; it panics with the mutex
\* held, or goes on.
Served(c, packets) ==
    IF tx' = "panicked" THEN SendPanics(c, packets) ELSE send_available_packets(c, packets)

Send(c) ==
    /\ notifier = c
    /\ \/ queue!add_used /\ Served(c, TRUE)
       \/ (queue!next \/ queue!send_crashes \/ queue!send_done) /\ Served(c, FALSE)
    /\ notifier' = IF tx' \in {"collect", "send"} THEN c ELSE None

\* virt_queues.clear(); the driver forgets what it has offered and owes.
ResetQueue(c) ==
    /\ Free /\ ~reckless
    /\ Reset(c)
    /\ kicks' = FALSE /\ offered' = <<>> /\ returned' = <<>>
    /\ UNCHANGED <<avail, last_seen_available, used, used_ring, loaded, send_indices, tx,
                   last_used, notifier>>

\* Virtqueue::new, on rings that the driver has cleared.
FreshQueue ==
    /\ last_seen_available' = 0
    /\ avail' = 0 /\ used' = 0 /\ last_used' = 0
    /\ used_ring' = [n \in queue!Descriptor |-> 0]
    /\ UNCHANGED <<loaded, send_indices, tx, kicks, offered, returned>>

\* Mutant of Register: the new queue goes on where the old one was.
RegisterStale(c) ==
    /\ Free /\ ~reckless
    /\ write_pfn(c)
    /\ IF virt_queues = TX_QUEUE
       THEN /\ avail' = 0 /\ used' = 0 /\ last_used' = 0
            /\ used_ring' = [n \in queue!Descriptor |-> 0]
            /\ UNCHANGED <<last_seen_available, loaded, send_indices, tx, kicks,
                           offered, returned>>
       ELSE UNCHANGED ring
    /\ UNCHANGED notifier

\* A queue is registered, perhaps the one for transmission.
Register(c) ==
    /\ Free /\ ~reckless
    /\ write_pfn(c)
    /\ IF virt_queues = TX_QUEUE THEN FreshQueue ELSE UNCHANGED ring
    /\ UNCHANGED notifier

Other(c) ==
    /\ Free
    /\ Configure(c) \/ (reckless /\ Access(c))
    /\ UNCHANGED <<ring, notifier>>

\* The driver (external), on any core.
Driver ==
    /\ Serving /\ tx # "crashed"
    /\ queue!Offer \/ queue!Reclaim
    /\ UNCHANGED <<vars, notifier>>

DeviceNext ==
    \/ \E c \in Cpus : Notify(c) \/ Send(c) \/ ResetQueue(c) \/ Register(c) \/ Other(c)
    \/ Driver

DeviceSpec == DeviceInit /\ [][DeviceNext]_allVars

\* The thread of a vCPU that serves a notification is scheduled, and the driver
\* gives the notifications it owes and reclaims what comes back.
FairDeviceSpec ==
    /\ DeviceSpec
    /\ WF_allVars(\E c \in Cpus : Notify(c))
    /\ \A c \in Cpus : WF_allVars(Send(c))
    /\ WF_allVars(Driver /\ queue!Reclaim)

-------------------------------------------------------------------------------
(* Properties *)

\* The driver gets its descriptors back in the order in which it offered them,
\* each once, also when the indices wrap around and after a reset.
ReturnedInOrder == queue!ReturnedInOrder

\* No notification is lost: when the device is idle and none is owed, it has
\* seen everything the driver has offered, also what was offered while it was
\* busy.
NothingLeftBehind == Serving => queue!NothingLeftBehind

\* Every descriptor offered comes back, unless the process died or the device
\* panicked over a descriptor or an index, or the driver reset it.
AllReturned ==
    \A k \in 1 .. MaxOffers :
        (~reckless /\ Len(offered) >= k)
        ~> (Len(returned) >= k \/ tx \in {"crashed", "panicked"} \/ status = {})
===============================================================================
