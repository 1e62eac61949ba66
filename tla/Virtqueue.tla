------------------------------ MODULE Virtqueue ------------------------------
(***************************************************************************)
(* The transmit virtqueue of the virtio network device: the vCPU that      *)
(* notifies the device collects the available entries and returns each     *)
(* descriptor through the used ring, while the driver, on another core,    *)
(* goes on offering descriptors and reclaiming returned ones.  Indices are *)
(* free-running 16-bit counters.                                           *)
(*                                                                         *)
(* The device takes the position in the available ring for the descriptor  *)
(* index; the driver modelled here (external) hands out descriptors in     *)
(* ring order, which is what makes that right.                             *)
(***************************************************************************)
EXTENDS Naturals, Sequences

CONSTANTS Width,        \* indices wrap at Width (2^16)
          queue_size,   \* QUEUE_LIMIT (256)
          MaxOffers     \* bound: descriptors the driver offers

VARIABLES
    checked,              \* does the build check for overflow?
    avail,                \* index of the available ring, written by the driver
    last_seen_available,  \* Virtqueue.last_seen_available
    used,                 \* index of the used ring
    used_ring,            \* the ids in the used ring
    loaded,               \* the available index the collecting loop works with
    send_indices,         \* send_available_packets: collected, not yet sent
    device,               \* where the notified device is
    last_used,            \* driver: how far it has reclaimed
    kicks,                \* driver: it owes the device a notification
    offered, returned     \* history: descriptors offered and reclaimed

vars == <<checked, avail, last_seen_available, used, used_ring, loaded,
          send_indices, device, last_used, kicks, offered, returned>>
driverVars == <<checked, avail, last_used, kicks, offered, returned>>

Descriptor == 0 .. queue_size - 1
Index == 0 .. Width - 1

Init ==
    /\ checked \in BOOLEAN
    /\ avail = 0 /\ last_seen_available = 0 /\ used = 0 /\ last_used = 0
    /\ loaded = 0
    /\ used_ring = [n \in Descriptor |-> 0]
    /\ send_indices = <<>> /\ device = "idle" /\ kicks = FALSE
    /\ offered = <<>> /\ returned = <<>>

\* x + 1 on a 16-bit counter, where it does not panic.
bump(x) == (x + 1) % Width

\* The addition overflows and the build checks for it.
Overflows(x) == checked /\ x + 1 = Width

------------------------------------------------------------------------------
(* The device, in the exit handler of the notifying vCPU *)

\* handle_notify_output takes the device's mutex.
handle_notify_output ==
    /\ kicks /\ device = "idle"
    /\ kicks' = FALSE
    /\ device' = "collect"
    /\ loaded' = avail
    /\ UNCHANGED <<checked, avail, last_seen_available, used, used_ring,
                   send_indices, last_used, offered, returned>>

\* Mutant of next: the position after.
next_ahead ==
    /\ device = "collect"
    /\ loaded' = avail
    /\ IF last_seen_available = loaded'
       THEN device' = "send" /\ UNCHANGED <<last_seen_available, send_indices>>
       ELSE /\ send_indices' =
                  Append(send_indices, bump(last_seen_available) % queue_size)
            /\ last_seen_available' = bump(last_seen_available)
            /\ UNCHANGED device
    /\ UNCHANGED <<used, used_ring, driverVars>>

\* AvailIter::next, until it gives None.  The index is read from guest memory
\* without synchronisation: a build may read it in every iteration or not.
next ==
    /\ device = "collect"
    /\ loaded' \in {loaded, avail}
    /\ IF last_seen_available = loaded'
       THEN device' = "send" /\ UNCHANGED <<last_seen_available, send_indices>>
       ELSE IF Overflows(last_seen_available)
       THEN device' = "panicked" /\ UNCHANGED <<last_seen_available, send_indices>>
       ELSE /\ send_indices' = Append(send_indices, last_seen_available % queue_size)
            /\ last_seen_available' = bump(last_seen_available)
            /\ UNCHANGED device
    /\ UNCHANGED <<used, used_ring, driverVars>>

\* Mutant of add_used: the index of the used ring is not advanced.
add_used_silent ==
    /\ device = "send" /\ send_indices # <<>>
    /\ used_ring' = [used_ring EXCEPT ![used % queue_size] = Head(send_indices)]
    /\ send_indices' = Tail(send_indices)
    /\ UNCHANGED <<last_seen_available, used, loaded, device, driverVars>>

\* One descriptor goes to the TAP device and into the used ring.
add_used ==
    /\ device = "send" /\ send_indices # <<>>
    /\ used_ring' = [used_ring EXCEPT ![used % queue_size] = Head(send_indices)]
    /\ send_indices' = Tail(send_indices)
    /\ IF Overflows(used) THEN device' = "panicked" /\ UNCHANGED used
       ELSE used' = bump(used) /\ UNCHANGED device
    /\ UNCHANGED <<last_seen_available, loaded, driverVars>>

\* The descriptor's address is dereferenced as a host address and its length
\* is taken to cover a header: the process may die here, or the handler panic
\* (VirtioNet!SendPanics says when).
send_crashes ==
    /\ device = "send" /\ send_indices # <<>>
    /\ device' \in {"crashed", "panicked"}
    /\ UNCHANGED <<last_seen_available, used, used_ring, loaded, send_indices,
                   driverVars>>

send_done ==
    /\ device = "send" /\ send_indices = <<>>
    /\ device' = "idle"
    /\ UNCHANGED <<last_seen_available, used, used_ring, loaded, send_indices,
                   driverVars>>

DeviceStep == handle_notify_output \/ next \/ add_used \/ send_crashes \/ send_done

------------------------------------------------------------------------------
(* The driver *)

Offer ==
    /\ Len(offered) < MaxOffers
    /\ Len(offered) - Len(returned) < queue_size
    /\ offered' = Append(offered, avail % queue_size)
    /\ avail' = (avail + 1) % Width
    /\ kicks' = TRUE
    /\ UNCHANGED <<checked, last_seen_available, used, used_ring, loaded,
                   send_indices, device, last_used, returned>>

Reclaim ==
    /\ last_used # used
    /\ returned' = Append(returned, used_ring[last_used % queue_size])
    /\ last_used' = (last_used + 1) % Width
    /\ UNCHANGED <<checked, avail, last_seen_available, used, used_ring,
                   loaded, send_indices, device, kicks, offered>>

Next == DeviceStep \/ Offer \/ Reclaim

Spec == Init /\ [][Next]_vars

------------------------------------------------------------------------------
(* Properties *)

\* The driver gets its descriptors back in the order in which it offered
\* them, each once, also when the indices wrap around.
ReturnedInOrder ==
    /\ Len(returned) <= Len(offered)
    /\ \A k \in 1 .. Len(returned) : returned[k] = offered[k]

\* No notification is lost: when the device is idle and none is owed, it has
\* seen everything the driver has offered, also what was offered while it
\* was busy.
NothingLeftBehind == device = "idle" /\ ~kicks => last_seen_available = avail
==============================================================================
