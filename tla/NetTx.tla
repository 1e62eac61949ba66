-------------------------------- MODULE NetTx --------------------------------
(***************************************************************************)
(* Transmit half of UhyveNetwork: guest cores put packets into the shared  *)
(* transmit ring and announce each one with a write to UHYVE_PORT_NETWRITE;*)
(* the vCPU thread turns the write into a token on a channel of capacity   *)
(* one; the writer thread takes one packet out of the ring per token.      *)
(*                                                                         *)
(* A packet is the number of its publication (1, 2, ...); 0 is a slot      *)
(* whose len is zero.  The guest driver is not part of uhyve: it is        *)
(* modelled from the protocol the writer thread relies on.                 *)
(***************************************************************************)
EXTENDS SharedQueue, FiniteSets

CONSTANT Cores  \* guest cores that send packets

ASSUME CoresAssumption == IsFiniteSet(Cores)

VARIABLES
    early,          \* does this guest use the ring before init() has run?
    chan,           \* tokens in the sync_channel(1)
    writer,         \* where the writer thread is
    core,           \* where each guest core is in its send routine
    holder,         \* the counter value read by the core inside the driver
    numbered,       \* packets the guest has numbered so far
    sent            \* history: packets handed to the TAP device

txVars == <<early, read, written, inner, chan, writer, core, holder, numbered, sent>>

guest == <<early, core, holder, numbered>>

WriterPc == {"init", "clear", "recv", "load", "send", "bump", "dead"}
CorePc == {"idle", "filled", "notify", "panicked"}

\* Guest memory comes zeroed from mmap.
TxInit ==
    /\ early \in BOOLEAN
    /\ read = 0 /\ written = 0 /\ inner = [s \in Slots |-> 0]
    /\ chan = 0 /\ writer = "init"
    /\ core = [c \in Cores |-> "idle"] /\ holder = 0 /\ numbered = 0
    /\ sent = <<>>

------------------------------------------------------------------------------
(* The writer thread *)

\* SharedQueue::init, the counters.
WriterInit ==
    /\ writer = "init"
    /\ read' = 0 /\ written' = 0
    /\ writer' = "clear"
    /\ UNCHANGED <<inner, chan, guest, sent>>

\* SharedQueue::init, the lengths.
WriterClear ==
    /\ writer = "clear"
    /\ inner' = [s \in Slots |-> 0]
    /\ writer' = "recv"
    /\ UNCHANGED <<read, written, chan, guest, sent>>

\* rx.recv() returns a token.
WriterRecv ==
    /\ writer = "recv"
    /\ chan > 0
    /\ chan' = chan - 1
    /\ writer' = "load"
    /\ UNCHANGED <<ring, guest, sent>>

\* Both counters are loaded and compared; only this thread writes read.
WriterLoad ==
    /\ writer = "load"
    /\ writer' = IF written - read > 0 THEN "send" ELSE "recv"
    /\ UNCHANGED <<ring, chan, guest, sent>>

\* The packet goes to the TAP device.
WriterSend ==
    /\ writer = "send"
    /\ sent' = Append(sent, inner[read % Size])
    /\ writer' = "bump"
    /\ UNCHANGED <<ring, chan, guest>>

\* The TAP device refuses it: expect() unwinds the thread, which drops rx.
WriterSendFails ==
    /\ writer = "send"
    /\ writer' = "dead"
    /\ UNCHANGED <<ring, chan, guest, sent>>

\* Mutant of WriterBump: one packet sent counts for all that wait.
WriterBumpAll ==
    /\ writer = "bump"
    /\ read' = written
    /\ writer' = "recv"
    /\ UNCHANGED <<written, inner, chan, guest, sent>>

WriterBump ==
    /\ writer = "bump"
    /\ read' = read + 1
    /\ writer' = "recv"
    /\ UNCHANGED <<written, inner, chan, guest, sent>>

WriterStep ==
    \/ WriterInit \/ WriterClear \/ WriterRecv \/ WriterLoad
    \/ WriterSend \/ WriterSendFails \/ WriterBump

------------------------------------------------------------------------------
(* The guest driver, one core at a time, and the NETWRITE hypercall *)

\* The driver finds a free slot and fills it.
GuestFill(c) ==
    /\ writer \in {"init", "clear"} => early
    /\ core[c] = "idle"
    /\ \A d \in Cores : core[d] # "filled"
    /\ written - read < Size
    /\ numbered < MaxPackets
    /\ inner' = [inner EXCEPT ![written % Size] = numbered + 1]
    /\ numbered' = numbered + 1
    /\ holder' = written
    /\ core' = [core EXCEPT ![c] = "filled"]
    /\ UNCHANGED <<early, read, written, chan, writer, sent>>

\* The driver advances written and leaves.
GuestPublish(c) ==
    /\ core[c] = "filled"
    /\ written' = holder + 1
    /\ core' = [core EXCEPT ![c] = "notify"]
    /\ UNCHANGED <<early, read, inner, chan, writer, holder, numbered, sent>>

\* Mutants of NetWrite: try_send, which drops the token when the channel is
\* full; a send that does not see that rx is gone.
NetWriteTry(c) ==
    /\ core[c] = "notify"
    /\ chan' = IF writer # "dead" THEN 1 ELSE chan
    /\ core' = [core EXCEPT ![c] = "idle"]
    /\ UNCHANGED <<early, ring, writer, holder, numbered, sent>>
NetWriteDeaf(c) ==
    /\ core[c] = "notify"
    /\ chan < 1
    /\ chan' = chan + 1
    /\ core' = [core EXCEPT ![c] = "idle"]
    /\ UNCHANGED <<early, ring, writer, holder, numbered, sent>>

\* UHYVE_PORT_NETWRITE: send(1) blocks the vCPU while the channel is full,
\* and fails (unwrap() unwinds the vCPU) once the writer thread is gone.
NetWrite(c) ==
    /\ core[c] = "notify"
    /\ \/ /\ writer # "dead" /\ chan < 1
          /\ chan' = chan + 1
          /\ core' = [core EXCEPT ![c] = "idle"]
       \/ /\ writer = "dead"
          /\ core' = [core EXCEPT ![c] = "panicked"]
          /\ UNCHANGED chan
    /\ UNCHANGED <<early, ring, writer, holder, numbered, sent>>

GuestStep(c) == GuestFill(c) \/ GuestPublish(c) \/ NetWrite(c)

TxNext == WriterStep \/ \E c \in Cores : GuestStep(c)

TxSpec == TxInit /\ [][TxNext]_txVars

\* Every host thread is scheduled, a core that has filled a slot publishes and
\* announces it, and blocked senders of a sync_channel are served in turn.
TxFairSpec ==
    /\ TxSpec
    /\ WF_txVars(WriterStep)
    /\ \A c \in Cores : WF_txVars(GuestPublish(c)) /\ SF_txVars(NetWrite(c))

------------------------------------------------------------------------------
(* Properties *)

TxTypeOK ==
    /\ early \in BOOLEAN
    /\ read \in Nat /\ written \in Nat
    /\ inner \in [Slots -> 0 .. MaxPackets]
    /\ chan \in 0 .. 1
    /\ writer \in WriterPc
    /\ core \in [Cores -> CorePc]
    /\ holder \in Nat
    /\ numbered \in 0 .. MaxPackets
    /\ sent \in Seq(0 .. MaxPackets)

\* Cores that have published a packet and still owe its token.
Owing == {c \in Cores : core[c] = "notify"}

\* No packet of a guest that starts after init() is stranded: when no token
\* is left anywhere, the ring is empty.  The writer takes one packet per
\* token and never looks for more.
NothingStranded ==
    ~early /\ writer = "recv" /\ chan = 0 /\ Owing = {} => written = read

\* The ring as a queue: the head has left it once it has been sent.
TxPending ==
    LET first == IF writer = "bump" THEN read + 1 ELSE read
    IN  [k \in 1 .. written - first |-> inner[(first + k - 1) % Size]]
TxFifo == INSTANCE NetFifo WITH q <- IF early THEN <<>> ELSE TxPending,
                                out <- IF early THEN <<>> ELSE sent,
                                Packets <- 1 .. MaxPackets
\* The transmit path implements a FIFO of Size packets, for guests that start
\* after init().
TxIsFifo == TxFifo!Spec

\* Every packet published after init() reaches the TAP device, unless the
\* device fails.
EventuallySent ==
    \A k \in 1 .. MaxPackets :
        (~early /\ written >= k) ~> (read >= k \/ writer = "dead")

\* A vCPU blocked in the NETWRITE hypercall always gets out of it.
NetWriteReturns ==
    \A c \in Cores : (core[c] = "notify") ~> (core[c] # "notify")
==============================================================================
