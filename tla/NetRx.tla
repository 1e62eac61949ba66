-------------------------------- MODULE NetRx --------------------------------
(***************************************************************************)
(* Receive half of UhyveNetwork: the reader thread moves frames from the   *)
(* TAP device into the shared receive ring and raises the network          *)
(* interrupt through an eventfd; the guest's interrupt handler drains the  *)
(* ring.                                                                   *)
(*                                                                         *)
(* A frame is the number of its arrival (1, 2, ...); 0 is an empty slot.   *)
(* The guest driver is not part of uhyve: it is modelled from the protocol *)
(* the reader thread relies on.                                            *)
(***************************************************************************)
EXTENDS SharedQueue

VARIABLES
    reader,         \* where the reader thread is
    irq,            \* eventfd signalled, interrupt not yet taken
    driver,         \* where the guest's interrupt handler is
    arrived,        \* frames the TAP device has delivered
    got             \* history: frames the guest has taken out of the ring

rxVars == <<read, written, inner, reader, irq, driver, arrived, got>>

ReaderPc == {"init", "load", "recv", "publish", "irq", "dead", "mute"}
DriverPc == {"idle", "check", "copy", "consume"}

RxInit ==
    /\ read = 0 /\ written = 0 /\ inner = [s \in Slots |-> 0]
    /\ reader = "init" /\ irq = FALSE
    /\ driver = "idle" /\ arrived = 0 /\ got = <<>>

------------------------------------------------------------------------------
(* The reader thread *)

\* SharedQueue::init.
ReaderInit ==
    /\ reader = "init"
    /\ read' = 0 /\ written' = 0 /\ inner' = [s \in Slots |-> 0]
    /\ reader' = "load"
    /\ UNCHANGED <<irq, driver, arrived, got>>

\* Mutant of ReaderLoad: a full ring passes the comparison.
ReaderLoadFull ==
    /\ reader = "load"
    /\ written - read <= Size
    /\ reader' = "recv"
    /\ UNCHANGED <<read, written, inner, irq, driver, arrived, got>>

\* Both counters are loaded; a full ring sends the thread around the loop.
ReaderLoad ==
    /\ reader = "load"
    /\ written - read < Size
    /\ reader' = "recv"
    /\ UNCHANGED <<read, written, inner, irq, driver, arrived, got>>

\* Mutant of ReaderRecv: the frame goes one slot ahead.
ReaderRecvAhead ==
    /\ reader = "recv"
    /\ arrived < MaxPackets
    /\ arrived' = arrived + 1
    /\ inner' = [inner EXCEPT ![(written + 1) % Size] = arrived + 1]
    /\ reader' = "publish"
    /\ UNCHANGED <<read, written, irq, driver, got>>

\* recv() puts the next frame into the slot; its length is stored.
ReaderRecv ==
    /\ reader = "recv"
    /\ arrived < MaxPackets
    /\ arrived' = arrived + 1
    /\ inner' = [inner EXCEPT ![written % Size] = arrived + 1]
    /\ reader' = "publish"
    /\ UNCHANGED <<read, written, irq, driver, got>>

\* The TAP device fails: expect() unwinds the thread.
ReaderRecvFails ==
    /\ reader = "recv"
    /\ reader' = "dead"
    /\ UNCHANGED <<read, written, inner, irq, driver, arrived, got>>

ReaderPublish ==
    /\ reader = "publish"
    /\ written' = written + 1
    /\ reader' = "irq"
    /\ UNCHANGED <<read, inner, irq, driver, arrived, got>>

\* Mutant of ReaderIrq: only the first frame is announced.
ReaderIrqOnce ==
    /\ reader = "irq"
    /\ irq' = (irq \/ written = 1)
    /\ reader' = "load"
    /\ UNCHANGED <<read, written, inner, driver, arrived, got>>

\* evtfd.write(1): interrupts not yet taken coalesce.
ReaderIrq ==
    /\ reader = "irq"
    /\ irq' = TRUE
    /\ reader' = "load"
    /\ UNCHANGED <<read, written, inner, driver, arrived, got>>

\* The eventfd cannot be written: expect() unwinds the thread, and the frame it
\* has just published is not announced.
ReaderIrqFails ==
    /\ reader = "irq"
    /\ reader' = "mute"
    /\ UNCHANGED <<read, written, inner, irq, driver, arrived, got>>

------------------------------------------------------------------------------
(* The guest's interrupt handler *)

TakeIrq ==
    /\ driver = "idle" /\ irq
    /\ irq' = FALSE
    /\ driver' = "check"
    /\ UNCHANGED <<read, written, inner, reader, arrived, got>>

DriverCheck ==
    /\ driver = "check"
    /\ driver' = IF written - read > 0 THEN "copy" ELSE "idle"
    /\ UNCHANGED <<read, written, inner, reader, irq, arrived, got>>

DriverCopy ==
    /\ driver = "copy"
    /\ got' = Append(got, inner[read % Size])
    /\ driver' = "consume"
    /\ UNCHANGED <<read, written, inner, reader, irq, arrived>>

DriverConsume ==
    /\ driver = "consume"
    /\ read' = read + 1
    /\ driver' = "check"
    /\ UNCHANGED <<written, inner, reader, irq, arrived, got>>

ReaderStep ==
    \/ ReaderInit \/ ReaderLoad \/ ReaderRecv \/ ReaderRecvFails
    \/ ReaderPublish \/ ReaderIrq \/ ReaderIrqFails

DriverStep == TakeIrq \/ DriverCheck \/ DriverCopy \/ DriverConsume

RxNext == ReaderStep \/ DriverStep

RxSpec == RxInit /\ [][RxNext]_rxVars

\* The host schedules the reader thread once it holds a frame (frames need not
\* arrive), and the guest serves its interrupt.
RxFairSpec ==
    /\ RxSpec
    /\ WF_rxVars(ReaderInit \/ ReaderLoad \/ ReaderPublish \/ ReaderIrq)
    /\ WF_rxVars(DriverStep)

------------------------------------------------------------------------------
(* Properties *)

RxTypeOK ==
    /\ read \in Nat /\ written \in Nat
    /\ inner \in [Slots -> 0 .. MaxPackets]
    /\ reader \in ReaderPc
    /\ irq \in BOOLEAN
    /\ driver \in DriverPc
    /\ arrived \in 0 .. MaxPackets
    /\ got \in Seq(0 .. MaxPackets)

\* The reader thread never writes the slot the guest is copying from.
NoSlotRace ==
    reader \in {"recv", "publish"} /\ driver \in {"copy", "consume"}
        => written % Size # read % Size

\* No lost wakeup: if frames wait while the guest's handler is idle, the
\* interrupt is pending; or it is a single frame, for which the interrupt is
\* about to be raised, or could not be.
NoLostWakeup ==
    read < written /\ driver = "idle" =>
        irq \/ (reader \in {"irq", "mute"} /\ written = read + 1)

\* The guest gets the frames in the order of arrival, each once.
InOrder == \A k \in 1 .. Len(got) : got[k] = k

\* The ring as a queue: the head has left it once the guest has copied it.
RxPending ==
    LET first == IF driver = "consume" THEN read + 1 ELSE read
    IN  [k \in 1 .. written - first |-> inner[(first + k - 1) % Size]]
RxFifo == INSTANCE NetFifo WITH q <- RxPending, out <- got, Packets <- 1 .. MaxPackets
\* The receive path implements a FIFO of Size frames.
RxIsFifo == RxFifo!Spec

\* Every frame in the ring reaches the guest, whatever the TAP device does
\* afterwards, but for a last one that could not be announced.
EventuallyReceived ==
    \A k \in 1 .. MaxPackets :
        (written >= k) ~> (Len(got) >= k \/ (reader = "mute" /\ written = k))
==============================================================================
