---------------------------- MODULE HwBreakpoints ----------------------------
(***************************************************************************)
(* Hardware breakpoints and watchpoints of the GDB target: a table of      *)
(* slots, one per debug address register.  Resuming the guest loads the    *)
(* table into the debug registers (apply_guest_debug); a debug exception   *)
(* is translated back into a stop reason through the table, with the trap  *)
(* bits the processor leaves in DR6.                                       *)
(***************************************************************************)
EXTENDS Integers, Sequences, FiniteSets

CONSTANTS NumSlots,    \* debug address registers (4)
          Addrs,       \* guest addresses
          None         \* an empty slot

ASSUME NumSlotsAssumption == NumSlots \in Nat \ {0}

Slot == 0 .. NumSlots - 1
HwBreakpoint == [addr : Addrs, condition : {"exec", "write", "readwrite"}]

ASSUME NoneAssumption == None \notin HwBreakpoint

VARIABLES
    slots,     \* HwBreakpoints.0
    debugreg,  \* what apply_guest_debug last loaded
    step,      \* single-stepping was asked for
    vcpu,      \* "stopped", "running" or "panicked"
    reason,    \* the last stop reason reported
    answer     \* the last answer to an insertion or removal

hwVars == <<slots, debugreg, step, vcpu, reason, answer>>

\* The stop reasons gdbstub is given.
StopReason(b) == IF b.condition = "exec" THEN <<"HwBreak">>
                 ELSE <<"Watch", b.condition, b.addr>>
DoneStep == <<"DoneStep">>
Other == <<"other">>

HwInit ==
    /\ slots = [n \in Slot |-> None]
    /\ debugreg = [n \in Slot |-> None]
    /\ step = FALSE /\ vcpu = "stopped" /\ reason = Other /\ answer = TRUE

------------------------------------------------------------------------------
(* The table *)

\* The first slot that satisfies the predicate, as find() returns it.
IsFirst(n, S) == n \in S /\ \A m \in S : n <= m
Free == {n \in Slot : slots[n] = None}
Holding(b) == {n \in Slot : slots[n] = b}

\* Mutant of try_insert: the first slot is used when none is free.
try_insert_evict(b) ==
    /\ \E n \in Slot :
          /\ IsFirst(n, IF Free = {} THEN Slot ELSE Free)
          /\ slots' = [slots EXCEPT ![n] = b]
    /\ answer' = TRUE

try_insert(b) ==
    \/ \E n \in Slot :
          /\ IsFirst(n, Free)
          /\ slots' = [slots EXCEPT ![n] = b]
          /\ answer' = TRUE
    \/ Free = {} /\ answer' = FALSE /\ UNCHANGED slots

take(b) ==
    \/ \E n \in Slot :
          /\ IsFirst(n, Holding(b))
          /\ slots' = [slots EXCEPT ![n] = None]
          /\ answer' = TRUE
    \/ Holding(b) = {} /\ answer' = FALSE /\ UNCHANGED slots

------------------------------------------------------------------------------
(* Requests of the debugger, while the guest is stopped *)

\* add_hw_breakpoint, add_hw_watchpoint
Add(b) ==
    /\ vcpu = "stopped"
    /\ try_insert(b)
    /\ UNCHANGED <<debugreg, step, vcpu, reason>>

\* remove_hw_breakpoint, remove_hw_watchpoint
Remove(b) ==
    /\ vcpu = "stopped"
    /\ take(b)
    /\ UNCHANGED <<debugreg, step, vcpu, reason>>

\* A size the processor does not know, or a watchpoint on reads only.
Refuse ==
    /\ vcpu = "stopped"
    /\ answer' = FALSE
    /\ UNCHANGED <<slots, debugreg, step, vcpu, reason>>

\* An address that is not canonical: VirtAddr::new panics, whether the
\* breakpoint is to be added or removed.
NotCanonical ==
    /\ vcpu = "stopped"
    /\ vcpu' = "panicked"
    /\ UNCHANGED <<slots, debugreg, step, reason, answer>>

\* Mutant of Resume: stepping leaves the debug registers as they are.
ResumeStale ==
    /\ vcpu = "stopped"
    /\ step' \in BOOLEAN
    /\ debugreg' = IF step' THEN debugreg ELSE slots
    /\ vcpu' = "running"
    /\ UNCHANGED <<slots, reason, answer>>

\* resume or step: apply_guest_debug loads the registers.
Resume ==
    /\ vcpu = "stopped"
    /\ step' \in BOOLEAN
    /\ debugreg' = slots
    /\ vcpu' = "running"
    /\ UNCHANGED <<slots, reason, answer>>

------------------------------------------------------------------------------
(* Stops *)

\* stop_reason: the trap bits say which registers matched.  No trap bit, or
\* the bit of an empty slot, makes unwrap() panic.
stop_reason(stepped, traps) ==
    IF stepped THEN reason' = DoneStep /\ vcpu' = "stopped"
    ELSE \/ \E n \in Slot :
               /\ IsFirst(n, traps)
               /\ slots[n] # None
               /\ reason' = StopReason(slots[n])
               /\ vcpu' = "stopped"
         \/ /\ traps = {} \/ \E n \in traps : IsFirst(n, traps) /\ slots[n] = None
            /\ vcpu' = "panicked"
            /\ UNCHANGED reason

\* The processor stops the guest: registers that are loaded match, or a step
\* is done, or both.
DebugException ==
    /\ vcpu = "running"
    /\ \E traps \in SUBSET {n \in Slot : debugreg[n] # None}, stepped \in {step, FALSE} :
          /\ traps # {} \/ stepped
          /\ stop_reason(stepped, traps)
    /\ UNCHANGED <<slots, debugreg, step, answer>>

\* The guest accesses a debug register: with GENERAL_DETECT_ENABLE loaded this
\* raises a debug exception that has no trap bit.
GeneralDetect ==
    /\ vcpu = "running"
    /\ stop_reason(FALSE, {})
    /\ UNCHANGED <<slots, debugreg, step, answer>>

\* A software breakpoint, a kick or an exit of the guest.
OtherStop ==
    /\ vcpu = "running"
    /\ vcpu' = "stopped" /\ reason' = Other
    /\ UNCHANGED <<slots, debugreg, step, answer>>

HwNext ==
    \/ \E b \in HwBreakpoint : Add(b) \/ Remove(b)
    \/ Refuse \/ NotCanonical \/ Resume \/ DebugException \/ GeneralDetect \/ OtherStop

------------------------------------------------------------------------------
(* Properties *)

HwTypeOK ==
    /\ slots \in [Slot -> HwBreakpoint \cup {None}]
    /\ debugreg \in [Slot -> HwBreakpoint \cup {None}]
    /\ step \in BOOLEAN
    /\ vcpu \in {"stopped", "running", "panicked"}
    /\ reason \in {DoneStep, Other} \cup {StopReason(b) : b \in HwBreakpoint}
    /\ answer \in BOOLEAN

Count == [b \in HwBreakpoint |-> Cardinality(Holding(b))]
Table == INSTANCE BreakpointBag
         WITH Breakpoints <- HwBreakpoint, Capacity <- NumSlots, count <- Count
\* The slots implement a bag of breakpoints: insertion fails only when all
\* debug registers are taken, removal takes exactly one copy, and the
\* debugger is told which of the two happened.
IsBag == Table!Spec

\* An exception that a loaded register or a step causes is translated to
\* what the guest was running with: to the breakpoint or watchpoint of a
\* register that apply_guest_debug loaded, or to the end of the step, whatever
\* was inserted and removed while the guest was stopped.  So stop_reason panics
\* for no exception but the one GENERAL_DETECT_ENABLE brings.
TrapsAreTranslated ==
    [][ DebugException =>
        /\ vcpu' = "stopped"
        /\ \/ reason' = DoneStep /\ step
           \/ \E n \in Slot : debugreg[n] # None /\ reason' = StopReason(debugreg[n])
      ]_hwVars
==============================================================================
