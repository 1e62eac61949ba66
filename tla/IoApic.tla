-------------------------------- MODULE IoApic --------------------------------
(***************************************************************************)
(* The I/O APIC that uhyve emulates on macOS: a register that selects and  *)
(* a window onto the selected one, both behind a mutex that every vCPU     *)
(* takes for one access at a time.  A handler that panics poisons it.      *)
(***************************************************************************)
EXTENDS Naturals

CONSTANTS IOAPIC_REG_TABLE, REDIR_ENTRIES

VARIABLES selector, rtbl,
          poisoned    \* an access panicked under the mutex

apicVars == <<selector, rtbl, poisoned>>

Index == 0 .. IOAPIC_REG_TABLE + 2 * REDIR_ENTRIES - 1

\* 0x11 | (REDIR_ENTRIES - 1) << 16, and 0x00010000.
Version == 2
Masked == 1

\* IoApic::new; the loop over the redirection entries ends at their number.
NewTable == [i \in Index |->
               CASE i = 1                                      -> Version
                 [] i \in IOAPIC_REG_TABLE .. REDIR_ENTRIES - 1 -> Masked
                 [] OTHER                                      -> 0]

new ==
    /\ selector = 0
    /\ rtbl = NewTable
    /\ poisoned = FALSE

\* The offsets of the two registers.
SELECT == 0
WINDOW == 16

\* An access that panics: an offset of neither, or a window onto nothing.
Invalid(offset) == offset \notin {SELECT, WINDOW} \/ (offset = WINDOW /\ selector \notin Index)

\* Mutant of write: the selector keeps the low bits of the value only.
write_low(offset, value) ==
    \/ /\ offset = SELECT
       /\ selector' = value % 2
       /\ UNCHANGED <<rtbl, poisoned>>
    \/ /\ offset = WINDOW /\ selector \in Index
       /\ rtbl' = [rtbl EXCEPT ![selector] = value]
       /\ UNCHANGED <<selector, poisoned>>

write(offset, value) ==
    \/ /\ offset = SELECT
       /\ selector' = value
       /\ UNCHANGED <<rtbl, poisoned>>
    \/ /\ offset = WINDOW /\ selector \in Index
       /\ rtbl' = [rtbl EXCEPT ![selector] = value]
       /\ UNCHANGED <<selector, poisoned>>

\* What a read that does not panic gives.
read(offset) == IF offset = SELECT THEN selector ELSE rtbl[selector]

\* A read or write that panics while it holds the mutex.
AccessPanics(offset) ==
    /\ Invalid(offset)
    /\ poisoned' = TRUE
    /\ UNCHANGED <<selector, rtbl>>
===============================================================================
