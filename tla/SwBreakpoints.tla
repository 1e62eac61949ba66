---------------------------- MODULE SwBreakpoints ----------------------------
(***************************************************************************)
(* Software breakpoints of the GDB target: inserting one saves the bytes   *)
(* it covers and overwrites them with the int3 opcode, removing it writes  *)
(* the saved bytes back.  The table is keyed by (addr, kind), kind being   *)
(* the number of bytes.                                                    *)
(*                                                                         *)
(* Nothing relates breakpoints that overlap, so what is left in the        *)
(* guest's memory depends on how the debugger nests them; nesting says     *)
(* which kind of debugger this is.                                         *)
(***************************************************************************)
EXTENDS Integers

CONSTANTS Top,      \* guest code occupies the addresses 0 .. Top
          Kinds,    \* lengths of breakpoints
          Bytes     \* values of a byte of guest code

ASSUME TopAssumption     == Top \in Nat
ASSUME KindsAssumption   == Kinds \subseteq Nat

OPCODE == 204

Addr == 0 .. Top
Cells(b) == b.addr .. b.addr + b.kind - 1
SwBreakpoint == {b \in [addr : Addr, kind : Kinds] : Cells(b) \subseteq Addr}
Overlap(b, d) == Cells(b) \cap Cells(d) # {}

VARIABLES
    nesting,         \* "disjoint": the debugger's breakpoints never overlap;
                     \* "lifo": they may, and are removed in reverse order
    memory,          \* guest memory
    sw_breakpoints,  \* the table: breakpoint -> the bytes it replaced
    below,           \* history: breakpoint -> those that were there before it
    text             \* history: guest code as the debugger last wrote it

swVars == <<nesting, memory, sw_breakpoints, below, text>>

Installed == DOMAIN sw_breakpoints

SwInit ==
    /\ nesting \in {"disjoint", "lifo"}
    /\ text \in [Addr -> Bytes]
    /\ memory = text
    /\ sw_breakpoints = <<>>
    /\ below = <<>>

------------------------------------------------------------------------------
(* The target's operations *)

\* Mutant of add_sw_breakpoint: an occupied entry is written again.
add_sw_breakpoint_again(b) ==
    /\ memory' = [a \in Addr |-> IF a \in Cells(b) THEN OPCODE ELSE memory[a]]
    /\ sw_breakpoints' = [d \in Installed \cup {b} |->
          IF d = b THEN [a \in Cells(b) |-> memory[a]] ELSE sw_breakpoints[d]]
    /\ below' = [d \in Installed \cup {b} |->
          IF d \notin Installed THEN Installed ELSE below[d]]
    /\ UNCHANGED <<nesting, text>>

\* A vacant entry takes the bytes, which are then filled with the opcode.
add_sw_breakpoint(b) ==
    /\ IF b \notin Installed
       THEN /\ sw_breakpoints' = [d \in Installed \cup {b} |->
                  IF d = b THEN [a \in Cells(b) |-> memory[a]] ELSE sw_breakpoints[d]]
            /\ below' = [d \in Installed \cup {b} |->
                  IF d = b THEN Installed ELSE below[d]]
            /\ memory' = [a \in Addr |-> IF a \in Cells(b) THEN OPCODE ELSE memory[a]]
       ELSE UNCHANGED <<memory, sw_breakpoints, below>>
    /\ UNCHANGED <<nesting, text>>

\* An occupied entry is removed and its bytes are copied back.
remove_sw_breakpoint(b) ==
    /\ IF b \in Installed
       THEN /\ memory' = [a \in Addr |->
                  IF a \in Cells(b) THEN sw_breakpoints[b][a] ELSE memory[a]]
            /\ sw_breakpoints' = [d \in Installed \ {b} |-> sw_breakpoints[d]]
            /\ below' = [d \in Installed \ {b} |-> below[d] \ {b}]
       ELSE UNCHANGED <<memory, sw_breakpoints, below>>
    /\ UNCHANGED <<nesting, text>>

\* write_addrs of one byte.
write_addrs(a, byte) ==
    /\ memory' = [memory EXCEPT ![a] = byte]
    /\ text' = [text EXCEPT ![a] = byte]
    /\ UNCHANGED <<nesting, sw_breakpoints, below>>

------------------------------------------------------------------------------
(* The debugger *)

DebuggerAdds(b) ==
    /\ nesting = "disjoint" => \A d \in Installed : d = b \/ ~Overlap(b, d)
    /\ add_sw_breakpoint(b)

DebuggerRemoves(b) ==
    /\ nesting = "lifo" => \A d \in Installed : b \notin below[d]
    /\ remove_sw_breakpoint(b)

\* It patches code only where it has no breakpoint.
DebuggerWrites(a, byte) ==
    /\ \A d \in Installed : a \notin Cells(d)
    /\ write_addrs(a, byte)

SwNext ==
    \/ \E b \in SwBreakpoint : DebuggerAdds(b) \/ DebuggerRemoves(b)
    \/ \E a \in Addr, byte \in Bytes : DebuggerWrites(a, byte)

------------------------------------------------------------------------------
(* Properties *)

Covered(a) == \E b \in Installed : a \in Cells(b)

SwTypeOK ==
    /\ nesting \in {"disjoint", "lifo"}
    /\ memory \in [Addr -> Bytes \cup {OPCODE}]
    /\ text \in [Addr -> Bytes]
    /\ Installed \subseteq SwBreakpoint
    /\ \A b \in Installed : sw_breakpoints[b] \in [Cells(b) -> Bytes \cup {OPCODE}]
    /\ below \in [Installed -> SUBSET SwBreakpoint]

\* Guest memory is the code with an int3 at every byte of an installed
\* breakpoint and nothing else: every removal restores exactly the bytes no
\* other breakpoint covers, so without breakpoints the code is untouched.
MemoryIsOverlay ==
    memory = [a \in Addr |-> IF Covered(a) THEN OPCODE ELSE text[a]]
==============================================================================
