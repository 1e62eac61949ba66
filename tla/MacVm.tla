--------------------------------- MODULE MacVm ---------------------------------
(***************************************************************************)
(* A whole VM on macOS: the threads of MacRun with the exits of their      *)
(* vCPUs, which UhyveCPU::continue emulates, and the I/O APIC they share.  *)
(*                                                                         *)
(* A vCPU exits at an instruction; the handler emulates it and advances    *)
(* rip, stops the vCPU, or leaves rip alone, and then the guest meets the  *)
(* same instruction again.  An orderly guest takes a lock of its own       *)
(* around the accesses to the I/O APIC, makes them with instructions the   *)
(* emulation decodes and selects registers that exist; others do anything. *)
(***************************************************************************)
EXTENDS MacRun

CONSTANTS IOAPIC_REG_TABLE, REDIR_ENTRIES,
          Selected,    \* bound: registers a guest selects
          MaxExits     \* bound: instructions that exit, where a select and a
                       \* window access, half an operation, count one, others two

ASSUME TableAssumption == /\ IOAPIC_REG_TABLE \in Nat /\ IOAPIC_REG_TABLE > 1
                          /\ REDIR_ENTRIES \in Nat \ {0}
ASSUME NoHolderAssumption == None \notin Cpu

VARIABLES
    orderly,      \* is it an orderly guest?
    instr,        \* the instruction each vCPU has exited at
    msr,          \* EFER in the VMCS and apic_base of each vCPU
    selector, rtbl, poisoned,   \* the I/O APIC
    lock,         \* the guest's lock: its holder or None
    chosen,       \* the register each vCPU has selected, or None
    exits,        \* instructions met, counted as MaxExits says
    last          \* history: each vCPU's last completed register operation

ioapic == INSTANCE IoApic

apicVars == <<selector, rtbl, poisoned>>
guestLock == <<lock, chosen>>
exitVars == <<orderly, instr, msr, apicVars, guestLock, exits, last>>
allVars == <<vars, exitVars>>

IA32_EFER == 0
IA32_APIC_BASE == 1
MSRs == {IA32_EFER, IA32_APIC_BASE}

\* A register: those of a vCPU are its own, those of the I/O APIC are shared.
Shared == NumCpus
Registers == (Cpu \X MSRs) \cup ({Shared} \X ioapic!Index)
Operation(kind, owner, n, val) == [kind |-> kind, reg |-> <<owner, n>>, val |-> val]

\* The value a vCPU writes names it.
ValueOf(c) == c + 3

\* Instructions by their operation; reg is the register they are about.
Instr(op, reg) == [op |-> op, reg |-> reg]
Nothing  == Instr("none", 0)
Window   == {"write_window", "read_window"}

VmInit ==
    /\ Init /\ ioapic!new
    /\ orderly \in BOOLEAN
    /\ instr = [c \in Cpu |-> Nothing]
    /\ msr = [c \in Cpu |-> [m \in MSRs |-> 0]]
    /\ lock = None /\ chosen = [c \in Cpu |-> None] /\ exits = 0
    /\ last = [c \in Cpu |-> Operation("none", 0, 0, 0)]

-------------------------------------------------------------------------------
(* The guest (external) *)

\* vCPU c comes to an instruction that exits.
Meets(c, x) ==
    /\ cpu[c] = "guest" /\ instr[c] = Nothing
    /\ exits' = exits + (IF x.op \in Window \cup {"select"} THEN 1 ELSE 2)
    /\ exits' <= MaxExits
    /\ instr' = [instr EXCEPT ![c] = x]
    /\ UNCHANGED <<vars, orderly, msr, apicVars, last>>

\* An ordinary instruction.
MeetsPlain(c) ==
    /\ \/ \E op \in {"plain", "repeated", "fatal", "exit", "shutdown"} : Meets(c, Instr(op, 0))
       \/ \E op \in {"rdmsr", "wrmsr"}, m \in MSRs : Meets(c, Instr(op, m))
    /\ UNCHANGED guestLock

\* It selects a register of the I/O APIC.
MeetsSelect(c) ==
    /\ \E r \in Selected :
         /\ orderly => lock = None /\ r \in ioapic!Index
         /\ Meets(c, Instr("select", r))
    /\ lock' = IF orderly THEN c ELSE lock
    /\ UNCHANGED chosen

\* It goes through the window to the register it has selected.
MeetsWindow(c) ==
    /\ chosen[c] # None
    /\ \E op \in Window : Meets(c, Instr(op, chosen[c]))
    /\ UNCHANGED guestLock

\* An access at another offset, or with an instruction that does not decode, or
\* a read of the selector, which others may have changed.
MeetsOdd(c) ==
    /\ ~orderly
    /\ \E op \in {"odd_offset", "undecodable", "read_select"} : Meets(c, Instr(op, 0))
    /\ UNCHANGED guestLock

\* The guest has what it wanted of the I/O APIC.
Unlocks(c) ==
    /\ lock = c /\ instr[c] = Nothing /\ cpu[c] = "guest"
    /\ chosen[c] # None
    /\ lock' = None
    /\ chosen' = [chosen EXCEPT ![c] = None]
    /\ UNCHANGED <<vars, orderly, instr, msr, apicVars, exits, last>>

-------------------------------------------------------------------------------
(* UhyveCPU::continue *)

At(c, ops) == cpu[c] = "guest" /\ instr[c].op \in ops

\* rip + len: the guest goes on behind the instruction.
Advance(c) == instr' = [instr EXCEPT ![c] = Nothing]

\* Mutant of EmulatePlain: rip is not advanced.
EmulatePlainStays(c) ==
    /\ At(c, {"plain"})
    /\ UNCHANGED <<vars, exitVars>>

\* CPUID, XSETBV, and output to a port that is not EXIT or SHUTDOWN, known or
\* not (Hypercalls has the calls).
EmulatePlain(c) ==
    /\ At(c, {"plain"})
    /\ Advance(c)
    /\ UNCHANGED <<vars, orderly, msr, apicVars, guestLock, exits, last>>

\* emulate_rdmsr and emulate_wrmsr for the two registers they keep.
emulate_rdmsr(c) ==
    /\ At(c, {"rdmsr"})
    /\ last' = [last EXCEPT ![c] = Operation("read", c, instr[c].reg, msr[c][instr[c].reg])]
    /\ Advance(c)
    /\ UNCHANGED <<vars, orderly, msr, apicVars, guestLock, exits>>

emulate_wrmsr(c) ==
    /\ At(c, {"wrmsr"})
    /\ msr' = [msr EXCEPT ![c][instr[c].reg] = ValueOf(c)]
    /\ last' = [last EXCEPT ![c] = Operation("write", c, instr[c].reg, ValueOf(c))]
    /\ Advance(c)
    /\ UNCHANGED <<vars, orderly, apicVars, guestLock, exits>>

\* emulate_ioapic, which takes the mutex for one access.
emulate_ioapic(c) ==
    /\ ~poisoned
    /\ \/ /\ At(c, {"select"})
          /\ ioapic!write(ioapic!SELECT, instr[c].reg)
          /\ chosen' = [chosen EXCEPT ![c] = instr[c].reg]
          /\ UNCHANGED last
       \/ /\ At(c, {"write_window"})
          /\ ioapic!write(ioapic!WINDOW, ValueOf(c))
          /\ last' = [last EXCEPT ![c] = Operation("write", Shared, instr[c].reg, ValueOf(c))]
          /\ UNCHANGED chosen
       \/ /\ At(c, {"read_window"}) /\ ~ioapic!Invalid(ioapic!WINDOW)
          /\ last' = [last EXCEPT ![c] =
                         Operation("read", Shared, instr[c].reg, ioapic!read(ioapic!WINDOW))]
          /\ UNCHANGED <<apicVars, chosen>>
       \/ /\ At(c, {"read_select"})       \* ioapic!read(SELECT) into a register
          /\ UNCHANGED <<apicVars, chosen, last>>
    /\ Advance(c)
    /\ UNCHANGED <<vars, orderly, msr, lock, exits>>

\* What disassemble_64 does not understand is skipped without an access.
SkipsUndecodable(c) ==
    /\ At(c, {"undecodable"})
    /\ Advance(c)
    /\ UNCHANGED <<vars, orderly, msr, apicVars, guestLock, exits, last>>

\* The I/O APIC panics while vCPU c holds its mutex.
ApicPanics(c) ==
    /\ ~poisoned
    /\ \/ At(c, Window) /\ ioapic!AccessPanics(ioapic!WINDOW)
       \/ At(c, {"odd_offset"}) /\ ioapic!AccessPanics(8)
    /\ HandlerPanics(c)
    /\ UNCHANGED <<orderly, instr, msr, guestLock, exits, last>>

\* lock().unwrap() on the poisoned mutex.
LockPanics(c) ==
    /\ poisoned
    /\ At(c, {"select", "read_select", "odd_offset"} \cup Window)
    /\ HandlerPanics(c)
    /\ UNCHANGED exitVars

\* Input from a port, exceptions and exits without a handler, unknown MSRs, an
\* access to the I/O APIC by other than MOV; and debug exits, which run refuses.
Panics(c) ==
    /\ At(c, {"fatal"})
    /\ HandlerPanics(c)
    /\ UNCHANGED exitVars

\* UHYVE_PORT_EXIT with a code of the guest; SHUTDOWN_PORT gives 0.
Stop(c) ==
    /\ At(c, {"exit", "shutdown"})
    /\ ExitWithCode(c)
    /\ instr[c].op = "shutdown" => result'[c] = 0
    /\ UNCHANGED exitVars

\* A call of the hypervisor fails.
HypervisorFails(c) ==
    /\ RunError(c)
    /\ UNCHANGED exitVars

\* RDRAND and memory that is not there: nothing is done, nothing is skipped.
Repeats(c) ==
    /\ At(c, {"repeated"})
    /\ UNCHANGED allVars

-------------------------------------------------------------------------------

Handle(c) ==
    \/ EmulatePlain(c) \/ emulate_rdmsr(c) \/ emulate_wrmsr(c)
    \/ emulate_ioapic(c) \/ SkipsUndecodable(c)
    \/ ApicPanics(c) \/ LockPanics(c) \/ Panics(c) \/ Stop(c)

Guest(c) ==
    \/ GuestOnline(c) /\ UNCHANGED exitVars
    \/ CreateFails(c) /\ UNCHANGED exitVars
    \/ HypervisorFails(c) \/ Repeats(c)
    \/ MeetsPlain(c) \/ MeetsSelect(c) \/ MeetsWindow(c) \/ MeetsOdd(c) \/ Unlocks(c)

VmNext ==
    \/ MainStep /\ UNCHANGED exitVars
    \/ \E c \in Cpu : \/ HostStep(c) /\ UNCHANGED exitVars
                      \/ Handle(c) \/ Guest(c)

VmSpec == VmInit /\ [][VmNext]_allVars

\* The host schedules every thread; nothing is assumed about the guest.
FairVmSpec ==
    /\ VmSpec
    /\ WF_allVars(MainStep /\ UNCHANGED exitVars)
    /\ \A c \in Cpu : /\ WF_allVars(HostStep(c) /\ UNCHANGED exitVars)
                      /\ WF_allVars(Handle(c))

-------------------------------------------------------------------------------
(* Properties *)

\* Registers of an orderly guest (of the others, nothing is said).
Blank == [r \in Registers |-> 0]
Guests == INSTANCE RegisterFile
          WITH Users <- Cpu, Values <- {ValueOf(c) : c \in Cpu},
               regs <- IF ~orderly THEN Blank
                       ELSE [r \in Registers |-> IF r[1] = Shared THEN rtbl[r[2]]
                                                 ELSE msr[r[1]][r[2]]],
               last <- [c \in Cpu |-> IF orderly THEN last[c] ELSE Operation("none", 0, 0, 0)]
\* An orderly guest finds in the I/O APIC, which takes two accesses for one
\* operation, and in the emulated model-specific registers what was last
\* written there, by whichever vCPU may write there, and writes change nothing else.
\* (Nothing is said about what is there at first.)
IsRegisterFile == Guests!Spec

\* An instruction that continue emulates does not come back: rip gets past
\* it, or the vCPU stops.
EmulatedOnce ==
    \A c \in Cpu : (cpu[c] = "guest" /\ instr[c].op \notin {"repeated", "none"})
                    ~> (instr[c] = Nothing \/ cpu[c] # "guest")
===============================================================================
