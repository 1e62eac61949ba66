--------------------------------- MODULE Boot ---------------------------------
(***************************************************************************)
(* From Uhyve::new to the first instruction of the guest: memory, the boot *)
(* page tables, loading of the kernel and the state the first vCPU starts  *)
(* in, while the threads of the network device initialise their rings.     *)
(*                                                                         *)
(* Memory is counted in pages; a page holds one thing, named by its kind.  *)
(* A page table has Entries entries and a large page is Entries pages.     *)
(* The kernel is a well-formed ELF file: segments in ascending order and   *)
(* apart, relocations inside them, nothing linked below its start address. *)
(***************************************************************************)
EXTENDS Integers, Sequences, FiniteSets

CONSTANTS BOOT_GDT, BOOT_INFO_ADDR, BOOT_PML4, BOOT_PDPTE, BOOT_PDE,
          SHAREDQUEUE_START,             \* the receive ring; then the transmit ring
          DynStart, StaticStart,         \* where the two kinds of kernel go
          KERNEL_STACK_SIZE,
          KVM_32BIT_GAP_START, KVM_32BIT_GAP_SIZE,
          Entries,                       \* entries of a page table (512)
          MemSizes,                      \* values of mem_size
          Span                           \* bound: pages of a kernel

Rings == {SHAREDQUEUE_START, SHAREDQUEUE_START + 1}
Structures == {BOOT_GDT, BOOT_INFO_ADDR, BOOT_PML4, BOOT_PDPTE, BOOT_PDE} \cup Rings

ASSUME LayoutAssumption ==
    /\ LET place == <<BOOT_GDT, BOOT_INFO_ADDR, BOOT_PML4, BOOT_PDPTE, BOOT_PDE,
                      SHAREDQUEUE_START, SHAREDQUEUE_START + 1>>
       IN  \A m, n \in 1 .. 7 : place[m] = place[n] => m = n
    /\ \A p \in Structures : p \in Nat \ {0} /\ p < DynStart - KERNEL_STACK_SIZE
    /\ BOOT_INFO_ADDR < BOOT_PDE
    /\ DynStart <= StaticStart /\ StaticStart + Span <= KVM_32BIT_GAP_START
    /\ StaticStart + Span <= Entries * Entries
ASSUME SizesAssumption ==
    /\ MemSizes \subseteq Nat /\ KERNEL_STACK_SIZE \in Nat \ {0} /\ Span \in Nat \ {0}
    /\ {DynStart, StaticStart, KVM_32BIT_GAP_START, KVM_32BIT_GAP_SIZE} \subseteq Nat
    /\ Entries \in Nat /\ Entries > 1

\* A kernel: PT_LOAD segments, entry point, start of PT_TLS and offsets of the
\* R_X86_64_RELATIVE entries.  It is not usable if it cannot be read, needs
\* libraries or is made for another machine.
Segment(base) ==
    {s \in [p_vaddr : base .. base + Span - 1, p_filesz : 1 .. Span, p_memsz : 1 .. Span] :
        s.p_filesz <= s.p_memsz /\ s.p_vaddr + s.p_memsz <= base + Span}
Layouts(base) ==
    {<<s>> : s \in Segment(base)} \cup
    {ss \in Segment(base) \X Segment(base) :
        ss[1].p_vaddr + ss[1].p_memsz <= ss[2].p_vaddr}
FilePages(ss) ==
    UNION {ss[n].p_vaddr .. ss[n].p_vaddr + ss[n].p_filesz - 1 : n \in DOMAIN ss}

VARIABLES
    kernel,     \* the ELF file
    mem_size,   \* memory of the VM
    threads,    \* rings whose thread has been spawned and has not initialised it
    memory,     \* guest memory
    phase,      \* how far the main thread is; "wild": memory was exceeded
    i,          \* program headers handled
    boot_info,  \* the fields of BootInfo
    offset, entry_point,  \* fields of Uhyve
    vcpu        \* rip, rdi and cr3 of the first vCPU

vars == <<kernel, mem_size, threads, memory, phase, i, boot_info, offset,
          entry_point, vcpu>>
vmVars == <<kernel, mem_size>>

Page(kind, n) == [kind |-> kind, n |-> n]
Zero == Page("zero", 0)

NoInfo == [base |-> 0, limit |-> 0, image_size |-> 0, tls_start |-> 0,
           current_stack_address |-> 0]

\* The kernels a VM is started with.
Kernels ==
    UNION {UNION {[is_dyn : {is_dyn}, usable : BOOLEAN, segs : {segs},
                   entry : FilePages(segs), tls : FilePages(segs),
                   relas : IF is_dyn THEN {{}, FilePages(segs)} \cup {{p} : p \in FilePages(segs)}
                           ELSE {{}}] :
                  segs \in Layouts(IF is_dyn THEN 0 ELSE StaticStart)} : is_dyn \in BOOLEAN}

Fresh ==
    /\ threads = {} /\ memory = <<>> /\ phase = "new" /\ i = 0
    /\ boot_info = NoInfo /\ offset = 0 /\ entry_point = 0
    /\ vcpu = [rip |-> 0, rdi |-> 0, cr3 |-> 0]

Init ==
    /\ kernel \in Kernels
    /\ mem_size \in MemSizes
    /\ Fresh

-------------------------------------------------------------------------------
(* Uhyve::new *)

\* Guest pages that a KVM memory region backs.
Backed ==
    {p \in 0 .. mem_size - 1 : \/ p < KVM_32BIT_GAP_START
                               \/ p >= KVM_32BIT_GAP_START + KVM_32BIT_GAP_SIZE}

\* MmapMemory::new gives zeroed memory; with a network interface, the threads
\* that own the rings are spawned.
MapMemory ==
    /\ phase = "new"
    /\ memory' = [p \in 0 .. mem_size - 1 |-> Zero]
    /\ threads' \in {{}, Rings}
    /\ phase' = "mapped"
    /\ UNCHANGED <<vmVars, i, boot_info, offset, entry_point, vcpu>>

\* An IP address does not parse; or mmap or a call of KVM fails, for instance for
\* a size that is not a multiple of the page size.
CreateFails ==
    /\ phase = "new"
    /\ phase' = "failed"
    /\ UNCHANGED <<vmVars, threads, memory, i, boot_info, offset, entry_point, vcpu>>

\* SharedQueue::init, in the thread of ring r.
InitRing(r) ==
    /\ r \in threads
    /\ phase # "wild"
    /\ threads' = threads \ {r}
    /\ IF r < mem_size
       THEN memory' = [memory EXCEPT ![r] = Page("ring", 0)] /\ UNCHANGED phase
       ELSE phase' = "wild" /\ UNCHANGED memory
    /\ UNCHANGED <<vmVars, i, boot_info, offset, entry_point, vcpu>>

\* PageTableEntry::set
Entry(addr, huge) == [addr |-> addr, huge |-> huge]
Blank == Entry(0, FALSE)

\* The three tables init_guest_mem fills.
pml4  == [n \in 0 .. Entries - 1 |->
            IF n = 0 THEN Entry(BOOT_PDPTE, FALSE)
            ELSE IF n = Entries - 1 THEN Entry(BOOT_PML4, FALSE) ELSE Blank]
pdpte == [n \in 0 .. Entries - 1 |-> IF n = 0 THEN Entry(BOOT_PDE, FALSE) ELSE Blank]
\* Mutant of pde: the first large page is skipped.
pde_late == [n \in 0 .. Entries - 1 |-> Entry((n + 1) * Entries, TRUE)]
pde   == [n \in 0 .. Entries - 1 |-> Entry(n * Entries, TRUE)]

\* Nothing compares the addresses with the size of the memory.
init_guest_mem ==
    /\ phase = "mapped"
    /\ IF {BOOT_GDT, BOOT_PML4, BOOT_PDPTE, BOOT_PDE} \subseteq DOMAIN memory
       THEN /\ memory' = [memory EXCEPT ![BOOT_GDT]   = Page("gdt", 0),
                                        ![BOOT_PML4]  = Page("pml4", 0),
                                        ![BOOT_PDPTE] = Page("pdpte", 0),
                                        ![BOOT_PDE]   = Page("pde", 0)]
            /\ phase' = "created"
       ELSE phase' = "wild" /\ UNCHANGED memory
    /\ UNCHANGED <<vmVars, threads, i, boot_info, offset, entry_point, vcpu>>

-------------------------------------------------------------------------------
(* Uhyve::run: load_kernel, which run expects to succeed, and the first vCPU *)

start_address == IF kernel.is_dyn THEN DynStart ELSE StaticStart

\* Mutant of elf_entry: the entry point is not relocated.
elf_entry_raw == kernel.entry
elf_entry == IF kernel.is_dyn THEN start_address + kernel.entry ELSE kernel.entry

\* The checks of the header, and BootInfo up to the program headers.  BootInfo
\* lies below the page tables, so there is memory for it by now.
LoadHeader ==
    /\ phase = "created"
    /\ IF ~kernel.usable
       THEN phase' = "failed" /\ UNCHANGED <<memory, boot_info, offset, entry_point>>
       ELSE /\ memory' = [memory EXCEPT ![BOOT_INFO_ADDR] = Page("info", 0)]
            /\ boot_info' = [NoInfo EXCEPT
                  !.base = start_address, !.limit = mem_size,
                  !.current_stack_address = start_address - KERNEL_STACK_SIZE]
            /\ offset' = start_address /\ entry_point' = elf_entry
            /\ phase' = "segments"
    /\ UNCHANGED <<vmVars, threads, i, vcpu>>

region_start(s) == IF kernel.is_dyn THEN start_address + s.p_vaddr ELSE s.p_vaddr

\* Mutant of Loaded: the last page of the file is left out.
LoadedShort(s) ==
    [p \in DOMAIN memory |->
        IF p < region_start(s) \/ p >= region_start(s) + s.p_memsz THEN memory[p]
        ELSE IF p < region_start(s) + s.p_filesz - 1
        THEN Page("file", s.p_vaddr + p - region_start(s))
        ELSE Zero]

\* Memory with segment s in it: the pages of the file, then zeroes.
Loaded(s) ==
    [p \in DOMAIN memory \cup region_start(s) .. region_start(s) + s.p_memsz - 1 |->
        IF p < region_start(s) \/ p >= region_start(s) + s.p_memsz THEN memory[p]
        ELSE IF p < region_start(s) + s.p_filesz
        THEN Page("file", s.p_vaddr + p - region_start(s))
        ELSE Zero]

\* One PT_LOAD header.
LoadSegment ==
    /\ phase = "segments" /\ i < Len(kernel.segs)
    /\ LET s == kernel.segs[i + 1] IN
       IF region_start(s) + s.p_memsz > mem_size
       THEN phase' = "failed" /\ UNCHANGED <<memory, i, boot_info>>
       ELSE /\ memory' = Loaded(s)
            /\ i' = i + 1
            /\ boot_info' = [boot_info EXCEPT !.image_size =
                  IF kernel.is_dyn THEN s.p_vaddr + s.p_memsz ELSE @ + s.p_memsz]
            /\ UNCHANGED phase
    /\ UNCHANGED <<vmVars, threads, offset, entry_point, vcpu>>

\* The PT_TLS header, which follows the segments, and the relocations.
Relocate ==
    /\ phase = "segments" /\ i = Len(kernel.segs)
    /\ boot_info' = [boot_info EXCEPT !.tls_start =
          IF kernel.is_dyn THEN start_address + kernel.tls ELSE kernel.tls]
    /\ memory' = [p \in DOMAIN memory |->
          IF p - start_address \in kernel.relas
          THEN Page("relocated", p - start_address) ELSE memory[p]]
    /\ phase' = "loaded"
    /\ UNCHANGED <<vmVars, threads, i, offset, entry_point, vcpu>>

\* setup_long_mode of the first vCPU.
setup_long_mode ==
    /\ phase = "loaded"
    /\ vcpu' = [rip |-> entry_point, rdi |-> BOOT_INFO_ADDR, cr3 |-> BOOT_PML4]
    /\ phase' = "ready"
    /\ UNCHANGED <<vmVars, threads, memory, i, boot_info, offset, entry_point>>

Next ==
    \/ MapMemory \/ CreateFails \/ init_guest_mem
    \/ LoadHeader \/ LoadSegment \/ Relocate \/ setup_long_mode
    \/ \E r \in Rings : InitRing(r)

Spec == Init /\ [][Next]_vars

-------------------------------------------------------------------------------
(* UhyveCPU::virt_to_phys *)

Pow(l) == IF l = 0 THEN 1 ELSE IF l = 1 THEN Entries
          ELSE IF l = 2 THEN Entries * Entries ELSE Entries * Entries * Entries

\* Entry n of the table in page t, as the memory holds it now.
TableEntry(t, n) ==
    CASE t \notin DOMAIN memory     -> Blank
      [] memory[t].kind = "pml4"    -> pml4[n]
      [] memory[t].kind = "pdpte"   -> pdpte[n]
      [] memory[t].kind = "pde"     -> pde[n]
      [] OTHER                      -> Blank

\* The walk: a large page ends it at its level, a base page at level 0.
virt_to_phys(addr) ==
    LET walk[l \in 0 .. 3] == [t \in Nat |->
          LET e == TableEntry(t, (addr \div Pow(l)) % Entries)
          IN  IF e.huge \/ l = 0
              THEN (e.addr \div Pow(l)) * Pow(l) + (addr % Pow(l))
              ELSE walk[l - 1][e.addr]]
    IN  walk[3][BOOT_PML4]

-------------------------------------------------------------------------------
(* Properties *)

\* What a page of the image holds once the kernel is loaded, v being its link
\* address.
ImagePage(s, v) ==
    IF v \in kernel.relas THEN Page("relocated", v)
    ELSE IF v < s.p_vaddr + s.p_filesz THEN Page("file", v) ELSE Zero

\* The whole image is in memory the guest has, each page where a kernel linked
\* at its address or moved by the start address expects it, zero behind the
\* contents of the file, and relocated.
ImageIntact ==
    phase \in {"loaded", "ready"} =>
        \A n \in DOMAIN kernel.segs :
            LET s == kernel.segs[n]
                bias == IF kernel.is_dyn THEN offset ELSE 0
            IN  \A v \in s.p_vaddr .. s.p_vaddr + s.p_memsz - 1 :
                    bias + v \in Backed /\ memory[bias + v] = ImagePage(s, v)

\* What the first vCPU starts with: rip is the entry point of the file and rdi
\* the boot information, through the page tables it starts on; the stack is
\* untouched memory, the TLS template is in place, and no ring has been
\* damaged by the kernel or the kernel by a ring, however late its thread runs.
HandoverIntact ==
    phase = "ready" =>
        /\ vcpu.cr3 = BOOT_PML4 /\ memory[vcpu.cr3].kind = "pml4"
        /\ memory[BOOT_GDT].kind = "gdt"
        /\ memory[virt_to_phys(vcpu.rdi)].kind = "info"
        /\ memory[virt_to_phys(vcpu.rip)].kind \in {"file", "relocated"}
        /\ memory[virt_to_phys(vcpu.rip)].n = kernel.entry
        /\ memory[boot_info.tls_start].n = kernel.tls
        /\ \A p \in boot_info.current_stack_address .. boot_info.base - 1 : memory[p] = Zero
        /\ \A r \in Rings \cap DOMAIN memory : memory[r] \in {Zero, Page("ring", 0)}
        /\ kernel.is_dyn => LET last == kernel.segs[Len(kernel.segs)]
                            IN  boot_info.image_size = last.p_vaddr + last.p_memsz

\* From init_guest_mem on, and whatever is loaded afterwards, virt_to_phys is
\* the identity on everything the boot page tables map, and finds the tables
\* themselves through the entry that maps the top-level table onto itself.
BootTranslation ==
    phase \in {"created", "segments", "loaded", "ready"} =>
        /\ \A a \in 0 .. Pow(2) - 1 : virt_to_phys(a) = a
        /\ LET top == Entries - 1
               self(l2, l1, l0) == top * Pow(3) + l2 * Pow(2) + l1 * Pow(1) + l0
           IN  /\ virt_to_phys(self(top, top, top)) = BOOT_PML4
               /\ virt_to_phys(self(top, top, 0)) = BOOT_PDPTE
               /\ virt_to_phys(self(top, 0, 0)) = BOOT_PDE
===============================================================================
