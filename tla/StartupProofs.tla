---------------------------- MODULE StartupProofs ----------------------------
(***************************************************************************)
(* The invariants of Startup, and of Boot as a part of it, for any layout, *)
(* size of the memory, kernel and CPU list: BootInv, with MainInv for what *)
(* main adds; PinInv for the host CPUs.  The command line is served as     *)
(* CommandLine says.                                                       *)
(***************************************************************************)
EXTENDS Startup, BootProofs, FiniteSetTheorems, SequenceTheorems, WellFoundedInduction

(* The steps of Startup *)

\* What main adds: enough memory for the structures, and no rings.
MainInv ==
    /\ program \in {"main", "vm", "exited"}
    /\ program # "vm" => phase = "new"
    /\ program = "main" => cli # None
    /\ cli # None => /\ cli.mem \in Optional(MemSizes)
                     /\ program = "vm" => mem_size >= MINIMAL_GUEST_SIZE
                     /\ threads = {} /\ phase # "wild"

\* An option is not there or holds one value.
LEMMA OptionValue ==
    ASSUME NEW S, NEW o \in Optional(S), o # <<>>
    PROVE  o[1] \in S
<1>1. PICK m \in 0 .. 1 : o \in [1 .. m -> S]
  BY DEF Optional, UpTo
<1>2. m = 0 => o = <<>>
  BY <1>1
<1> QED
  BY <1>1, <1>2

\* The kernel with one page is one of those a VM is started with.
LEMMA SmallKernelIsOne == SmallKernel \in Kernels
<1> DEFINE s  == [p_vaddr |-> 0, p_filesz |-> 1, p_memsz |-> 1]
           ss == <<s>>
           Set(is_dyn, segs) ==
             [is_dyn : {is_dyn}, usable : BOOLEAN, segs : {segs},
              entry : FilePages(segs), tls : FilePages(segs),
              relas : IF is_dyn THEN {{}, FilePages(segs)} \cup {{p} : p \in FilePages(segs)}
                      ELSE {{}}]
<1>1. s \in Segment(0)
  BY SizesAssumption DEF Segment
<1>2. ss \in Layouts(IF TRUE THEN 0 ELSE StaticStart)
  BY <1>1 DEF Layouts
<1>3. 0 \in FilePages(ss)
  BY DEF FilePages
<1>4. {} \in IF TRUE THEN {{}, FilePages(ss)} \cup {{p} : p \in FilePages(ss)} ELSE {{}}
  OBVIOUS
<1>5. SmallKernel \in Set(TRUE, ss)
  BY <1>3, <1>4, Zenon DEF SmallKernel
<1> HIDE DEF Set, ss
<1>6. SmallKernel \in UNION {Set(TRUE, segs) : segs \in Layouts(IF TRUE THEN 0 ELSE StaticStart)}
  BY <1>2, <1>5, Zenon
<1>7. SmallKernel \in UNION {UNION {Set(is_dyn, segs) : segs \in Layouts(IF is_dyn THEN 0 ELSE StaticStart)} :
                                is_dyn \in BOOLEAN}
  BY <1>6, Zenon
<1> QED
  BY <1>7 DEF Kernels, Set

\* The states a VM or main starts in.
LEMMA StartInitInv == StartInit => BootInv /\ MainInv
<1> SUFFICES ASSUME StartInit PROVE BootInv /\ MainInv
  OBVIOUS
<1>1. kernel \in Kernels
  BY SmallKernelIsOne, Zenon DEF StartInit, Inputs
<1>2. cli # None => cli.mem \in Optional(MemSizes)
  <2>1. <<>> \in Optional(MemSizes)
    <3>1. <<>> \in [1 .. 0 -> MemSizes] /\ 0 \in 0 .. 1
      OBVIOUS
    <3> QED
      BY <3>1 DEF Optional, UpTo
  <2> QED
    BY <2>1, Zenon DEF StartInit, Inputs, Options
<1>3. mem_size \in Nat
  <2>1. mem_size \in MemSizes \/ mem_size = 0
    BY Zenon DEF StartInit
  <2>2. MemSizes \subseteq Nat
    BY SizesAssumption
  <2>3. CASE mem_size \in MemSizes
    BY <2>2, <2>3
  <2>4. CASE mem_size = 0
    BY <2>4
  <2> QED
    BY <2>1, <2>3, <2>4
<1>4. Fresh /\ IF cli = None THEN program = "vm" ELSE program = "main"
  BY DEF StartInit
<1>5. BootInv
  BY <1>1, <1>3, <1>4, FreshInv
<1>6. MainInv
  BY <1>2, <1>4, SMTT(30) DEF MainInv, Fresh
<1> QED
  BY <1>5, <1>6

\* Nothing of Boot changes.
LEMMA BootUnchanged ==
    ASSUME BootInv, UNCHANGED vars
    PROVE  BootInv'
<1>1. /\ kernel' = kernel /\ mem_size' = mem_size /\ threads' = threads /\ i' = i
      /\ memory' = memory /\ boot_info' = boot_info /\ phase' = phase
      /\ offset' = offset /\ entry_point' = entry_point /\ vcpu' = vcpu
  BY DEF vars
<1> QED
  BY <1>1 DEF BootInv, BootTypes, DomainInv, LowInv, TablesInv, TablesInPlace, InfoInv,
              SegmentsInv, DoneInv, Bias, start_address, PageNow, ImagePage

\* main replaces the size of a VM that does not exist yet.
LEMMA MainStep ==
    ASSUME BootInv, MainInv, main
    PROVE  BootInv' /\ MainInv'
<1>1. /\ program = "main" /\ program' = "vm" /\ cli' = cli /\ mem_size' = GuestSize
      /\ kernel' = kernel /\ threads' = threads /\ i' = i
      /\ memory' = memory /\ boot_info' = boot_info /\ phase' = phase
  BY DEF main
<1>2. phase = "new" /\ cli # None /\ cli.mem \in Optional(MemSizes)
  BY <1>1 DEF MainInv
<1>3. GuestSize \in Nat /\ GuestSize >= MINIMAL_GUEST_SIZE
  <2>1. cli.mem # <<>> => cli.mem[1] \in Nat
    BY <1>2, OptionValue, SizesAssumption, ZenonT(30)
  <2> QED
    BY <2>1, MinimumAssumption DEF GuestSize
<1>4. BootTypes' /\ DomainInv' /\ LowInv'
  BY <1>1, <1>2, <1>3, PhaseNames DEF BootInv, BootTypes, DomainInv, LowInv
<1>5. BootInv'
  BY <1>1, <1>2, <1>4, EarlyInv, PhaseNames
<1>6. MainInv'
  BY <1>1, <1>2, <1>3 DEF MainInv
<1> QED
  BY <1>5, <1>6

\* A VM that main has started has memory for the structures.
LEMMA NeverWild ==
    ASSUME BootInv, MainInv, program = "vm", cli # None, Next
    PROVE  phase' # "wild"
<1>1. /\ phase # "wild" /\ threads = {} /\ mem_size \in Nat
      /\ mem_size >= MINIMAL_GUEST_SIZE
  BY DEF MainInv, BootInv, BootTypes
<1>2. ASSUME init_guest_mem PROVE phase' # "wild"
  <2>1. DOMAIN memory = 0 .. mem_size - 1
    BY <1>2, PhaseNames DEF init_guest_mem, BootInv, DomainInv
  <2>2. \A p \in Structures : p \in 0 .. mem_size - 1
    <3>1. \A p \in Structures : p \in Nat /\ p < MINIMAL_GUEST_SIZE /\ MINIMAL_GUEST_SIZE \in Nat
      BY Places, MinimumAssumption
    <3> QED
      BY <1>1, <3>1
  <2>3. {BOOT_GDT, BOOT_PML4, BOOT_PDPTE, BOOT_PDE} \subseteq DOMAIN memory
    BY <2>1, <2>2 DEF Structures
  <2> QED
    BY <1>2, <2>3 DEF init_guest_mem
<1>3. \A r \in Rings : ~InitRing(r)
  BY <1>1 DEF InitRing
<1> QED
  BY <1>1, <1>2, <1>3 DEF Next, MapMemory, CreateFails, LoadHeader, LoadSegment, Relocate,
                          setup_long_mode

\* Boot of a VM.
LEMMA BootStepInv ==
    ASSUME BootInv, MainInv, BootStep
    PROVE  BootInv' /\ MainInv'
<1>1. /\ program = "vm" /\ program' = program /\ cli' = cli /\ Next
      /\ cli # None => threads' = {}
  BY DEF BootStep, mainVars
<1>2. mem_size' = mem_size
  BY <1>1 DEF Next, MapMemory, CreateFails, init_guest_mem, LoadHeader, LoadSegment, Relocate,
              setup_long_mode, InitRing, vmVars
<1>3. cli # None => phase' # "wild"
  BY <1>1, NeverWild
<1>4. MainInv'
  BY <1>1, <1>2, <1>3 DEF MainInv
<1> QED
  BY <1>1, <1>4, BootNextInv

\* Every step preserves the invariant.
LEMMA StartNextInv ==
    ASSUME BootInv, MainInv, [StartNext]_allVars
    PROVE  BootInv' /\ MainInv'
<1>1. ASSUME UNCHANGED <<vars, cli, program>> PROVE BootInv' /\ MainInv'
  <2>1. UNCHANGED vars /\ cli' = cli /\ program' = program
    BY <1>1
  <2>2. BootInv'
    BY <2>1, BootUnchanged
  <2>3. MainInv'
    BY <2>1 DEF MainInv, vars
  <2> QED
    BY <2>2, <2>3
<1>2. ASSUME MainExits PROVE BootInv' /\ MainInv'
  <2>1. UNCHANGED vars /\ cli' = cli /\ program' = "exited" /\ program = "main"
    BY <1>2 DEF MainExits
  <2>2. BootInv'
    BY <2>1, BootUnchanged
  <2>3. MainInv'
    BY <2>1 DEF MainInv, vars
  <2> QED
    BY <2>2, <2>3
<1>3. ASSUME NEW c \in 0 .. MaxCpus - 1, Pin(c) PROVE BootInv' /\ MainInv'
  BY <1>1, <1>3 DEF Pin, mainVars
<1>4. ASSUME Serve PROVE BootInv' /\ MainInv'
  BY <1>1, <1>4 DEF Serve, mainVars
<1>5. CASE UNCHANGED allVars
  BY <1>1, <1>5 DEF allVars, mainVars
<1> QED
  BY <1>2, <1>3, <1>4, <1>5, MainStep, BootStepInv DEF StartNext

-------------------------------------------------------------------------------
(* Theorems *)

\* Starting a VM keeps the invariant, for any kernel and size of the memory.
LEMMA StartInvariant == StartSpec => [](BootInv /\ MainInv)
<1>1. StartInit => BootInv /\ MainInv
  BY StartInitInv
<1>2. BootInv /\ MainInv /\ [StartNext]_allVars => (BootInv /\ MainInv)'
  BY StartNextInv
<1> QED
  BY <1>1, <1>2, PTL DEF StartSpec

\* No segment, relocation, table or ring is ever written behind the memory of
\* the VM, and main never starts a VM whose memory ends below the structures.
THEOREM MemoryIsRespected == StartSpec => []MemoryRespected
<1>1. BootInv /\ MainInv => MemoryRespected
  BY DEF BootInv, DomainInv, MainInv, MemoryRespected
<1> QED
  BY <1>1, StartInvariant, PTL

\* load_kernel puts every page of every segment where the kernel expects it.
THEOREM ImageIsIntact == StartSpec => []ImageIntact
  BY StartInvariant, GivesImage, PTL

\* The first vCPU starts at the entry point, on the boot page tables, with the
\* boot information, a clean stack and its TLS template in place.
THEOREM HandoverIsIntact == StartSpec => []HandoverIntact
  BY StartInvariant, GivesHandover, PTL

\* virt_to_phys agrees with the boot page tables while the kernel is loaded.
THEOREM BootIsTranslated == StartSpec => []BootTranslation
  BY StartInvariant, GivesTranslation, PTL

-------------------------------------------------------------------------------
(* The command line *)

\* A function from 1 .. m is a sequence.
LEMMA UpToSequences ==
    ASSUME NEW S, NEW n, NEW w \in UpTo(S, n)
    PROVE  w \in Seq(S)
<1>1. PICK m \in 0 .. n : w \in [1 .. m -> S]
  BY DEF UpTo
<1> QED
  BY <1>1

\* main's process has a command line and an environment, and the guest's calls are
\* the only steps that use them: the theorems about CommandLine hold here.
THEOREM ServesCommandLine == StartSpec => CmdSpec
<1>1. ASSUME StartInit
      PROVE  /\ args \in Seq({"uhyve"} \cup Words) /\ environ \in Seq([key : Nat, value : Nat])
             /\ CmdInit
  <2>1. PICK w \in Seq(Words) : args = <<"uhyve">> \o w
    <3>1. \A w \in UpTo(Words, MaxArgs) : w \in Seq(Words)
      BY UpToSequences
    <3>2. <<>> \in Seq(Words)
      OBVIOUS
    <3> QED
      BY <1>1, <3>1, <3>2, Zenon DEF StartInit, Inputs
  <2>2. args \in Seq({"uhyve"} \cup Words)
    <3>1. w \in Seq({"uhyve"} \cup Words)
      BY SeqMonotonic
    <3>2. \A S : \A x \in S : <<x>> \in Seq(S)
      OBVIOUS
    <3>3. <<"uhyve">> \in Seq({"uhyve"} \cup Words)
      BY <3>2, Zenon
    <3> QED
      BY <2>1, <3>1, <3>3
  <2>3. environ \in Seq(Variables)
    <3>1. \A e \in UpTo(Variables, MaxEnv) : e \in Seq(Variables)
      BY UpToSequences
    <3>2. <<>> \in Seq(Variables)
      OBVIOUS
    <3> QED
      BY <1>1, <3>1, <3>2, ZenonT(30) DEF StartInit, Inputs
  <2>4. Variables \subseteq [key : Nat, value : Nat]
    BY DEF Variables, GarbledVariable
  <2>5. environ \in Seq([key : Nat, value : Nat])
    BY <2>3, <2>4, SeqMonotonic
  <2> QED
    BY <1>1, <2>2, <2>5 DEF StartInit
<1>2. [StartNext]_allVars => [CmdNext]_cmdVars
  BY DEF StartNext, main, MainExits, BootStep, Serve, Pin, allVars
<1> QED
  BY <1>1, <1>2, PTL DEF StartSpec, CmdSpec

-------------------------------------------------------------------------------
(* The host CPUs of the vCPUs *)

\* The host CPUs that main keeps.
Kept == {id \in HostCpus : id \in parse_ranges(cli.affinity[1])}

\* A thread that has been started is not pinned, or has the CPU at its place in
\* the list that main has made.
PinInv ==
    /\ DOMAIN pinned = 0 .. MaxCpus - 1
    /\ cli # None => cli.affinity \in Optional(UpTo(Ranges, 2))
    /\ program # "vm" => \A c \in DOMAIN pinned : pinned[c] = NotStarted
    /\ cli # None /\ program = "vm" /\ cli.affinity # <<>> =>
          /\ Len(core_ids) = num_cpus /\ cpu_affinity = core_ids
          /\ \A c \in DOMAIN pinned :
                \/ pinned[c] \in {NotStarted, Refused}
                \/ c < num_cpus /\ pinned[c] = core_ids[c + 1]

\* Every set of numbers has a smallest one.
LEMMA Smallest ==
    ASSUME NEW T \in SUBSET Nat, T # {}
    PROVE  \E x \in T : \A y \in T : x <= y
<1> DEFINE R == {ss \in Nat \X Nat : ss[1] < ss[2]}
<1>1. IsWellFoundedOn(R, Nat)
  BY NatLessThanWellFounded DEF OpToRel
<1>2. \A x, y \in Nat : <<y, x>> \notin R => x <= y
  OBVIOUS
<1> HIDE DEF R
<1>3. PICK x \in T : \A y \in T : ~(<<y, x>> \in R)
  BY <1>1, WFMin, Zenon
<1> QED
  BY <1>2, <1>3, Zenon

\* ids lists the members of K, each once and in ascending order.
IsListOf(ids, K) ==
    /\ ids \in [1 .. Cardinality(K) -> K]
    /\ \A m, n \in DOMAIN ids : m < n => ids[m] < ids[n]

\* The list is one longer than that of the numbers above the smallest.
LEMMA OneMore ==
    ASSUME NEW K \in SUBSET Nat, IsFiniteSet(K), NEW a \in K, \A y \in K : a <= y,
           NEW ids, IsListOf(ids, K \ {a})
    PROVE  \E more : IsListOf(more, K)
<1>1. PICK l \in Nat : l = Cardinality(K \ {a}) /\ Cardinality(K) = l + 1
  <2>1. IsFiniteSet(K \ {a}) /\ Cardinality(K \ {a}) = Cardinality(K) - 1
    BY FS_RemoveElement
  <2>2. Cardinality(K \ {a}) \in Nat /\ Cardinality(K) \in Nat
    BY <2>1, FS_CardinalityType
  <2> QED
    BY <2>1, <2>2
<1>2. ids \in [1 .. l -> K \ {a}] /\ \A m, n \in 1 .. l : m < n => ids[m] < ids[n]
  BY <1>1, Zenon DEF IsListOf
<1> DEFINE more == [j \in 1 .. l + 1 |-> IF j = 1 THEN a ELSE ids[j - 1]]
<1>3. more \in [1 .. l + 1 -> K]
  BY <1>2
<1>4. ASSUME NEW m \in 1 .. l + 1, NEW n \in 1 .. l + 1, m < n
      PROVE  more[m] < more[n]
  <2>1. n - 1 \in 1 .. l /\ n # 1
    BY <1>4
  <2>2. more[n] = ids[n - 1] /\ ids[n - 1] \in K \ {a}
    BY <1>2, <2>1
  <2>3. CASE m = 1
    <3>1. more[m] = a
      BY <2>3
    <3>2. ids[n - 1] \in Nat /\ a \in Nat /\ a <= ids[n - 1] /\ a # ids[n - 1]
      BY <2>2, Zenon
    <3> QED
      BY <2>2, <3>1, <3>2
  <2>4. CASE m # 1
    <3>1. m - 1 \in 1 .. l /\ m - 1 < n - 1
      BY <1>4, <2>4
    <3>2. more[m] = ids[m - 1]
      BY <2>4
    <3> QED
      BY <1>2, <2>1, <2>2, <3>1, <3>2
  <2> QED
    BY <2>3, <2>4
<1> HIDE DEF more
<1>5. IsListOf(more, K)
  BY <1>1, <1>3, <1>4, Zenon DEF IsListOf
<1> QED
  BY <1>5

\* A finite set of numbers can be listed in ascending order: a smallest number
\* of elements for which that fails would leave one more when the smallest
\* element is removed.
LEMMA Listed ==
    ASSUME NEW H \in SUBSET Nat, IsFiniteSet(H)
    PROVE  \A K \in SUBSET H : \E ids : IsListOf(ids, K)
<1> DEFINE T == {n \in Nat : \E K \in SUBSET H : Cardinality(K) = n /\ \A ids : ~IsListOf(ids, K)}
<1>1. \A K \in SUBSET H : IsFiniteSet(K) /\ Cardinality(K) \in Nat
  BY FS_Subset, FS_CardinalityType, Zenon
<1>2. ASSUME T # {} PROVE FALSE
  <2>1. PICK x \in T : \A y \in T : x <= y
    BY <1>2, Smallest, Zenon
  <2>2. PICK K \in SUBSET H : Cardinality(K) = x /\ \A ids : ~IsListOf(ids, K)
    BY <2>1
  <2>3. K # {}
    <3> SUFFICES ASSUME K = {} PROVE FALSE
      OBVIOUS
    <3>1. Cardinality(K) = 0
      BY FS_EmptySet
    <3>2. IsListOf([j \in 1 .. 0 |-> j], K)
      BY <3>1 DEF IsListOf
    <3> QED
      BY <2>2, <3>2
  <2>4. PICK a \in K : \A y \in K : a <= y
    BY <2>3, Smallest
  <2>5. Cardinality(K \ {a}) = x - 1 /\ x - 1 \in Nat /\ K \ {a} \in SUBSET H /\ x \in Nat
    <3>1. K \ {a} \in SUBSET H /\ IsFiniteSet(K) /\ x \in Nat
      BY <1>1, <2>2
    <3>2. Cardinality(K \ {a}) \in Nat
      BY <1>1, <3>1
    <3>3. Cardinality(K \ {a}) = Cardinality(K) - 1
      BY <2>4, <3>1, FS_RemoveElement, Zenon
    <3> QED
      BY <2>2, <3>1, <3>2, <3>3
  <2>6. x - 1 \notin T
    BY <2>1, <2>5
  <2>7. PICK ids : IsListOf(ids, K \ {a})
    BY <2>5, <2>6
  <2> QED
    BY <1>1, <2>2, <2>4, <2>7, OneMore
<1> HIDE DEF T
<1>3. ASSUME NEW K \in SUBSET H, \A ids : ~IsListOf(ids, K)
      PROVE  FALSE
  <2>1. Cardinality(K) \in T
    BY <1>1, <1>3 DEF T
  <2> QED
    BY <1>2, <2>1
<1> QED
  BY <1>3

\* So core_ids is what the code makes: the CPUs that are kept, in order.
LEMMA CoreIds ==
    /\ IsListOf(core_ids, Kept) /\ IsFiniteSet(Kept) /\ Kept \subseteq Nat
    /\ Cardinality(Kept) \in Nat /\ Len(core_ids) = Cardinality(Kept)
    /\ core_ids \in Seq(Nat)
<1>1. Kept \in SUBSET HostCpus /\ IsFiniteSet(Kept) /\ Cardinality(Kept) \in Nat
      /\ Kept \subseteq Nat
  BY HostAssumption, FS_Subset, FS_CardinalityType, Zenon DEF Kept
<1>2. \E ids : IsListOf(ids, Kept)
  BY <1>1, HostAssumption, Listed
<1>3. core_ids = CHOOSE ids \in [1 .. Cardinality(Kept) -> Kept] :
                     \A m, n \in DOMAIN ids : m < n => ids[m] < ids[n]
  BY DEF core_ids, get_core_ids, Kept
<1>4. IsListOf(core_ids, Kept)
  BY <1>2, <1>3, Zenon DEF IsListOf
<1>5. Len(core_ids) = Cardinality(Kept) /\ core_ids \in Seq(Nat)
  <2>1. PICK l \in Nat : l = Cardinality(Kept)
    BY <1>1
  <2>2. core_ids \in [1 .. l -> Nat]
    BY <1>1, <1>4, <2>1, ZenonT(30) DEF IsListOf
  <2> QED
    BY <2>1, <2>2
<1> QED
  BY <1>1, <1>4, <1>5

\* The ranges of an option have numbers for bounds.
LEMMA AskedFor ==
    ASSUME cli.affinity \in Optional(UpTo(Ranges, 2)), cli.affinity # <<>>
    PROVE  Kept = {id \in HostCpus :
                     \E n \in DOMAIN cli.affinity[1] :
                         id >= cli.affinity[1][n].start /\ id <= cli.affinity[1][n].end}
<1> DEFINE ranges == cli.affinity[1]
<1>1. ranges \in Seq(Ranges)
  BY OptionValue, UpToSequences
<1> HIDE DEF ranges
<1>2. \A n \in DOMAIN ranges : ranges[n].start \in Int /\ ranges[n].end \in Int
  <2>1. \A r \in Ranges : r.start \in Int /\ r.end \in Int
    <3>1. \A a, b \in Int : CpuRange(a, b).start \in Int /\ CpuRange(a, b).end \in Int
      BY DEF CpuRange
    <3>2. \A r \in Ranges : \E a, b \in Int : r = CpuRange(a, b)
      BY SMT DEF Ranges, Garbage
    <3> QED
      BY <3>1, <3>2
  <2>2. \A n \in DOMAIN ranges : ranges[n] \in Ranges
    BY <1>1
  <2> QED
    BY <2>1, <2>2
<1>3. ASSUME NEW id \in HostCpus
      PROVE  id \in parse_ranges(ranges) <=>
                 \E n \in DOMAIN ranges : id >= ranges[n].start /\ id <= ranges[n].end
  <2>1. id \in Nat
    BY HostAssumption
  <2>2. id \in parse_ranges(ranges) <=>
            \E n \in DOMAIN ranges : id \in ranges[n].start .. ranges[n].end
    BY DEF parse_ranges
  <2>3. \A n \in DOMAIN ranges : id \in ranges[n].start .. ranges[n].end <=>
                                     id >= ranges[n].start /\ id <= ranges[n].end
    BY <1>2, <2>1
  <2> QED
    BY <2>2, <2>3
<1> QED
  BY <1>3 DEF Kept, ranges

\* Every thread has a CPU of its own because the list is in order.
LEMMA GivesPinned == PinInv => PinnedToRequested
<1> SUFFICES ASSUME PinInv, cli # None, program = "vm", cli.affinity # <<>>
             PROVE  /\ Cardinality(Kept) = num_cpus
                    /\ \A c \in DOMAIN pinned :
                          \/ pinned[c] \in {NotStarted, Refused}
                          \/ pinned[c] \in Kept /\ \A d \in DOMAIN pinned \ {c} : pinned[d] # pinned[c]
  <2>1. PinInv /\ cli # None => cli.affinity \in Optional(UpTo(Ranges, 2))
    BY SMTT(30) DEF PinInv
  <2> QED
    BY <2>1, AskedFor, Zenon DEF PinnedToRequested
<1>1. /\ Len(core_ids) = num_cpus /\ DOMAIN pinned = 0 .. MaxCpus - 1
      /\ \A c \in DOMAIN pinned :
            \/ pinned[c] \in {NotStarted, Refused}
            \/ c < num_cpus /\ pinned[c] = core_ids[c + 1]
  BY SMTT(30) DEF PinInv
<1>2. PICK l \in Nat : l = Cardinality(Kept) /\ num_cpus = l
  BY <1>1, CoreIds, SMTT(30)
<1>3. /\ core_ids \in [1 .. l -> Kept] /\ Kept \subseteq Nat
      /\ \A m, n \in 1 .. l : m < n => core_ids[m] < core_ids[n]
  BY <1>2, CoreIds, SMTT(30) DEF IsListOf
<1>4. ASSUME NEW c \in DOMAIN pinned, pinned[c] \notin {NotStarted, Refused}
      PROVE  pinned[c] \in Kept /\ \A d \in DOMAIN pinned \ {c} : pinned[d] # pinned[c]
  <2>1. c \in Nat /\ c + 1 \in 1 .. l /\ pinned[c] = core_ids[c + 1]
    BY <1>1, <1>2, <1>4, SMTT(30)
  <2>2. pinned[c] \in Kept /\ pinned[c] \in Nat
    BY <1>3, <2>1, ZenonT(30)
  <2>3. ASSUME NEW d \in DOMAIN pinned, d # c
        PROVE  pinned[d] # pinned[c]
    <3>1. CASE pinned[d] \in {NotStarted, Refused}
      BY <2>2, <3>1 DEF NotStarted, Refused
    <3>2. CASE pinned[d] \notin {NotStarted, Refused}
      <4>1. d \in Nat /\ d + 1 \in 1 .. l /\ pinned[d] = core_ids[d + 1]
        BY <1>1, <1>2, <3>2, SMTT(30)
      <4>2. core_ids[c + 1] \in Nat /\ core_ids[d + 1] \in Nat
        BY <1>3, <2>1, <4>1, Zenon
      <4>3. c + 1 < d + 1 \/ d + 1 < c + 1
        BY <2>1, <2>3, <4>1, SMTT(30)
      <4>4. core_ids[c + 1] < core_ids[d + 1] \/ core_ids[d + 1] < core_ids[c + 1]
        BY <1>3, <2>1, <4>1, <4>3, SMTT(30)
      <4> QED
        BY <2>1, <4>1, <4>2, <4>4, SMTT(30)
    <3> QED
      BY <3>1, <3>2
  <2> QED
    BY <2>2, <2>3
<1> QED
  BY <1>2, <1>4

\* The states main and the VM start in have no thread pinned.
LEMMA PinInitInv == StartInit => PinInv
<1> SUFFICES ASSUME StartInit PROVE PinInv
  OBVIOUS
<1>1. pinned = [c \in 0 .. MaxCpus - 1 |-> NotStarted]
  BY DEF StartInit
<1>2. cli # None => cli.affinity \in Optional(UpTo(Ranges, 2)) /\ program # "vm"
  <2>1. <<>> \in Optional(UpTo(Ranges, 2))
    <3>1. <<>> \in [1 .. 0 -> UpTo(Ranges, 2)] /\ 0 \in 0 .. 1
      OBVIOUS
    <3> QED
      BY <3>1, Zenon DEF Optional, UpTo
  <2>2. cli # None => cli.affinity \in Optional(UpTo(Ranges, 2))
    BY <2>1, ZenonT(30) DEF StartInit, Inputs, Options
  <2>3. cli # None => program = "main"
    BY DEF StartInit
  <2> QED
    BY <2>2, <2>3
<1> QED
  BY <1>1, <1>2, SMTT(30) DEF PinInv

\* main makes the list, and a thread takes what is at its place in it.
LEMMA PinNextInv ==
    ASSUME BootInv, MainInv, PinInv, [StartNext]_allVars
    PROVE  PinInv'
<1>1. ASSUME cli' = cli PROVE core_ids' = core_ids
  BY <1>1, SMTT(30) DEF core_ids
<1>2. ASSUME UNCHANGED <<mainVars, pinned>> PROVE PinInv'
  <2>1. /\ cli' = cli /\ program' = program /\ num_cpus' = num_cpus
        /\ cpu_affinity' = cpu_affinity /\ pinned' = pinned
    BY <1>2, SMTT(30) DEF mainVars
  <2> QED
    BY <1>1, <2>1 DEF PinInv
<1>3. ASSUME main PROVE PinInv'
  <2>1. /\ program = "main" /\ program' = "vm" /\ cli' = cli /\ pinned' = pinned
        /\ cli.affinity # <<>> => Len(core_ids) = num_cpus' /\ cpu_affinity' = core_ids
    BY <1>3, SMTT(30) DEF main, Affinity
  <2> QED
    BY <1>1, <2>1, SMTT(30) DEF PinInv
<1>4. ASSUME MainExits PROVE PinInv'
  <2>1. /\ program = "main" /\ program' = "exited" /\ cli' = cli /\ pinned' = pinned
    BY <1>4, SMTT(30) DEF MainExits
  <2> QED
    BY <1>1, <2>1, ZenonT(30) DEF PinInv
<1>5. ASSUME NEW c \in 0 .. MaxCpus - 1, Pin(c) PROVE PinInv'
  <2>1. /\ cli' = cli /\ program' = program /\ num_cpus' = num_cpus
        /\ cpu_affinity' = cpu_affinity /\ phase \in {"loaded", "ready"} /\ c < num_cpus
    BY <1>5 DEF Pin, mainVars
  <2>2. PICK core \in {local_cpu_affinity(c), Refused} :
          pinned' = [pinned EXCEPT ![c] = core]
    BY <1>5, Zenon DEF Pin
  <2>3. program = "vm"
    BY <2>1 DEF MainInv
  <2>4. DOMAIN pinned' = DOMAIN pinned /\ \A d \in DOMAIN pinned : d # c => pinned'[d] = pinned[d]
    BY <2>2
  <2>5. c \in DOMAIN pinned => pinned'[c] \in {local_cpu_affinity(c), Refused}
    BY <2>2
  <2>6. ASSUME cli # None, cli.affinity # <<>>
        PROVE  local_cpu_affinity(c) = core_ids[c + 1]
    <3>1. cpu_affinity = core_ids /\ Len(cpu_affinity) = num_cpus
      BY <2>3, <2>6 DEF PinInv
    <3>2. cpu_affinity # None
      BY <3>1, CoreIds, NoneAssumption
    <3> QED
      BY <2>1, <3>1, <3>2, SMTT(30) DEF local_cpu_affinity
  <2> QED
    BY <1>1, <2>1, <2>3, <2>4, <2>5, <2>6 DEF PinInv
<1>6. ASSUME BootStep \/ Serve \/ UNCHANGED allVars PROVE PinInv'
  BY <1>2, <1>6 DEF BootStep, Serve, allVars
<1> QED
  BY <1>3, <1>4, <1>5, <1>6 DEF StartNext

\* With an affinity list, every vCPU that is pinned has a host CPU of its own,
\* one that was asked for, and no CPU of the list is left over.
THEOREM AlwaysPinnedToRequested == StartSpec => []PinnedToRequested
<1>1. StartInit => PinInv
  BY PinInitInv
<1>2. BootInv /\ MainInv /\ PinInv /\ [StartNext]_allVars => PinInv'
  BY PinNextInv
<1> QED
  BY <1>1, <1>2, StartInvariant, GivesPinned, PTL DEF StartSpec
==============================================================================
