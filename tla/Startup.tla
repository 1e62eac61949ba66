------------------------------- MODULE Startup -------------------------------
(***************************************************************************)
(* From the command line to the application: main turns options into the   *)
(* parameters of the VM, Boot brings the VM up, run pins the threads of    *)
(* the vCPUs to host CPUs, and the guest fetches its command line.  The    *)
(* library can also be used without main, with any parameters.             *)
(***************************************************************************)
EXTENDS Boot, CommandLine

CONSTANTS MINIMAL_GUEST_SIZE, DEFAULT_GUEST_SIZE,
          HostCpus,         \* those the process may run on
          MaxArgs, MaxEnv,  \* bounds: arguments, environment variables
          MaxCpus,          \* bound: num_cpus
          None

ASSUME MinimumAssumption ==
    /\ MINIMAL_GUEST_SIZE \in Nat
    /\ DEFAULT_GUEST_SIZE \in Nat /\ DEFAULT_GUEST_SIZE >= MINIMAL_GUEST_SIZE
    /\ \A p \in Structures : p < MINIMAL_GUEST_SIZE
ASSUME HostAssumption == HostCpus \subseteq Nat /\ IsFiniteSet(HostCpus)
ASSUME NoneAssumption == None \notin Seq(Nat)

VARIABLES
    program,     \* "main" before Uhyve::new, "vm" after, "exited" on an error
    cli,         \* options: mem, cpus, affinity; None if the library is used
    num_cpus, cpu_affinity,   \* what main makes of them
    pinned       \* the host CPU of each vCPU's thread, once it is started

mainVars == <<program, cli, num_cpus, cpu_affinity>>
allVars == <<vars, mainVars, pinned, cmdVars>>

NotStarted == -3
Anywhere == -2     \* no affinity
Refused == -1      \* set_for_current failed

\* One of the inputs varies at a time: the kernel and the memory, the host CPUs
\* asked for, the arguments, or the environment.  An option is <<>> or holds its
\* value; a CPU list holds ranges, one of which is not a pair of numbers.  clap
\* (external) is taken to split a list at its commas; where it does not, a list
\* with a comma is Garbage.
UpTo(set, n) == UNION {[1 .. m -> set] : m \in 0 .. n}
Optional(set) == UpTo(set, 1)
SmallKernel == [is_dyn |-> TRUE, usable |-> TRUE, relas |-> {}, entry |-> 0, tls |-> 0,
                segs |-> <<[p_vaddr |-> 0, p_filesz |-> 1, p_memsz |-> 1]>>]
CpuRange(start, end) == [start |-> start, end |-> end]
Garbage == CpuRange(-1, -1)
Ranges == {CpuRange(0, 1), CpuRange(1, 1), CpuRange(2, 9), CpuRange(3, 2), Garbage}
Options(mem, cpus, affinity) == [mem : mem, cpus : cpus, affinity : affinity]

Variables == [key : {1}, value : {0, 2}] \cup {GarbledVariable}
Inputs(kernels, options, words, variables) ==
    /\ kernel \in kernels /\ cli \in options
    /\ args \in {<<"uhyve">> \o w : w \in words} /\ environ \in variables

StartInit ==
    /\ \/ Inputs(Kernels, {None} \cup Options(Optional(MemSizes), {<<>>}, {<<>>}),
                 {<<>>}, {<<>>})
       \/ Inputs({SmallKernel}, Options({<<>>}, Optional(0 .. MaxCpus), Optional(UpTo(Ranges, 2))),
                 {<<>>}, {<<>>})
       \/ Inputs({SmallKernel}, Options({<<>>}, {<<>>}, {<<>>}), UpTo(Words, MaxArgs), {<<>>})
       \/ Inputs({SmallKernel}, Options({<<>>}, {<<>>}, {<<>>}), {<<>>}, UpTo(Variables, MaxEnv))
    /\ IF cli = None THEN program = "vm" /\ mem_size \in MemSizes
       ELSE program = "main" /\ mem_size = 0
    /\ num_cpus = 1 /\ cpu_affinity = None
    /\ pinned = [c \in 0 .. MaxCpus - 1 |-> NotStarted]
    /\ Fresh /\ CmdInit

-------------------------------------------------------------------------------
(* main *)

\* The numbers of all ranges, for main to collect in a set; numbers only.
parse_ranges(ranges) == UNION {ranges[n].start .. ranges[n].end : n \in DOMAIN ranges}
Parses(ranges) == \A n \in DOMAIN ranges : ranges[n] # Garbage

\* core_affinity (external) lists the host CPUs in order, and what main keeps of
\* the list stays in order.
get_core_ids(kept) ==
    CHOOSE ids \in [1 .. Cardinality(kept) -> kept] :
        \A m, n \in DOMAIN ids : m < n => ids[m] < ids[n]
core_ids == get_core_ids({id \in HostCpus : id \in parse_ranges(cli.affinity[1])})

\* Mutant of GuestSize: small sizes are taken as they are.
GuestSizeRaw == IF cli.mem = <<>> THEN DEFAULT_GUEST_SIZE ELSE cli.mem[1]
GuestSize ==
    IF cli.mem = <<>> THEN DEFAULT_GUEST_SIZE
    ELSE IF cli.mem[1] < MINIMAL_GUEST_SIZE THEN MINIMAL_GUEST_SIZE ELSE cli.mem[1]

\* It panics for a list that does not parse or does not have a CPU the process
\* may run on for every vCPU.
Affinity ==
    IF cli.affinity = <<>> THEN cpu_affinity' = None
    ELSE /\ Parses(cli.affinity[1])
         /\ Len(core_ids) = num_cpus'
         /\ cpu_affinity' = core_ids

\* A number of CPUs that does not parse counts as 1; 0 is a number.
main ==
    /\ program = "main"
    /\ num_cpus' = IF cli.cpus = <<>> THEN 1 ELSE cli.cpus[1]
    /\ Affinity
    /\ mem_size' = GuestSize
    /\ program' = "vm"
    /\ UNCHANGED <<kernel, threads, memory, phase, i, boot_info, offset, entry_point, vcpu,
                   cli, pinned, cmdVars>>

\* clap refuses the options, or one of the expectations above fails.
MainExits ==
    /\ program = "main"
    /\ program' = "exited"
    /\ UNCHANGED <<vars, cli, num_cpus, cpu_affinity, pinned, cmdVars>>

-------------------------------------------------------------------------------
(* The VM *)

\* Mutant of local_cpu_affinity: it counts from 1.
local_cpu_affinity_next(c) ==
    IF cpu_affinity # None /\ c + 1 < Len(cpu_affinity) THEN cpu_affinity[c + 2] ELSE Anywhere
local_cpu_affinity(c) ==
    IF cpu_affinity # None /\ c < Len(cpu_affinity) THEN cpu_affinity[c + 1] ELSE Anywhere

\* The thread of vCPU c is spawned and pins itself, without noticing a failure.
Pin(c) ==
    /\ phase \in {"loaded", "ready"} /\ c < num_cpus
    /\ pinned[c] = NotStarted
    /\ \E core \in {local_cpu_affinity(c), Refused} :
          /\ local_cpu_affinity(c) = Anywhere => core = Anywhere
          /\ pinned' = [pinned EXCEPT ![c] = core]
    /\ UNCHANGED <<vars, mainVars, cmdVars>>

\* Boot, where the first vCPU's thread is pinned before it sets up its vCPU.
\* main passes no network interface on.
BootStep ==
    /\ program = "vm"
    /\ Next
    /\ phase = "loaded" /\ phase' = "ready" => pinned[0] # NotStarted
    /\ cli # None => threads' = {}
    /\ UNCHANGED <<mainVars, pinned, cmdVars>>

\* The guest asks for its command line.
Serve ==
    /\ phase = "ready"
    /\ CmdNext
    /\ UNCHANGED <<vars, mainVars, pinned>>

StartNext ==
    \/ main \/ MainExits \/ BootStep \/ Serve
    \/ \E c \in 0 .. MaxCpus - 1 : Pin(c)

StartSpec == StartInit /\ [][StartNext]_allVars

-------------------------------------------------------------------------------
(* Properties *)

\* Nothing is written behind the memory of the VM when the kernel is loaded; and
\* a VM that main starts is never too small for the structures that are written
\* without a comparison.
MemoryRespected ==
    /\ DOMAIN memory \in {{}, 0 .. mem_size - 1}
    /\ cli # None => phase # "wild"

\* With an affinity list, every vCPU's thread is pinned to a host CPU of its own,
\* one that was asked for and that the process may run on, or the host refused
\* it; and no such CPU is left over.
PinnedToRequested ==
    cli # None /\ program = "vm" /\ cli.affinity # <<>> =>
        LET asked == {id \in HostCpus :
                        \E n \in DOMAIN cli.affinity[1] :
                            id >= cli.affinity[1][n].start /\ id <= cli.affinity[1][n].end}
        IN  /\ Cardinality(asked) = num_cpus
            /\ \A c \in DOMAIN pinned :
                  \/ pinned[c] \in {NotStarted, Refused}
                  \/ pinned[c] \in asked /\ \A d \in DOMAIN pinned \ {c} : pinned[d] # pinned[c]
===============================================================================
