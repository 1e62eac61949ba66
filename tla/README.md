# A TLA+ verification of uhyve

uhyve is a minimal hypervisor for the RustyHermit unikernel. It creates one VM
on KVM (Linux) or the Hypervisor framework (macOS), loads a kernel into guest
memory, runs one thread per vCPU, and serves the guest's hypercalls, its network
device and, on Linux, a GDB client. This directory holds TLA+ models of the
parts of uhyve in which threads, the guest and the debugger interact, and of the
way from the command line to the first instruction of the guest, the TLC
configurations that check them on small instances, and TLAPS proofs of their
safety properties and refinements for every instance.

`PROJECT.json` is the index: components, runs, the source lines each definition
stands for, a mutant for every property, findings, hazards and theorems.

## 1. Survey: the parts of the system

| Part | Source | Modelled by |
|------|--------|-------------|
| Running the VM on Linux: vCPU threads, exit barrier, kick, join | `src/linux/mod.rs` | `LinuxRun`, promise `VmLifecycle` |
| Running the VM on macOS: vCPU threads, exit channel | `src/macos/mod.rs` | `MacRun`, promise `VmLifecycle` |
| vCPU exits on macOS, emulated MSRs | `src/macos/vcpu.rs` | `MacVm` (with `MacRun`) |
| I/O APIC on macOS | `src/macos/ioapic.rs` | `IoApic` in `MacVm`, promise `RegisterFile` |
| vCPU exit loop on Linux | `src/linux/vcpu.rs` | in part, inside `LinuxRun`, `Hypercalls`, `NetTx`, `VirtioNet`, `GdbLoop` |
| uhyve network, transmit: writer thread, NETWRITE hypercall, shared ring | `src/linux/uhyve.rs`, `src/shared_queue.rs` | `NetTx` over `SharedQueue`, promise `NetFifo` |
| uhyve network, receive: reader thread, shared ring, interrupt | same | `NetRx` over `SharedQueue`, promise `NetFifo` |
| virtio network device behind the legacy PCI ports | `src/linux/virtio.rs` | `VirtioNet` |
| virtqueue | `src/linux/virtqueue.rs` | `Virtqueue` |
| The virtio device with its queue | both | `VirtioDevice` |
| GDB event loop and the thread that interrupts the guest | `src/linux/gdb/mod.rs` | `GdbLoop` |
| GDB software breakpoints | `src/linux/gdb/breakpoints.rs` | `SwBreakpoints` |
| GDB hardware breakpoints, debug registers, stop reasons | `src/arch/x86_64/registers/debug.rs` | `HwBreakpoints`, promise `BreakpointBag` |
| The GDB target (both, with the vCPU) | `src/linux/gdb/` | `GdbTarget` |
| Hypercalls: files, serial line, exit | `src/vm.rs` | `Hypercalls` |
| Hypercalls: arguments and environment | `src/vm.rs` | `CommandLine`, which `Startup` extends |
| Kernel loading, boot information, page tables, address translation | `src/vm.rs`, `src/paging.rs`, `src/linux/vcpu.rs` | `Boot` in `Startup` |
| VM creation, guest memory on Linux | `src/linux/uhyve.rs` | memory and its regions in `Boot`, the network threads in `NetTx` and `NetRx` |
| VMCS setup, VM creation on macOS | `src/macos/` | no (section 8) |
| CPU frequency detection | `src/vm.rs` | no (section 8) |
| GDB registers, section offsets | `src/linux/gdb/regs.rs` | no (section 8) |
| Options, CPU affinity | `src/bin/uhyve.rs`, `src/utils.rs` | `Startup` |

How they interact. `main` turns its options into the parameters of a VM,
`Uhyve::new` and `load_kernel` fill its memory, and `Uhyve::run` starts the vCPU threads; each enters the guest
and comes back with an exit, which its own thread handles: it answers hypercalls,
pushes a token to the network writer thread, or takes the mutex of the virtio
device. The network threads share two rings with the guest and nothing else with
the vCPUs except the channel and the interrupt eventfd. With GDB there is one
vCPU and the main thread runs both it and the stub; a helper thread kicks the
main thread out of the guest when the debugger sends something.

What is hard to test here, and what the properties aim at, is listed under
"hazards" in `PROJECT.json`, each at its source line. The main families: the
kick that meets a vCPU outside `KVM_RUN`; a two-party barrier shared by more
than two threads; counters shared with the guest without a lock; a channel of
capacity one whose tokens stand for packets; a helper thread that acts on stale
knowledge of a stream; a table of breakpoints with a copy in the processor; a
device whose configuration several vCPUs change and whose queue a reset replaces;
16-bit indices that wrap; hypercalls that block in the host while other vCPUs
change the descriptors they work on; a register pair that takes two accesses.

## 2. The modules

Every action is a whole handler, or the part of a thread's loop between two
points at which another thread can interfere. Mutants (definitions named "Mutant
of ...") stand directly before the definition they replace and are part of no
specification.

### LinuxRun and VmLifecycle

`main` is the position of the main thread in `run_no_gdb` (`spawn`, `arrive` and
`wait` at the barrier, `kick`, `join`, `done`, `panicked`), `i` its loop index.
`cpu[c]` is the position of a vCPU thread: creating its vCPU, spinning on
`cpu_online`, about to enter `KVM_RUN`, inside it (`guest`), handling an exit
(`host`), on its way to the barrier, in it, ended or unwound. `result[c]` is the
`Option<i32>` the thread returns. The kick handler is empty, so `Kick` changes a
vCPU at `guest` and no other; `lost` records the others. `Faults` says which
host-side failures may happen (vCPU creation, `KVM_RUN`, a panicking handler).

The guest is external: a core finishes its startup code by incrementing
`cpu_online`, may exit with any code, and may cause any number of exits. A
`NETWRITE` that blocks is a long stay at `host`. `pthread_kill` of a thread that
has ended is taken to succeed, as current C libraries do.

`VmLifecycle` is what `run` promises on both platforms: each vCPU ends at most
once with a code, and `run` returns once, with the code of a vCPU that had ended
by then, or panics. `Detached` says whether vCPUs may outlive `run`.

### MacRun

The same on macOS, where a vCPU sends its code through a channel (`chan`) and
the calling thread returns the first one it receives; `open` is whether the
receiver still exists, `sends` the order of the messages.

### MacVm, IoApic and RegisterFile

`MacVm` extends `MacRun` with what happens while a vCPU is in the guest: `instr`
is the instruction it has exited at, and `continue` emulates it and advances
`rip` (`Advance`), stops the vCPU, panics, or leaves `rip` alone (`Repeats`), and
then the guest meets the same instruction again. `msr` holds the two registers
that `emulate_rdmsr` and `emulate_wrmsr` keep. The I/O APIC is a selector and a
window behind a mutex; one operation on a register takes two accesses, and the
mutex is held for one. `orderly` guests hold a lock of their own over the two,
use instructions the emulation decodes and select registers that exist; others
do anything, which may panic under the mutex and poison it for every vCPU.

`RegisterFile` is what an orderly guest may rely on: whatever the registers hold
at first, a read gives what was last written to that register. `NewTable` is what
`IoApic::new` leaves there: it sets the mask in the first 8 of the table's 48
words. An entry has two, so that 4 of the 24 redirection entries are masked,
although the comment on the loop (`ioapic.rs:32`) says all. The steps of `MacVm` are those of
`MacRun` with more conjuncts, or leave its variables alone, so that what is proved
of `MacRun` holds for the whole.

### Hypercalls

The calls for files and the serial line, made by several vCPU threads of one
process. `read` and `write` block in the host and take two steps or more; `write`
takes one per turn of its loop, and the host may take any part of what is left,
nothing, or refuse. A byte is named by where it comes from, so `taken` shows
which bytes the host got and `memory` which the guest got. `page_table` is any
mapping of the guest's pages; the code translates the start of a buffer only.
`fds` are the descriptors, shared by all vCPUs: `retargeted` records that one was
closed or opened under a write. A byte for the serial line passes the standard
library's `Stdout`: `stdout` is who holds its lock, `hand` what the holder has
still to put into the line buffer, `line` the buffer, `console` what the host has
got. `uart` takes the lock, moves bytes in parts, may stay blocked in the host
with the lock held, and may fail in between. An error ends `run` on Linux and
unwinds the thread on macOS (`platform`). `ProcessExit` is `process::exit` at the
end of `main`, after `LinuxRun` or `MacRun` have returned: it flushes the buffer
only if the lock is free, and on macOS, where no vCPU thread is waited for, it may
not be; then the threads go on until the host ends them (`ProcessEnds`).

The host is external and unreliable. Descriptors of the standard output are left
alone by the guest; what happens otherwise is said with the hazards.

### SharedQueue, NetTx, NetRx and NetFifo

Packets are numbered. `SharedQueue` is a ring: a slot holds a number, 0 for none;
`read` and `written` are the counters in shared memory, each written by one side. In `NetTx` the
writer thread receives a token, loads and compares the counters, sends one
packet and advances `read`. Cores fill a slot, publish it and announce it, and
`NetWrite` puts a token on a channel of capacity one, blocks while it is full
and panics when the writer thread is gone. In `NetRx` the reader thread waits
for a free slot (a loop), receives a frame into it, advances `written` and
raises the interrupt; the guest's handler drains the ring and goes idle. Writing
the interrupt's eventfd may fail (`ReaderIrqFails`): the thread unwinds, and the
frame it has just published stays unannounced.

The guest drivers are not under `src/`. They are modelled from what the host
threads rely on: one core at a time fills a slot; a core announces each packet
after it has published it; the interrupt handler runs until the ring is empty.
The ring is initialised by the spawned thread (`SharedQueue::init`), possibly
while the guest is already running: `early` says whether the guest uses the
transmit ring before that. It is chosen at the start, so one run covers both
kinds of guest. The counters and lengths are read and written with volatile
accesses and the platform is x86, so the models take the host's and the guest's
accesses in program order; weaker orderings are not modelled.

`NetFifo` is a bounded FIFO; `TxIsFifo` and `RxIsFifo` are the refinements. For an early guest the
mapping is constant: packets published before `init()` are erased by it, and
only `NetWriteReturns` and the proved `CountersSane` are claimed.

### VirtioNet

The device's registers (`status` as the set of its bits, features, selected
queue), the number of registered queues, whether the TAP device is open, and the
mutex's poison flag. Every port access that changes the device is an action of
one vCPU, taken under the mutex, at any time and in any order. A handler that
panics poisons the mutex; every later access of any vCPU then panics
(`LockPanics`). The status register is a byte of the PCI configuration space:
`reckless` guests also write there or access a port in another width than its
register's. Properties about the agreement of status and configuration are stated
for guests that do not.

### Virtqueue

The transmit queue: `handle_notify_output`, `next` (collecting, reading the
available index from guest memory without synchronisation, hence `loaded`),
`add_used`. Indices wrap at `Width`. `checked` says whether the build checks for
overflow (then wrapping panics). The driver hands out descriptors in ring order;
the code takes a ring position for a descriptor index and is right for such
drivers only. `send_crashes` stands for the dereference of a guest address as a
host address in `send_available_packets`, and for the allocation whose size is
computed from the descriptor's length: with a TAP device any packet may end in
one or the other, in every build.

### VirtioDevice

The two together: the vCPU that notifies the device holds the mutex while it
works on the ring, step by step (`notifier`), so other accesses wait and the
driver does not. A reset clears the queues, and the queue registered after it
starts at zero, on rings the driver has cleared. A panic in the ring (an index
that overflows in a build with checks, or a bad length) poisons
the device. For a reckless guest
the ring is not followed, and `VirtioNet` alone says what a notification does.

### GdbLoop

`conn` is the TCP stream with whole requests, `stub` the position of the main
thread in gdbstub's loop, `wait_for_stop_reason` and `KVM_RUN`, `helper` the
position of the helper thread (`read`, `kick`, `sleep`). gdbstub and the
debugger are external: the debugger waits for an answer before its next request,
may interrupt a guest it has resumed, and may detach or kill the target while it
is stopped, which ends `run_gdb` (`StubQuits`). It does not just close the stream.

### SwBreakpoints, HwBreakpoints, GdbTarget, BreakpointBag

`SwBreakpoints`: guest memory, the table of saved bytes, and the code as the
debugger last wrote it (`text`). `nesting` is the kind of debugger: its
breakpoints are disjoint, or they overlap and are removed in reverse order; in
both cases it writes no code below a breakpoint. `HwBreakpoints`: the slots, the
copy that `apply_guest_debug` loads at every resume, and `stop_reason`, which
translates the trap bits through the table; an address that is not canonical
panics (`NotCanonical`). `GdbTarget` composes the two with a
vCPU that is stopped while requests are served. `BreakpointBag` is what the
table promises: insertion fails exactly when it is full, removal exactly when
the breakpoint is absent.

### Boot

`Uhyve::new`, `load_kernel` and `setup_long_mode` of the first vCPU. Memory is
counted in pages, and a page is described by what it holds; a page table has
`Entries` entries and a large page is `Entries` pages. `kernel` is the ELF file,
any well-formed one of at most two segments and `Span` pages, relocatable or not.
The threads of the network device are spawned before the page tables are written
and initialise their rings at any time. Nothing compares the addresses of the
page tables and the rings with the size of the memory; the model ends in the
phase `wild` when they exceed it. `virt_to_phys` is a recursive function over the
levels, reading the tables from memory as it is then.

### Startup and CommandLine

`Startup` puts `main` before `Boot` and the guest's first calls behind it. `main`
makes memory size, number of CPUs and the list of host CPUs of the options;
`parse_ranges` gives a set of numbers, `core_ids` the host CPUs in it, in ascending
order as `core_affinity` lists them, which `Pin` hands out by position when the vCPU threads
start. `cli = None` is a use of the library without `main`: only then may memory
be too small (`wild`), and only then are there network threads, since `main`
passes no interface on although it declares the option. One input varies at a
time: kernel and memory; CPUs and CPU list; arguments and environment. They meet
in no condition of the code.

`CommandLine` is `cmdsize` and `cmdval`, each a loop over the arguments and one
over the environment (`Serve` is a step of either, once the guest runs), with one
step per turn and with indices, limits and the search for the separator of its
own; the guest makes room in between, of exactly the sizes the first call gave.
`overrun` records that the second call went past an entry or its room. A word or a
variable may be no Unicode (`garbled`): then `std::env::args()` or `vars()`
panics, which `clap` does not prevent. Lengths are kept, characters are not.
`CmdSpec` is the module's own specification, for any command line and environment;
the run checks it with those of `Startup`. `clap` is external: it is taken to
split the value of `--affinity` at its commas, as the option's help text says;
`src/` leaves that to it.

## 3. Runs

| Run | Shows | Bounds |
|-----|-------|--------|
| `linux_run` | one core at a time in the startup code; what is returned is the only code, with all threads ended; refinement of `VmLifecycle`; an exit ends the VM unless a kick is lost, a second vCPU exits or a vCPU panics | 3 vCPUs, 2 codes, all failures |
| `linux_run_assert` | **violated**: the assertion that at most one thread finishes with a code | 3 vCPUs |
| `linux_run_kick` | **violated**: a kicked vCPU stops | 2 vCPUs |
| `mac_vm` | one core at a time in the startup code; refinement of `VmLifecycle`; an exit ends the VM whatever fails; I/O APIC and MSRs are a register file for an orderly guest; an emulated instruction does not come back | 2 vCPUs, 2 codes, all failures, 8 registers of which 2 and one that does not exist are selected, 4 halves of an operation |
| `net_tx` | no packet stranded; FIFO; every packet is sent; `NETWRITE` returns | 3 cores, ring of 3, 6 packets |
| `net_rx` | no slot shared; no lost wakeup; FIFO; every frame in the ring is received, but for a last one whose interrupt failed; a full ring drains | ring of 3, 8 frames |
| `virtio` | configuration agrees with status; a device that broke stays broken until reset; descriptors come back in order, each once, across wraps and resets; no notification lost; all come back | 2 vCPUs, 2 features, 2 queues, indices mod 6, 3 descriptors, 7 offers per queue, both kinds of build and of guest |
| `hypercalls` | a write is complete and in order however the host takes it; a read fills what it says; the serial line arrives in order, a complete line before its call comes back, and all of it by the end of the process unless `process::exit` finds `stdout` locked; a write comes back | 2 vCPUs, 2 files, 2 descriptors, 2 pages of 2 bytes under every mapping, buffers across the page border, 3 calls, both platforms |
| `gdb_loop` | debugger and stub agree on whether the guest runs; an interrupt is served | 3 handled exits |
| `gdb_loop_assert` | **violated**: the assertion that a kick finds data on the stream | 3 handled exits |
| `gdb_target` | memory is the code overlaid with breakpoints; the slots are a bag; traps are translated to what was loaded | 2 bytes, kinds 1 and 2, 2 slots, 1 address |
| `startup` | nothing is written behind the memory; the loaded image is complete and backed by memory; the first vCPU starts on intact structures; `virt_to_phys` agrees with what the boot page tables map; vCPUs are pinned to the CPUs asked for; the guest gets its command line in the room it made, or the vCPU panics for a word it cannot take | kernels of up to 3 pages, 9 memory sizes, tables of 4 entries; up to 3 vCPUs, 3 host CPUs, lists of 2 ranges; up to 4 words, 3 slots for arguments, 2 for the environment |

Why the bounds are enough. Three vCPUs are needed for two of them to meet at the
barrier while a third has met main. The rings are smaller than the number of
packets, so they wrap and fill; three cores put one sender in the channel and
leave two waiting. `Virtqueue` wraps both the ring and the counter. Two bytes
with kinds 1 and 2 give overlapping, nested and disjoint breakpoints, the opcode
being one of the byte values the code may contain; two slots fill up and hold
duplicates. `MaxExits`, `MaxPackets` and `MaxOffers` bound what the guest does
and nothing the host does. The memory sizes of `startup` end before, inside and
behind the page tables, the rings, the kernel and the 32-bit gap; its CPU lists
overlap, are empty, name CPUs that are not there and do not parse; its words
include a second separator, the empty word and one that is no Unicode, one more
than there are slots for.
In `hypercalls` a buffer crosses a page border under every mapping, contiguous
or not, and three calls let one vCPU close and reopen the descriptor of a write in
progress. In `mac_vm` four halves are two whole register operations of two vCPUs,
or one and an exit.

`CHECK_DEADLOCK FALSE` is set everywhere: `run` returns, the guest may stop
sending, the debugger may go silent, and each is a legitimate end. That the
system does not stop too early is what the liveness properties say.

### Findings

The three violated runs are disagreements between the code and what the
repository says about it, with the lines in `PROJECT.json`:

* `linux_run_assert`: after one vCPU has met main at the barrier, two more
  that exit by themselves meet each other, three threads return a code and the
  assertion behind the join loop fails.
* `linux_run_kick`: the kick only ends a `KVM_RUN` in progress. A vCPU that is
  spinning, handling an exit or about to enter the guest runs on, and main waits
  for it in `join`.
* `gdb_loop_assert`: the helper has seen a request that the stub consumes before
  the kick is sent; if it was a resume, the kick hits a `KVM_RUN` with nothing on
  the stream.

The models contain these behaviours in the passing runs, too; the properties
there say what holds in spite of them. Other behaviour of the kind, about which
the repository states nothing, is described with the hazards: the general-detect
bit in DR7, which makes an access of the guest to a debug register end in the
panic of `stop_reason`; memories too small for the page tables when the library is
used without `main`; `RDRAND` and unmapped memory on macOS, which repeat for ever;
the virtio status, which a write to the PCI configuration space replaces. And without a hazard of
their own: the load offset reported for kernels that are not relocated is the
start address, and their image size the sum of the segments, whatever lies
between them; `--cpus 0` is a number, and a VM without vCPUs waits for ever; the
option for a network interface is declared and ignored.

## 4. Fairness

Liveness is claimed under weak fairness of host threads: the operating system
schedules every runnable thread. Nothing is assumed of the guest's computation,
of exits, of arriving frames or of the debugger, with these exceptions:

* `NetTx`: a core that has filled a slot publishes it (the driver's straight-line
  code) and blocked senders of the channel are served (strong fairness of
  `NetWrite`): `sync_channel` keeps its blocked senders in a FIFO.
* `NetRx`: the guest takes its interrupt and its handler keeps running. The
  reader thread's `recv` has no fairness, since frames need not come.
* `VirtioDevice`: the driver gives the notifications it owes and reclaims used
  descriptors.
* `MacVm`: nothing of the guest; the handler of an exit is part of its thread.
* `Hypercalls`: a write that the host keeps answering is in the end refused or
  gets a byte further (strong fairness of `WriteProgress`). The loop of the code
  has no other way out: a host that answers 0 for ever would keep it turning.
* `GdbLoop`: both threads are scheduled. `MaxExits` bounds the exits the guest
  causes, so a guest that is never inside `KVM_RUN` when a kick arrives is
  excluded; the code relies on the same thing, repeating the kick every 20 ms.

## 5. Proofs

Eight modules hold theorems; everything they cite is proved by `tlapm`.

* `LinuxRunProofs`: `TypeCorrect`, `StartupIsExclusive`, `KicksFollowAnExit`,
  `ReturnedCodeIsTheOnlyOne` and the refinement `ImplementsLifecycle`, for every
  number of vCPUs, every set of codes and of failures. The invariant adds to the
  types that a core in its startup code has the index `cpu_online` (`BootInv`);
  that a code is set exactly from the exit on, so that who releases main from the
  barrier has one (`ExitInv`); and what the join loop has established below `i`
  (`JoinInv`). Mutual exclusion alone is not inductive: it needs that the cores
  that are online are those below `cpu_online`. Of `CommandLine`,
  `CmdvalAlwaysFits`, for every command line, environment and limits: `CmdInv`
  says, for every position of either loop, what it has counted or copied so far,
  and that the count the second loop arrives at is the one the first has announced.
* `NetProofs`: first what the counters of a ring are good for: two that differ by
  less than its size select different slots, and what lies between them after an
  append and a removal. Of `NetTx`, `TxCountersStaySane`, also for guests that use
  the ring before `init()`, `NoneStranded` and the refinement `TxImplementsFifo`,
  for every ring size and any number of cores and packets. The core of the
  invariant is `TokenInv`: the packets in the ring are as many as the tokens in
  the channel, in the writer's hand and owed by cores together. That no packet is
  stranded is a corollary, and not inductive by itself. `FreshInv`, `CounterInv`
  and `ContentInv` are about what the writer has loaded and what the slots hold.
  Of `NetRx`, `RxCountersStaySane`, `SlotsAreNotShared`, `WakeupsAreNotLost`,
  `ReceivedInOrder` and the refinement `RxImplementsFifo`, for every ring size and
  number of frames. The invariant says that a passed comparison stays true while
  its thread acts on it, since the other side only moves its counter the harmless
  way (`RxCounterInv`), and that the slots between the counters hold the frames in
  order (`RxContentInv`).
* `MacVmProofs`: of `MacRun`, for any number of vCPUs and every failure,
  `StartupIsExclusive`, `FirstSentIsReturned` and the refinement
  `ImplementsLifecycle`; of the whole VM, `ImplementsRegisterFile`, and `VmIsMacRun`,
  which carries the others over. The invariants say who can have sent (`ThreadInv`,
  `ChanInv`), which cores are online (`OnlineInv`), and that whoever has a
  register selected holds the guest's lock and the selector is theirs (`LockInv`).
* `HypercallsProofs`: `WritesAreComplete`, `ReadsFill` and `ConsoleIsInOrder`, for
  any number of vCPUs, descriptors and pages, any buffers and any behaviour of the
  host. For a write the invariant (`WriteInv`) ties the bytes taken to
  `bytes_written` and the buffer's translation at the call; for a read (`ReadInv`)
  it says that the call under way still holds the translation of its buffer; for
  the serial line (`ConsoleInv`), that only the holder of the lock has bytes in
  hand, that what has arrived, the buffer and the hand make up what was printed,
  and that once `process::exit` has found the lock free, what finished calls
  printed has arrived and nothing stays in the buffer between two calls.
* `GdbProofs`: of `GdbTarget`, `TypeCorrect`, `OverlayHolds`,
  `TrapsGetTheirReason` and the refinement `ImplementsBag`, for code of any size,
  any kinds and any number of slots. The saved bytes of a breakpoint are the
  overlay of those that were there before it; `below` is the order of insertion;
  in the disjoint case no two overlap. For traps the invariant is that the
  registers equal the table while the guest runs. For the bag it is that there
  are as many copies in it as slots are taken (`BagInv`), so that it is full
  exactly when no slot is free. Of `GdbLoop`, `StoppedWhenReported`, for any
  number of exits: the invariant (`LoopInv`) says what the stream can hold in each
  position of debugger and stub, namely interrupts that came too late and at most
  one request, the one the debugger is waiting for.
* `VirtioDeviceProofs`: of `VirtioNet`, `TypeCorrect`,
  `ConfigurationFollowsStatus` and `StaysBroken`, for any number of vCPUs and queues. The invariant adds which sets
  of bits the status can be without configuration-space writes (`Handshaken`).
  `DeviceIsVirtioNet` carries them over to `VirtioDevice`. Of the queue,
  `ReturnsInOrder` and `LeavesNothing`, for every ring size that divides the width
  of the indices, and any number of offers and resets. The four indices say what
  they mean only modulo `Width`; the invariant (`Linked`) gives the counts behind
  them, less than the ring apart, hence determined by the indices, and says what
  the rings hold between them. `Noticed` is the argument that no notification is
  lost: while the device collects, the index it works with is the newest, or a
  notification is owed. `GateInv` carries this through a reset.
* `BootProofs`: what `virt_to_phys` computes from the boot page tables (the walk
  unfolded level by level, for any number of entries), and an invariant of
  loading, `BootInv`, that every step preserves: which pages exist (`DomainInv`);
  nothing but the structures lies below the kernel (`LowInv`); tables, boot
  information and the segments loaded so far are in place (`TablesInv`, `InfoInv`,
  `SegmentsInv`, `DoneInv`). Why it is inductive: the structures, the stack and
  the image are apart, so that no later write meets an earlier one, and the
  threads of the network device write their rings only.
* `StartupProofs`: `MemoryIsRespected`, `ImageIsIntact`, `HandoverIsIntact` and
  `BootIsTranslated` from `BootInv` and from what `main` makes sure of (`MainInv`:
  memory beyond all structures, no network threads), for every layout, memory size
  and size of segments. `AlwaysPinnedToRequested`, for any set of host CPUs and
  any number of vCPUs: a thread has the CPU at its place of a list without
  duplicates (`PinInv`); that a finite set of numbers can be listed in order is
  part of it. `ServesCommandLine`: the startup implements `CmdSpec`, which carries
  `CmdvalAlwaysFits` over to it. Induction over a list is replaced, here and in
  `CmdvalAlwaysFits`, by the smallest place at which the claim would fail
  (`Smallest`).

The assumptions are the named `ASSUME`s of the component modules: sizes and
numbers of vCPUs or slots are positive, `None` is no code, no breakpoint and no
vCPU, offered features are features, the size of a virtqueue divides the width of
its indices and is less; buffers start inside the guest's address space, and
descriptor 0 exists. For booting: the boot structures are in different pages, none
of them page 0, below the stack of the lowest kernel (`LayoutAssumption`) and
within the minimal memory, which the default is not below (`MinimumAssumption`),
the boot information below the page directory; a page table has more than one
entry; host CPUs are finitely many numbers. The constants in the source satisfy
them.

Only model-checked: liveness (`ExitEndsTheVm`, `EventuallySent`,
`NetWriteReturns`, `EventuallyReceived`, `InterruptServed`, `AllReturned`,
`EmulatedOnce`, `WriteReturns`), since TLAPS cannot prove properties that need
fairness. Every other property of the passing runs, invariant, action property or
refinement, has a theorem. What stays a bound of the model is a bound of the
theorems too: kernels have one or two segments, a CPU list has at most two of five
ranges, and one input of `Startup` varies at a time.
Type invariants, `CountersSane`, `KickOnlyAfterExit`, `FirstCodeWins` and `InOrder`
are proved and not part of the runs.

## 6. Running it

    tlc -workers 2 -config net_rx.cfg NetRx
    tlapm NetProofs.tla

Module and configuration of every run are in `PROJECT.json`. The longest run,
`gdb_target`, takes about two minutes; the longest proofs, `LinuxRunProofs`, `StartupProofs`
and `BootProofs`, four to seven.

## 7. Plan

In order:

1. A receive queue of the virtio device, once `_poll_rx` is more than a stub.
2. The page tables a guest builds for itself under `virt_to_phys`, in
   `Hypercalls`, where any mapping of whole pages stands for them now.

## 8. Not modelled

* CPU frequency detection: a chain of fallbacks over CPUID and host strings
  without state.
* GDB register transfer and section offsets: copies between two layouts.
* CPUID, segment and VMCS setup, and the values MSRs start with: tables of values
  whose meaning lies in the processor.
* `transparent_hugepages_available` and the flags for huge and mergeable pages:
  they choose advice to the host about memory.
* Characters: names of files, words of the command line and the digits of numbers
  and ranges; what does not parse is one case.
* Payloads of packets and descriptors; timing (the 20 ms sleep only separates two
  kicks); logging.
* A VM all of whose vCPUs end with an error: `run` then waits for ever on both
  platforms. The models contain this end; no property denies it.
* The failure of `rx.recv()` in the writer thread when the VM is torn down.
