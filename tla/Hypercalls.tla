------------------------------ MODULE Hypercalls ------------------------------
(***************************************************************************)
(* The hypercalls for files and for the serial line, in the exit handlers  *)
(* of several vCPU threads that share the descriptors of the process and   *)
(* its standard output.  A call that blocks in the host takes two steps or *)
(* more, and write and uart take as many as the host accepts the data in.  *)
(*                                                                         *)
(* The host (external) may refuse any call, accept a part of what it is    *)
(* offered and deliver less than it is asked for.  Contents are named by   *)
(* where they come from: a byte of guest memory by its address, a byte the *)
(* host delivers by its position in the answer.                            *)
(*                                                                         *)
(* The standard library's stdout (external) is a line buffer behind a lock *)
(* that uart holds until the host has taken every complete line.  The end  *)
(* of the process flushes it only if no vCPU holds the lock just then: on  *)
(* Linux run has joined the vCPU threads, on macOS they are still running. *)
(*                                                                         *)
(* The guest leaves the descriptors of the standard output alone: a write  *)
(* to them goes past what the serial line has buffered, and once they are  *)
(* closed the serial line loses its bytes.                                 *)
(***************************************************************************)
EXTENDS Integers, Sequences, FiniteSets

CONSTANTS Cpus,       \* vCPUs
          Files,      \* files on the host
          Fds,        \* descriptors the guest uses, from 0
          Stdin,      \* the file descriptor 0 names at first
          None,       \* "no file", "no vCPU"
          PageSize,   \* bytes of a guest page
          Pages,      \* pages of guest memory
          Starts,     \* bound: addresses of buffers
          MaxLen,     \* bound: bytes of a buffer
          MaxCalls    \* bound: hypercalls of the whole guest

ASSUME PageAssumption == PageSize \in Nat \ {0} /\ Pages \in Nat \ {0}
ASSUME BoundAssumption == Starts \subseteq 0 .. Pages * PageSize - 1 /\ MaxLen \in Nat /\ MaxCalls \in Nat
ASSUME FdAssumption == Fds \subseteq Nat /\ 0 \in Fds /\ Stdin \in Files
ASSUME CpusAssumption == Cpus # {}
ASSUME NoneAssumption == None \notin Files /\ None \notin Cpus

Address == 0 .. Pages * PageSize - 1

VARIABLES
    platform,       \* "linux" or "macos"
    page_table,     \* the guest's mapping of its virtual pages
    memory,         \* guest memory: what was last stored at each address
    fds,            \* the file each descriptor of the process names, or None
    cpu,            \* where the thread of each vCPU is
    syswrite,       \* each vCPU's write in progress, or its last
    sysread,        \* the same for read
    bytes_written,  \* of write
    stdout,         \* the vCPU that holds the lock of stdout, or None
    hand,           \* bytes of its call that stdout has not got yet
    line,           \* bytes of the serial line that stdout has buffered
    console,        \* what has arrived at the standard output of the process
    cleanup,        \* what process::exit did with stdout: "none" before
    calls,          \* hypercalls made
    taken,          \* history: what the host took of a vCPU's last write
    retargeted,     \* history: its descriptor was closed or opened meanwhile
    printed,        \* history: bytes the guest sent over the serial line
    returned,       \* history: how many of them by calls that have come back
    broken          \* history: the standard output has failed

hostVars    == <<fds, retargeted>>
consoleVars == <<stdout, hand, line, console, cleanup, printed, returned, broken>>
writeVars   == <<syswrite, bytes_written, taken>>
vars == <<platform, page_table, memory, hostVars, cpu, writeVars, sysread, consoleVars, calls>>

CpuPc == {"guest", "write", "read", "uart", "ended", "panicked", "exit", "gone"}
Byte(from, n) == [from |-> from, n |-> n]
NoCall == [fd |-> 0, buf |-> 0, len |-> 0, ret |-> 0, buffer |-> 0, file |-> None]

Init ==
    /\ platform \in {"linux", "macos"}
    /\ page_table \in {f \in [0 .. Pages - 1 -> 0 .. Pages - 1] :
                         \A p, q \in DOMAIN f : f[p] = f[q] => p = q}
    /\ memory = [a \in Address |-> Byte("guest", a)]
    /\ fds = [fd \in Fds |-> IF fd = 0 THEN Stdin ELSE None]
    /\ cpu = [c \in Cpus |-> "guest"]
    /\ syswrite = [c \in Cpus |-> NoCall] /\ sysread = [c \in Cpus |-> NoCall]
    /\ bytes_written = [c \in Cpus |-> 0]
    /\ stdout = None /\ hand = <<>> /\ line = <<>> /\ console = <<>> /\ cleanup = "none"
    /\ calls = 0
    /\ taken = [c \in Cpus |-> <<>>] /\ retargeted = [c \in Cpus |-> FALSE]
    /\ printed = <<>> /\ returned = 0 /\ broken = FALSE

Goto(c, pc) == cpu' = [cpu EXCEPT ![c] = pc]

\* The guest runs a hypercall on vCPU c.
Call(c) ==
    /\ cpu[c] = "guest"
    /\ calls < MaxCalls
    /\ calls' = calls + 1

\* An error of write or uart: `?` ends cpu.run() on Linux, unwrap() unwinds
\* the thread on macOS.
Fail(c) == Goto(c, IF platform = "linux" THEN "ended" ELSE "panicked")

\* The walk of the guest's page tables (Boot has it in detail).
virt_to_phys(addr) == page_table[addr \div PageSize] * PageSize + (addr % PageSize)

-------------------------------------------------------------------------------
(* open, close, unlink, lseek: one call of libc, whose result the guest gets *)

\* A write another vCPU is doing on descriptor fd goes on with its number.
Retarget(fd, file) ==
    /\ fds' = [fds EXCEPT ![fd] = file]
    /\ retargeted' = [d \in Cpus |->
          retargeted[d] \/ (cpu[d] = "write" /\ syswrite[d].fd = fd)]

\* libc::open gives the lowest free descriptor, or fails.
open(c) ==
    /\ Call(c)
    /\ \/ UNCHANGED hostVars
       \/ \E file \in Files, fd \in Fds :
            /\ fds[fd] = None
            /\ \A low \in Fds : low < fd => fds[low] # None
            /\ Retarget(fd, file)
    /\ UNCHANGED <<platform, page_table, memory, cpu, writeVars, sysread, consoleVars>>

close(c) ==
    /\ Call(c)
    /\ \E fd \in Fds : Retarget(fd, None)
    /\ UNCHANGED <<platform, page_table, memory, cpu, writeVars, sysread, consoleVars>>

\* It changes names of the host only.
unlink(c) ==
    /\ Call(c)
    /\ UNCHANGED <<platform, page_table, memory, hostVars, cpu, writeVars, sysread, consoleVars>>

\* It changes the position in a file, where contents are not followed.
lseek(c) ==
    /\ Call(c)
    /\ UNCHANGED <<platform, page_table, memory, hostVars, cpu, writeVars, sysread, consoleVars>>

-------------------------------------------------------------------------------
(* write *)

\* What a guest passes: a buffer inside its address space.
Buffers == {b \in [fd : Fds, buf : Starts, len : 0 .. MaxLen] :
              b.buf + b.len <= Pages * PageSize}

\* The call with these arguments: its buffer, translated once, and the file its
\* descriptor names now.
Begin(b) == [fd |-> b.fd, buf |-> b.buf, len |-> b.len, ret |-> 0,
             buffer |-> virt_to_phys(b.buf), file |-> fds[b.fd]]

\* The whole range lies in pages that follow each other in memory, too.
Contiguous(b) ==
    \A k \in 0 .. b.len - 1 : virt_to_phys(b.buf + k) = virt_to_phys(b.buf) + k

write(c) ==
    /\ Call(c)
    /\ \E b \in Buffers : syswrite' = [syswrite EXCEPT ![c] = Begin(b)]
    /\ bytes_written' = [bytes_written EXCEPT ![c] = 0]
    /\ taken' = [taken EXCEPT ![c] = <<>>]
    /\ retargeted' = [retargeted EXCEPT ![c] = FALSE]
    /\ Goto(c, "write")
    /\ UNCHANGED <<platform, page_table, memory, fds, sysread, consoleVars>>

\* What one call of libc takes: step bytes from address on, for file.
Chunk(address, step, file) == [k \in 1 .. step |-> [at |-> address + k - 1, file |-> file]]

\* Mutant of WriteStep: each turn starts at the beginning of the buffer.
WriteStepAgain(c, step) ==
    /\ cpu[c] = "write" /\ bytes_written[c] # syswrite[c].len
    /\ fds[syswrite[c].fd] # None
    /\ taken' = [taken EXCEPT ![c] = @ \o Chunk(syswrite[c].buffer, step, fds[syswrite[c].fd])]
    /\ bytes_written' = [bytes_written EXCEPT ![c] = @ + step]
    /\ UNCHANGED <<platform, page_table, memory, hostVars, cpu, syswrite, sysread, consoleVars, calls>>

\* One turn of the loop: the host takes step of the bytes that are left.
WriteStep(c, step) ==
    /\ cpu[c] = "write" /\ bytes_written[c] # syswrite[c].len
    /\ fds[syswrite[c].fd] # None
    /\ taken' = [taken EXCEPT ![c] =
                   @ \o Chunk(syswrite[c].buffer + bytes_written[c], step, fds[syswrite[c].fd])]
    /\ bytes_written' = [bytes_written EXCEPT ![c] = @ + step]
    /\ UNCHANGED <<platform, page_table, memory, hostVars, cpu, syswrite, sysread, consoleVars, calls>>

\* Mutant of WriteFails: the loop tries again.
WriteFailsNot(c) ==
    /\ cpu[c] = "write" /\ bytes_written[c] # syswrite[c].len
    /\ UNCHANGED vars

\* libc::write gives -1, for a descriptor that is not open or another reason.
WriteFails(c) ==
    /\ cpu[c] = "write" /\ bytes_written[c] # syswrite[c].len
    /\ Fail(c)
    /\ UNCHANGED <<platform, page_table, memory, hostVars, writeVars, sysread, consoleVars, calls>>

\* The loop has ended; the guest goes on.
WriteDone(c) ==
    /\ cpu[c] = "write" /\ bytes_written[c] = syswrite[c].len
    /\ Goto(c, "guest")
    /\ UNCHANGED <<platform, page_table, memory, hostVars, writeVars, sysread, consoleVars, calls>>

Remaining(c) == syswrite[c].len - bytes_written[c]

-------------------------------------------------------------------------------
(* read *)

\* Mutant of read: the buffer is not translated.
read_untranslated(c) ==
    /\ Call(c)
    /\ \E b \in Buffers : sysread' = [sysread EXCEPT ![c] = [Begin(b) EXCEPT !.buffer = b.buf]]
    /\ Goto(c, "read")
    /\ UNCHANGED <<platform, page_table, memory, hostVars, writeVars, consoleVars>>

read(c) ==
    /\ Call(c)
    /\ \E b \in Buffers : sysread' = [sysread EXCEPT ![c] = Begin(b)]
    /\ Goto(c, "read")
    /\ UNCHANGED <<platform, page_table, memory, hostVars, writeVars, consoleVars>>

\* libc::read answers with bytes_read bytes, or with -1.
ReadReturns(c, bytes_read) ==
    /\ cpu[c] = "read"
    /\ bytes_read >= 0 => sysread[c].file # None
    /\ memory' = [a \in Address |->
          IF a - sysread[c].buffer \in 0 .. bytes_read - 1
          THEN Byte(c, a - sysread[c].buffer) ELSE memory[a]]
    /\ sysread' = [sysread EXCEPT ![c].ret = IF bytes_read >= 0 THEN bytes_read ELSE -1]
    /\ Goto(c, "guest")
    /\ UNCHANGED <<platform, page_table, hostVars, writeVars, consoleVars, calls>>

-------------------------------------------------------------------------------
(* uart *)

Front(s, n) == SubSeq(s, 1, n)
Rest(s, n) == SubSeq(s, n + 1, Len(s))

\* What one call prints: "nl" is the end of a line, "x" any other byte.  KVM
\* passes the bytes of a string instruction on together.
Output == IF platform = "linux" THEN {<<"x">>, <<"x", "nl">>} ELSE {<<"x">>, <<"nl">>}

uart(c) ==
    /\ Call(c)
    /\ Goto(c, "uart")
    /\ UNCHANGED <<platform, page_table, memory, hostVars, writeVars, sysread, consoleVars>>

\* stdout().write_all(buf): it takes the lock ...
UartLocks(c) ==
    /\ cpu[c] = "uart" /\ stdout = None
    /\ stdout' = c
    /\ \E buf \in Output : hand' = buf /\ printed' = printed \o buf
    /\ UNCHANGED <<platform, page_table, memory, hostVars, cpu, writeVars, sysread,
                   line, console, cleanup, returned, broken, calls>>

\* ... appends to the buffer ...
UartBuffers(c, n) ==
    /\ stdout = c /\ cpu[c] = "uart"
    /\ line' = line \o Front(hand, n)
    /\ hand' = Rest(hand, n)
    /\ UNCHANGED <<platform, page_table, memory, hostVars, cpu, writeVars, sysread,
                   stdout, console, cleanup, printed, returned, broken, calls>>

\* ... from which the host takes n bytes, when it can ...
UartWrites(c, n) ==
    /\ stdout = c /\ cpu[c] = "uart"
    /\ console' = console \o Front(line, n)
    /\ line' = Rest(line, n)
    /\ UNCHANGED <<platform, page_table, memory, hostVars, cpu, writeVars, sysread,
                   stdout, hand, cleanup, printed, returned, broken, calls>>

\* ... until no line is complete; process::exit leaves stdout unbuffered.  (A
\* failed write may leave complete lines behind.)
UartReturns(c) ==
    /\ stdout = c /\ cpu[c] = "uart"
    /\ hand = <<>>
    /\ broken \/ \A k \in DOMAIN line : line[k] # "nl"
    /\ cleanup = "flushed" => line = <<>>
    /\ stdout' = None
    /\ returned' = Len(printed)
    /\ Goto(c, "guest")
    /\ UNCHANGED <<platform, page_table, memory, hostVars, writeVars, sysread,
                   hand, line, console, cleanup, printed, broken, calls>>

\* The host refuses: of the bytes it did not take some may stay in the buffer.
UartFails(c) ==
    /\ stdout = c /\ cpu[c] = "uart"
    /\ stdout' = None /\ hand' = <<>>
    /\ \E n \in 0 .. Len(line) : line' = Front(line, n)
    /\ broken' = TRUE
    /\ Fail(c)
    /\ UNCHANGED <<platform, page_table, memory, hostVars, writeVars, sysread,
                   console, cleanup, printed, returned, calls>>

-------------------------------------------------------------------------------
(* exit *)

exit(c) ==
    /\ Call(c)
    /\ Goto(c, "exit")
    /\ UNCHANGED <<platform, page_table, memory, hostVars, writeVars, sysread, consoleVars>>

\* Uhyve::run returns the code: on Linux all vCPU threads have ended then, the
\* guest being stopped by the kick (LinuxRun), on macOS none is waited for (MacRun).
RunReturned ==
    /\ \E c \in Cpus : cpu[c] = "exit"
    /\ platform = "linux" => \A c \in Cpus : cpu[c] \notin {"write", "read", "uart"}
    /\ cpu' = IF platform = "linux" THEN [c \in Cpus |-> "gone"] ELSE cpu

\* Mutant of ProcessExit: the process is left without the library's clean-up.
ProcessAborts ==
    /\ cleanup = "none"
    /\ RunReturned
    /\ cleanup' = "flushed"
    /\ UNCHANGED <<platform, page_table, memory, hostVars, writeVars, sysread,
                   stdout, hand, line, console, printed, returned, broken, calls>>

\* main calls process::exit, which flushes stdout if it gets the lock at once,
\* and does not tell when the host refuses.
ProcessExit ==
    /\ cleanup = "none"
    /\ RunReturned
    /\ \/ /\ stdout # None
          /\ cleanup' = "skipped"
          /\ UNCHANGED <<line, console, broken>>
       \/ /\ stdout = None
          /\ cleanup' = "flushed"
          /\ line' = <<>>
          /\ \E n \in 0 .. Len(line) : /\ console' = console \o Front(line, n)
                                       /\ broken' = (broken \/ n < Len(line))
    /\ UNCHANGED <<platform, page_table, memory, hostVars, writeVars, sysread,
                   stdout, hand, printed, returned, calls>>

\* The host ends the threads that still run.
ProcessEnds ==
    /\ cleanup # "none"
    /\ \E c \in Cpus : cpu[c] # "gone"
    /\ cpu' = [c \in Cpus |-> "gone"]
    /\ UNCHANGED <<platform, page_table, memory, hostVars, writeVars, sysread, consoleVars, calls>>

-------------------------------------------------------------------------------

Blocked(c) ==
    \/ \E step \in 0 .. Remaining(c) : WriteStep(c, step)
    \/ WriteFails(c) \/ WriteDone(c)
    \/ \E bytes_read \in -1 .. sysread[c].len : ReadReturns(c, bytes_read)
    \/ UartLocks(c) \/ UartReturns(c) \/ UartFails(c)
    \/ \E n \in 1 .. Len(hand) : UartBuffers(c, n)
    \/ \E n \in 1 .. Len(line) : UartWrites(c, n)

Next ==
    \/ \E c \in Cpus :
        \/ open(c) \/ close(c) \/ unlink(c) \/ lseek(c) \/ write(c) \/ read(c)
        \/ uart(c) \/ exit(c)
        \/ Blocked(c)
    \/ ProcessExit \/ ProcessEnds

Spec == Init /\ [][Next]_vars

\* The host answers a call again and again until it takes something or
\* refuses.  (A host that answers 0 for ever would keep the loop turning.)
WriteProgress(c) ==
    \/ \E step \in 1 .. Remaining(c) : WriteStep(c, step)
    \/ WriteFails(c)

FairSpec ==
    /\ Spec
    /\ \A c \in Cpus : SF_vars(WriteProgress(c)) /\ WF_vars(WriteDone(c))

-------------------------------------------------------------------------------
(* Properties *)

WriteCall == [fd : Fds, buf : Address, len : Nat, ret : {0}, buffer : Nat,
              file : Files \cup {None}]

TypeOK ==
    /\ page_table \in [0 .. Pages - 1 -> 0 .. Pages - 1]
    /\ fds \in [Fds -> Files \cup {None}]
    /\ cpu \in [Cpus -> CpuPc]
    /\ syswrite \in [Cpus -> WriteCall]
    /\ bytes_written \in [Cpus -> Nat]
    /\ taken \in [Cpus -> Seq([at : Nat, file : Files])]
    /\ retargeted \in [Cpus -> BOOLEAN]

\* The host has got exactly the first bytes_written bytes of the guest's
\* buffer, each once and in order, whatever parts it took them in, also when
\* the call failed in between; once the guest goes on, it has got all of them.
\* They went to the file the descriptor named at the call, unless another
\* vCPU closed or opened the descriptor.  (The buffer is translated once, so this is
\* about buffers that are contiguous in memory.)
WriteComplete ==
    \A c \in Cpus :
        LET b == syswrite[c] IN
        /\ Len(taken[c]) = bytes_written[c]
        /\ cpu[c] \in {"guest", "read", "uart", "exit"} => bytes_written[c] = b.len
        /\ Contiguous(b) => \A k \in 1 .. Len(taken[c]) :
                               taken[c][k].at = virt_to_phys(b.buf + k - 1)
        /\ retargeted[c] \/ \A k \in 1 .. Len(taken[c]) : taken[c][k].file = b.file

\* The guest finds the bytes the host delivered, as many as the result says, at
\* the virtual addresses of a contiguous buffer; nothing else has changed.
Filled(c) ==
    LET b == sysread'[c]
        place(k) == virt_to_phys(b.buf + k)
    IN  /\ b.ret <= b.len
        /\ Contiguous(b) =>
             /\ \A k \in 0 .. b.ret - 1 : memory'[place(k)] = Byte(c, k)
             /\ \A a \in Address : (\A k \in 0 .. b.ret - 1 : a # place(k))
                                    => memory'[a] = memory[a]

\* When read comes back, the guest finds, at the virtual addresses of a
\* contiguous buffer, the bytes the host delivered, as many as the result
\* says; nothing else of its memory has changed, and nothing at all if the
\* result is -1.
ReadFills == [][\A c \in Cpus : cpu[c] = "read" /\ cpu'[c] = "guest" => Filled(c)]_vars

\* What the guest sent over the serial line arrives in order, without loss or
\* repetition, calls of several vCPUs one after the other; a complete line before
\* its call comes back.  When the process has ended, all that was sent by calls
\* that came back has arrived: always on Linux, whose run joins the vCPUs, and
\* on macOS unless process::exit found a vCPU inside uart.  (All this up to
\* the moment the host refuses bytes.)
ConsoleInOrder ==
    ~broken =>
        /\ printed = console \o line \o hand
        /\ stdout = None => \A k \in DOMAIN line : line[k] # "nl"
        /\ (\A c \in Cpus : cpu[c] = "gone") =>
              \/ Len(console) >= returned
              \/ platform = "macos" /\ cleanup = "skipped"

\* A write comes back to the guest or ends its vCPU, whatever the other vCPUs
\* do with the descriptor.
WriteReturns == \A c \in Cpus : cpu[c] = "write" ~> cpu[c] # "write"
===============================================================================
