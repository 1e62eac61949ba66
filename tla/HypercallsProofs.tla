--------------------------- MODULE HypercallsProofs ---------------------------
(***************************************************************************)
(* WriteComplete, ConsoleInOrder and ReadFills for any number of vCPUs,    *)
(* any memory and any sequence of calls.                                   *)
(***************************************************************************)
EXTENDS Hypercalls, SequenceTheorems, TLAPS

\* Memory is not empty.
LEMMA ZeroInMemory == 0 \in Address
<1>1. Pages * PageSize >= 1 /\ Pages * PageSize \in Nat
  BY PageAssumption, SMT
<1> QED
  BY <1>1 DEF Address

\* Translation stays inside the memory of the guest.
LEMMA TranslationInMemory ==
    ASSUME TypeOK, NEW a \in Address
    PROVE  virt_to_phys(a) \in Address
<1> DEFINE page == a \div PageSize
           off  == a % PageSize
<1>1. a \in Nat /\ a < Pages * PageSize /\ Pages * PageSize \in Nat
  BY PageAssumption DEF Address
<1>2. page \in Nat /\ page * PageSize <= a /\ off \in 0 .. PageSize - 1
  BY <1>1, PageAssumption, SMT
<1>3. page < Pages
  <2> SUFFICES ASSUME page >= Pages PROVE FALSE
    BY <1>2, PageAssumption
  <2>1. page * PageSize >= Pages * PageSize
    BY <1>2, PageAssumption, SMT
  <2> QED
    BY <2>1, <1>1, <1>2, PageAssumption, SMT
<1>4. PICK p \in 0 .. Pages - 1 : p = page_table[page]
  BY <1>2, <1>3, PageAssumption DEF TypeOK
<1>5. p * PageSize \in Nat /\ p * PageSize <= (Pages - 1) * PageSize
      /\ (Pages - 1) * PageSize = Pages * PageSize - PageSize
  BY <1>4, PageAssumption, SMT
<1>6. p * PageSize + off \in 0 .. Pages * PageSize - 1
  <2> HIDE DEF off
  <2> QED
    BY <1>1, <1>2, <1>5, PageAssumption
<1> QED
  BY <1>4, <1>6 DEF virt_to_phys, Address

\* An address is a number.
LEMMA TranslationType ==
    ASSUME TypeOK, NEW a \in Address
    PROVE  virt_to_phys(a) \in Nat
<1>1. virt_to_phys(a) \in Address
  BY TranslationInMemory
<1> QED
  BY <1>1 DEF Address

-------------------------------------------------------------------------------
(* The inductive invariant of one vCPU's write *)

\* What the host has taken is the beginning of the translated buffer, for the
\* file the descriptor named, which it still names while the call lasts.
WriteInv(c) ==
    /\ bytes_written[c] <= syswrite[c].len
    /\ syswrite[c].len > 0 => syswrite[c].buffer = virt_to_phys(syswrite[c].buf)
    /\ Len(taken[c]) = bytes_written[c]
    /\ cpu[c] \in {"guest", "read", "uart", "exit"} => bytes_written[c] = syswrite[c].len
    /\ \A k \in 1 .. Len(taken[c]) : taken[c][k].at = syswrite[c].buffer + (k - 1)
    /\ ~retargeted[c] =>
         /\ cpu[c] = "write" => fds[syswrite[c].fd] = syswrite[c].file
         /\ \A k \in 1 .. Len(taken[c]) : taken[c][k].file = syswrite[c].file

Inv == TypeOK /\ \A c \in Cpus : WriteInv(c)

\* The invariant gives the property.
LEMMA InvImpliesWriteComplete == Inv => WriteComplete
<1> SUFFICES ASSUME Inv, NEW c \in Cpus
             PROVE  LET b == syswrite[c] IN
                    /\ Len(taken[c]) = bytes_written[c]
                    /\ cpu[c] \in {"guest", "read", "uart", "exit"} => bytes_written[c] = b.len
                    /\ Contiguous(b) => \A k \in 1 .. Len(taken[c]) :
                                           taken[c][k].at = virt_to_phys(b.buf + k - 1)
                    /\ retargeted[c] \/ \A k \in 1 .. Len(taken[c]) : taken[c][k].file = b.file
  BY DEF WriteComplete
<1> DEFINE b == syswrite[c]
<1>1. WriteInv(c) /\ TypeOK
  BY DEF Inv
<1>2. b.buf \in Int /\ b.len \in Nat /\ bytes_written[c] \in Nat
  BY <1>1 DEF TypeOK, WriteCall, Address
<1>3. ASSUME Contiguous(b), NEW k \in 1 .. Len(taken[c])
      PROVE  taken[c][k].at = virt_to_phys(b.buf + k - 1)
  <2>1. k - 1 \in 0 .. b.len - 1 /\ b.len > 0
    BY <1>1, <1>2 DEF WriteInv
  <2>2. virt_to_phys(b.buf + (k - 1)) = virt_to_phys(b.buf) + (k - 1)
    BY <1>3, <2>1 DEF Contiguous
  <2>3. b.buf + (k - 1) = b.buf + k - 1
    BY <1>2
  <2> QED
    BY <1>1, <2>1, <2>2, <2>3 DEF WriteInv
<1> QED
  BY <1>1, <1>3 DEF WriteInv

\* A step that leaves the writes, the descriptors and the page table alone, and
\* moves a vCPU only from the guest or after its write, preserves the invariant.
LEMMA WritesUntouched ==
    ASSUME Inv, cpu' \in [Cpus -> CpuPc],
           UNCHANGED <<page_table, fds, retargeted, writeVars>>,
           \A c \in Cpus : cpu'[c] = "write" => cpu[c] = "write",
           \A c \in Cpus : cpu'[c] \in {"guest", "read", "uart", "exit"} =>
                             bytes_written[c] = syswrite[c].len
    PROVE  Inv'
<1>1. TypeOK'
  BY Zenon DEF Inv, TypeOK, writeVars
<1>2. ASSUME NEW c \in Cpus PROVE WriteInv(c)'
  BY <1>2 DEF Inv, WriteInv, writeVars, virt_to_phys
<1> QED
  BY <1>1, <1>2 DEF Inv

\* Every state starts with no write made.
LEMMA InitInv == Init => Inv
<1> SUFFICES ASSUME Init PROVE Inv
  OBVIOUS
<1>1. 0 \in Address
  BY ZeroInMemory
<1>2. NoCall \in WriteCall
  BY <1>1, FdAssumption DEF NoCall, WriteCall
<1>3. TypeOK
  BY <1>2, FdAssumption DEF Init, TypeOK, CpuPc
<1>4. ASSUME NEW c \in Cpus PROVE WriteInv(c)
  BY DEF Init, WriteInv, NoCall
<1> QED
  BY <1>3, <1>4 DEF Inv

-------------------------------------------------------------------------------
(* The steps that touch writes or descriptors *)

\* Opening or closing a descriptor marks the writes that use it.
LEMMA RetargetInv ==
    ASSUME Inv, NEW fd \in Fds, NEW file \in Files \cup {None}, Retarget(fd, file),
           UNCHANGED <<page_table, cpu, writeVars>>
    PROVE  Inv'
<1>1. TypeOK'
  BY Zenon DEF Inv, TypeOK, Retarget, writeVars
<1>2. ASSUME NEW c \in Cpus PROVE WriteInv(c)'
  <2>1. retargeted'[c] = (retargeted[c] \/ (cpu[c] = "write" /\ syswrite[c].fd = fd))
    BY DEF Retarget
  <2>2. syswrite[c].fd # fd => fds'[syswrite[c].fd] = fds[syswrite[c].fd]
    BY DEF Retarget, Inv, TypeOK, WriteCall
  <2>3. WriteInv(c)
    BY DEF Inv
  <2> QED
    BY <2>1, <2>2, <2>3, Zenon DEF WriteInv, writeVars, virt_to_phys
<1> QED
  BY <1>1, <1>2 DEF Inv

\* A new write starts with nothing taken and an untouched descriptor.
LEMMA WriteBeginInv ==
    ASSUME Inv, NEW c \in Cpus, write(c)
    PROVE  Inv'
<1> USE DEF Inv
<1>1. PICK b \in Buffers : syswrite' = [syswrite EXCEPT ![c] = Begin(b)]
  BY Zenon DEF write
<1>2. b.fd \in Fds /\ b.buf \in Address /\ b.len \in Nat
  <2>1. b \in [fd : Fds, buf : Starts, len : 0 .. MaxLen]
    BY DEF Buffers
  <2>2. Starts \subseteq Address /\ MaxLen \in Nat
    BY BoundAssumption DEF Address
  <2> QED
    BY <2>1, <2>2
<1>3. virt_to_phys(b.buf) \in Nat
  BY <1>2, TranslationType
<1>4. Begin(b) \in WriteCall
  BY <1>2, <1>3 DEF Begin, WriteCall, TypeOK
<1>5. TypeOK'
  <2>1. syswrite' \in [Cpus -> WriteCall]
    BY <1>1, <1>4 DEF TypeOK
  <2>2. cpu' \in [Cpus -> CpuPc] /\ bytes_written' \in [Cpus -> Nat]
        /\ retargeted' \in [Cpus -> BOOLEAN]
    BY DEF TypeOK, write, Goto, CpuPc
  <2>3. taken' \in [Cpus -> Seq([at : Nat, file : Files])]
    <3> DEFINE S == Seq([at : Nat, file : Files])
    <3>1. taken \in [Cpus -> S] /\ <<>> \in S
      BY EmptySeq, Zenon DEF TypeOK
    <3> HIDE DEF S
    <3>2. taken' \in [Cpus -> S]
      BY <3>1 DEF write
    <3> QED
      BY <3>2, Zenon DEF S
  <2>4. page_table' = page_table /\ fds' = fds
    BY DEF write
  <2> QED
    BY <2>1, <2>2, <2>3, <2>4, Zenon DEF TypeOK
<1>6. ASSUME NEW d \in Cpus PROVE WriteInv(d)'
  <2>1. CASE d = c
    <3>1. syswrite'[d] = Begin(b) /\ bytes_written'[d] = 0 /\ taken'[d] = <<>> /\ cpu'[d] = "write"
      BY <1>1, <2>1 DEF TypeOK, write, Goto
    <3>2. fds' = fds /\ page_table' = page_table
      BY DEF write
    <3> QED
      BY <1>2, <3>1, <3>2 DEF WriteInv, Begin, virt_to_phys
  <2>2. CASE d # c
    <3>1. /\ syswrite'[d] = syswrite[d] /\ bytes_written'[d] = bytes_written[d]
          /\ taken'[d] = taken[d] /\ cpu'[d] = cpu[d] /\ retargeted'[d] = retargeted[d]
          /\ fds' = fds /\ page_table' = page_table
      BY <1>1, <2>2 DEF TypeOK, write, Goto
    <3> QED
      BY <3>1 DEF WriteInv, virt_to_phys
  <2> QED
    BY <2>1, <2>2
<1> QED
  BY <1>5, <1>6

\* One call of libc continues where the last one stopped.
LEMMA WriteStepInv ==
    ASSUME Inv, NEW c \in Cpus, NEW step \in 0 .. Remaining(c), WriteStep(c, step)
    PROVE  Inv'
<1> USE DEF Inv
<1> DEFINE from == syswrite[c].buffer + bytes_written[c]
           file == fds[syswrite[c].fd]
           chunk == Chunk(from, step, file)
<1>1. /\ syswrite[c] \in WriteCall /\ bytes_written[c] \in Nat /\ syswrite[c].len \in Nat
      /\ syswrite[c].buffer \in Nat /\ syswrite[c].fd \in Fds /\ file \in Files
      /\ taken[c] \in Seq([at : Nat, file : Files])
  BY Zenon DEF TypeOK, WriteCall, WriteStep
<1>2. step \in Nat /\ bytes_written[c] + step <= syswrite[c].len
  BY <1>1 DEF Remaining
<1>3. chunk \in Seq([at : Nat, file : Files]) /\ Len(chunk) = step
  <2>1. chunk = [k \in 1 .. step |-> [at |-> from + k - 1, file |-> file]]
    BY DEF Chunk
  <2>2. \A k \in 1 .. step : [at |-> from + k - 1, file |-> file] \in [at : Nat, file : Files]
    BY <1>1, <1>2, SMTT(30)
  <2> HIDE DEF chunk, from, file
  <2> QED
    BY <2>1, <2>2, <1>2
<1>4. /\ taken'[c] = taken[c] \o chunk
      /\ bytes_written'[c] = bytes_written[c] + step
  BY DEF WriteStep, TypeOK
<1>5. taken'[c] \in Seq([at : Nat, file : Files]) /\ Len(taken'[c]) = Len(taken[c]) + step
  <2> DEFINE S == [at : Nat, file : Files]
  <2> HIDE DEF chunk, S
  <2>1. taken[c] \in Seq(S) /\ chunk \in Seq(S)
    BY <1>1, <1>3 DEF S
  <2>2. taken[c] \o chunk \in Seq(S) /\ Len(taken[c] \o chunk) = Len(taken[c]) + Len(chunk)
    BY <2>1, ConcatProperties
  <2> QED
    BY <2>2, <1>3, <1>4 DEF S
<1>6. TypeOK'
  <2>1. taken' \in [Cpus -> Seq([at : Nat, file : Files])]
    BY <1>4, <1>5, Zenon DEF TypeOK, WriteStep
  <2>2. bytes_written' \in [Cpus -> Nat]
    BY <1>1, <1>2 DEF TypeOK, WriteStep
  <2> QED
    BY <2>1, <2>2, Zenon DEF TypeOK, WriteStep, hostVars
<1>7. ASSUME NEW d \in Cpus PROVE WriteInv(d)'
  <2>0. fds' = fds /\ page_table' = page_table /\ cpu' = cpu /\ syswrite' = syswrite
        /\ retargeted' = retargeted
    BY DEF WriteStep, hostVars
  <2>1. CASE d = c
    <3>1. Len(taken'[c]) = bytes_written'[c] /\ bytes_written'[c] <= syswrite[c].len
      BY <1>2, <1>4, <1>5, <1>1, Zenon DEF WriteInv
    <3>2. ASSUME NEW k \in 1 .. Len(taken'[c])
          PROVE  /\ taken'[c][k].at = syswrite[c].buffer + (k - 1)
                 /\ ~retargeted[c] => taken'[c][k].file = syswrite[c].file
      <4>1. CASE k <= Len(taken[c])
        <5>1. taken'[c][k] = taken[c][k] /\ k \in 1 .. Len(taken[c])
          BY <1>1, <1>3, <1>4, <4>1, SMTT(30)
        <5> QED
          BY <5>1 DEF WriteInv
      <4>2. CASE k > Len(taken[c])
        <5> DEFINE j == k - Len(taken[c])
        <5>0. Len(taken[c]) \in Nat /\ Len(taken'[c]) = Len(taken[c]) + step
          BY <1>1, <1>5, LenProperties
        <5>1. j \in 1 .. step
          BY <5>0, <4>2, <1>2, SMTT(30)
        <5>2. taken'[c][k] = chunk[j]
          BY <1>1, <1>3, <1>4, <1>5, <4>2
        <5>3. chunk[j].at = from + j - 1 /\ chunk[j].file = file
          BY <5>1 DEF Chunk
        <5>4. from + j - 1 = syswrite[c].buffer + (k - 1)
          BY <1>1, <5>1 DEF WriteInv
        <5>5. ~retargeted[c] => file = syswrite[c].file
          BY DEF WriteInv, WriteStep
        <5> QED
          BY <5>2, <5>3, <5>4, <5>5
      <4> QED
        BY <4>1, <4>2, <1>1
    <3>3. cpu[c] = "write"
      BY SMTT(30) DEF WriteStep
    <3> QED
      BY <2>0, <2>1, <3>1, <3>2, <3>3, SMTT(30) DEF WriteInv, virt_to_phys
  <2>2. CASE d # c
    <3>1. taken'[d] = taken[d] /\ bytes_written'[d] = bytes_written[d]
      BY <2>2 DEF WriteStep, TypeOK
    <3> QED
      BY <2>0, <3>1 DEF WriteInv, virt_to_phys
  <2> QED
    BY <2>1, <2>2
<1> QED
  BY <1>6, <1>7

\* The invariant holds after every step.
LEMMA NextInv == Inv /\ [Next]_vars => Inv'
<1> SUFFICES ASSUME Inv, [Next]_vars PROVE Inv'
  OBVIOUS
<1> USE DEF Inv
<1>1. ASSUME NEW c \in Cpus, open(c) PROVE Inv'
  <2>1. CASE UNCHANGED hostVars
    BY <1>1, <2>1, WritesUntouched, Zenon DEF open, hostVars, WriteInv, TypeOK
  <2>2. CASE \E file \in Files, fd \in Fds : Retarget(fd, file)
    <3>1. PICK file \in Files, fd \in Fds : Retarget(fd, file)
      BY <2>2
    <3> QED
      BY <1>1, <3>1, RetargetInv DEF open
  <2> QED
    BY <1>1, <2>1, <2>2, SMTT(30) DEF open
<1>2. ASSUME NEW c \in Cpus, close(c) PROVE Inv'
  BY <1>2, RetargetInv DEF close
<1>3. ASSUME NEW c \in Cpus, write(c) PROVE Inv'
  BY <1>3, WriteBeginInv
<1>4. ASSUME NEW c \in Cpus, NEW step \in 0 .. Remaining(c), WriteStep(c, step) PROVE Inv'
  BY <1>4, WriteStepInv
<1>5. ASSUME NEW c \in Cpus,
             \/ unlink(c) \/ lseek(c) \/ UartLocks(c)
             \/ \E n \in 1 .. Len(hand) : UartBuffers(c, n)
             \/ \E n \in 1 .. Len(line) : UartWrites(c, n)
      PROVE  Inv'
  <2>1. UNCHANGED <<page_table, fds, retargeted, writeVars, cpu>>
    BY <1>5, Zenon DEF unlink, lseek, UartLocks, UartBuffers, UartWrites, hostVars
  <2> QED
    BY <2>1, WritesUntouched, Zenon DEF WriteInv, TypeOK
<1>6. ASSUME NEW c \in Cpus, read(c) \/ exit(c) \/ uart(c) PROVE Inv'
  <2>1. /\ cpu[c] = "guest" /\ cpu' \in [Cpus -> CpuPc]
        /\ cpu'[c] \in {"read", "exit", "uart"} /\ \A d \in Cpus \ {c} : cpu'[d] = cpu[d]
    BY <1>6, Zenon DEF read, exit, uart, Call, Goto, CpuPc, TypeOK
  <2>2. UNCHANGED <<page_table, fds, retargeted, writeVars>>
    BY <1>6, Zenon DEF read, exit, uart, hostVars
  <2> QED
    BY <2>1, <2>2, WritesUntouched DEF WriteInv, CpuPc
<1>7. ASSUME NEW c \in Cpus, UartFails(c) \/ WriteFails(c) PROVE Inv'
  <2>1. /\ cpu' \in [Cpus -> CpuPc] /\ cpu'[c] \in {"ended", "panicked"}
        /\ \A d \in Cpus \ {c} : cpu'[d] = cpu[d]
    BY <1>7, Zenon DEF UartFails, WriteFails, Fail, Goto, CpuPc, TypeOK
  <2>2. UNCHANGED <<page_table, fds, retargeted, writeVars>>
    BY <1>7 DEF UartFails, WriteFails, hostVars
  <2> QED
    BY <2>1, <2>2, WritesUntouched DEF WriteInv, CpuPc
<1>8. ASSUME NEW c \in Cpus, WriteDone(c) PROVE Inv'
  <2>1. /\ cpu' \in [Cpus -> CpuPc] /\ cpu'[c] = "guest"
        /\ bytes_written[c] = syswrite[c].len
        /\ \A d \in Cpus \ {c} : cpu'[d] = cpu[d]
    BY <1>8 DEF WriteDone, Goto, CpuPc, TypeOK
  <2>2. UNCHANGED <<page_table, fds, retargeted, writeVars>>
    BY <1>8, SMTT(30) DEF WriteDone, hostVars
  <2> QED
    BY <2>1, <2>2, WritesUntouched DEF WriteInv, CpuPc
<1>9. ASSUME NEW c \in Cpus, NEW n \in -1 .. sysread[c].len, ReadReturns(c, n) PROVE Inv'
  <2>1. /\ cpu[c] = "read" /\ cpu' \in [Cpus -> CpuPc] /\ cpu'[c] = "guest"
        /\ \A d \in Cpus \ {c} : cpu'[d] = cpu[d]
    BY <1>9 DEF ReadReturns, Goto, CpuPc, TypeOK
  <2>2. UNCHANGED <<page_table, fds, retargeted, writeVars>>
    BY <1>9 DEF ReadReturns, hostVars
  <2> QED
    BY <2>1, <2>2, WritesUntouched DEF WriteInv, CpuPc
<1>10. CASE ProcessExit \/ ProcessEnds
  <2>1. UNCHANGED <<page_table, fds, retargeted, writeVars>>
    BY <1>10, Zenon DEF ProcessExit, ProcessEnds, hostVars
  <2>2. cpu' = cpu \/ cpu' = [c \in Cpus |-> "gone"]
    BY <1>10, Zenon DEF ProcessExit, ProcessEnds, RunReturned
  <2>3. CASE cpu' = cpu
    BY <2>1, <2>3, WritesUntouched, Zenon DEF WriteInv, TypeOK
  <2>4. CASE cpu' = [c \in Cpus |-> "gone"]
    BY <2>1, <2>4, WritesUntouched DEF CpuPc
  <2> QED
    BY <2>2, <2>3, <2>4
<1>12. ASSUME NEW c \in Cpus, UartReturns(c) PROVE Inv'
  <2>1. /\ cpu[c] = "uart" /\ cpu' \in [Cpus -> CpuPc] /\ cpu'[c] = "guest"
        /\ \A d \in Cpus \ {c} : cpu'[d] = cpu[d]
    BY <1>12, Zenon DEF UartReturns, Goto, CpuPc, TypeOK
  <2>2. UNCHANGED <<page_table, fds, retargeted, writeVars>>
    BY <1>12, Zenon DEF UartReturns, hostVars
  <2> QED
    BY <2>1, <2>2, WritesUntouched DEF WriteInv, CpuPc
<1>11. CASE UNCHANGED vars
  BY <1>11, WritesUntouched, Zenon DEF vars, hostVars, WriteInv, TypeOK
<1> QED
  BY <1>1, <1>2, <1>3, <1>4, <1>5, <1>6, <1>7, <1>8, <1>9, <1>10, <1>11, <1>12, Zenon
     DEF Next, Blocked

\* The state keeps its types, however many vCPUs make calls.
THEOREM TypesHold == Spec => []TypeOK
<1>1. Inv => TypeOK
  BY DEF Inv
<1> QED
  BY InitInv, NextInv, <1>1, PTL DEF Spec

\* The loop of write hands the guest's buffer to the host completely, once and
\* in order, and to one file, for every number of vCPUs, every size of memory
\* and of buffers and every interleaving with open, close and other writes.
THEOREM WritesAreComplete == Spec => []WriteComplete
  BY InitInv, NextInv, InvImpliesWriteComplete, PTL DEF Spec

-------------------------------------------------------------------------------
(* The serial line *)

Text == Seq({"x", "nl"})

NoLineIn(s) == \A k \in DOMAIN s : s[k] # "nl"

ConsoleTypes ==
    /\ line \in Text /\ hand \in Text /\ console \in Text /\ printed \in Text
    /\ returned \in Nat
    /\ stdout \in Cpus \cup {None}
    /\ platform \in {"linux", "macos"}
    /\ cleanup \in {"none", "flushed", "skipped"}

\* The inductive invariant: who holds the lock is inside uart, and what it has in
\* hand, what stdout has buffered and what has arrived are all that was printed;
\* once the clean-up has flushed, calls come back only with an empty buffer.
ConsoleInv ==
    /\ ConsoleTypes
    /\ stdout # None => cpu[stdout] \in {"uart", "gone"}
    /\ stdout = None => hand = <<>>
    /\ returned <= Len(printed)
    /\ cleanup = "skipped" => platform = "macos"
    /\ \A c \in Cpus : cpu[c] = "gone" => cleanup \in {"flushed", "skipped"}
    /\ ~broken =>
         /\ printed = console \o line \o hand
         /\ stdout = None => NoLineIn(line)
         /\ cleanup = "flushed" =>
              /\ Len(console) >= returned
              /\ stdout = None => line = <<>>

\* The invariant gives the property.
LEMMA ConsoleInvImplies == ConsoleInv => ConsoleInOrder
<1> SUFFICES ASSUME ConsoleInv, ~broken PROVE ConsoleInOrder
  BY DEF ConsoleInOrder
<1>1. ASSUME \A c \in Cpus : cpu[c] = "gone"
      PROVE  Len(console) >= returned \/ (platform = "macos" /\ cleanup = "skipped")
  <2>1. cleanup \in {"flushed", "skipped"}
    BY <1>1, CpusAssumption DEF ConsoleInv
  <2> QED
    BY <2>1 DEF ConsoleInv
<1> QED
  BY <1>1, Zenon DEF ConsoleInv, ConsoleInOrder, NoLineIn

\* A step that leaves the serial line alone and does not move a vCPU in uart.
LEMMA ConsoleKept ==
    ASSUME ConsoleInv, UNCHANGED consoleVars, UNCHANGED platform,
           \A c \in Cpus : cpu[c] \in {"uart", "gone"} => cpu'[c] = cpu[c],
           \A c \in Cpus : cpu'[c] = "gone" => cpu[c] = "gone"
    PROVE  ConsoleInv'
<1>1. /\ stdout' = stdout /\ hand' = hand /\ line' = line /\ console' = console
      /\ cleanup' = cleanup /\ printed' = printed /\ returned' = returned /\ broken' = broken
      /\ platform' = platform
  BY DEF consoleVars
<1>2. stdout # None => cpu'[stdout] \in {"uart", "gone"}
  <2>1. stdout # None => stdout \in Cpus /\ cpu[stdout] \in {"uart", "gone"}
    BY DEF ConsoleInv, ConsoleTypes
  <2> QED
    BY <2>1
<1>3. \A c \in Cpus : cpu'[c] = "gone" => cleanup \in {"flushed", "skipped"}
  BY DEF ConsoleInv
<1> QED
  BY <1>1, <1>2, <1>3, Zenon DEF ConsoleInv, ConsoleTypes, NoLineIn

\* The two parts of a text are together what they are parts of.
LEMMA Split ==
    ASSUME NEW all \in Text, NEW n \in 0 .. Len(all)
    PROVE  /\ Front(all, n) \in Text /\ Rest(all, n) \in Text
           /\ Len(Front(all, n)) = n
           /\ Front(all, n) \o Rest(all, n) = all
<1>1. Len(all) \in Nat /\ \A i \in 1 .. Len(all) : all[i] \in {"x", "nl"}
  BY DEF Text
<1>2. Front(all, n) \in Text /\ Len(Front(all, n)) = n
  <2>1. \A i \in 1 .. n : all[i] \in {"x", "nl"}
    BY <1>1
  <2> QED
    BY <1>1, <2>1, SubSeqProperties DEF Text, Front
<1>3. Rest(all, n) \in Text
  <2>1. \A i \in n + 1 .. Len(all) : all[i] \in {"x", "nl"}
    BY <1>1
  <2>2. n + 1 \in Int /\ Len(all) \in Int
    BY <1>1
  <2> QED
    BY <2>1, <2>2, SubSeqProperties DEF Text, Rest
<1>4. Front(all, n) \o Rest(all, n) = all
  <2>1. Front(all, n) \o Rest(all, n) = SubSeq(all, 1, Len(all))
    <3>1. 1 \in 1 .. Len(all) + 1 /\ n \in 1 - 1 .. Len(all) /\ Len(all) \in n .. Len(all)
      BY <1>1
    <3> QED
      BY <3>1, ConcatAdjacentSubSeq, Zenon DEF Text, Front, Rest
  <2> QED
    BY <2>1, SubSeqFull, Zenon DEF Text
<1> QED
  BY <1>2, <1>3, <1>4

\* Joining texts.
LEMMA Joined ==
    ASSUME NEW s \in Text, NEW t \in Text
    PROVE  s \o t \in Text /\ Len(s \o t) = Len(s) + Len(t) /\ Len(s) \in Nat /\ Len(t) \in Nat
<1> QED
  BY ConcatProperties, LenProperties DEF Text

\* Pieces of text are joined in any order.
LEMMA TextAssociative ==
    ASSUME NEW s \in Text, NEW t \in Text, NEW u \in Text
    PROVE  (s \o t) \o u = s \o (t \o u)
<1> QED
  BY ConcatAssociative DEF Text

\* Nothing added is nothing changed.
LEMMA TextEmpty ==
    ASSUME NEW s \in Text
    PROVE  s \o <<>> = s /\ <<>> \in Text /\ Len(<<>>) = 0
<1> QED
  BY ConcatEmptySeq DEF Text

\* What a call prints is a text.
LEMMA OutputIsText == Output \subseteq Text
<1>1. <<"x">> \in Text /\ <<"nl">> \in Text /\ <<"x", "nl">> \in Text
  BY DEF Text
<1> QED
  BY <1>1, Zenon DEF Output

\* A call that takes the lock finds nothing in anybody's hand.
LEMMA LocksKeeps ==
    ASSUME TypeOK, ConsoleInv, NEW c \in Cpus, UartLocks(c)
    PROVE  ConsoleInv'
<1>1. PICK buf \in Output : hand' = buf /\ printed' = printed \o buf
  BY Zenon DEF UartLocks
<1>2. /\ stdout = None /\ stdout' = c /\ cpu[c] = "uart" /\ cpu' = cpu
      /\ line' = line /\ console' = console /\ cleanup' = cleanup /\ platform' = platform
      /\ returned' = returned /\ broken' = broken
  BY Zenon DEF UartLocks
<1>3. buf \in Text /\ ConsoleTypes /\ hand = <<>>
  BY <1>2, OutputIsText, Zenon DEF ConsoleInv
<1>4. /\ printed' \in Text /\ Len(printed') = Len(printed) + Len(buf)
      /\ Len(printed) \in Nat /\ Len(buf) \in Nat
  BY <1>1, <1>3, Joined DEF ConsoleTypes
<1>5. returned' <= Len(printed')
  BY <1>2, <1>3, <1>4 DEF ConsoleInv, ConsoleTypes
<1>6. ~broken => printed' = console' \o line' \o hand'
  <2>1. console \o line \in Text
    BY <1>3, Joined DEF ConsoleTypes
  <2>2. ~broken => printed = console \o line
    BY <1>3, <2>1, TextEmpty, Zenon DEF ConsoleInv
  <2> QED
    BY <1>1, <1>2, <2>2, Zenon
<1>7. c # None
  BY NoneAssumption
<1>8. ConsoleTypes'
  BY <1>1, <1>2, <1>3, <1>4, Zenon DEF ConsoleTypes
<1> QED
  BY <1>2, <1>5, <1>6, <1>7, <1>8, Zenon DEF ConsoleInv

\* Bytes that go from the hand into the buffer keep their place.
LEMMA BuffersKeeps ==
    ASSUME TypeOK, ConsoleInv, NEW c \in Cpus, NEW n \in 1 .. Len(hand), UartBuffers(c, n)
    PROVE  ConsoleInv'
<1>1. /\ stdout = c /\ stdout' = c /\ cpu' = cpu /\ line' = line \o Front(hand, n)
      /\ hand' = Rest(hand, n) /\ console' = console /\ cleanup' = cleanup
      /\ platform' = platform /\ printed' = printed /\ returned' = returned /\ broken' = broken
  BY Zenon DEF UartBuffers
<1>2. ConsoleTypes /\ n \in 0 .. Len(hand) /\ c # None
  BY NoneAssumption DEF ConsoleInv
<1>3. PICK f \in Text, r \in Text : f = Front(hand, n) /\ r = Rest(hand, n) /\ f \o r = hand
  BY <1>2, Split DEF ConsoleTypes
<1>4. line' \in Text /\ hand' \in Text
  BY <1>1, <1>2, <1>3, Joined DEF ConsoleTypes
<1>5. console \o (line \o f) \o r = console \o line \o hand
  <2>1. console \in Text /\ line \in Text
    BY <1>2 DEF ConsoleTypes
  <2>2. console \o line \in Text
    BY <2>1, Joined, Zenon
  <2>3. (console \o line) \o f = console \o (line \o f)
    BY <2>1, <1>3, TextAssociative, SMTT(30)
  <2>4. ((console \o line) \o f) \o r = (console \o line) \o (f \o r)
    BY <2>2, <1>3, TextAssociative, Zenon
  <2> QED
    BY <1>3, <2>3, <2>4, Zenon
<1>6. ~broken => printed' = console' \o line' \o hand'
  BY <1>1, <1>3, <1>5, Zenon DEF ConsoleInv
<1>7. ConsoleTypes'
  BY <1>1, <1>2, <1>4, Zenon DEF ConsoleTypes
<1> QED
  BY <1>1, <1>2, <1>6, <1>7, Zenon DEF ConsoleInv

\* So do bytes that go from the buffer to the host.
LEMMA WritesKeeps ==
    ASSUME TypeOK, ConsoleInv, NEW c \in Cpus, NEW n \in 1 .. Len(line), UartWrites(c, n)
    PROVE  ConsoleInv'
<1>1. /\ stdout = c /\ stdout' = c /\ cpu' = cpu /\ line' = Rest(line, n)
      /\ hand' = hand /\ console' = console \o Front(line, n) /\ cleanup' = cleanup
      /\ platform' = platform /\ printed' = printed /\ returned' = returned /\ broken' = broken
  BY Zenon DEF UartWrites
<1>2. ConsoleTypes /\ n \in 0 .. Len(line) /\ c # None
  BY NoneAssumption DEF ConsoleInv
<1>3. PICK f \in Text, r \in Text : f = Front(line, n) /\ r = Rest(line, n) /\ f \o r = line
  BY <1>2, Split DEF ConsoleTypes
<1>4. /\ console' \in Text /\ line' \in Text
      /\ Len(console') = Len(console) + Len(f) /\ Len(console) \in Nat /\ Len(f) \in Nat
  BY <1>1, <1>2, <1>3, Joined DEF ConsoleTypes
<1>5. (console \o f) \o r = console \o line
  <2>1. console \in Text
    BY <1>2 DEF ConsoleTypes
  <2>2. (console \o f) \o r = console \o (f \o r)
    BY <2>1, <1>3, TextAssociative, Zenon
  <2> QED
    BY <1>3, <2>2, Zenon
<1>6. ~broken => printed' = console' \o line' \o hand'
  BY <1>1, <1>3, <1>5, Zenon DEF ConsoleInv
<1>7. ~broken /\ cleanup = "flushed" => Len(console') >= returned'
  BY <1>1, <1>2, <1>4 DEF ConsoleInv, ConsoleTypes
<1>8. ConsoleTypes'
  BY <1>1, <1>2, <1>4, Zenon DEF ConsoleTypes
<1> QED
  BY <1>1, <1>2, <1>6, <1>7, <1>8, Zenon DEF ConsoleInv

\* A call comes back when its lines have arrived.
LEMMA ReturnsKeeps ==
    ASSUME TypeOK, ConsoleInv, NEW c \in Cpus, UartReturns(c)
    PROVE  ConsoleInv'
<1>1. /\ stdout = c /\ stdout' = None /\ cpu' = [cpu EXCEPT ![c] = "guest"] /\ cpu[c] = "uart"
      /\ hand = <<>> /\ hand' = hand /\ line' = line /\ console' = console
      /\ cleanup' = cleanup /\ platform' = platform /\ printed' = printed
      /\ returned' = Len(printed) /\ broken' = broken
      /\ broken \/ NoLineIn(line)
      /\ cleanup = "flushed" => line = <<>>
  BY Zenon DEF UartReturns, Goto, NoLineIn
<1>2. ConsoleTypes /\ Len(printed) \in Nat
  BY LenProperties DEF ConsoleInv, ConsoleTypes, Text
<1>3. ~broken /\ cleanup = "flushed" => Len(console) >= Len(printed)
  <2>1. ~broken /\ cleanup = "flushed" => printed = console
    BY <1>1, <1>2, TextEmpty, Zenon DEF ConsoleInv, ConsoleTypes
  <2> QED
    BY <1>2, <2>1
<1>4. \A d \in Cpus : cpu'[d] = "gone" => cpu[d] = "gone"
  BY <1>1 DEF TypeOK
<1>5. ConsoleTypes'
  BY <1>1, <1>2, Zenon DEF ConsoleTypes
<1>6. returned' <= Len(printed')
  BY <1>1, <1>2
<1>7. NoLineIn(line') = NoLineIn(line)
  BY <1>1
<1> QED
  BY <1>1, <1>3, <1>4, <1>5, <1>6, <1>7, Zenon DEF ConsoleInv

\* After a failure only the types and the lock are claimed.
LEMMA FailsKeeps ==
    ASSUME TypeOK, ConsoleInv, NEW c \in Cpus, UartFails(c)
    PROVE  ConsoleInv'
<1>1. PICK n \in 0 .. Len(line) : line' = Front(line, n)
  BY Zenon DEF UartFails
<1>2. /\ stdout' = None /\ hand' = <<>> /\ broken' = TRUE /\ console' = console
      /\ cleanup' = cleanup /\ platform' = platform /\ printed' = printed
      /\ returned' = returned /\ \E pc \in {"ended", "panicked"} : cpu' = [cpu EXCEPT ![c] = pc]
  BY Zenon DEF UartFails, Fail, Goto
<1>3. ConsoleTypes /\ line' \in Text /\ hand' \in Text
  BY <1>1, <1>2, Split, TextEmpty DEF ConsoleInv, ConsoleTypes
<1>4. \A d \in Cpus : cpu'[d] = "gone" => cpu[d] = "gone"
  BY <1>2 DEF TypeOK
<1>5. ConsoleTypes'
  BY <1>2, <1>3, Zenon DEF ConsoleTypes
<1>6. returned' <= Len(printed')
  BY <1>2 DEF ConsoleInv
<1> QED
  BY <1>2, <1>4, <1>5, <1>6, Zenon DEF ConsoleInv

\* process::exit flushes what stdout has kept, if nobody holds the lock; on
\* Linux nobody does.
LEMMA ExitKeeps ==
    ASSUME TypeOK, ConsoleInv, ProcessExit
    PROVE  ConsoleInv'
<1>1. /\ cleanup = "none" /\ RunReturned /\ platform' = platform /\ stdout' = stdout
      /\ hand' = hand /\ printed' = printed /\ returned' = returned
  BY Zenon DEF ProcessExit
<1>2. ConsoleTypes /\ \A d \in Cpus : cpu[d] # "gone"
  BY <1>1 DEF ConsoleInv
<1>3. CASE stdout # None /\ cleanup' = "skipped" /\ UNCHANGED <<line, console, broken>>
  <2>1. stdout \in Cpus /\ cpu[stdout] = "uart"
    BY <1>2, <1>3 DEF ConsoleInv, ConsoleTypes
  <2>2. platform # "linux" /\ cpu' = cpu
    BY <1>1, <2>1, Zenon DEF RunReturned
  <2>3. platform = "macos"
    BY <1>2, <2>2 DEF ConsoleTypes
  <2>4. ConsoleTypes'
    BY <1>1, <1>2, <1>3 DEF ConsoleTypes
  <2>5. /\ cleanup' # "flushed" /\ line' = line /\ console' = console /\ broken' = broken
        /\ cleanup' \in {"flushed", "skipped"} /\ stdout # None
    BY <1>3
  <2> QED
    BY <1>1, <2>2, <2>3, <2>4, <2>5, Zenon DEF ConsoleInv
<1>4. CASE /\ stdout = None /\ cleanup' = "flushed" /\ line' = <<>>
           /\ \E n \in 0 .. Len(line) : /\ console' = console \o Front(line, n)
                                        /\ broken' = (broken \/ n < Len(line))
  <2>1. PICK n \in 0 .. Len(line) : /\ console' = console \o Front(line, n)
                                    /\ broken' = (broken \/ n < Len(line))
    BY <1>4
  <2>2. PICK f \in Text : f = Front(line, n) /\ (n = Len(line) => f = line)
    <3>1. Front(line, n) \in Text
      BY <1>2, Split DEF ConsoleTypes
    <3>2. Front(line, Len(line)) = line
      BY <1>2, SubSeqFull DEF ConsoleTypes, Text, Front
    <3> QED
      BY <3>1, <3>2
  <2>3. console' = console \o f /\ console' \in Text /\ line' \in Text /\ Len(line) \in Nat
    BY <1>2, <1>4, <2>1, <2>2, Joined, TextEmpty DEF ConsoleTypes
  <2>4. ~broken' => ~broken /\ f = line
    <3>1. ~broken' => ~broken /\ ~(n < Len(line))
      BY <2>1, Zenon
    <3>2. ~(n < Len(line)) => n = Len(line)
      BY <2>3
    <3> QED
      BY <2>2, <3>1, <3>2, Zenon
  <2>5. ~broken' => printed = console'
    BY <1>2, <1>4, <2>2, <2>3, <2>4, TextEmpty, Zenon DEF ConsoleInv
  <2>6. ~broken' => printed' = console' \o line' \o hand'
    <3>1. hand = <<>>
      BY <1>4 DEF ConsoleInv
    <3>2. console' \o <<>> = console'
      BY <2>3, TextEmpty
    <3> QED
      BY <1>1, <1>4, <2>5, <3>1, <3>2, Zenon
  <2>7. ~broken' => Len(console') >= returned'
    BY <1>1, <1>2, <2>3, <2>5 DEF ConsoleInv, ConsoleTypes, Text
  <2>8. ConsoleTypes'
    BY <1>1, <1>2, <1>4, <2>3 DEF ConsoleTypes
  <2>9. NoLineIn(line')
    BY <1>4 DEF NoLineIn
  <2> QED
    BY <1>1, <1>4, <2>6, <2>7, <2>8, <2>9, Zenon DEF ConsoleInv
<1> QED
  BY <1>3, <1>4, Zenon DEF ProcessExit

\* The serial line's invariant holds after every step.
LEMMA ConsoleNext == Inv /\ ConsoleInv /\ [Next]_vars => ConsoleInv'
<1> SUFFICES ASSUME TypeOK, ConsoleInv, [Next]_vars PROVE ConsoleInv'
  BY DEF Inv
<1>0. ASSUME NEW c \in Cpus, NEW pc \in CpuPc \ {"gone"}, cpu' = [cpu EXCEPT ![c] = pc],
             cpu[c] \notin {"uart", "gone"}, UNCHANGED consoleVars, UNCHANGED platform
      PROVE  ConsoleInv'
  <2>1. /\ \A d \in Cpus : cpu[d] \in {"uart", "gone"} => cpu'[d] = cpu[d]
        /\ \A d \in Cpus : cpu'[d] = "gone" => cpu[d] = "gone"
    BY <1>0 DEF TypeOK
  <2> QED
    BY <1>0, <2>1, ConsoleKept
<1>1. ASSUME UNCHANGED <<cpu, consoleVars, platform>> PROVE ConsoleInv'
  BY <1>1, ConsoleKept, Zenon
<1>2. ASSUME NEW c \in Cpus,
             \/ open(c) \/ close(c) \/ unlink(c) \/ lseek(c)
             \/ \E step \in 0 .. Remaining(c) : WriteStep(c, step)
      PROVE  ConsoleInv'
  <2>1. UNCHANGED <<cpu, consoleVars, platform>>
    BY <1>2, Zenon DEF open, close, unlink, lseek, WriteStep
  <2> QED
    BY <1>1, <2>1
<1>3. ASSUME NEW c \in Cpus,
             \/ write(c) \/ read(c) \/ uart(c) \/ exit(c) \/ WriteDone(c) \/ WriteFails(c)
             \/ \E n \in -1 .. sysread[c].len : ReadReturns(c, n)
      PROVE  ConsoleInv'
  <2>1. UNCHANGED <<consoleVars, platform>> /\ cpu[c] \in {"guest", "write", "read"}
    BY <1>3, Zenon DEF write, read, uart, exit, WriteDone, WriteFails, ReadReturns, Call
  <2>2. PICK pc \in {"write", "read", "uart", "exit", "guest", "ended", "panicked"} :
          cpu' = [cpu EXCEPT ![c] = pc]
    BY <1>3, Zenon DEF write, read, uart, exit, WriteDone, WriteFails, ReadReturns, Fail, Goto
  <2> QED
    BY <1>0, <2>1, <2>2 DEF CpuPc
<1>4. CASE ProcessEnds
  <2>1. /\ cpu' = [c \in Cpus |-> "gone"] /\ UNCHANGED <<consoleVars, platform>>
        /\ cleanup \in {"flushed", "skipped"}
    BY <1>4, Zenon DEF ProcessEnds, ConsoleInv, ConsoleTypes
  <2>2. /\ stdout' = stdout /\ hand' = hand /\ line' = line /\ console' = console
        /\ cleanup' = cleanup /\ printed' = printed /\ returned' = returned /\ broken' = broken
    BY <2>1 DEF consoleVars
  <2>3. stdout # None => cpu'[stdout] = "gone"
    BY <2>1 DEF ConsoleInv, ConsoleTypes
  <2> QED
    BY <2>1, <2>2, <2>3, Zenon DEF ConsoleInv, ConsoleTypes, NoLineIn
<1>5. CASE UNCHANGED vars
  BY <1>1, <1>5, Zenon DEF vars
<1> QED
  BY <1>2, <1>3, <1>4, <1>5, LocksKeeps, BuffersKeeps, WritesKeeps, ReturnsKeeps, FailsKeeps,
     ExitKeeps, Zenon DEF Next, Blocked

\* uart and process::exit: the standard output gets what the guest prints, each
\* byte once and in order, calls of different vCPUs one after the other and
\* complete lines before the call comes back; nothing that a finished call
\* printed is lost at the end of the process, on macOS unless the clean-up found
\* stdout locked; for every number of vCPUs and whatever parts the host takes.
THEOREM ConsoleIsInOrder == Spec => []ConsoleInOrder
<1>1. Init => ConsoleInv
  <2> SUFFICES ASSUME Init PROVE ConsoleInv
    OBVIOUS
  <2>1. /\ stdout = None /\ hand = <<>> /\ line = <<>> /\ console = <<>> /\ printed = <<>>
        /\ returned = 0 /\ cleanup = "none" /\ \A c \in Cpus : cpu[c] # "gone"
    BY DEF Init
  <2>2. <<>> \in Text /\ <<>> \o <<>> = <<>> /\ Len(<<>>) = 0 /\ NoLineIn(<<>>)
    BY ConcatEmptySeq DEF Text, NoLineIn
  <2>3. ConsoleTypes /\ returned <= Len(printed)
    BY <2>1, <2>2 DEF ConsoleTypes, Init
  <2> QED
    BY <2>1, <2>2, <2>3, Zenon DEF ConsoleInv
<1> QED
  BY InitInv, NextInv, ConsoleNext, ConsoleInvImplies, <1>1, PTL DEF Spec

-------------------------------------------------------------------------------
(* read *)

ReadCall == [fd : Fds, buf : Address, len : Nat, ret : Int, buffer : Nat,
             file : Files \cup {None}]

\* The inductive invariant of read: while the host answers, the call holds the
\* translation of a buffer that lies in the guest's address space.
ReadInv ==
    /\ sysread \in [Cpus -> ReadCall]
    /\ \A c \in Cpus : cpu[c] = "read" =>
          /\ sysread[c].buf + sysread[c].len <= Pages * PageSize
          /\ sysread[c].buffer = virt_to_phys(sysread[c].buf)

\* The arguments of a call and their translation.
LEMMA BeginType ==
    ASSUME TypeOK, NEW b \in Buffers
    PROVE  /\ Begin(b) \in ReadCall /\ Begin(b).buf = b.buf /\ Begin(b).len = b.len
           /\ Begin(b).buffer = virt_to_phys(b.buf) /\ b.buf + b.len <= Pages * PageSize
<1>1. b.fd \in Fds /\ b.buf \in Address /\ b.len \in Nat /\ b.buf + b.len <= Pages * PageSize
  <2>1. b \in [fd : Fds, buf : Starts, len : 0 .. MaxLen] /\ b.buf + b.len <= Pages * PageSize
    BY DEF Buffers
  <2>2. b.fd \in Fds /\ b.buf \in Starts /\ b.len \in 0 .. MaxLen
    BY <2>1
  <2>3. b.buf \in Address
    BY <2>2, BoundAssumption, Zenon DEF Address
  <2>4. b.len \in Nat
    BY <2>2, BoundAssumption
  <2> QED
    BY <2>1, <2>2, <2>3, <2>4, Zenon
<1>2. virt_to_phys(b.buf) \in Nat /\ fds[b.fd] \in Files \cup {None}
  BY <1>1, TranslationType, Zenon DEF TypeOK
<1> QED
  BY <1>1, <1>2 DEF Begin, ReadCall

\* The invariant of read holds after every step.
LEMMA ReadNext == Inv /\ ReadInv /\ [Next]_vars => ReadInv'
<1> SUFFICES ASSUME TypeOK, ReadInv, [Next]_vars PROVE ReadInv'
  BY DEF Inv
<1>1. ASSUME UNCHANGED <<page_table, sysread>>, \A d \in Cpus : cpu'[d] = "read" => cpu[d] = "read"
      PROVE  ReadInv'
  BY <1>1 DEF ReadInv, virt_to_phys
<1>2. ASSUME NEW c \in Cpus,
             \/ open(c) \/ close(c) \/ unlink(c) \/ lseek(c) \/ UartLocks(c)
             \/ \E step \in 0 .. Remaining(c) : WriteStep(c, step)
             \/ \E n \in 1 .. Len(hand) : UartBuffers(c, n)
             \/ \E n \in 1 .. Len(line) : UartWrites(c, n)
      PROVE  ReadInv'
  <2>1. UNCHANGED <<page_table, sysread, cpu>>
    BY <1>2, Zenon DEF open, close, unlink, lseek, UartLocks, UartBuffers, UartWrites, WriteStep
  <2> QED
    BY <1>1, <2>1
<1>3. ASSUME NEW c \in Cpus,
             \/ write(c) \/ exit(c) \/ uart(c) \/ UartFails(c) \/ UartReturns(c)
             \/ WriteDone(c) \/ WriteFails(c)
      PROVE  ReadInv'
  <2>1. UNCHANGED <<page_table, sysread>>
    BY <1>3, Zenon DEF write, exit, uart, UartFails, UartReturns, WriteDone, WriteFails
  <2>2. PICK pc \in {"write", "exit", "uart", "guest", "ended", "panicked"} : Goto(c, pc)
    BY <1>3, Zenon DEF write, exit, uart, UartFails, UartReturns, WriteDone, WriteFails, Fail
  <2>3. \A d \in Cpus : cpu'[d] = "read" => cpu[d] = "read"
    BY <2>2 DEF Goto, TypeOK
  <2> QED
    BY <1>1, <2>1, <2>3
<1>4. ASSUME NEW c \in Cpus, read(c) PROVE ReadInv'
  <2>1. PICK b \in Buffers : sysread' = [sysread EXCEPT ![c] = Begin(b)]
    BY <1>4, Zenon DEF read
  <2>2. page_table' = page_table /\ cpu' = [cpu EXCEPT ![c] = "read"]
    BY <1>4, Zenon DEF read, Goto
  <2>3. /\ sysread' \in [Cpus -> ReadCall] /\ sysread'[c] = Begin(b)
        /\ \A d \in Cpus \ {c} : sysread'[d] = sysread[d] /\ cpu'[d] = cpu[d]
    BY <2>1, <2>2, BeginType, Zenon DEF ReadInv, TypeOK
  <2>4. \A x : virt_to_phys(x)' = virt_to_phys(x)
    BY <2>2 DEF virt_to_phys
  <2> QED
    BY <2>2, <2>3, <2>4, BeginType DEF ReadInv
<1>5. ASSUME NEW c \in Cpus, NEW n \in -1 .. sysread[c].len, ReadReturns(c, n) PROVE ReadInv'
  <2>1. /\ page_table' = page_table /\ cpu' = [cpu EXCEPT ![c] = "guest"]
        /\ sysread' = [sysread EXCEPT ![c].ret = IF n >= 0 THEN n ELSE -1]
    BY <1>5 DEF ReadReturns, Goto
  <2>2. n \in Int
    BY <1>5 DEF ReadInv, ReadCall
  <2>3. sysread' \in [Cpus -> ReadCall]
    BY <2>1, <2>2 DEF ReadInv, ReadCall
  <2>4. \A d \in Cpus : cpu'[d] = "read" => cpu[d] = "read" /\ sysread'[d] = sysread[d]
    BY <2>1 DEF ReadInv, TypeOK
  <2> QED
    BY <2>1, <2>3, <2>4 DEF ReadInv, virt_to_phys
<1>6. CASE ProcessExit \/ ProcessEnds
  <2>1. UNCHANGED <<page_table, sysread>> /\ (cpu' = cpu \/ cpu' = [c \in Cpus |-> "gone"])
    BY <1>6, Zenon DEF ProcessExit, ProcessEnds, RunReturned
  <2> QED
    BY <1>1, <2>1
<1>7. CASE UNCHANGED vars
  BY <1>1, <1>7 DEF vars
<1> QED
  BY <1>2, <1>3, <1>4, <1>5, <1>6, <1>7, Zenon DEF Next, Blocked

\* What the answer of the host does to the memory.
LEMMA AnswerFills ==
    ASSUME TypeOK, ReadInv, NEW c \in Cpus, NEW n \in -1 .. sysread[c].len, ReadReturns(c, n)
    PROVE  Filled(c)
<1> DEFINE b == sysread'[c]
           ret == IF n >= 0 THEN n ELSE -1
<1>1. /\ sysread[c] \in ReadCall /\ cpu[c] = "read"
      /\ sysread' = [sysread EXCEPT ![c].ret = ret]
  BY DEF ReadInv, ReadReturns
<1>2. /\ sysread[c].len \in Nat /\ sysread[c].buf \in Address /\ sysread[c].buffer \in Nat
      /\ n \in Int /\ n <= sysread[c].len /\ n >= -1
  BY <1>1 DEF ReadCall
<1>3. /\ b.buf = sysread[c].buf /\ b.len = sysread[c].len /\ b.ret = n
      /\ b.buffer = sysread[c].buffer
  <2>1. ret = n
    BY <1>2
  <2> QED
    BY <1>1, <2>1 DEF ReadInv, ReadCall
<1>4. PICK lo \in Address, bound \in Nat, p \in Nat :
        lo = sysread[c].buf /\ bound = sysread[c].len /\ p = sysread[c].buffer
  BY <1>2
<1>5. lo + bound <= Pages * PageSize /\ p = virt_to_phys(lo)
  BY <1>1, <1>4 DEF ReadInv
<1>6. memory' = [a \in Address |-> IF a - p \in 0 .. n - 1 THEN Byte(c, a - p) ELSE memory[a]]
  BY <1>4 DEF ReadReturns
<1>7. b.buf = lo /\ b.len = bound /\ b.ret = n /\ n <= bound
  BY <1>2, <1>3, <1>4
<1>8. ASSUME Contiguous(b), NEW k \in 0 .. n - 1
      PROVE  virt_to_phys(lo + k) = p + k /\ p + k \in Address
  <2>1. k \in 0 .. bound - 1 /\ lo + k \in Address
    <3>1. PICK top \in Nat : top = Pages * PageSize
      BY PageAssumption
    <3>2. n \in Int /\ n <= bound /\ lo \in 0 .. top - 1 /\ lo + bound <= top
      BY <1>2, <1>5, <1>7, <3>1 DEF Address
    <3>3. k \in 0 .. bound - 1 /\ lo + k \in 0 .. top - 1
      BY <3>2
    <3> QED
      BY <3>1, <3>3 DEF Address
  <2>2. virt_to_phys(lo + k) = p + k
    BY <1>5, <1>7, <1>8, <2>1 DEF Contiguous
  <2> QED
    BY <2>1, <2>2, TranslationInMemory
<1>9. ASSUME Contiguous(b), NEW k \in 0 .. n - 1
      PROVE  memory'[virt_to_phys(lo + k)] = Byte(c, k)
  <2>1. (p + k) - p = k
    BY <1>2
  <2> QED
    BY <1>6, <1>8, <1>9, <2>1
<1>10. ASSUME Contiguous(b), NEW a \in Address,
              \A k \in 0 .. n - 1 : a # virt_to_phys(lo + k)
       PROVE  memory'[a] = memory[a]
  <2>1. a - p \notin 0 .. n - 1
    <3> SUFFICES ASSUME a - p \in 0 .. n - 1 PROVE FALSE
      OBVIOUS
    <3>1. p + (a - p) = a
      BY DEF Address
    <3> QED
      BY <1>8, <1>10, <3>1
  <2> QED
    BY <1>6, <2>1
<1> QED
  BY <1>7, <1>9, <1>10 DEF Filled

\* read: the guest finds what the host delivered in its buffer and nothing else
\* of its memory changed, for every memory, page table and buffer, whatever the
\* other vCPUs do meanwhile.
THEOREM ReadsFill == Spec => ReadFills
<1>1. Init => ReadInv
  <2> SUFFICES ASSUME Init PROVE ReadInv
    OBVIOUS
  <2>1. NoCall \in ReadCall
    BY ZeroInMemory, FdAssumption DEF NoCall, ReadCall
  <2> QED
    BY <2>1 DEF Init, ReadInv
<1>2. Inv /\ ReadInv /\ [Next]_vars =>
        [\A c \in Cpus : cpu[c] = "read" /\ cpu'[c] = "guest" => Filled(c)]_vars
  <2> SUFFICES ASSUME TypeOK, ReadInv, Next, NEW c \in Cpus, cpu[c] = "read", cpu'[c] = "guest"
               PROVE  Filled(c)
    BY DEF Inv
  <2>1. ASSUME NEW d \in Cpus,
               \/ open(d) \/ close(d) \/ unlink(d) \/ lseek(d) \/ UartLocks(d)
               \/ \E step \in 0 .. Remaining(d) : WriteStep(d, step)
               \/ \E n \in 1 .. Len(hand) : UartBuffers(d, n)
               \/ \E n \in 1 .. Len(line) : UartWrites(d, n)
        PROVE  FALSE
    <3>1. cpu' = cpu
      BY <2>1, Zenon DEF open, close, unlink, lseek, UartLocks, UartBuffers, UartWrites, WriteStep
    <3> QED
      BY <3>1
  <2>2. ASSUME NEW d \in Cpus,
               \/ write(d) \/ read(d) \/ exit(d) \/ uart(d) \/ UartFails(d) \/ UartReturns(d)
               \/ WriteDone(d) \/ WriteFails(d)
        PROVE  FALSE
    <3>1. cpu[d] \in {"guest", "write", "uart"} /\ \E pc \in CpuPc : Goto(d, pc)
      BY <2>2, Zenon
         DEF write, read, exit, uart, UartFails, UartReturns, WriteDone, WriteFails, Fail, Call, CpuPc
    <3>2. cpu'[c] = cpu[c]
      BY <3>1 DEF Goto, TypeOK
    <3> QED
      BY <3>2
  <2>3. ASSUME NEW d \in Cpus, NEW n \in -1 .. sysread[d].len, ReadReturns(d, n)
        PROVE  Filled(c)
    <3>1. d = c
      BY <2>3 DEF ReadReturns, Goto, TypeOK
    <3> QED
      BY <2>3, <3>1, AnswerFills
  <2>4. ~ProcessExit /\ ~ProcessEnds
    <3>1. ProcessExit \/ ProcessEnds => cpu' = cpu \/ cpu' = [d \in Cpus |-> "gone"]
      BY Zenon DEF ProcessExit, ProcessEnds, RunReturned
    <3> QED
      BY <3>1
  <2> QED
    BY <2>1, <2>2, <2>3, <2>4, Zenon DEF Next, Blocked
<1> QED
  BY InitInv, NextInv, ReadNext, <1>1, <1>2, PTL DEF Spec, ReadFills
===============================================================================
