------------------------------ MODULE MacVmProofs ------------------------------
(***************************************************************************)
(* Theorems about MacRun and MacVm, for every number of vCPUs, every set of *)
(* exit codes, every combination of host-side failures, every size of the  *)
(* I/O APIC and any number of exits.                                       *)
(***************************************************************************)
EXTENDS MacVm, SequenceTheorems, TLAPS

\* Threads that have not been spawned have not moved, and a vCPU has an exit
\* code only after its guest has passed one.
ThreadInv ==
    /\ \A c \in Cpu : c >= spawned => cpu[c] = "unborn"
    /\ \A c \in Cpu : cpu[c] \in {"unborn", "create", "spin", "guest"} => result[c] = None
    /\ \A c \in Cpu : cpu[c] = "exit" => result[c] \in Codes

\* The cores come online in the order of their ids, and the one inside the
\* startup code is the one cpu_online names.
OnlineInv ==
    /\ online = 0 .. cpu_online - 1
    /\ \A c \in Cpu : InStartup(c) => c = cpu_online

\* The first message of the channel is the code of the first sender, until
\* the calling thread has taken it.
ChanInv ==
    /\ sends # <<>> => /\ cpu[Head(sends)] = "ended"
                       /\ result[Head(sends)] \in Codes
    /\ ret = None => /\ open
                     /\ chan = <<>> <=> sends = <<>>
                     /\ chan # <<>> => Head(chan) = result[Head(sends)]
    /\ FirstCodeWins

IInv == TypeOK /\ ThreadInv /\ OnlineInv /\ ChanInv

USE NumCpusAssumption, CodesAssumption

-------------------------------------------------------------------------------

\* A message joins the channel at the end: the first one stays the first.
LEMMA HeadOfAppend ==
    ASSUME NEW S, NEW s \in Seq(S), NEW x \in S
    PROVE  /\ Append(s, x) \in Seq(S) /\ Append(s, x) # <<>>
           /\ Head(Append(s, x)) = IF s = <<>> THEN x ELSE Head(s)
<1>1. Append(s, x) \in Seq(S) /\ Append(s, x) # <<>>
  BY AppendProperties
<1>2. CASE s = <<>>
  BY <1>1, <1>2
<1>3. CASE s # <<>>
  BY <1>1, <1>3
<1> QED
  BY <1>1, <1>2, <1>3

\* The invariant holds before the first thread has been spawned.
LEMMA InitIInv == Init => IInv
<1> SUFFICES ASSUME Init PROVE IInv
  OBVIOUS
<1> USE DEF Init
<1>1. TypeOK
  BY DEF TypeOK, CpuPc
<1>2. ThreadInv
  BY DEF ThreadInv
<1>3. OnlineInv
  BY DEF OnlineInv, InStartup
<1>4. ChanInv
  BY DEF ChanInv, FirstCodeWins
<1> QED
  BY <1>1, <1>2, <1>3, <1>4 DEF IInv

\* Types are preserved; what is sent is the code of a vCPU that has exited.
LEMMA TypeStep == IInv /\ [Next]_vars => TypeOK'
<1> SUFFICES ASSUME IInv, [Next]_vars
             PROVE  TypeOK'
  OBVIOUS
<1> USE DEF IInv, TypeOK, CpuPc, Goto, guestVars
<1>1. CASE Spawn
  BY <1>1 DEF Spawn, Cpu
<1>2. CASE Recv
  <2>1. Head(chan) \in Codes /\ Tail(chan) \in Seq(Codes)
    BY <1>2 DEF Recv
  <2> QED BY <1>2, <2>1 DEF Recv
<1>3. CASE Return
  <2>1. open' \in BOOLEAN
    BY <1>3, Zenon DEF Return
  <2>2. <<>> \in Seq(Codes)
    OBVIOUS
  <2> QED BY <1>3, <2>1, <2>2 DEF Return
<1>4. ASSUME NEW c \in Cpu, Send(c)
      PROVE  TypeOK'
  <2>1. result[c] \in Codes
    BY <1>4 DEF Send, ThreadInv
  <2>2. Append(chan, result[c]) \in Seq(Codes) /\ Append(sends, c) \in Seq(Cpu)
    BY <2>1, HeadOfAppend
  <2> QED BY <1>4, <2>2, Zenon DEF Send
<1>5. ASSUME NEW c \in Cpu, Create(c) \/ Spin(c) \/ CreateFails(c) \/ RunError(c)
                            \/ HandlerPanics(c)
      PROVE  TypeOK'
  BY <1>5 DEF Create, Spin, CreateFails, RunError, HandlerPanics
<1>6. ASSUME NEW c \in Cpu, GuestOnline(c)
      PROVE  TypeOK'
  BY <1>6 DEF GuestOnline
<1>7. ASSUME NEW c \in Cpu, ExitWithCode(c)
      PROVE  TypeOK'
  BY <1>7 DEF ExitWithCode
<1>8. CASE UNCHANGED vars BY <1>8 DEF vars
<1> QED
  BY <1>1, <1>2, <1>3, <1>4, <1>5, <1>6, <1>7, <1>8
     DEF Next, MainStep, HostStep, GuestStep

\* A thread moves only after its spawn, and gets its code from its guest.
LEMMA ThreadStep == IInv /\ [Next]_vars => ThreadInv'
<1> SUFFICES ASSUME IInv, [Next]_vars
             PROVE  ThreadInv'
  OBVIOUS
<1> USE DEF IInv, TypeOK, ThreadInv, Goto, guestVars
<1>1. CASE Spawn
  <2>1. spawned \in Cpu
    BY <1>1 DEF Spawn, Cpu
  <2>2. cpu[spawned] = "unborn"
    BY <2>1
  <2> QED BY <1>1, <2>1, <2>2 DEF Spawn, Cpu
<1>2. CASE Recv \/ Return
  BY <1>2 DEF Recv, Return
<1>3. ASSUME NEW c \in Cpu, HostStep(c) \/ GuestStep(c)
      PROVE  ThreadInv'
  <2>1. CASE ExitWithCode(c)
    BY <2>1 DEF ExitWithCode
  <2>2. CASE Send(c)
    BY <2>2 DEF Send
  <2>3. CASE Create(c) \/ Spin(c) \/ CreateFails(c) \/ RunError(c) \/ HandlerPanics(c)
    BY <2>3 DEF Create, Spin, CreateFails, RunError, HandlerPanics
  <2>4. CASE GuestOnline(c)
    BY <2>4 DEF GuestOnline
  <2> QED BY <1>3, <2>1, <2>2, <2>3, <2>4 DEF HostStep, GuestStep
<1>4. CASE UNCHANGED vars BY <1>4 DEF vars
<1> QED
  BY <1>1, <1>2, <1>3, <1>4 DEF Next, MainStep

\* Only the core that finishes its startup moves cpu_online, so the spin loop
\* lets the next one in only then.
LEMMA OnlineStep == IInv /\ [Next]_vars => OnlineInv'
<1> SUFFICES ASSUME IInv, [Next]_vars
             PROVE  OnlineInv'
  OBVIOUS
<1> USE DEF IInv, TypeOK, OnlineInv, InStartup, Goto, guestVars
<1>1. CASE Spawn
  BY <1>1 DEF Spawn, Cpu
<1>2. CASE Recv \/ Return
  BY <1>2 DEF Recv, Return
<1>3. ASSUME NEW c \in Cpu, HostStep(c) \/ GuestStep(c)
      PROVE  OnlineInv'
  <2>1. CASE Spin(c)
    BY <2>1 DEF Spin
  <2>2. CASE GuestOnline(c)
    <3>1. c = cpu_online
      BY <2>2 DEF GuestOnline
    <3>2. online' = 0 .. cpu_online' - 1
      BY <2>2, <3>1 DEF GuestOnline
    <3>3. ASSUME NEW d \in Cpu, InStartup(d)'
          PROVE  FALSE
      <4>1. InStartup(d) /\ d # c
        BY <2>2, <3>3 DEF GuestOnline
      <4> QED BY <3>1, <4>1
    <3> QED BY <3>2, <3>3
  <2>3. CASE Create(c) \/ CreateFails(c) \/ RunError(c) \/ HandlerPanics(c)
             \/ ExitWithCode(c) \/ Send(c)
    BY <2>3, SMTT(30) DEF Create, CreateFails, RunError, HandlerPanics, ExitWithCode, Send
  <2> QED BY <1>3, <2>1, <2>2, <2>3 DEF HostStep, GuestStep
<1>4. CASE UNCHANGED vars BY <1>4 DEF vars
<1> QED
  BY <1>1, <1>2, <1>3, <1>4 DEF Next, MainStep

\* The first code sent stays at the head of the channel until run takes it.
LEMMA ChanStep == IInv /\ [Next]_vars => ChanInv'
<1> SUFFICES ASSUME IInv, [Next]_vars
             PROVE  ChanInv'
  OBVIOUS
<1> USE DEF IInv, TypeOK, ChanInv, FirstCodeWins, Goto, guestVars
<1>0. sends # <<>> => Head(sends) \in Cpu
  OBVIOUS
<1>1. CASE Spawn
  <2>1. spawned \in Cpu /\ cpu[spawned] = "unborn"
    BY <1>1 DEF Spawn, Cpu, ThreadInv
  <2> QED BY <1>0, <1>1, <2>1 DEF Spawn
<1>2. CASE Recv
  BY <1>0, <1>2 DEF Recv
<1>3. CASE Return
  BY <1>0, <1>3 DEF Return
<1>4. ASSUME NEW c \in Cpu, Send(c)
      PROVE  ChanInv'
  <2>1. result[c] \in Codes /\ cpu[c] = "exit"
    BY <1>4 DEF Send, ThreadInv
  <2>2. CASE open
    <3>1. /\ chan' = Append(chan, result[c]) /\ sends' = Append(sends, c)
          /\ cpu' = [cpu EXCEPT ![c] = "ended"] /\ UNCHANGED <<result, ret, open>>
      BY <1>4, <2>2 DEF Send
    <3>2. /\ chan' # <<>> /\ Head(chan') = IF chan = <<>> THEN result[c] ELSE Head(chan)
          /\ sends' # <<>> /\ Head(sends') = IF sends = <<>> THEN c ELSE Head(sends)
      BY <2>1, <3>1, HeadOfAppend
    <3>3. cpu'[Head(sends')] = "ended" /\ result[Head(sends')] \in Codes
      BY <1>0, <2>1, <3>1, <3>2
    <3>4. ret = None => Head(chan') = result[Head(sends')]
      BY <3>2
    <3>5. ret # None => ret = result[Head(sends')]
      BY <3>2
    <3> QED BY <2>2, <3>1, <3>2, <3>3, <3>4, <3>5
  <2>3. CASE ~ open
    BY <1>0, <1>4, <2>1, <2>3 DEF Send
  <2> QED BY <2>2, <2>3
<1>5. ASSUME NEW c \in Cpu, Create(c) \/ Spin(c) \/ CreateFails(c) \/ RunError(c)
                            \/ HandlerPanics(c) \/ ExitWithCode(c)
      PROVE  ChanInv'
  <2>1. cpu[c] # "ended" /\ UNCHANGED <<ret, open, chan, sends>>
    BY <1>5 DEF Create, Spin, CreateFails, RunError, HandlerPanics, ExitWithCode
  <2>2. \A d \in Cpu : d # c => cpu'[d] = cpu[d] /\ result'[d] = result[d]
    BY <1>5 DEF Create, Spin, CreateFails, RunError, HandlerPanics, ExitWithCode
  <2> QED BY <1>0, <2>1, <2>2
<1>6. ASSUME NEW c \in Cpu, GuestOnline(c)
      PROVE  ChanInv'
  BY <1>6 DEF GuestOnline
<1>7. CASE UNCHANGED vars BY <1>7 DEF vars
<1> QED
  BY <1>1, <1>2, <1>3, <1>4, <1>5, <1>6, <1>7
     DEF Next, MainStep, HostStep, GuestStep

\* Hence it holds in every reachable state.
LEMMA Invariance == Spec => []IInv
<1>1. IInv /\ [Next]_vars => IInv'
  BY TypeStep, ThreadStep, OnlineStep, ChanStep DEF IInv
<1> QED
  BY <1>1, InitIInv, PTL DEF Spec

-------------------------------------------------------------------------------

\* Every variable of run and of the vCPU threads keeps its type.
THEOREM TypeCorrect == Spec => []TypeOK
BY Invariance, PTL DEF IInv

\* At most one core at a time is in the guest's startup code.
THEOREM StartupIsExclusive == Spec => []StartupExclusive
<1>1. IInv => StartupExclusive
  BY DEF IInv, OnlineInv, StartupExclusive
<1> QED
  BY <1>1, Invariance, PTL

\* run returns the code that was sent first, whatever is sent later.
THEOREM FirstSentIsReturned == Spec => []FirstCodeWins
<1>1. IInv => FirstCodeWins
  BY DEF IInv, ChanInv
<1> QED
  BY <1>1, Invariance, PTL

\* run implements VmLifecycle: every step is the exit of one vCPU, the return
\* with the code of a vCPU that has exited, or invisible.
THEOREM ImplementsLifecycle == Spec => KeepsLifecycle
<1>1. Init => Lifecycle!Init
  BY DEF Init, Lifecycle!Init
<1>2. IInv /\ [Next]_vars => [Lifecycle!Next]_(Lifecycle!vars)
  <2> SUFFICES ASSUME IInv, [Next]_vars
               PROVE  [Lifecycle!Next]_(Lifecycle!vars)
    OBVIOUS
  <2> USE DEF Lifecycle!vars, guestVars
  <2>1. ASSUME NEW c \in Cpu, ExitWithCode(c)
        PROVE  Lifecycle!Exit(c)
    <3>1. result[c] = None
      BY <2>1 DEF ExitWithCode, IInv, ThreadInv
    <3> QED BY <2>1, <3>1, Zenon DEF ExitWithCode, Lifecycle!Exit
  <2>2. CASE Return
    <3>1. sends # <<>> /\ ret = result[Head(sends)]
      BY <2>2 DEF Return, IInv, ChanInv, FirstCodeWins
    <3>2. Head(sends) \in Cpu
      BY <3>1 DEF IInv, TypeOK
    <3>3. Lifecycle!Return(Head(sends))
      BY <2>2, <3>1 DEF Return, Lifecycle!Return
    <3> QED BY <3>2, <3>3 DEF Lifecycle!Next
  <2>3. CASE Recv
    <3>1. open
      BY <2>3 DEF Recv, IInv, ChanInv
    <3> QED BY <2>3, <3>1 DEF Recv
  <2>4. CASE Spawn
    BY <2>4 DEF Spawn
  <2>5. ASSUME NEW c \in Cpu, HostStep(c) \/ GuestStep(c), ~ ExitWithCode(c)
        PROVE  UNCHANGED Lifecycle!vars
    BY <2>5 DEF HostStep, GuestStep, Create, Spin, Send, GuestOnline, CreateFails,
                RunError, HandlerPanics
  <2>6. CASE UNCHANGED vars
    BY <2>6 DEF vars
  <2> QED
    BY <2>1, <2>2, <2>3, <2>4, <2>5, <2>6 DEF Next, MainStep, Lifecycle!Next
<1> QED
  BY <1>1, <1>2, Invariance, PTL DEF Spec, KeepsLifecycle, Lifecycle!Spec

-------------------------------------------------------------------------------
(* The whole VM *)

\* Every step of the VM is a step of MacRun or one that MacRun does not see, so
\* what is proved of MacRun holds of the VM with all its exits.
THEOREM VmIsMacRun == VmSpec => Spec
<1>1. VmInit => Init
  BY DEF VmInit
<1>2. [VmNext]_allVars => [Next]_vars
  <2> SUFFICES ASSUME [VmNext]_allVars PROVE [Next]_vars
    OBVIOUS
  <2>1. CASE MainStep
    BY <2>1 DEF Next
  <2>2. ASSUME NEW c \in Cpu, HostStep(c)
        PROVE  Next
    BY <2>2 DEF Next
  <2>3. ASSUME NEW c \in Cpu, Handle(c)
        PROVE  [Next]_vars
    <3>1. CASE ApicPanics(c) \/ LockPanics(c) \/ Panics(c)
      BY <3>1 DEF ApicPanics, LockPanics, Panics, Next, GuestStep
    <3>2. CASE Stop(c)
      BY <3>2 DEF Stop, Next, GuestStep
    <3>3. CASE \/ EmulatePlain(c) \/ emulate_rdmsr(c) \/ emulate_wrmsr(c)
               \/ emulate_ioapic(c) \/ SkipsUndecodable(c)
      BY <3>3 DEF EmulatePlain, emulate_rdmsr, emulate_wrmsr, emulate_ioapic,
                  SkipsUndecodable
    <3> QED BY <2>3, <3>1, <3>2, <3>3 DEF Handle
  <2>4. ASSUME NEW c \in Cpu, Guest(c)
        PROVE  [Next]_vars
    <3>1. CASE GuestOnline(c) \/ CreateFails(c) \/ HypervisorFails(c)
      BY <3>1 DEF HypervisorFails, Next, GuestStep
    <3>2. CASE \/ Repeats(c) \/ MeetsPlain(c) \/ MeetsSelect(c) \/ MeetsWindow(c)
               \/ MeetsOdd(c) \/ Unlocks(c)
      BY <3>2 DEF Repeats, MeetsPlain, MeetsSelect, MeetsWindow, MeetsOdd, Meets,
                  Unlocks, allVars
    <3> QED BY <2>4, <3>1, <3>2 DEF Guest
  <2>5. CASE UNCHANGED allVars
    BY <2>5 DEF allVars
  <2> QED
    BY <2>1, <2>2, <2>3, <2>4, <2>5 DEF VmNext
<1> QED
  BY <1>1, <1>2, PTL DEF VmSpec, Spec

-------------------------------------------------------------------------------
(* The registers of an orderly guest *)

\* The functions of the model keep their domains.
DomainInv ==
    /\ DOMAIN instr = Cpu /\ DOMAIN chosen = Cpu /\ DOMAIN last = Cpu
    /\ DOMAIN rtbl = ioapic!Index
    /\ DOMAIN msr = Cpu /\ \A c \in Cpu : DOMAIN msr[c] = MSRs

\* The lock is held from the select to the last access of the window, so the
\* selector is still the one its holder has chosen.
LockInv ==
    /\ \A c \in Cpu : instr[c].op \in {"rdmsr", "wrmsr"} => instr[c].reg \in MSRs
    /\ orderly => \A c \in Cpu :
         /\ chosen[c] # None => lock = c /\ chosen[c] = selector /\ selector \in ioapic!Index
         /\ instr[c].op = "select" => lock = c /\ instr[c].reg \in ioapic!Index
         /\ instr[c].op \in Window => lock = c /\ instr[c].reg = selector
                                     /\ selector \in ioapic!Index

RegInv == DomainInv /\ LockInv

USE NoHolderAssumption, TableAssumption DEF guestLock, apicVars, exitVars

\* The invariant holds of the tables that new() fills.
LEMMA InitRegInv == VmInit => RegInv
BY SMTT(30) DEF VmInit, RegInv, DomainInv, LockInv, Nothing, Instr, Window, ioapic!new,
       ioapic!NewTable

\* A vCPU comes to instruction x, or gets past one, and neither the selector nor
\* the lock changes: x may be for the window only if a register is selected.
LEMMA InstructionStep ==
    ASSUME RegInv, NEW c \in Cpu, NEW x,
           instr' = [instr EXCEPT ![c] = x],
           UNCHANGED <<orderly, selector, lock, chosen>>,
           DOMAIN last' = Cpu, DOMAIN rtbl' = ioapic!Index,
           DOMAIN msr' = Cpu, \A d \in Cpu : DOMAIN msr'[d] = MSRs,
           x.op \in {"rdmsr", "wrmsr"} => x.reg \in MSRs,
           x.op # "select",
           x.op \in Window => chosen[c] # None /\ x.reg = chosen[c]
    PROVE  RegInv'
<1>1. DomainInv'
  BY DEF RegInv, DomainInv
<1>2. instr'[c] = x /\ \A d \in Cpu \ {c} : instr'[d] = instr[d]
  BY DEF RegInv, DomainInv
<1>3. \A d \in Cpu : instr'[d].op \in {"rdmsr", "wrmsr"} => instr'[d].reg \in MSRs
  BY <1>2 DEF RegInv, LockInv
<1>4. ASSUME orderly', NEW d \in Cpu
      PROVE  /\ chosen'[d] # None => lock' = d /\ chosen'[d] = selector' /\ selector' \in ioapic!Index
             /\ instr'[d].op = "select" => lock' = d /\ instr'[d].reg \in ioapic!Index
             /\ instr'[d].op \in Window => lock' = d /\ instr'[d].reg = selector'
                                          /\ selector' \in ioapic!Index
  <2>1. CASE d = c
    BY <1>2, <1>4, <2>1 DEF RegInv, LockInv
  <2>2. CASE d # c
    BY <1>2, <1>4, <2>2 DEF RegInv, LockInv
  <2> QED BY <2>1, <2>2
<1> QED
  BY <1>1, <1>3, <1>4, SMTT(30) DEF RegInv, LockInv

\* Nothing of it changes.
LEMMA RegsUntouched ==
    ASSUME RegInv, UNCHANGED <<orderly, instr, msr, selector, rtbl, lock, chosen, last>>
    PROVE  RegInv'
BY DEF RegInv, DomainInv, LockInv

\* What the guest does between exits; it selects only while nobody else is
\* between a select and its window accesses.
LEMMA GuestRegStep ==
    ASSUME RegInv, NEW c \in Cpu, Guest(c)
    PROVE  RegInv'
<1>0. DomainInv /\ LockInv
  BY DEF RegInv
<1>1. CASE (GuestOnline(c) /\ UNCHANGED exitVars) \/ (CreateFails(c) /\ UNCHANGED exitVars)
           \/ HypervisorFails(c) \/ Repeats(c)
  <2>1. UNCHANGED exitVars
    BY <1>1 DEF HypervisorFails, Repeats, allVars
  <2> QED BY <2>1, RegsUntouched
<1>2. CASE MeetsPlain(c)
  <2>1. UNCHANGED <<orderly, msr, selector, rtbl, last, lock, chosen>>
    BY <1>2 DEF MeetsPlain, Meets
  <2>2. PICK x : /\ instr' = [instr EXCEPT ![c] = x]
                 /\ x.op \notin {"select"} \cup Window
                 /\ x.op \in {"rdmsr", "wrmsr"} => x.reg \in MSRs
    <3>1. CASE \E op \in {"plain", "repeated", "fatal", "exit", "shutdown"} : Meets(c, Instr(op, 0))
      <4>1. PICK op \in {"plain", "repeated", "fatal", "exit", "shutdown"} : Meets(c, Instr(op, 0))
        BY <3>1
      <4>2. instr' = [instr EXCEPT ![c] = Instr(op, 0)]
        BY <4>1 DEF Meets
      <4>3. Instr(op, 0).op \notin {"select", "rdmsr", "wrmsr"} \cup Window
        BY DEF Instr, Window
      <4> QED BY <4>2, <4>3, Zenon
    <3>2. CASE \E op \in {"rdmsr", "wrmsr"}, m \in MSRs : Meets(c, Instr(op, m))
      <4>1. PICK op \in {"rdmsr", "wrmsr"}, m \in MSRs : Meets(c, Instr(op, m))
        BY <3>2
      <4>2. instr' = [instr EXCEPT ![c] = Instr(op, m)]
        BY <4>1 DEF Meets
      <4>3. /\ Instr(op, m).op \notin {"select"} \cup Window
            /\ Instr(op, m).reg \in MSRs
        BY DEF Instr, Window
      <4> QED BY <4>2, <4>3, Zenon
    <3> QED BY <1>2, <3>1, <3>2 DEF MeetsPlain
  <2> QED BY <1>0, <2>1, <2>2, InstructionStep, Zenon DEF DomainInv
<1>3. CASE MeetsSelect(c)
  <2>1. UNCHANGED <<orderly, msr, selector, rtbl, last, chosen>>
    BY <1>3 DEF MeetsSelect, Meets
  <2>2. PICK r : /\ instr' = [instr EXCEPT ![c] = [op |-> "select", reg |-> r]]
                 /\ orderly => lock = None /\ lock' = c /\ r \in ioapic!Index
    BY <1>3, ZenonT(30) DEF MeetsSelect, Meets, Instr
  <2>3. DomainInv'
    BY <1>0, <2>1, <2>2 DEF DomainInv
  <2>4. /\ instr'[c] = [op |-> "select", reg |-> r]
        /\ \A d \in Cpu \ {c} : instr'[d] = instr[d]
    BY <1>0, <2>2 DEF DomainInv
  <2>5. orderly => \A d \in Cpu : chosen[d] = None /\ instr[d].op \notin {"select"} \cup Window
    BY <1>0, <2>2 DEF LockInv
  <2>6. LockInv'
    BY <1>0, <2>1, <2>2, <2>4, <2>5, SMTT(30) DEF LockInv, Window
  <2> QED BY <2>3, <2>6 DEF RegInv
<1>4. CASE MeetsWindow(c)
  <2>1. UNCHANGED <<orderly, msr, selector, rtbl, last, lock, chosen>>
    BY <1>4 DEF MeetsWindow, Meets
  <2>2. PICK op \in Window : Meets(c, Instr(op, chosen[c]))
    BY <1>4 DEF MeetsWindow
  <2>3. instr' = [instr EXCEPT ![c] = Instr(op, chosen[c])] /\ chosen[c] # None
    BY <1>4, <2>2, Zenon DEF MeetsWindow, Meets
  <2>4. /\ Instr(op, chosen[c]).op \notin {"select", "rdmsr", "wrmsr"}
        /\ Instr(op, chosen[c]).reg = chosen[c]
    BY <2>2 DEF Instr, Window
  <2> QED BY <1>0, <2>1, <2>3, <2>4, InstructionStep, Zenon DEF DomainInv
<1>5. CASE MeetsOdd(c)
  <2>1. UNCHANGED <<orderly, msr, selector, rtbl, last, lock, chosen>>
    BY <1>5 DEF MeetsOdd, Meets
  <2>2. PICK op \in {"odd_offset", "undecodable", "read_select"} : Meets(c, Instr(op, 0))
    BY <1>5 DEF MeetsOdd
  <2>3. instr' = [instr EXCEPT ![c] = Instr(op, 0)]
    BY <2>2 DEF Meets
  <2>4. Instr(op, 0).op \notin {"select", "rdmsr", "wrmsr"} \cup Window
    BY DEF Instr, Window
  <2> QED BY <1>0, <2>1, <2>3, <2>4, InstructionStep, Zenon DEF DomainInv
<1>6. CASE Unlocks(c)
  <2>1. /\ UNCHANGED <<orderly, instr, msr, selector, rtbl, last>>
        /\ lock = c /\ chosen' = [chosen EXCEPT ![c] = None]
        /\ instr[c].op \notin {"select"} \cup Window
    BY <1>6 DEF Unlocks, Nothing, Instr, Window
  <2>2. DomainInv'
    BY <1>0, <2>1 DEF DomainInv
  <2>3. orderly => \A d \in Cpu : chosen'[d] = None
    BY <1>0, <2>1 DEF DomainInv, LockInv
  <2>4. orderly => \A d \in Cpu : instr'[d].op \notin {"select"} \cup Window
    BY <1>0, <2>1 DEF LockInv
  <2>5. LockInv'
    BY <1>0, <2>1, <2>3, <2>4, SMTT(30) DEF LockInv
  <2> QED BY <2>2, <2>5 DEF RegInv
<1> QED
  BY <1>1, <1>2, <1>3, <1>4, <1>5, <1>6 DEF Guest

\* The four accesses to the I/O APIC, told apart by the instruction.
Selects(c) ==
    /\ instr[c].op = "select" /\ rtbl' = rtbl /\ last' = last
    /\ selector' = instr[c].reg /\ chosen' = [chosen EXCEPT ![c] = instr[c].reg]
WritesWindow(c) ==
    /\ instr[c].op = "write_window" /\ selector' = selector /\ chosen' = chosen
    /\ rtbl' = [rtbl EXCEPT ![selector] = ValueOf(c)]
    /\ last' = [last EXCEPT ![c] = Operation("write", Shared, instr[c].reg, ValueOf(c))]
ReadsWindow(c) ==
    /\ instr[c].op = "read_window" /\ selector' = selector /\ chosen' = chosen
    /\ rtbl' = rtbl
    /\ last' = [last EXCEPT ![c] = Operation("read", Shared, instr[c].reg, rtbl[selector])]
ReadsSelect(c) ==
    /\ instr[c].op = "read_select"
    /\ UNCHANGED <<selector, rtbl, chosen, last>>

\* What emulate_ioapic does is one of them.
LEMMA IoapicCases ==
    ASSUME NEW c \in Cpu, emulate_ioapic(c)
    PROVE  /\ Selects(c) \/ WritesWindow(c) \/ ReadsWindow(c) \/ ReadsSelect(c)
           /\ Advance(c) /\ UNCHANGED <<orderly, msr, lock>>
<1>1. Advance(c) /\ UNCHANGED <<orderly, msr, lock>>
  BY SMTT(30) DEF emulate_ioapic
<1>2. CASE /\ At(c, {"select"}) /\ ioapic!write(ioapic!SELECT, instr[c].reg)
           /\ chosen' = [chosen EXCEPT ![c] = instr[c].reg] /\ UNCHANGED last
  <2>1. selector' = instr[c].reg /\ rtbl' = rtbl
    BY <1>2, SMTT(30) DEF ioapic!write, ioapic!SELECT, ioapic!WINDOW
  <2> QED BY <1>1, <1>2, <2>1, Zenon DEF Selects, At
<1>3. CASE /\ At(c, {"write_window"}) /\ ioapic!write(ioapic!WINDOW, ValueOf(c))
           /\ last' = [last EXCEPT ![c] = Operation("write", Shared, instr[c].reg, ValueOf(c))]
           /\ UNCHANGED chosen
  <2>1. rtbl' = [rtbl EXCEPT ![selector] = ValueOf(c)] /\ selector' = selector
    BY <1>3, SMTT(30) DEF ioapic!write, ioapic!SELECT, ioapic!WINDOW
  <2> QED BY <1>1, <1>3, <2>1 DEF WritesWindow, At
<1>4. CASE /\ At(c, {"read_window"})
           /\ last' = [last EXCEPT ![c] =
                         Operation("read", Shared, instr[c].reg, ioapic!read(ioapic!WINDOW))]
           /\ UNCHANGED <<apicVars, chosen>>
  <2>1. ioapic!read(ioapic!WINDOW) = rtbl[selector]
    BY SMTT(30) DEF ioapic!read, ioapic!SELECT, ioapic!WINDOW
  <2> QED BY <1>1, <1>4, <2>1 DEF ReadsWindow, At
<1>5. CASE At(c, {"read_select"}) /\ UNCHANGED <<apicVars, chosen, last>>
  BY <1>1, <1>5 DEF ReadsSelect, At
<1> QED BY <1>2, <1>3, <1>4, <1>5 DEF emulate_ioapic

\* What continue does; an access leaves the selector alone unless the holder
\* of the lock selects.
LEMMA HandleRegStep ==
    ASSUME RegInv, NEW c \in Cpu, Handle(c)
    PROVE  RegInv'
<1>0. DomainInv /\ LockInv
  BY DEF RegInv
<1>n. Nothing.op \notin {"select", "rdmsr", "wrmsr"} \cup Window
  BY DEF Nothing, Instr, Window
<1>1. CASE EmulatePlain(c) \/ SkipsUndecodable(c)
  <2>1. /\ instr' = [instr EXCEPT ![c] = Nothing]
        /\ UNCHANGED <<orderly, msr, selector, rtbl, last, lock, chosen>>
    BY <1>1 DEF EmulatePlain, SkipsUndecodable, Advance
  <2> QED BY <1>0, <1>n, <2>1, InstructionStep, Zenon DEF DomainInv
<1>2. CASE emulate_rdmsr(c)
  <2>1. /\ instr' = [instr EXCEPT ![c] = Nothing]
        /\ UNCHANGED <<orderly, msr, selector, rtbl, lock, chosen>>
        /\ DOMAIN last' = DOMAIN last
    BY <1>2 DEF emulate_rdmsr, Advance
  <2> QED BY <1>0, <1>n, <2>1, InstructionStep, Zenon DEF DomainInv
<1>3. CASE emulate_wrmsr(c)
  <2>1. /\ instr' = [instr EXCEPT ![c] = Nothing]
        /\ UNCHANGED <<orderly, selector, rtbl, lock, chosen>>
        /\ DOMAIN last' = DOMAIN last
        /\ msr' = [msr EXCEPT ![c][instr[c].reg] = ValueOf(c)]
    BY <1>3 DEF emulate_wrmsr, Advance
  <2>2. DOMAIN msr' = Cpu /\ \A d \in Cpu : DOMAIN msr'[d] = MSRs
    BY <1>0, <2>1 DEF DomainInv
  <2> QED BY <1>0, <1>n, <2>1, <2>2, InstructionStep, ZenonT(30) DEF DomainInv
<1>4. CASE emulate_ioapic(c)
  <2>1. /\ Selects(c) \/ WritesWindow(c) \/ ReadsWindow(c) \/ ReadsSelect(c)
        /\ instr' = [instr EXCEPT ![c] = Nothing]
        /\ UNCHANGED <<orderly, msr, lock>>
    BY <1>4, IoapicCases DEF Advance
  <2>2. CASE Selects(c)
    <3>1. /\ instr[c].op = "select" /\ rtbl' = rtbl /\ last' = last
          /\ selector' = instr[c].reg /\ chosen' = [chosen EXCEPT ![c] = instr[c].reg]
      BY <2>2 DEF Selects
    <3>2. DomainInv'
      BY <1>0, <2>1, <3>1 DEF DomainInv
    <3>3. /\ instr'[c] = Nothing /\ chosen'[c] = selector'
          /\ \A d \in Cpu \ {c} : instr'[d] = instr[d] /\ chosen'[d] = chosen[d]
      BY <1>0, <2>1, <3>1 DEF DomainInv
    <3>4. orderly => /\ lock = c /\ selector' \in ioapic!Index
                     /\ \A d \in Cpu \ {c} : /\ chosen[d] = None
                                             /\ instr[d].op \notin {"select"} \cup Window
      BY <1>0, <3>1, SMTT(30) DEF LockInv
    <3>5. LockInv'
      BY <1>0, <1>n, <2>1, <3>3, <3>4, SMTT(30) DEF LockInv
    <3> QED BY <3>2, <3>5 DEF RegInv
  <2>3. CASE WritesWindow(c) \/ ReadsWindow(c) \/ ReadsSelect(c)
    <3>1. /\ UNCHANGED <<selector, chosen>>
          /\ DOMAIN last' = DOMAIN last /\ DOMAIN rtbl' = DOMAIN rtbl
      BY <2>3 DEF WritesWindow, ReadsWindow, ReadsSelect
    <3> QED BY <1>0, <1>n, <2>1, <3>1, InstructionStep, ZenonT(30) DEF DomainInv
  <2> QED BY <2>1, <2>2, <2>3
<1>5. CASE ApicPanics(c) \/ LockPanics(c) \/ Panics(c) \/ Stop(c)
  <2>1. CASE ApicPanics(c)
    <3>1. UNCHANGED <<orderly, instr, msr, selector, rtbl, lock, chosen, last>>
      BY <2>1 DEF ApicPanics, ioapic!AccessPanics
    <3> QED BY <3>1, RegsUntouched
  <2>2. CASE LockPanics(c) \/ Panics(c) \/ Stop(c)
    <3>1. UNCHANGED exitVars
      BY <2>2 DEF LockPanics, Panics, Stop
    <3> QED BY <3>1, RegsUntouched
  <2> QED BY <1>5, <2>1, <2>2
<1> QED
  BY <1>1, <1>2, <1>3, <1>4, <1>5 DEF Handle

\* Hence it holds in every reachable state of the VM.
LEMMA RegInvariance == VmSpec => []RegInv
<1>1. RegInv /\ [VmNext]_allVars => RegInv'
  <2> SUFFICES ASSUME RegInv, [VmNext]_allVars PROVE RegInv'
    OBVIOUS
  <2>1. CASE UNCHANGED exitVars
    BY <2>1 DEF RegInv, DomainInv, LockInv
  <2> QED
    BY <2>1, GuestRegStep, HandleRegStep DEF VmNext, allVars
<1> QED
  BY <1>1, InitRegInv, PTL DEF VmSpec

\* The state of the abstract register file.
Regs == IF ~orderly THEN Blank
        ELSE [r \in Registers |-> IF r[1] = Shared THEN rtbl[r[2]] ELSE msr[r[1]][r[2]]]
Lasts == [c \in Cpu |-> IF orderly THEN last[c] ELSE Operation("none", 0, 0, 0)]

\* A register is one of a vCPU's own or one of the I/O APIC, never both.
LEMMA RegisterKinds ==
    /\ \A c \in Cpu : c # Shared
    /\ \A c \in Cpu, m \in MSRs : <<c, m>> \in Registers
    /\ \A n \in ioapic!Index : <<Shared, n>> \in Registers
    /\ \A r \in Registers :
         \/ r[1] \in Cpu /\ r[2] \in MSRs /\ r = <<r[1], r[2]>>
         \/ r[1] = Shared /\ r[2] \in ioapic!Index /\ r = <<r[1], r[2]>>
<1>1. \A c \in Cpu : c # Shared
  BY DEF Cpu, Shared
<1>2. \A r \in Cpu \X MSRs : r[1] \in Cpu /\ r[2] \in MSRs /\ r = <<r[1], r[2]>>
  OBVIOUS
<1>3. \A r \in {Shared} \X ioapic!Index :
        r[1] = Shared /\ r[2] \in ioapic!Index /\ r = <<r[1], r[2]>>
  OBVIOUS
<1>4. \A c \in Cpu, m \in MSRs : <<c, m>> \in Registers
  BY DEF Registers
<1>5. \A n \in ioapic!Index : <<Shared, n>> \in Registers
  BY DEF Registers
<1>6. ASSUME NEW r \in Registers
      PROVE  \/ r[1] \in Cpu /\ r[2] \in MSRs /\ r = <<r[1], r[2]>>
             \/ r[1] = Shared /\ r[2] \in ioapic!Index /\ r = <<r[1], r[2]>>
  <2>1. r \in Cpu \X MSRs \/ r \in {Shared} \X ioapic!Index
    BY SMTT(30) DEF Registers
  <2> QED BY <1>2, <1>3, <2>1
<1> QED
  BY <1>1, <1>4, <1>5, <1>6

\* Completing an operation on register r with value v is the abstract
\* operation, if the concrete tables changed in that register only.
LEMMA StepIsWrite ==
    ASSUME orderly, orderly', DomainInv, NEW c \in Cpu, NEW r \in Registers,
           NEW v \in {ValueOf(d) : d \in Cpu},
           last' = [last EXCEPT ![c] = [kind |-> "write", reg |-> r, val |-> v]],
           \A s \in Registers : Regs'[s] = IF s = r THEN v ELSE Regs[s]
    PROVE  Guests!Write(c, r, v)
<1>1. Regs' = [Regs EXCEPT ![r] = v]
  BY Zenon DEF Regs
<1>2. Lasts' = [Lasts EXCEPT ![c] = [kind |-> "write", reg |-> r, val |-> v]]
  BY ZenonT(30) DEF Lasts, DomainInv
<1> QED
  BY <1>1, <1>2, ZenonT(30) DEF Guests!Write, Guests!Operation, Regs, Lasts

\* Likewise for a read.
LEMMA StepIsRead ==
    ASSUME orderly, orderly', DomainInv, NEW c \in Cpu, NEW r \in Registers,
           last' = [last EXCEPT ![c] = [kind |-> "read", reg |-> r, val |-> Regs[r]]],
           Regs' = Regs
    PROVE  Guests!Read(c, r)
<1>1. Lasts' = [Lasts EXCEPT ![c] = [kind |-> "read", reg |-> r, val |-> Regs[r]]]
  BY Zenon DEF Lasts, DomainInv
<1> QED
  BY <1>1, Zenon DEF Guests!Read, Guests!Operation, Regs, Lasts

\* Steps that leave the tables and the completed operations alone are invisible.
LEMMA StepIsInvisible ==
    ASSUME UNCHANGED <<orderly, rtbl, msr, last>>
    PROVE  UNCHANGED <<Regs, Lasts>>
BY DEF Regs, Lasts, Blank

\* One access of an orderly guest: the first of an operation is invisible, the
\* second is the operation.
LEMMA RegisterStep ==
    ASSUME RegInv, orderly, NEW c \in Cpu,
           emulate_rdmsr(c) \/ emulate_wrmsr(c) \/ emulate_ioapic(c)
    PROVE  [Guests!Next]_<<Regs, Lasts>>
<1> USE DEF Window, At, Operation
<1>0. /\ DomainInv /\ LockInv
      /\ ValueOf(c) \in {ValueOf(d) : d \in Cpu}
  BY DEF RegInv
<1>1. CASE emulate_rdmsr(c)
  <2> DEFINE r == <<c, instr[c].reg>>
  <2>1. instr[c].reg \in MSRs /\ r \in Registers
    BY <1>0, <1>1, RegisterKinds DEF emulate_rdmsr, LockInv
  <2>2. Regs[r] = msr[c][instr[c].reg]
    BY <2>1, RegisterKinds, SMTT(30) DEF Regs
  <2>3. orderly' /\ Regs' = Regs
    BY <1>1, SMTT(30) DEF emulate_rdmsr, Regs
  <2>4. last' = [last EXCEPT ![c] = [kind |-> "read", reg |-> r, val |-> Regs[r]]]
    BY <1>1, <2>2, SMTT(30) DEF emulate_rdmsr
  <2>5. Guests!Read(c, r)
    <3> HIDE DEF r
    <3> QED BY <1>0, <2>1, <2>3, <2>4, StepIsRead, Zenon DEF Guests!Read
  <2> HIDE DEF r
  <2> QED BY <2>1, <2>5, ZenonT(30) DEF Guests!Next, Guests!Read
<1>2. CASE emulate_wrmsr(c)
  <2> DEFINE r == <<c, instr[c].reg>>
  <2>1. instr[c].reg \in MSRs /\ r \in Registers
    BY <1>0, <1>2, RegisterKinds DEF emulate_wrmsr, LockInv
  <2>2. orderly' /\ rtbl' = rtbl /\ msr' = [msr EXCEPT ![c][instr[c].reg] = ValueOf(c)]
    BY <1>2 DEF emulate_wrmsr
  <2>3. ASSUME NEW s \in Registers
        PROVE  Regs'[s] = IF s = r THEN ValueOf(c) ELSE Regs[s]
    <3>1. CASE s[1] = Shared
      BY <2>2, <3>1, RegisterKinds, SMTT(30) DEF Regs
    <3>2. CASE s[1] # Shared
      <4>1. s[1] \in Cpu /\ s[2] \in MSRs /\ s = <<s[1], s[2]>>
        BY <3>2, RegisterKinds
      <4>2. Regs'[s] = msr'[s[1]][s[2]] /\ Regs[s] = msr[s[1]][s[2]]
        BY <2>2, <3>2 DEF Regs
      <4>3. msr'[s[1]][s[2]] = IF s[1] = c /\ s[2] = instr[c].reg THEN ValueOf(c)
                               ELSE msr[s[1]][s[2]]
        BY <1>0, <2>1, <2>2, <4>1 DEF DomainInv
      <4>4. s = r <=> s[1] = c /\ s[2] = instr[c].reg
        BY <4>1
      <4> HIDE DEF r
      <4> QED BY <4>2, <4>3, <4>4
    <3> QED BY <3>1, <3>2
  <2>4. last' = [last EXCEPT ![c] = [kind |-> "write", reg |-> r, val |-> ValueOf(c)]]
    BY <1>2 DEF emulate_wrmsr
  <2>5. Guests!Write(c, r, ValueOf(c))
    <3> HIDE DEF r
    <3> QED BY <1>0, <2>1, <2>2, <2>3, <2>4, StepIsWrite, Zenon
  <2> QED BY <1>0, <2>1, <2>5 DEF Guests!Next
<1>3. CASE emulate_ioapic(c) /\ (Selects(c) \/ ReadsSelect(c))
  <2>1. UNCHANGED <<orderly, rtbl, msr, last>>
    BY <1>3, IoapicCases, Zenon DEF Selects, ReadsSelect
  <2> QED BY <2>1, StepIsInvisible
<1>4. CASE emulate_ioapic(c) /\ WritesWindow(c)
  <2> DEFINE r == <<Shared, instr[c].reg>>
  <2>1. instr[c].reg = selector /\ selector \in ioapic!Index /\ r \in Registers
    BY <1>0, <1>4, RegisterKinds DEF LockInv, WritesWindow
  <2>2. orderly' /\ msr' = msr /\ rtbl' = [rtbl EXCEPT ![selector] = ValueOf(c)]
    BY <1>4, IoapicCases, Zenon DEF WritesWindow
  <2>3. ASSUME NEW s \in Registers
        PROVE  Regs'[s] = IF s = r THEN ValueOf(c) ELSE Regs[s]
    <3>1. CASE s[1] # Shared
      BY <2>2, <3>1 DEF Regs
    <3>2. CASE s[1] = Shared
      <4>1. s[2] \in ioapic!Index /\ s = <<s[1], s[2]>>
        BY <3>2, RegisterKinds, SMTT(30)
      <4>2. Regs'[s] = rtbl'[s[2]] /\ Regs[s] = rtbl[s[2]]
        BY <2>2, <3>2 DEF Regs
      <4>3. rtbl'[s[2]] = IF s[2] = selector THEN ValueOf(c) ELSE rtbl[s[2]]
        BY <1>0, <2>2, <4>1 DEF DomainInv
      <4>4. s = r <=> s[2] = selector
        BY <2>1, <3>2, <4>1, SMTT(30)
      <4> HIDE DEF r
      <4> QED BY <4>2, <4>3, <4>4
    <3> QED BY <3>1, <3>2
  <2>4. last' = [last EXCEPT ![c] = [kind |-> "write", reg |-> r, val |-> ValueOf(c)]]
    BY <1>4 DEF WritesWindow
  <2>5. Guests!Write(c, r, ValueOf(c))
    <3> HIDE DEF r
    <3> QED BY <1>0, <2>1, <2>2, <2>3, <2>4, StepIsWrite, Zenon
  <2> QED BY <1>0, <2>1, <2>5 DEF Guests!Next
<1>5. CASE emulate_ioapic(c) /\ ReadsWindow(c)
  <2> DEFINE r == <<Shared, instr[c].reg>>
  <2>1. instr[c].reg = selector /\ selector \in ioapic!Index /\ r \in Registers
    BY <1>0, <1>5, RegisterKinds DEF LockInv, ReadsWindow
  <2>2. Regs[r] = rtbl[selector]
    BY <2>1, RegisterKinds, SMTT(30) DEF Regs
  <2>3. orderly' /\ Regs' = Regs
    BY <1>5, IoapicCases, ZenonT(30) DEF ReadsWindow, Regs
  <2>4. last' = [last EXCEPT ![c] = [kind |-> "read", reg |-> r, val |-> Regs[r]]]
    BY <1>5, <2>2, Zenon DEF ReadsWindow
  <2>5. Guests!Read(c, r)
    <3> HIDE DEF r
    <3> QED BY <1>0, <2>1, <2>3, <2>4, StepIsRead, Zenon DEF Guests!Read
  <2> HIDE DEF r
  <2> QED BY <2>1, <2>5, ZenonT(30) DEF Guests!Next, Guests!Read
<1> QED
  BY <1>1, <1>2, <1>3, <1>4, <1>5, IoapicCases, Zenon

\* An orderly guest finds in the I/O APIC and in the emulated model-specific
\* registers what was last written there, for any number of vCPUs, although
\* continue holds the mutex for one access only.
THEOREM ImplementsRegisterFile == VmSpec => IsRegisterFile
<1>1. VmInit => Guests!Init
  <2> SUFFICES ASSUME VmInit PROVE Guests!Init
    OBVIOUS
  <2>1. DOMAIN Regs = Registers
    BY DEF Regs, Blank
  <2>2. \A c \in Cpu : Lasts[c].kind = "none"
    BY DEF Lasts, VmInit, Operation
  <2> QED BY <2>1, <2>2 DEF Guests!Init, Regs, Lasts
<1>2. RegInv /\ [VmNext]_allVars => [Guests!Next]_<<Regs, Lasts>>
  <2> SUFFICES ASSUME RegInv, [VmNext]_allVars PROVE [Guests!Next]_<<Regs, Lasts>>
    OBVIOUS
  <2>1. CASE UNCHANGED <<orderly, rtbl, msr, last>>
    BY <2>1, StepIsInvisible, SMTT(30)
  <2>2. ASSUME NEW c \in Cpu, Guest(c)
        PROVE  UNCHANGED <<orderly, rtbl, msr, last>>
    BY <2>2, SMTT(30) DEF Guest, HypervisorFails, Repeats, allVars, MeetsPlain, MeetsSelect,
       MeetsWindow, MeetsOdd, Meets, Unlocks
  <2>3. ASSUME NEW c \in Cpu, Handle(c),
               ~ (emulate_rdmsr(c) \/ emulate_wrmsr(c) \/ emulate_ioapic(c))
        PROVE  UNCHANGED <<orderly, rtbl, msr, last>>
    BY <2>3, Zenon DEF Handle, EmulatePlain, SkipsUndecodable, ApicPanics, LockPanics, Panics,
       Stop, ioapic!AccessPanics
  <2>4. ASSUME NEW c \in Cpu, emulate_rdmsr(c) \/ emulate_wrmsr(c) \/ emulate_ioapic(c)
        PROVE  [Guests!Next]_<<Regs, Lasts>>
    <3>1. CASE orderly
      BY <2>4, <3>1, RegisterStep, SMTT(30)
    <3>2. CASE ~ orderly
      BY <2>4, <3>2 DEF emulate_rdmsr, emulate_wrmsr, emulate_ioapic, Regs, Lasts, Blank
    <3> QED BY <3>1, <3>2
  <2>5. CASE UNCHANGED exitVars
    BY <2>1, <2>5
  <2> QED
    BY <2>1, <2>2, <2>3, <2>4, <2>5 DEF VmNext, allVars
<1>3. Guests!vars = <<Regs, Lasts>>
  BY SMTT(30) DEF Guests!vars, Regs, Lasts
<1>4. RegInv /\ [VmNext]_allVars => [Guests!Next]_(Guests!vars)
  BY <1>2, <1>3, Zenon DEF Guests!vars, Regs, Lasts
<1> QED
  BY <1>1, <1>4, RegInvariance, PTL DEF VmSpec, IsRegisterFile, Guests!Spec
===============================================================================
