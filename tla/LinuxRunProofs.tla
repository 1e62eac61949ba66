---------------------------- MODULE LinuxRunProofs ----------------------------
(***************************************************************************)
(* Theorems about what Vm::run does for the guest: LinuxRun for every      *)
(* number of vCPUs, every set of exit codes and every set of failures, and *)
(* the command-line calls for every command line and environment.          *)
(***************************************************************************)
EXTENDS LinuxRun, CommandLine, SequenceTheorems, WellFoundedInduction, TLAPS

\* The order in which cores pass the spin on cpu_online.
BootInv ==
    /\ \A c \in online : c < cpu_online
    /\ \A c \in Cpu : InStartup(c) => c = cpu_online

\* A code is set exactly by a thread on its way to, in or past the barrier,
\* and main gets past the barrier only together with such a thread.
ExitInv ==
    /\ \A c \in Cpu : cpu[c] \in {"exit", "wait"} => result[c] # None
    /\ \A c \in Cpu : result[c] # None => cpu[c] \in {"exit", "wait", "ended"}
    /\ main = "spawn" => \A c \in Cpu : c >= i => cpu[c] = "unborn"
    /\ KickOnlyAfterExit

\* What the join loop has established for the threads before index i.
JoinInv ==
    /\ main \in {"join", "done"} =>
          \A c \in Cpu : c < i => cpu[c] = "ended" /\ (c \in code <=> result[c] # None)
    /\ main \notin {"join", "done", "panicked"} => code = {}
    /\ main = "join" => \A c \in code : c < i
    /\ main # "done" => ret = None
    /\ main = "done" => i = NumCpus /\ \E c \in Cpu : code = {c} /\ ret = result[c]

IInv == TypeOK /\ BootInv /\ ExitInv /\ JoinInv

USE NumCpusAssumption, CodesAssumption, FaultsAssumption

-------------------------------------------------------------------------------
(* Every step preserves the inductive invariant *)

\* Every step keeps the type of each variable, and the loop index inside the
\* thread vector while main spawns or kicks.
LEMMA TypeStep == TypeOK /\ [Next]_vars => TypeOK'
<1> SUFFICES ASSUME TypeOK, [Next]_vars
             PROVE  TypeOK'
  OBVIOUS
<1> USE DEF TypeOK, MainPc, CpuPc, mainVars, guestVars, Goto
<1>1. ASSUME NEW c \in Cpu, HostStep(c)
      PROVE  TypeOK'
  <2>1. CASE Create(c)      BY <2>1 DEF Create
  <2>2. CASE Spin(c)        BY <2>2 DEF Spin
  <2>3. CASE EnterGuest(c)  BY <2>3 DEF EnterGuest
  <2>4. CASE BarrierWait(c) BY <2>4 DEF BarrierWait, Cpu
  <2> QED BY <1>1, <2>1, <2>2, <2>3, <2>4 DEF HostStep
<1>2. ASSUME NEW c \in Cpu, GuestStep(c)
      PROVE  TypeOK'
  <2>1. CASE GuestOnline(c)   BY <2>1 DEF GuestOnline
  <2>2. CASE HandledExit(c)   BY <2>2 DEF HandledExit
  <2>3. CASE ExitWithCode(c)  BY <2>3 DEF ExitWithCode
  <2>4. CASE CreateFails(c)   BY <2>4 DEF CreateFails
  <2>5. CASE RunError(c)      BY <2>5 DEF RunError
  <2>6. CASE HandlerPanics(c) BY <2>6 DEF HandlerPanics
  <2> QED BY <1>2, <2>1, <2>2, <2>3, <2>4, <2>5, <2>6 DEF GuestStep
<1>3. CASE Spawn
  BY <1>3 DEF Spawn, Cpu
<1>4. CASE MainBarrierWait
  BY <1>4 DEF MainBarrierWait, Cpu
<1>5. CASE Kick
  <2>1. /\ i \in Cpu
        /\ i' \in 0 .. NumCpus
        /\ main' = "kick" => i' \in Cpu
    BY <1>5 DEF Kick, Cpu
  <2>2. cpu' \in [Cpu -> CpuPc] /\ lost' \subseteq Cpu
    BY <1>5, <2>1, Zenon DEF Kick
  <2> QED BY <1>5, <2>1, <2>2 DEF Kick
<1>6. CASE Join
  <2>1. i \in Cpu /\ i' \in 0 .. NumCpus
    BY <1>6 DEF Join, Cpu
  <2>2. code' \subseteq Cpu
    BY <1>6, <2>1, Zenon DEF Join
  <2> QED BY <1>6, <2>1, <2>2 DEF Join
<1>7. CASE Finish
  BY <1>7 DEF Finish
<1>8. CASE UNCHANGED vars
  BY <1>8 DEF vars
<1> QED
  BY <1>1, <1>2, <1>3, <1>4, <1>5, <1>6, <1>7, <1>8 DEF Next, MainStep

\* The boot chain is preserved by every step: only Spin lets a core into the
\* startup code, and only the core in it moves cpu_online.
LEMMA BootStep == TypeOK /\ BootInv /\ [Next]_vars => BootInv'
<1> SUFFICES ASSUME TypeOK, BootInv, [Next]_vars
             PROVE  BootInv'
  OBVIOUS
<1> USE DEF TypeOK, BootInv, InStartup, mainVars, guestVars, Goto
<1>1. ASSUME NEW c \in Cpu, HostStep(c)
      PROVE  BootInv'
  <2>1. CASE Create(c)      BY <2>1 DEF Create
  <2>2. CASE Spin(c)        BY <2>2 DEF Spin
  <2>3. CASE EnterGuest(c)  BY <2>3 DEF EnterGuest
  <2>4. CASE BarrierWait(c) BY <2>4 DEF BarrierWait
  <2> QED BY <1>1, <2>1, <2>2, <2>3, <2>4 DEF HostStep
<1>2. ASSUME NEW c \in Cpu, GuestStep(c)
      PROVE  BootInv'
  <2>1. CASE GuestOnline(c)   BY <2>1 DEF GuestOnline, Cpu
  <2>2. CASE HandledExit(c)   BY <2>2 DEF HandledExit
  <2>3. CASE ExitWithCode(c)  BY <2>3 DEF ExitWithCode
  <2>4. CASE CreateFails(c)   BY <2>4 DEF CreateFails
  <2>5. CASE RunError(c)      BY <2>5 DEF RunError
  <2>6. CASE HandlerPanics(c) BY <2>6 DEF HandlerPanics
  <2> QED BY <1>2, <2>1, <2>2, <2>3, <2>4, <2>5, <2>6 DEF GuestStep
<1>3. CASE Spawn           BY <1>3 DEF Spawn
<1>4. CASE MainBarrierWait BY <1>4 DEF MainBarrierWait
<1>5. CASE Kick            BY <1>5 DEF Kick
<1>6. CASE Join            BY <1>6 DEF Join
<1>7. CASE Finish          BY <1>7 DEF Finish
<1>8. CASE UNCHANGED vars  BY <1>8 DEF vars
<1> QED
  BY <1>1, <1>2, <1>3, <1>4, <1>5, <1>6, <1>7, <1>8 DEF Next, MainStep

\* The link between exit codes and the barrier is preserved by every step.
LEMMA ExitStep == TypeOK /\ ExitInv /\ [Next]_vars => ExitInv'
<1> SUFFICES ASSUME TypeOK, ExitInv, [Next]_vars
             PROVE  ExitInv'
  OBVIOUS
<1> USE DEF TypeOK, ExitInv, KickOnlyAfterExit, CpuPc, mainVars, guestVars, Goto
<1>1. ASSUME NEW c \in Cpu, HostStep(c)
      PROVE  ExitInv'
  <2>1. CASE Create(c)      BY <2>1 DEF Create
  <2>2. CASE Spin(c)        BY <2>2 DEF Spin
  <2>3. CASE EnterGuest(c)  BY <2>3 DEF EnterGuest
  <2>4. CASE BarrierWait(c) BY <2>4 DEF BarrierWait
  <2> QED BY <1>1, <2>1, <2>2, <2>3, <2>4 DEF HostStep
<1>2. ASSUME NEW c \in Cpu, GuestStep(c)
      PROVE  ExitInv'
  <2>1. CASE GuestOnline(c)   BY <2>1 DEF GuestOnline
  <2>2. CASE HandledExit(c)   BY <2>2 DEF HandledExit
  <2>3. CASE ExitWithCode(c)  BY <2>3 DEF ExitWithCode
  <2>4. CASE CreateFails(c)   BY <2>4 DEF CreateFails
  <2>5. CASE RunError(c)      BY <2>5 DEF RunError
  <2>6. CASE HandlerPanics(c) BY <2>6 DEF HandlerPanics
  <2> QED BY <1>2, <2>1, <2>2, <2>3, <2>4, <2>5, <2>6 DEF GuestStep
<1>3. CASE Spawn
  <2>1. i \in Cpu /\ i \in Int /\ cpu[i] = "unborn" /\ result[i] = None
    BY <1>3 DEF Spawn, Cpu
  <2> QED BY <1>3, <2>1 DEF Spawn, Cpu
<1>4. CASE MainBarrierWait BY <1>4 DEF MainBarrierWait
<1>5. CASE Kick            BY <1>5 DEF Kick
<1>6. CASE Join            BY <1>6 DEF Join
<1>7. CASE Finish          BY <1>7 DEF Finish
<1>8. CASE UNCHANGED vars  BY <1>8 DEF vars
<1> QED
  BY <1>1, <1>2, <1>3, <1>4, <1>5, <1>6, <1>7, <1>8 DEF Next, MainStep

\* What main has joined stays ended and collected.
LEMMA JoinStep == TypeOK /\ ExitInv /\ JoinInv /\ [Next]_vars => JoinInv'
<1> SUFFICES ASSUME TypeOK, ExitInv, JoinInv, [Next]_vars
             PROVE  JoinInv'
  OBVIOUS
<1> USE DEF TypeOK, JoinInv, mainVars, guestVars, Goto
<1>1. ASSUME NEW c \in Cpu, HostStep(c)
      PROVE  JoinInv'
  <2>1. CASE Create(c)      BY <2>1 DEF Create
  <2>2. CASE Spin(c)        BY <2>2 DEF Spin
  <2>3. CASE EnterGuest(c)  BY <2>3 DEF EnterGuest
  <2>4. CASE BarrierWait(c) BY <2>4 DEF BarrierWait
  <2> QED BY <1>1, <2>1, <2>2, <2>3, <2>4 DEF HostStep
<1>2. ASSUME NEW c \in Cpu, GuestStep(c)
      PROVE  JoinInv'
  <2>1. CASE GuestOnline(c)   BY <2>1 DEF GuestOnline
  <2>2. CASE HandledExit(c)   BY <2>2 DEF HandledExit
  <2>3. CASE ExitWithCode(c)  BY <2>3 DEF ExitWithCode, Cpu
  <2>4. CASE CreateFails(c)   BY <2>4 DEF CreateFails
  <2>5. CASE RunError(c)      BY <2>5 DEF RunError
  <2>6. CASE HandlerPanics(c) BY <2>6 DEF HandlerPanics
  <2> QED BY <1>2, <2>1, <2>2, <2>3, <2>4, <2>5, <2>6 DEF GuestStep
<1>3. CASE Spawn           BY <1>3 DEF Spawn
<1>4. CASE MainBarrierWait BY <1>4 DEF MainBarrierWait
<1>5. CASE Kick            BY <1>5 DEF Kick, Cpu
<1>6. CASE Join
  <2>1. i \in Cpu
    BY <1>6 DEF Join, Cpu
  <2>2. CASE cpu[i] = "panicked"
    BY <1>6, <2>2 DEF Join
  <2>3. CASE cpu[i] = "ended"
    <3>1. /\ main = "join" /\ main' = "join" /\ i' = i + 1
          /\ code' = IF result[i] # None THEN code \cup {i} ELSE code
          /\ UNCHANGED <<ret, cpu, result>>
      BY <1>6, <2>3 DEF Join
    <3>2. \A c \in Cpu : c < i + 1 => c < i \/ c = i
      BY <2>1 DEF Cpu
    <3>3. \A c \in Cpu : c < i + 1 => cpu'[c] = "ended" /\ (c \in code' <=> result'[c] # None)
      BY <2>1, <2>3, <3>1, <3>2
    <3>4. \A c \in code' : c < i + 1
      BY <2>1, <3>1 DEF Cpu
    <3> QED BY <3>1, <3>3, <3>4
  <2> QED BY <1>6, <2>2, <2>3 DEF Join
<1>7. CASE Finish          BY <1>7 DEF Finish, Cpu
<1>8. CASE UNCHANGED vars  BY <1>8 DEF vars
<1> QED
  BY <1>1, <1>2, <1>3, <1>4, <1>5, <1>6, <1>7, <1>8 DEF Next, MainStep

\* The invariant holds before main has spawned the first vCPU thread.
LEMMA InitIInv == Init => IInv
BY DEF Init, IInv, TypeOK, BootInv, ExitInv, JoinInv, InStartup,
       KickOnlyAfterExit, Cpu, MainPc, CpuPc

\* The inductive invariant holds throughout.
LEMMA Invariance == Spec => []IInv
<1>1. IInv /\ [Next]_vars => IInv'
  BY TypeStep, BootStep, ExitStep, JoinStep DEF IInv
<1> QED
  BY <1>1, InitIInv, PTL DEF Spec

-------------------------------------------------------------------------------
(* The theorems *)

\* Every variable of the run loop keeps its type; in particular main never
\* indexes outside the vector of threads.
THEOREM TypeCorrect == Spec => []TypeOK
BY Invariance, PTL DEF IInv

\* For any number of vCPUs, no two cores are ever in the guest's startup code
\* at the same time, whichever vCPUs crash, exit or are kicked.
THEOREM StartupIsExclusive == Spec => []StartupExclusive
<1>1. IInv => StartupExclusive
  BY DEF IInv, BootInv, StartupExclusive
<1> QED
  BY <1>1, Invariance, PTL

\* Main never kicks or joins a vCPU before some vCPU has produced a code.
THEOREM KicksFollowAnExit == Spec => []KickOnlyAfterExit
<1>1. IInv => KickOnlyAfterExit
  BY DEF IInv, ExitInv
<1> QED
  BY <1>1, Invariance, PTL

\* When run_no_gdb returns, all vCPU threads have ended, exactly one of them
\* with a code, and that code is the value returned.
THEOREM ReturnedCodeIsTheOnlyOne == Spec => []ReturnsTheOnlyCode
<1>1. IInv => ReturnsTheOnlyCode
  <2> SUFFICES ASSUME IInv, main = "done"
               PROVE  /\ \A c \in Cpu : cpu[c] = "ended"
                      /\ \E c \in Cpu : /\ result[c] # None
                                        /\ ret = result[c]
                                        /\ \A d \in Cpu \ {c} : result[d] = None
    BY DEF ReturnsTheOnlyCode
  <2>1. \A c \in Cpu : c < i
    BY DEF IInv, JoinInv, Cpu
  <2>2. PICK c \in Cpu : code = {c} /\ ret = result[c]
    BY DEF IInv, JoinInv
  <2> QED
    BY <2>1, <2>2 DEF IInv, JoinInv
<1> QED
  BY <1>1, Invariance, PTL

\* The run loop implements the abstract promise of run: every step is an exit
\* of one vCPU, the return with a code some vCPU exited with, a panic of the
\* caller, or invisible.
THEOREM ImplementsLifecycle == Spec => KeepsLifecycle
<1>1. Init => Lifecycle!Init
  BY DEF Init, Lifecycle!Init, Outcome
<1>2. IInv /\ [Next]_vars => [Lifecycle!Next]_(Lifecycle!vars)
  <2> SUFFICES ASSUME IInv, [Next]_vars
               PROVE  [Lifecycle!Next]_(Lifecycle!vars)
    OBVIOUS
  <2> USE DEF IInv, TypeOK, Outcome, Lifecycle!vars, mainVars, guestVars
  <2>1. ASSUME NEW c \in Cpu, HostStep(c)
        PROVE  UNCHANGED Lifecycle!vars
    BY <2>1 DEF HostStep, Create, Spin, EnterGuest, BarrierWait
  <2>2. ASSUME NEW c \in Cpu, ExitWithCode(c)
        PROVE  Lifecycle!Exit(c)
    <3>1. result[c] = None
      BY <2>2 DEF ExitWithCode, ExitInv
    <3>2. main # "done"
      BY <2>2 DEF ExitWithCode, JoinInv, Cpu
    <3> QED BY <2>2, <3>1, <3>2, Zenon DEF ExitWithCode, Lifecycle!Exit
  <2>3. ASSUME NEW c \in Cpu, GuestStep(c), ~ ExitWithCode(c)
        PROVE  UNCHANGED Lifecycle!vars
    BY <2>3 DEF GuestStep, GuestOnline, HandledExit, CreateFails, RunError,
                HandlerPanics
  <2>4. CASE Spawn \/ MainBarrierWait \/ Kick
    BY <2>4 DEF Spawn, MainBarrierWait, Kick
  <2>5. CASE Join
    BY <2>5 DEF Join, Lifecycle!Next, Lifecycle!GiveUp
  <2>6. CASE Finish
    <3>1. ASSUME NEW c \in Cpu, code = {c}, ret' = result[c], main' = "done"
          PROVE  Lifecycle!Return(c)
      <4>1. result[c] # None
        BY <2>6, <3>1 DEF Finish, JoinInv
      <4> QED BY <2>6, <3>1, <4>1 DEF Finish, Lifecycle!Return
    <3>2. CASE main' = "panicked" /\ UNCHANGED ret
      BY <2>6, <3>2 DEF Finish, Lifecycle!GiveUp, Lifecycle!Next
    <3> QED BY <2>6, <3>1, <3>2 DEF Finish, Lifecycle!Next
  <2>7. CASE UNCHANGED vars
    BY <2>7 DEF vars
  <2> QED
    BY <2>1, <2>2, <2>3, <2>4, <2>5, <2>6, <2>7
       DEF Next, MainStep, Lifecycle!Next
<1> QED
  BY <1>1, <1>2, Invariance, PTL DEF Spec, KeepsLifecycle, Lifecycle!Spec

-------------------------------------------------------------------------------
(* The command line *)

\* Every set of numbers has a smallest one.
LEMMA Smallest ==
    ASSUME NEW T \in SUBSET Nat, T # {}
    PROVE  \E x \in T : \A y \in T : x <= y
<1> DEFINE R == {ss \in Nat \X Nat : ss[1] < ss[2]}
<1>1. IsWellFoundedOn(R, Nat)
  BY NatLessThanWellFounded DEF OpToRel
<1>2. \A x, y \in Nat : <<y, x>> \notin R => x <= y
  OBVIOUS
<1> HIDE DEF R
<1>3. PICK x \in T : \A y \in T : ~(<<y, x>> \in R)
  BY <1>1, WFMin, Zenon
<1> QED
  BY <1>2, <1>3, Zenon

\* An argument, and an environment variable.
Word == {"uhyve"} \cup Words
Variable == [key : Nat, value : Nat]

\* Where the arguments that are passed on begin, and what the guest must get in
\* each slot: without a separator nothing is passed on but the path.
Sep ==
    LET separators == {n \in DOMAIN args : args[n] = "--"}
    IN  IF separators = {} THEN Len(args)
        ELSE CHOOSE n \in separators : \A m \in separators : n <= m
Total == Len(args) - Sep + 1
Wanted(k) == IF k = 0 THEN path ELSE args[Sep + k]
EnvTotal == IF Len(environ) < MAX_ENVC THEN Len(environ) ELSE MAX_ENVC

\* What a loop over the arguments knows after so many of them, and how many
\* slots it has filled.
ArgLoop ==
    /\ at \in 0 .. Len(args) /\ counter = at
    /\ found_separator \in BOOLEAN
    /\ found_separator => separator_pos = Sep /\ Sep \in 1 .. at
    /\ ~found_separator => \A n \in 1 .. at : args[n] # "--"
Passed == IF found_separator THEN at - Sep + 1 ELSE 1

\* What a loop over the environment knows.
VarLoop ==
    /\ at \in 0 .. Len(environ)
    /\ counter = IF at < MAX_ENVC THEN at ELSE MAX_ENVC

\* The first slots have been announced, or filled.
SizesTo(m) ==
    DOMAIN argsz = 0 .. m - 1 /\ \A k \in 0 .. m - 1 : argsz[k] = len(Wanted(k)) + 1
StringsTo(m) ==
    DOMAIN argv = 0 .. m - 1 /\ \A k \in 0 .. m - 1 : argv[k] = Wanted(k)
VarSizesTo(m) ==
    /\ DOMAIN envsz = 0 .. m - 1
    /\ \A k \in 0 .. m - 1 : envsz[k] = environ[k + 1].key + environ[k + 1].value + 2
VarsTo(m) ==
    DOMAIN envp = 0 .. m - 1 /\ \A k \in 0 .. m - 1 : envp[k] = environ[k + 1]

\* The inductive invariant: each loop has done its part for what it has been
\* through, and what cmdsize announces holds until the guest is done.
Excused ==
    \/ Total > MAX_ARGC
    \/ \E n \in DOMAIN args : args[n] = Garbled
    \/ \E n \in DOMAIN environ : environ[n] = GarbledVariable

CmdInv ==
    /\ args \in Seq(Word) /\ environ \in Seq(Variable)
    /\ overrun = FALSE
    /\ \/ call = "none" /\ argsz = <<>> /\ envsz = <<>> /\ argv = <<>> /\ envp = <<>>
       \/ /\ call = "size_args" /\ envsz = <<>> /\ argv = <<>> /\ envp = <<>>
          /\ ArgLoop /\ SizesTo(Passed)
       \/ /\ call = "size_vars" /\ argv = <<>> /\ envp = <<>>
          /\ argc = Total /\ SizesTo(Total) /\ VarLoop /\ VarSizesTo(counter)
       \/ /\ call = "sized" /\ argv = <<>> /\ envp = <<>>
          /\ argc = Total /\ SizesTo(Total) /\ envc = EnvTotal /\ VarSizesTo(EnvTotal)
       \/ /\ call = "copy_args" /\ envp = <<>>
          /\ argc = Total /\ SizesTo(Total) /\ envc = EnvTotal /\ VarSizesTo(EnvTotal)
          /\ ArgLoop /\ StringsTo(Passed)
       \/ /\ call = "copy_vars"
          /\ argc = Total /\ SizesTo(Total) /\ envc = EnvTotal /\ VarSizesTo(EnvTotal)
          /\ StringsTo(Total) /\ VarLoop /\ VarsTo(counter)
       \/ /\ call = "done"
          /\ argc = Total /\ envc = EnvTotal /\ StringsTo(Total) /\ VarsTo(EnvTotal)
       \/ call = "panicked" /\ Excused

\* Sep is the first separator, if there is one.
LEMMA SepIsFirst ==
    ASSUME NEW S, args \in Seq(S)
    PROVE  /\ Sep \in 0 .. Len(args)
           /\ (\A n \in 1 .. Len(args) : args[n] # "--") => Sep = Len(args)
           /\ \A p \in 1 .. Len(args) :
                 args[p] = "--" /\ (\A n \in 1 .. p - 1 : args[n] # "--") => Sep = p
<1> DEFINE separators == {n \in DOMAIN args : args[n] = "--"}
           first == CHOOSE n \in separators : \A m \in separators : n <= m
<1>1. DOMAIN args = 1 .. Len(args) /\ Len(args) \in Nat
  OBVIOUS
<1>2. CASE separators = {}
  <2>1. Sep = Len(args)
    BY <1>2, Zenon DEF Sep
  <2>2. \A p \in 1 .. Len(args) : args[p] # "--"
    BY <1>1, <1>2
  <2>3. Sep \in 0 .. Len(args)
    BY <1>1, <2>1
  <2> QED
    BY <2>1, <2>2, <2>3, Zenon
<1>3. CASE separators # {}
  <2>1. Sep = first
    BY <1>3, Zenon DEF Sep
  <2>2. separators \in SUBSET Nat
    BY <1>1
  <2>3. \E x \in separators : \A y \in separators : x <= y
    BY <1>3, <2>2, Smallest, Zenon
  <2>4. first \in separators /\ \A y \in separators : first <= y
    BY <2>3, Zenon
  <2> HIDE DEF first
  <2>5. first \in 1 .. Len(args) /\ args[first] = "--"
    BY <1>1, <2>4
  <2>6. ASSUME NEW p \in 1 .. Len(args), args[p] = "--", \A n \in 1 .. p - 1 : args[n] # "--"
        PROVE  first = p
    <3>1. first <= p
      BY <1>1, <2>4, <2>6
    <3>2. ~(first \in 1 .. p - 1)
      BY <2>5, <2>6
    <3> QED
      BY <2>5, <3>1, <3>2
  <2>7. Sep \in 0 .. Len(args) /\ ~(\A n \in 1 .. Len(args) : args[n] # "--")
    BY <1>1, <2>1, <2>5
  <2> QED
    BY <2>1, <2>6, <2>7, Zenon
<1> QED
  BY <1>2, <1>3, Zenon

\* One more slot.
LEMMA PutNext ==
    ASSUME NEW f, NEW m \in Nat, DOMAIN f = 0 .. m - 1, NEW x
    PROVE  /\ DOMAIN Put(f, m, x) = 0 .. (m + 1) - 1
           /\ Put(f, m, x)[m] = x
           /\ \A j \in 0 .. m - 1 : Put(f, m, x)[j] = f[j]
<1>1. (0 .. m - 1) \cup {m} = 0 .. (m + 1) - 1
  OBVIOUS
<1>2. \A j \in 0 .. m - 1 : j # m
  OBVIOUS
<1> QED
  BY <1>1, <1>2 DEF Put

\* One iteration of the loop over the arguments, in either call: an argument
\* behind the separator goes into the next slot, which has to be there.
LEMMA ArgStep ==
    ASSUME NEW S, args \in Seq(S), ArgLoop, at < Len(args),
           NEW found, found = (found_separator \/ args[at + 1] = "--"),
           NEW pos, pos = IF ~found_separator /\ args[at + 1] = "--" THEN counter + 1
                          ELSE separator_pos,
           args' = args, at' = at + 1, counter' = counter + 1,
           found_separator' = found, separator_pos' = pos
    PROVE  /\ ArgLoop' /\ Sep' = Sep
           /\ Passed \in Nat \ {0}
           /\ found /\ counter >= pos =>
                 /\ counter - pos + 1 = Passed /\ Passed' = Passed + 1
                 /\ args[at + 1] = Wanted(Passed) /\ Passed < Total
           /\ ~(found /\ counter >= pos) => Passed' = Passed
<1>1. Len(args) \in Nat /\ at \in 0 .. Len(args) - 1 /\ counter = at
  BY DEF ArgLoop
<1>2. Sep' = Sep
  BY DEF Sep
<1>3. Sep \in 0 .. Len(args)
  BY SepIsFirst
<1>4. CASE found_separator
  <2>1. found = TRUE /\ pos = Sep /\ Sep \in 1 .. at
    BY <1>4 DEF ArgLoop
  <2>2. ArgLoop'
    BY <1>1, <1>2, <2>1 DEF ArgLoop
  <2>3. Passed = at - Sep + 1 /\ Passed' = (at + 1) - Sep + 1
    BY <1>2, <1>4, <2>1 DEF Passed
  <2>4. Wanted(Passed) = args[Sep + Passed]
    BY <1>1, <2>1, <2>3 DEF Wanted
  <2>5. Sep + Passed = at + 1
    BY <1>1, <1>3, <2>3
  <2> QED
    BY <1>1, <1>2, <1>3, <2>1, <2>2, <2>3, <2>4, <2>5 DEF Total
<1>5. CASE ~found_separator /\ args[at + 1] = "--"
  <2>1. found = TRUE /\ pos = at + 1 /\ Passed = 1
    BY <1>1, <1>5 DEF Passed
  <2>2. \A n \in 1 .. (at + 1) - 1 : args[n] # "--"
    BY <1>1, <1>5 DEF ArgLoop
  <2>3. Sep = at + 1
    BY <1>1, <1>5, <2>2, SepIsFirst
  <2>4. ArgLoop'
    <3>1. found_separator' = TRUE /\ separator_pos' = at + 1 /\ Sep' = at + 1
      BY <1>2, <2>1, <2>3
    <3>2. at' \in 0 .. Len(args') /\ counter' = at' /\ at + 1 \in 1 .. at'
      BY <1>1
    <3> QED
      BY <3>1, <3>2 DEF ArgLoop
  <2>5. Passed' = 1
    BY <1>1, <1>2, <2>1, <2>3 DEF Passed
  <2>6. ~(counter >= pos)
    BY <1>1, <2>1
  <2> QED
    BY <1>2, <2>1, <2>4, <2>5, <2>6
<1>6. CASE ~found_separator /\ args[at + 1] # "--"
  <2>1. found = FALSE /\ Passed = 1 /\ Passed' = 1
    BY <1>6 DEF Passed
  <2>2. \A n \in 1 .. at + 1 : args[n] # "--"
    BY <1>1, <1>6 DEF ArgLoop
  <2>3. ArgLoop'
    BY <1>1, <1>2, <2>1, <2>2 DEF ArgLoop
  <2> QED
    BY <1>2, <2>1, <2>3
<1> QED
  BY <1>4, <1>5, <1>6 DEF ArgLoop

\* A loop that has been through all of the arguments has filled all slots.
LEMMA ArgsEnd ==
    ASSUME NEW S, args \in Seq(S), ArgLoop, at = Len(args)
    PROVE  /\ Passed = Total
           /\ Total = IF found_separator /\ counter >= separator_pos
                      THEN counter - separator_pos + 1 ELSE 1
<1>1. Len(args) \in Nat /\ counter = Len(args)
  BY DEF ArgLoop
<1>2. CASE found_separator
  BY <1>1, <1>2 DEF ArgLoop, Passed, Total
<1>3. CASE ~found_separator
  <2>1. Sep = Len(args)
    BY <1>1, <1>3, SepIsFirst DEF ArgLoop
  <2> QED
    BY <1>1, <1>3, <2>1 DEF Passed, Total
<1> QED
  BY <1>2, <1>3

\* When a call is entered, one slot is filled: the path of the kernel.
LEMMA ArgsBegin ==
    ASSUME NEW S, args \in Seq(S), args' = args,
           at' = 0, counter' = 0, found_separator' = FALSE
    PROVE  ArgLoop' /\ Passed' = 1 /\ Sep' = Sep /\ Total \in Nat \ {0}
<1>1. Sep \in 0 .. Len(args) /\ Len(args) \in Nat
  BY SepIsFirst
<1>2. Total \in Nat \ {0}
  BY <1>1 DEF Total
<1>3. Sep' = Sep
  BY DEF Sep
<1>4. ArgLoop'
  <2>1. at' \in 0 .. Len(args') /\ counter' = at'
    BY <1>1
  <2>2. \A n \in 1 .. at' : args'[n] # "--"
    OBVIOUS
  <2> QED
    BY <2>1, <2>2, Zenon DEF ArgLoop
<1>5. Passed' = 1
  BY DEF Passed
<1> QED
  BY <1>2, <1>3, <1>4, <1>5

\* One iteration of the loop over the environment, in either call.
LEMMA VarStep ==
    ASSUME environ \in Seq(Variable), VarLoop, at < Len(environ),
           environ' = environ, at' = at + 1,
           counter' = IF counter < MAX_ENVC THEN counter + 1 ELSE counter
    PROVE  /\ VarLoop'
           /\ counter \in Nat
           /\ counter < MAX_ENVC => counter = at /\ counter < EnvTotal
<1>1. Len(environ) \in Nat /\ at \in 0 .. Len(environ) - 1 /\ MAX_ENVC \in Nat
  BY LimitAssumption DEF VarLoop
<1> QED
  BY <1>1 DEF VarLoop, EnvTotal

\* The lengths of keys and values are numbers.
LEMMA VariableLengths == \A v \in Variable : v.key \in Nat /\ v.value \in Nat
  BY DEF Variable

\* What is announced and copied in the end is what CmdvalFits asks for.
LEMMA GivesCmdval == CmdInv => CmdvalFits
<1> SUFFICES ASSUME CmdInv PROVE CmdvalFits
  OBVIOUS
<1> DEFINE S == Word
           separators == {n \in DOMAIN args : args[n] = "--"}
           first == CHOOSE n \in separators : \A m \in separators : n <= m
           rest == IF separators = {} THEN <<>> ELSE SubSeq(args, first + 1, Len(args))
           expected == <<path>> \o rest
<1>1. args \in Seq(S) /\ Len(args) \in Nat
  <2>1. args \in Seq(S)
    BY DEF CmdInv
  <2> QED
    BY <2>1
<1>2. Sep \in 0 .. Len(args)
  BY <1>1, SepIsFirst
<1>3. /\ rest \in Seq(S) /\ Len(rest) = Total - 1
      /\ \A k \in 1 .. Len(rest) : rest[k] = args[Sep + k]
  <2>1. CASE separators = {}
    <3>1. Sep = Len(args)
      BY <2>1, Zenon DEF Sep
    <3> QED
      BY <1>1, <2>1, <3>1 DEF Total
  <2>2. CASE separators # {}
    <3>1. Sep = first
      BY <2>2, Zenon DEF Sep
    <3>2. rest = SubSeq(args, Sep + 1, Len(args))
      BY <2>2, <3>1
    <3> HIDE DEF rest
    <3>3. PICK p \in 0 .. Len(args) : Sep = p
      BY <1>2
    <3>4. /\ SubSeq(args, p + 1, Len(args)) \in Seq(S)
          /\ Len(SubSeq(args, p + 1, Len(args))) = Len(args) - p
          /\ \A k \in 1 .. Len(args) - p : SubSeq(args, p + 1, Len(args))[k] = args[p + k]
      BY <1>1, <3>3
    <3> QED
      BY <1>1, <3>2, <3>3, <3>4 DEF Total
  <2> QED
    BY <2>1, <2>2, Zenon
<1> HIDE DEF rest
<1>4. /\ Len(expected) = Total /\ Total \in Nat \ {0}
      /\ \A k \in 1 .. Total : expected[k] = Wanted(k - 1)
  <2>1. Total \in Nat \ {0}
    BY <1>1, <1>2 DEF Total
  <2>2. Len(expected) = Total /\ expected[1] = path
    BY <1>3, <2>1
  <2>3. ASSUME NEW k \in 1 .. Total PROVE expected[k] = Wanted(k - 1)
    <3>1. CASE k = 1
      BY <2>2, <3>1 DEF Wanted
    <3>2. CASE k # 1
      <4>1. k - 1 \in 1 .. Len(rest) /\ k - 1 # 0
        BY <1>3, <2>1, <3>2
      <4>2. expected[k] = rest[k - 1]
        BY <1>3, <2>1, <3>2
      <4>3. rest[k - 1] = args[Sep + (k - 1)]
        BY <1>3, <4>1
      <4> QED
        BY <4>1, <4>2, <4>3, Zenon DEF Wanted
    <3> QED
      BY <3>1, <3>2
  <2> QED
    BY <2>1, <2>2, <2>3
<1> HIDE DEF expected
<1>5. ASSUME call = "done"
      PROVE  /\ argc = Len(expected) /\ DOMAIN argv = 0 .. argc - 1
             /\ \A k \in 1 .. argc : argv[k - 1] = expected[k]
             /\ DOMAIN envp = 0 .. envc - 1
             /\ \A k \in 1 .. envc : envp[k - 1] = environ[k]
             /\ envc = IF Len(environ) < MAX_ENVC THEN Len(environ) ELSE MAX_ENVC
  <2>1. argc = Total /\ envc = EnvTotal /\ StringsTo(Total) /\ VarsTo(EnvTotal)
    BY <1>5 DEF CmdInv
  <2>2. EnvTotal \in Nat
    <3>1. environ \in Seq(Variable)
      BY DEF CmdInv
    <3>2. Len(environ) \in Nat
      BY <3>1
    <3> QED
      BY <3>2, LimitAssumption DEF EnvTotal
  <2>3. \A k \in 1 .. argc : argv[k - 1] = expected[k]
    BY <1>4, <2>1 DEF StringsTo
  <2>4. ASSUME NEW k \in 1 .. envc PROVE envp[k - 1] = environ[k]
    <3>1. k - 1 \in 0 .. EnvTotal - 1 /\ (k - 1) + 1 = k
      BY <2>1, <2>2
    <3> QED
      BY <2>1, <3>1 DEF VarsTo
  <2> QED
    BY <1>4, <2>1, <2>3, <2>4 DEF StringsTo, VarsTo, EnvTotal
<1>6. ASSUME call = "panicked"
      PROVE  \/ Len(expected) > MAX_ARGC
             \/ \E n \in DOMAIN args : args[n] = Garbled
             \/ \E n \in DOMAIN environ : environ[n] = GarbledVariable
  BY <1>4, <1>6 DEF CmdInv, Excused
<1>7. ~overrun
  BY DEF CmdInv
<1> QED
  BY <1>5, <1>6, <1>7, Zenon DEF CmdvalFits, expected, rest, first, separators

\* Arguments and environment stay as they are, and with them what is wanted.
LEMMA WantedUnchanged ==
    ASSUME args' = args, environ' = environ
    PROVE  /\ Sep' = Sep /\ Total' = Total /\ EnvTotal' = EnvTotal
           /\ Excused' <=> Excused
           /\ \A k : Wanted(k)' = Wanted(k)
  BY DEF Sep, Total, EnvTotal, Excused, Wanted

\* The steps of cmdsize.
LEMMA CmdsizeKeeps ==
    ASSUME CmdInv,
           \/ cmdsize \/ cmdsize_arg \/ cmdsize_args_end
           \/ cmdsize_var \/ cmdsize_vars_end
    PROVE  CmdInv'
<1>1. /\ args \in Seq(Word) /\ environ \in Seq(Variable) /\ overrun = FALSE
      /\ MAX_ARGC \in Nat /\ MAX_ENVC \in Nat
  BY LimitAssumption DEF CmdInv
<1>2. /\ args' = args /\ environ' = environ
      /\ argv' = argv /\ envp' = envp /\ overrun' = overrun
  BY DEF cmdsize, cmdsize_arg, cmdsize_args_end, cmdsize_var,
         cmdsize_vars_end, inputs, copyVars
<1>3. /\ Sep' = Sep /\ Total' = Total /\ EnvTotal' = EnvTotal /\ (Excused' <=> Excused)
      /\ \A k : Wanted(k)' = Wanted(k)
  BY <1>2, WantedUnchanged
<1>4. CASE cmdsize
  <2>1. /\ call = "none" /\ call' = "size_args"
        /\ at' = 0 /\ counter' = 0 /\ found_separator' = FALSE
        /\ argsz' = Put(argsz, 0, len(path) + 1) /\ envsz' = envsz
    BY <1>4 DEF cmdsize, Restart
  <2>2. argsz = <<>> /\ envsz = <<>> /\ argv = <<>> /\ envp = <<>>
    BY <2>1 DEF CmdInv
  <2>3. ArgLoop' /\ Passed' = 1
    BY <1>1, <1>2, <2>1, ArgsBegin
  <2>4. DOMAIN argsz' = 0 .. 1 - 1 /\ argsz'[0] = len(Wanted(0)) + 1
    <3>1. DOMAIN argsz = {} /\ 0 .. (0 + 1) - 1 = {0}
      BY <2>2
    <3>2. Wanted(0) = path
      BY DEF Wanted
    <3> QED
      <4> DEFINE x == len(path) + 1
      <4>1. /\ DOMAIN Put(argsz, 0, x) = 0 .. (0 + 1) - 1
            /\ Put(argsz, 0, x)[0] = x
        BY <3>1 DEF Put
      <4> QED
        BY <2>1, <3>2, <4>1
  <2>5. SizesTo(Passed)'
    BY <1>3, <2>3, <2>4 DEF SizesTo
  <2> QED
    BY <1>1, <1>2, <2>1, <2>2, <2>3, <2>5 DEF CmdInv
<1>5. CASE cmdsize_arg
  <2> DEFINE argument == args[at + 1]
             found == found_separator \/ argument = "--"
             pos == IF ~found_separator /\ argument = "--" THEN counter + 1 ELSE separator_pos
             passed == found /\ counter >= pos
             slot == counter - pos + 1
  <2>1. call = "size_args" /\ at < Len(args) /\ envsz' = envsz
    BY <1>5 DEF cmdsize_arg
  <2>2. /\ envsz = <<>> /\ argv = <<>> /\ envp = <<>>
        /\ ArgLoop /\ SizesTo(Passed)
    BY <2>1 DEF CmdInv
  <2>3. at + 1 \in DOMAIN args
    <3>1. DOMAIN args = 1 .. Len(args) /\ Len(args) \in Nat
      BY <1>1
    <3> QED
      BY <2>1, <2>2, <3>1 DEF ArgLoop
  <2>4. CASE argument = Garbled \/ (passed /\ slot >= MAX_ARGC)
    <3>1. call' = "panicked"
      BY <1>5, <2>4, Zenon DEF cmdsize_arg, Panic
    <3>2. ASSUME passed, slot >= MAX_ARGC PROVE Total > MAX_ARGC
      <4>1. found_separator /\ pos = Sep /\ counter = at
        BY <1>1, <2>2, <3>2 DEF ArgLoop
      <4>2. Sep \in 1 .. at /\ at \in 0 .. Len(args) /\ Len(args) \in Nat
        BY <1>1, <2>2, <4>1 DEF ArgLoop
      <4>3. PICK a \in Nat, n \in Nat, z \in Nat : a = at /\ n = Len(args) /\ z = Sep
        BY <4>2
      <4>4. a - z + 1 >= MAX_ARGC /\ a < n
        BY <2>1, <3>2, <4>1, <4>3
      <4> QED
        BY <1>1, <4>3, <4>4 DEF Total
    <3>3. Excused
      BY <2>3, <2>4, <3>2 DEF Excused
    <3> QED
      BY <1>1, <1>2, <1>3, <3>1, <3>3 DEF CmdInv
  <2>5. CASE ~(argument = Garbled \/ (passed /\ slot >= MAX_ARGC))
    <3>1. /\ argsz' = IF passed THEN Put(argsz, slot, len(argument) + 1) ELSE argsz
          /\ found_separator' = found /\ separator_pos' = pos
          /\ at' = at + 1 /\ counter' = counter + 1 /\ call' = call
      BY <1>5, <2>5, Zenon DEF cmdsize_arg
    <3>2. /\ ArgLoop' /\ Passed \in Nat \ {0}
          /\ passed => slot = Passed /\ Passed' = Passed + 1 /\ argument = Wanted(Passed)
          /\ ~passed => Passed' = Passed
      BY <1>1, <1>2, <2>1, <2>2, <3>1, ArgStep
    <3>3. SizesTo(Passed)'
      <4>1. CASE passed
        <5> DEFINE f == Put(argsz, Passed, len(argument) + 1)
        <5>1. argsz' = f
          BY <3>1, <3>2, <4>1
        <5>2. Passed \in Nat /\ DOMAIN argsz = 0 .. Passed - 1
          BY <2>2, <3>2 DEF SizesTo
        <5>3. /\ DOMAIN f = 0 .. (Passed + 1) - 1
              /\ f[Passed] = len(argument) + 1
              /\ \A j \in 0 .. Passed - 1 : f[j] = argsz[j]
          BY <5>2, PutNext
        <5> HIDE DEF f
        <5>4. PICK m \in Nat : m = Passed /\ Passed' = m + 1
          BY <3>2, <4>1
        <5>5. f[m] = len(Wanted(m)) + 1
          BY <3>2, <4>1, <5>3, <5>4
        <5>6. \A j \in 0 .. m - 1 : f[j] = len(Wanted(j)) + 1
          BY <2>2, <5>3, <5>4 DEF SizesTo
        <5>7. \A j \in 0 .. (m + 1) - 1 : j = m \/ j \in 0 .. m - 1
          OBVIOUS
        <5>8. \A j \in 0 .. (m + 1) - 1 : f[j] = len(Wanted(j)) + 1
          BY <5>5, <5>6, <5>7, Zenon
        <5> QED
          BY <1>3, <5>1, <5>3, <5>4, <5>8 DEF SizesTo
      <4>2. CASE ~passed
        BY <1>3, <2>2, <3>1, <3>2, <4>2 DEF SizesTo
      <4> QED
        BY <4>1, <4>2
    <3> QED
      BY <1>1, <1>2, <2>1, <2>2, <3>1, <3>2, <3>3 DEF CmdInv
  <2> QED
    BY <2>4, <2>5
<1>6. CASE cmdsize_args_end
  <2>1. /\ call = "size_args" /\ call' = "size_vars" /\ at = Len(args)
        /\ at' = 0 /\ counter' = 0 /\ argsz' = argsz /\ envsz' = envsz
        /\ argc' = IF found_separator /\ counter >= separator_pos
                   THEN counter - separator_pos + 1 ELSE 1
    BY <1>6 DEF cmdsize_args_end, Restart
  <2>2. /\ envsz = <<>> /\ argv = <<>> /\ envp = <<>>
        /\ ArgLoop /\ SizesTo(Passed)
    BY <2>1 DEF CmdInv
  <2>3. Passed = Total /\ argc' = Total
    BY <1>1, <2>1, <2>2, ArgsEnd
  <2>4. SizesTo(Total)'
    BY <1>3, <2>1, <2>2, <2>3 DEF SizesTo
  <2>5. VarLoop' /\ VarSizesTo(counter)'
    <3>1. Len(environ) \in Nat
      BY <1>1
    <3>2. 0 = IF 0 < MAX_ENVC THEN 0 ELSE MAX_ENVC
      BY <1>1
    <3>3. VarLoop'
      BY <1>2, <2>1, <3>1, <3>2 DEF VarLoop
    <3> QED
      BY <2>1, <2>2, <3>3 DEF VarSizesTo
  <2> QED
    BY <1>1, <1>2, <1>3, <2>1, <2>2, <2>3, <2>4, <2>5 DEF CmdInv
<1>7. CASE cmdsize_var
  <2> DEFINE variable == environ[at + 1]
  <2>1. /\ call = "size_vars" /\ at < Len(environ)
        /\ argc' = argc /\ argsz' = argsz
    BY <1>7 DEF cmdsize_var
  <2>2. /\ argv = <<>> /\ envp = <<>> /\ argc = Total /\ SizesTo(Total)
        /\ VarLoop /\ VarSizesTo(counter)
    BY <2>1 DEF CmdInv
  <2>3. at + 1 \in DOMAIN environ
    <3>1. DOMAIN environ = 1 .. Len(environ) /\ Len(environ) \in Nat
      BY <1>1
    <3> QED
      BY <2>1, <2>2, <3>1 DEF VarLoop
  <2>4. SizesTo(Total)'
    BY <1>3, <2>1, <2>2 DEF SizesTo
  <2>5. CASE variable = GarbledVariable
    <3>1. call' = "panicked"
      BY <1>7, <2>5, Zenon DEF cmdsize_var, Panic
    <3>2. Excused
      BY <2>3, <2>5 DEF Excused
    <3> QED
      BY <1>1, <1>2, <1>3, <3>1, <3>2 DEF CmdInv
  <2>6. CASE variable # GarbledVariable
    <3>1. /\ IF counter < MAX_ENVC
             THEN /\ envsz' = Put(envsz, counter, variable.key + variable.value + 2)
                  /\ counter' = counter + 1
             ELSE UNCHANGED <<envsz, counter>>
          /\ at' = at + 1 /\ call' = call
      BY <1>7, <2>6, Zenon DEF cmdsize_var
    <3>2. counter' = IF counter < MAX_ENVC THEN counter + 1 ELSE counter
      BY <3>1, Zenon
    <3>3. VarLoop' /\ counter \in Nat /\ (counter < MAX_ENVC => counter = at)
      BY <1>1, <1>2, <2>1, <2>2, <3>1, <3>2, VarStep
    <3>4. VarSizesTo(counter)'
      <4>1. CASE counter < MAX_ENVC
        <5> DEFINE f == Put(envsz, counter, variable.key + variable.value + 2)
        <5>1. envsz' = f /\ counter' = counter + 1 /\ counter = at
          BY <3>1, <3>3, <4>1
        <5>2. counter \in Nat /\ DOMAIN envsz = 0 .. counter - 1
          BY <2>2, <3>3 DEF VarSizesTo
        <5>3. /\ DOMAIN f = 0 .. (counter + 1) - 1
              /\ f[counter] = variable.key + variable.value + 2
              /\ \A j \in 0 .. counter - 1 : f[j] = envsz[j]
          BY <5>2, PutNext
        <5> HIDE DEF f
        <5>4. \A j \in 0 .. counter - 1 : f[j] = environ[j + 1].key + environ[j + 1].value + 2
          BY <2>2, <5>3 DEF VarSizesTo
        <5>5. f[counter] = environ[counter + 1].key + environ[counter + 1].value + 2
          BY <5>1, <5>3
        <5>6. \A j \in 0 .. (counter + 1) - 1 : j = counter \/ j \in 0 .. counter - 1
          BY <3>3
        <5>7. \A j \in 0 .. (counter + 1) - 1 :
                 f[j] = environ[j + 1].key + environ[j + 1].value + 2
          BY <5>4, <5>5, <5>6, Zenon
        <5> QED
          BY <1>2, <5>1, <5>3, <5>7 DEF VarSizesTo
      <4>2. CASE ~(counter < MAX_ENVC)
        BY <1>2, <2>2, <3>1, <4>2 DEF VarSizesTo
      <4> QED
        BY <4>1, <4>2
    <3> QED
      BY <1>1, <1>2, <1>3, <2>1, <2>2, <2>4, <3>1, <3>3, <3>4 DEF CmdInv
  <2> QED
    BY <2>5, <2>6
<1>8. CASE cmdsize_vars_end
  <2>1. /\ call = "size_vars" /\ call' = "sized" /\ at = Len(environ)
        /\ envc' = counter /\ argc' = argc /\ argsz' = argsz /\ envsz' = envsz
    BY <1>8 DEF cmdsize_vars_end
  <2>2. /\ argv = <<>> /\ envp = <<>> /\ argc = Total /\ SizesTo(Total)
        /\ VarLoop /\ VarSizesTo(counter)
    BY <2>1 DEF CmdInv
  <2>3. counter = EnvTotal
    BY <2>1, <2>2 DEF VarLoop, EnvTotal
  <2>4. SizesTo(Total)'
    BY <1>3, <2>1, <2>2 DEF SizesTo
  <2>5. VarSizesTo(EnvTotal)'
    BY <1>2, <1>3, <2>1, <2>2, <2>3 DEF VarSizesTo
  <2> QED
    BY <1>1, <1>2, <1>3, <2>1, <2>2, <2>3, <2>4, <2>5 DEF CmdInv
<1> QED
  BY <1>4, <1>5, <1>6, <1>7, <1>8

\* The steps of cmdval: every string fits, because both calls go through the same
\* arguments and variables in the same way.
LEMMA CmdvalKeeps ==
    ASSUME CmdInv,
           \/ cmdval \/ cmdval_arg \/ cmdval_args_end
           \/ cmdval_var \/ cmdval_vars_end
    PROVE  CmdInv'
<1>1. /\ args \in Seq(Word) /\ environ \in Seq(Variable) /\ overrun = FALSE
      /\ MAX_ARGC \in Nat /\ MAX_ENVC \in Nat
  BY LimitAssumption DEF CmdInv
<1>2. /\ args' = args /\ environ' = environ
      /\ argc' = argc /\ argsz' = argsz /\ envc' = envc /\ envsz' = envsz
  BY DEF cmdval, cmdval_arg, cmdval_args_end, cmdval_var,
         cmdval_vars_end, inputs, sizeVars
<1>3. /\ Sep' = Sep /\ Total' = Total /\ EnvTotal' = EnvTotal /\ (Excused' <=> Excused)
      /\ \A k : Wanted(k)' = Wanted(k)
  BY <1>2, WantedUnchanged
<1>4. call \in {"sized", "copy_args", "copy_vars"}
  BY DEF cmdval, cmdval_arg, cmdval_args_end, cmdval_var, cmdval_vars_end
<1>5. argc = Total /\ SizesTo(Total) /\ envc = EnvTotal /\ VarSizesTo(EnvTotal)
  BY <1>4 DEF CmdInv
<1>6. (argc = Total /\ SizesTo(Total) /\ envc = EnvTotal /\ VarSizesTo(EnvTotal))'
  BY <1>2, <1>3, <1>5 DEF SizesTo, VarSizesTo
<1>7. Total \in Nat \ {0} /\ EnvTotal \in Nat
  <2>1. Sep \in 0 .. Len(args) /\ Len(args) \in Nat /\ Len(environ) \in Nat
    BY <1>1, SepIsFirst
  <2> QED
    BY <1>1, <2>1 DEF Total, EnvTotal
<1>8. ASSUME NEW k \in 0 .. Total - 1
      PROVE  Fits(k, argc, argsz, len(Wanted(k)) + 1)
  <2>1. k < argc /\ k \in DOMAIN argsz /\ argsz[k] = len(Wanted(k)) + 1
    BY <1>5, <1>7 DEF SizesTo
  <2>2. len(Wanted(k)) \in Nat
    BY DEF len
  <2>3. len(Wanted(k)) + 1 <= argsz[k]
    BY <2>1, <2>2
  <2> QED
    BY <2>1, <2>3 DEF Fits
<1>9. CASE cmdval
  <2>1. /\ call = "sized" /\ call' = "copy_args" /\ envp' = envp
        /\ at' = 0 /\ counter' = 0 /\ found_separator' = FALSE
        /\ argv' = Put(argv, 0, path)
        /\ overrun' = ~Fits(0, argc, argsz, len(path) + 1)
    BY <1>9 DEF cmdval, Restart
  <2>2. argv = <<>> /\ envp = <<>>
    BY <2>1 DEF CmdInv
  <2>3. ArgLoop' /\ Passed' = 1
    BY <1>1, <1>2, <2>1, ArgsBegin
  <2>4. Wanted(0) = path
    BY DEF Wanted
  <2>5. overrun' = FALSE
    <3>1. 0 \in 0 .. Total - 1
      BY <1>7
    <3>2. Fits(0, argc, argsz, len(path) + 1)
      BY <1>8, <2>4, <3>1
    <3> QED
      BY <2>1, <3>2, Zenon
  <2>6. DOMAIN argv' = 0 .. 1 - 1 /\ argv'[0] = Wanted(0)
    <3>1. DOMAIN argv = {} /\ 0 .. (0 + 1) - 1 = {0}
      BY <2>2
    <3> QED
      <4>1. /\ DOMAIN Put(argv, 0, path) = 0 .. (0 + 1) - 1
            /\ Put(argv, 0, path)[0] = path
        BY <3>1 DEF Put
      <4> QED
        BY <2>1, <2>4, <4>1
  <2>7. StringsTo(Passed)'
    BY <1>3, <2>3, <2>6 DEF StringsTo
  <2> QED
    BY <1>1, <1>2, <1>6, <2>1, <2>2, <2>3, <2>5, <2>7 DEF CmdInv
<1>10. CASE cmdval_arg
  <2> DEFINE argument == args[at + 1]
             found == found_separator \/ argument = "--"
             pos == IF ~found_separator /\ argument = "--" THEN counter + 1 ELSE separator_pos
             slot == counter - pos + 1
             passed == found /\ counter >= pos
  <2>1. call = "copy_args" /\ at < Len(args) /\ envp' = envp
    BY <1>10 DEF cmdval_arg
  <2>2. envp = <<>> /\ ArgLoop /\ StringsTo(Passed)
    BY <2>1 DEF CmdInv
  <2>3. at + 1 \in DOMAIN args
    <3>1. DOMAIN args = 1 .. Len(args) /\ Len(args) \in Nat
      BY <1>1
    <3> QED
      BY <2>1, <2>2, <3>1 DEF ArgLoop
  <2>4. CASE argument = Garbled
    <3>1. call' = "panicked" /\ overrun' = overrun
      BY <1>10, <2>4, Zenon DEF cmdval_arg, Panic
    <3>2. Excused
      BY <2>3, <2>4 DEF Excused
    <3> QED
      BY <1>1, <1>2, <1>3, <3>1, <3>2 DEF CmdInv
  <2>5. CASE argument # Garbled
    <3>1. /\ IF passed
             THEN /\ argv' = Put(argv, slot, argument)
                  /\ overrun' = (overrun \/ ~Fits(slot, argc, argsz, len(argument) + 1))
             ELSE UNCHANGED <<argv, overrun>>
          /\ found_separator' = found /\ separator_pos' = pos
          /\ at' = at + 1 /\ counter' = counter + 1 /\ call' = call
      BY <1>10, <2>5, Zenon DEF cmdval_arg
    <3>2. /\ ArgLoop' /\ Passed \in Nat \ {0}
          /\ passed => /\ slot = Passed /\ Passed' = Passed + 1
                       /\ argument = Wanted(Passed) /\ Passed < Total
          /\ ~passed => Passed' = Passed
      BY <1>1, <1>2, <2>1, <2>2, <3>1, ArgStep
    <3>3. StringsTo(Passed)' /\ overrun' = FALSE
      <4>1. CASE passed
        <5> DEFINE f == Put(argv, Passed, argument)
        <5>1. argv' = f
          BY <3>1, <3>2, <4>1
        <5>2. Passed \in Nat /\ DOMAIN argv = 0 .. Passed - 1
          BY <2>2, <3>2 DEF StringsTo
        <5>3. /\ DOMAIN f = 0 .. (Passed + 1) - 1
              /\ f[Passed] = argument
              /\ \A j \in 0 .. Passed - 1 : f[j] = argv[j]
          BY <5>2, PutNext
        <5> HIDE DEF f
        <5>4. PICK m \in Nat : m = Passed /\ Passed' = m + 1
          BY <3>2, <4>1
        <5>5. f[m] = Wanted(m)
          BY <3>2, <4>1, <5>3, <5>4
        <5>6. \A j \in 0 .. m - 1 : f[j] = Wanted(j)
          BY <2>2, <5>3, <5>4 DEF StringsTo
        <5>7. \A j \in 0 .. (m + 1) - 1 : j = m \/ j \in 0 .. m - 1
          OBVIOUS
        <5>8. \A j \in 0 .. (m + 1) - 1 : f[j] = Wanted(j)
          BY <5>5, <5>6, <5>7, Zenon
        <5>9. StringsTo(Passed)'
          BY <1>3, <5>1, <5>3, <5>4, <5>8 DEF StringsTo
        <5>10. Passed \in 0 .. Total - 1
          BY <1>7, <3>2, <4>1
        <5>11. Fits(slot, argc, argsz, len(argument) + 1)
          BY <1>8, <3>2, <4>1, <5>10
        <5>12. overrun' = (overrun \/ ~Fits(slot, argc, argsz, len(argument) + 1))
          BY <3>1, <4>1, Zenon
        <5> QED
          BY <1>1, <5>9, <5>11, <5>12
      <4>2. CASE ~passed
        BY <1>1, <1>3, <2>2, <3>1, <3>2, <4>2 DEF StringsTo
      <4> QED
        BY <4>1, <4>2
    <3> QED
      BY <1>1, <1>2, <1>6, <2>1, <2>2, <3>1, <3>2, <3>3 DEF CmdInv
  <2> QED
    BY <2>4, <2>5
<1>11. CASE cmdval_args_end
  <2>1. /\ call = "copy_args" /\ call' = "copy_vars" /\ at = Len(args)
        /\ at' = 0 /\ counter' = 0 /\ argv' = argv /\ envp' = envp /\ overrun' = overrun
    BY <1>11 DEF cmdval_args_end, Restart, copyVars
  <2>2. envp = <<>> /\ ArgLoop /\ StringsTo(Passed)
    BY <2>1 DEF CmdInv
  <2>3. Passed = Total
    BY <1>1, <2>1, <2>2, ArgsEnd
  <2>4. StringsTo(Total)'
    BY <1>3, <2>1, <2>2, <2>3 DEF StringsTo
  <2>5. VarLoop' /\ VarsTo(counter)'
    <3>1. Len(environ) \in Nat
      BY <1>1
    <3>2. 0 = IF 0 < MAX_ENVC THEN 0 ELSE MAX_ENVC
      BY <1>1
    <3>3. VarLoop'
      BY <1>2, <2>1, <3>1, <3>2 DEF VarLoop
    <3> QED
      BY <2>1, <2>2, <3>3 DEF VarsTo
  <2> QED
    BY <1>1, <1>2, <1>6, <2>1, <2>4, <2>5 DEF CmdInv
<1>12. CASE cmdval_var
  <2> DEFINE variable == environ[at + 1]
             bytes == variable.key + 1 + variable.value + 1
  <2>1. call = "copy_vars" /\ at < Len(environ) /\ argv' = argv
    BY <1>12 DEF cmdval_var
  <2>2. StringsTo(Total) /\ VarLoop /\ VarsTo(counter)
    BY <2>1 DEF CmdInv
  <2>3. at + 1 \in DOMAIN environ /\ variable \in Variable
    <3>1. DOMAIN environ = 1 .. Len(environ) /\ Len(environ) \in Nat
      BY <1>1
    <3>2. at + 1 \in DOMAIN environ
      BY <2>1, <2>2, <3>1 DEF VarLoop
    <3> QED
      BY <1>1, <3>1, <3>2
  <2>4. StringsTo(Total)'
    BY <1>3, <2>1, <2>2 DEF StringsTo
  <2>5. CASE variable = GarbledVariable
    <3>1. call' = "panicked" /\ overrun' = overrun
      BY <1>12, <2>5, Zenon DEF cmdval_var, Panic
    <3>2. Excused
      BY <2>3, <2>5 DEF Excused
    <3> QED
      BY <1>1, <1>2, <1>3, <3>1, <3>2 DEF CmdInv
  <2>6. CASE variable # GarbledVariable
    <3>1. /\ IF counter < MAX_ENVC
             THEN /\ envp' = Put(envp, counter, variable)
                  /\ overrun' = (overrun \/ ~Fits(counter, envc, envsz, bytes))
                  /\ counter' = counter + 1
             ELSE UNCHANGED <<envp, overrun, counter>>
          /\ at' = at + 1 /\ call' = call
      BY <1>12, <2>6, Zenon DEF cmdval_var
    <3>2. counter' = IF counter < MAX_ENVC THEN counter + 1 ELSE counter
      BY <3>1, Zenon
    <3>3. /\ VarLoop' /\ counter \in Nat
          /\ counter < MAX_ENVC => counter = at /\ counter < EnvTotal
      BY <1>1, <1>2, <2>1, <2>2, <3>1, <3>2, VarStep
    <3>4. VarsTo(counter)' /\ overrun' = FALSE
      <4>1. CASE counter < MAX_ENVC
        <5> DEFINE f == Put(envp, counter, variable)
        <5>1. /\ envp' = f /\ counter' = counter + 1 /\ counter = at /\ counter < EnvTotal
              /\ overrun' = (overrun \/ ~Fits(counter, envc, envsz, bytes))
          BY <3>1, <3>3, <4>1, Zenon
        <5>2. counter \in Nat /\ DOMAIN envp = 0 .. counter - 1
          BY <2>2, <3>3 DEF VarsTo
        <5>3. /\ DOMAIN f = 0 .. (counter + 1) - 1
              /\ f[counter] = variable
              /\ \A j \in 0 .. counter - 1 : f[j] = envp[j]
          <6>1. \A x : /\ DOMAIN Put(envp, counter, x) = 0 .. (counter + 1) - 1
                       /\ Put(envp, counter, x)[counter] = x
                       /\ \A j \in 0 .. counter - 1 : Put(envp, counter, x)[j] = envp[j]
            BY <5>2, PutNext
          <6> QED
            BY <6>1, Zenon
        <5> HIDE DEF f
        <5>4. \A j \in 0 .. counter - 1 : f[j] = environ[j + 1]
          BY <2>2, <5>3 DEF VarsTo
        <5>5. f[counter] = environ[counter + 1]
          BY <5>1, <5>3
        <5>6. \A j \in 0 .. (counter + 1) - 1 : j = counter \/ j \in 0 .. counter - 1
          BY <3>3
        <5>7. \A j \in 0 .. (counter + 1) - 1 : f[j] = environ[j + 1]
          BY <5>4, <5>5, <5>6, Zenon
        <5>8. VarsTo(counter)'
          BY <1>2, <5>1, <5>3, <5>7 DEF VarsTo
        <5>9. counter \in 0 .. EnvTotal - 1
          BY <1>7, <3>3, <5>1
        <5>10. /\ counter < envc /\ counter \in DOMAIN envsz
               /\ envsz[counter] = variable.key + variable.value + 2
          BY <1>5, <5>1, <5>9 DEF VarSizesTo
        <5>11. bytes <= envsz[counter]
          <6>1. PICK key \in Nat, value \in Nat : variable.key = key /\ variable.value = value
            BY <2>3, VariableLengths
          <6> QED
            BY <5>10, <6>1
        <5>12. Fits(counter, envc, envsz, bytes)
          BY <5>10, <5>11 DEF Fits
        <5> QED
          BY <1>1, <5>1, <5>8, <5>12
      <4>2. CASE ~(counter < MAX_ENVC)
        BY <1>1, <1>2, <2>2, <3>1, <4>2 DEF VarsTo
      <4> QED
        BY <4>1, <4>2
    <3> QED
      BY <1>1, <1>2, <1>6, <2>1, <2>4, <3>1, <3>3, <3>4 DEF CmdInv
  <2> QED
    BY <2>5, <2>6
<1>13. CASE cmdval_vars_end
  <2>1. /\ call = "copy_vars" /\ call' = "done" /\ at = Len(environ)
        /\ argv' = argv /\ envp' = envp /\ overrun' = overrun
    BY <1>13 DEF cmdval_vars_end, copyVars
  <2>2. StringsTo(Total) /\ VarLoop /\ VarsTo(counter)
    BY <2>1 DEF CmdInv
  <2>3. counter = EnvTotal
    BY <2>1, <2>2 DEF VarLoop, EnvTotal
  <2>4. StringsTo(Total)'
    BY <1>3, <2>1, <2>2 DEF StringsTo
  <2>5. VarsTo(EnvTotal)'
    BY <1>2, <1>3, <2>1, <2>2, <2>3 DEF VarsTo
  <2> QED
    BY <1>1, <1>2, <1>6, <2>1, <2>4, <2>5 DEF CmdInv
<1> QED
  BY <1>9, <1>10, <1>11, <1>12, <1>13

\* Only the guest's calls change anything.
LEMMA CmdNextInv ==
    ASSUME CmdInv, [CmdNext]_cmdVars
    PROVE  CmdInv'
<1>1. ASSUME UNCHANGED cmdVars PROVE CmdInv'
  <2>1. /\ args' = args /\ environ' = environ /\ call' = call /\ at' = at /\ counter' = counter
        /\ found_separator' = found_separator /\ separator_pos' = separator_pos
        /\ argc' = argc /\ argsz' = argsz /\ envc' = envc /\ envsz' = envsz
        /\ argv' = argv /\ envp' = envp /\ overrun' = overrun
    BY <1>1 DEF cmdVars, inputs, locals, sizeVars, copyVars
  <2>2. /\ Sep' = Sep /\ Total' = Total /\ EnvTotal' = EnvTotal /\ (Excused' <=> Excused)
        /\ \A k : Wanted(k)' = Wanted(k)
    BY <2>1, WantedUnchanged
  <2>3. (ArgLoop <=> ArgLoop') /\ (VarLoop <=> VarLoop') /\ Passed' = Passed
    BY <2>1, <2>2 DEF ArgLoop, VarLoop, Passed
  <2>4. /\ SizesTo(Passed)' <=> SizesTo(Passed)
        /\ SizesTo(Total)' <=> SizesTo(Total)
        /\ StringsTo(Passed)' <=> StringsTo(Passed)
        /\ StringsTo(Total)' <=> StringsTo(Total)
    BY <2>1, <2>2, <2>3 DEF SizesTo, StringsTo
  <2>5. /\ VarSizesTo(counter)' <=> VarSizesTo(counter)
        /\ VarSizesTo(EnvTotal)' <=> VarSizesTo(EnvTotal)
        /\ VarsTo(counter)' <=> VarsTo(counter)
        /\ VarsTo(EnvTotal)' <=> VarsTo(EnvTotal)
    BY <2>1, <2>2 DEF VarSizesTo, VarsTo
  <2> QED
    BY <2>1, <2>2, <2>3, <2>4, <2>5 DEF CmdInv
<1>2. CASE CmdNext
  BY <1>2, CmdsizeKeeps, CmdvalKeeps DEF CmdNext
<1> QED
  BY <1>1, <1>2

\* The guest gets exactly the arguments behind the first "--", in rooms of the
\* sizes that cmdsize has announced, whatever the arguments and the environment.
THEOREM CmdvalAlwaysFits == CmdSpec => []CmdvalFits
<1>1. args \in Seq(Word) /\ environ \in Seq(Variable) /\ CmdInit => CmdInv
  BY DEF CmdInit, CmdInv
<1>2. CmdInv /\ [CmdNext]_cmdVars => CmdInv'
  BY CmdNextInv
<1> QED
  BY <1>1, <1>2, GivesCmdval, PTL DEF CmdSpec, Variable, Word
===============================================================================
