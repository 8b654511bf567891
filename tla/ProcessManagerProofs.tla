------------------------ MODULE ProcessManagerProofs ------------------------
(***************************************************************************)
(* Proofs about ProcessManager, for any number of names, threads and       *)
(* processes.  The invariant follows a name from the check in start to the *)
(* record: while a thread is between the two it holds the lock, the name   *)
(* has no record, and no process of that name but its own child is alive   *)
(* and not leaked (LiveIsTracked, which is inductive with the rest).       *)
(***************************************************************************)
EXTENDS ProcessManager, TLAPS

\* Only the thread that holds the lock is inside it.
LockInv == \A t \in Threads : pc[t] \in Critical <=> lock = t

\* A thread in a call was called with a name.
ArgInv == \A t \in Threads : pc[t] # "idle" => arg[t] \in Names

\* A record is the record of a process spawned for its name.
RecordInv ==
    \A n \in Names : Tracked(n) => os[processes[n]] # "unborn" /\ owner[processes[n]] = n

\* What the thread inside a start has found or done.
StartInv ==
    \A t \in Threads :
        /\ pc[t] \in {"spawn", "record"} => ~Tracked(arg[t])
        /\ pc[t] = "record" =>
            /\ child[t] # NoProc
            /\ os[child[t]] # "unborn"
            /\ owner[child[t]] = arg[t]

IInv ==
    /\ TypeOK
    /\ LockInv
    /\ ArgInv
    /\ RecordInv
    /\ StartInv
    /\ LiveIsTracked

-----------------------------------------------------------------------------
(* The invariant *)

\* Nothing is tracked, nothing is alive, and the lock is free.
LEMMA InitIInv == Init => IInv
  BY PMAssumption DEF Init, IInv, TypeOK, LockInv, ArgInv, RecordInv, StartInv, Tracked,
     LiveIsTracked, Held, Live, Critical

\* A call puts its thread in front of the lock and changes nothing else.
LEMMA CallKeeps ==
  ASSUME IInv, NEW t \in Threads, NEW n \in Names, NEW f \in BOOLEAN,
         CallStart(t, n) \/ CallStop(t, n, f)
  PROVE  IInv'
  BY PMAssumption DEF CallStart, CallStop, IInv, TypeOK, LockInv, ArgInv, RecordInv,
     StartInv, Tracked, LiveIsTracked, Held, Live, Critical

\* A process that ends keeps its record.
LEMMA ExitKeeps ==
  ASSUME IInv, NEW p \in Procs, ProcessExits(p)
  PROVE  IInv'
  BY DEF ProcessExits, IInv, TypeOK, LockInv, ArgInv, RecordInv, StartInv, Tracked,
     LiveIsTracked, Held, Live, Critical, threadVars

LEMMA StartKeeps ==
  ASSUME IInv, NEW t \in Threads, StartStep(t)
  PROVE  IInv'
<1> USE PMAssumption DEF IInv, TypeOK, LockInv, ArgInv, RecordInv, StartInv, Tracked,
     LiveIsTracked, Held, Live, Alive, Critical, Return, Take, Release, Pass, Untrack
<1>1. CASE StartAlreadyRunning(t)
  BY <1>1 DEF StartAlreadyRunning
<1>2. CASE StartChecked(t)
  BY <1>2 DEF StartChecked
<1>3. CASE Spawn(t)
  BY <1>3 DEF Spawn
<1>4. CASE SpawnFails(t)
  BY <1>4 DEF SpawnFails
<1>5. CASE Record(t)
  BY <1>5 DEF Record
<1>6. CASE ReaderThreadFails(t)
  BY <1>6 DEF ReaderThreadFails
<1> QED
  BY <1>1, <1>2, <1>3, <1>4, <1>5, <1>6 DEF StartStep

LEMMA StopKeeps ==
  ASSUME IInv, NEW t \in Threads, StopStep(t)
  PROVE  IInv'
<1> USE PMAssumption DEF IInv, TypeOK, LockInv, ArgInv, RecordInv, StartInv, Tracked,
     LiveIsTracked, Held, Live, Alive, Critical, Return, Take, Release, Pass, Untrack, Kill
<1>1. CASE StopNotTracked(t)
  BY <1>1 DEF StopNotTracked
<1>2. CASE StopAlreadyExited(t)
  BY <1>2 DEF StopAlreadyExited
<1>3. CASE StopAlive(t)
  BY <1>3 DEF StopAlive
<1>4. CASE Signal(t)
  BY <1>4 DEF Signal
<1>5. CASE WaitExpires(t)
  BY <1>5 DEF WaitExpires
<1>6. CASE WaitReturns(t)
  BY <1>6 DEF WaitReturns
<1>7. CASE SignalRaises(t)
  BY <1>7 DEF SignalRaises
<1> QED
  BY <1>1, <1>2, <1>3, <1>4, <1>5, <1>6, <1>7 DEF StopStep

LEMMA StutterKeeps ==
  ASSUME IInv, UNCHANGED vars
  PROVE  IInv'
  BY DEF vars, IInv, TypeOK, LockInv, ArgInv, RecordInv, StartInv, Tracked,
     LiveIsTracked, Held, Live, Critical

\* A recorded process and a process being recorded are never of one name.
LEMMA OneProcess == IInv => OneProcessPerName
<1> SUFFICES ASSUME IInv, NEW p \in Held, NEW q \in Held, owner[p] = owner[q]
             PROVE  p = q
  BY DEF OneProcessPerName
<1> DEFINE Recording(r) ==
      \E t \in Threads : lock = t /\ pc[t] = "record" /\ child[t] = r
<1>1. ASSUME NEW r \in Held, NEW s \in Held, owner[r] = owner[s], Recording(r)
      PROVE  processes[owner[s]] # s
  <2>1. PICK t \in Threads : lock = t /\ pc[t] = "record" /\ child[t] = r
    BY <1>1
  <2>2. owner[r] = arg[t] /\ processes[arg[t]] = NoProc
    BY <2>1 DEF IInv, StartInv, Tracked
  <2> QED
    BY <1>1, <2>2, PMAssumption DEF Held, Live
<1>2. CASE processes[owner[p]] = p /\ processes[owner[q]] = q
  BY <1>2
<1>3. CASE Recording(p) /\ Recording(q)
  BY <1>3
<1> QED
  BY <1>1, <1>2, <1>3 DEF IInv, LiveIsTracked

-----------------------------------------------------------------------------
(* Theorems *)

\* The inductive invariant.
THEOREM Invariance == Spec => []IInv
<1>1. IInv /\ [Next]_vars => IInv'
  <2> SUFFICES ASSUME IInv, [Next]_vars PROVE IInv'
    OBVIOUS
  <2>1. CASE \E t \in Threads : StartStep(t) \/ StopStep(t)
    BY <2>1, StartKeeps, StopKeeps
  <2>2. CASE \E t \in Threads, n \in Names :
               CallStart(t, n) \/ \E f \in BOOLEAN : CallStop(t, n, f)
    BY <2>2, CallKeeps
  <2>3. CASE \E p \in Procs : ProcessExits(p)
    BY <2>3, ExitKeeps
  <2>4. CASE UNCHANGED vars
    BY <2>4, StutterKeeps
  <2> QED
    BY <2>1, <2>2, <2>3, <2>4 DEF Next
<1> QED
  BY InitIInv, <1>1, PTL DEF Spec

\* Type correctness.
THEOREM TypeCorrect == Spec => []TypeOK
  BY Invariance, PTL DEF IInv

\* The spawn race is fixed: no two processes of one name, leaked ones apart.
THEOREM SpawnRaceFixed == Spec => []OneProcessPerName
  BY Invariance, OneProcess, PTL

\* Every process alive that is not leaked has a record, or gets it before the
\* lock is released.
THEOREM NoOrphan == Spec => []LiveIsTracked
  BY Invariance, PTL DEF IInv

\* stop() says True only when no process of that name is alive, or only leaked.
THEOREM StopTellsTheTruth == Spec => StopIsTrue
<1>1. ASSUME IInv, Next, NEW t \in Threads, result[t] # "stopped", result'[t] = "stopped",
             NEW p \in Held'
      PROVE  owner[p] # arg[t]
  <2>1. StopAlreadyExited(t) \/ WaitReturns(t)
    BY <1>1 DEF Next, StartStep, StopStep, CallStart, CallStop, StartAlreadyRunning,
       StartChecked, Spawn, SpawnFails, Record, ReaderThreadFails, StopNotTracked,
       StopAlreadyExited, StopAlive, Signal, WaitExpires, WaitReturns, SignalRaises,
       ProcessExits, threadVars, Return, IInv, TypeOK
  <2>2. p \in Held /\ ~Alive(arg[t])
    BY <1>1, <2>1 DEF StopAlreadyExited, WaitReturns, Held, Live
  <2>3. lock \in {NoThread, t} /\ pc[t] # "record"
    BY <2>1 DEF StopAlreadyExited, WaitReturns, Pass, Release
  <2>4. processes[owner[p]] = p
    BY <1>1, <2>2, <2>3, PMAssumption DEF IInv, LiveIsTracked
  <2> QED
    BY <2>2, <2>4 DEF Alive, Held
<1>2. IInv /\ [Next]_vars =>
        [\A t \in Threads :
            result[t] # "stopped" /\ result'[t] = "stopped" =>
                \A p \in Held' : owner[p] # arg[t]]_vars
  BY <1>1
<1> QED
  BY <1>2, Invariance, PTL DEF StopIsTrue, Spec

-----------------------------------------------------------------------------
(* What LockIsReleased rests on *)

\* A stop inside the lock has a record to wait for, and waits without a timeout
\* for a process that it has killed.
StopInv ==
    \A t \in Threads :
        /\ pc[t] \in {"signal", "wait", "reap"} => Tracked(arg[t])
        /\ pc[t] = "reap" => os[processes[arg[t]]] \in {"killed", "exited"}

LEMMA StopInvKept ==
  ASSUME IInv, StopInv, Next
  PROVE  StopInv'
<1> USE PMAssumption DEF IInv, TypeOK, LockInv, ArgInv, StopInv, Tracked, Critical
<1>1. ASSUME NEW t \in Threads, NEW n \in Names, NEW f \in BOOLEAN,
             CallStart(t, n) \/ CallStop(t, n, f)
      PROVE  StopInv'
  BY <1>1 DEF CallStart, CallStop
<1>2. ASSUME NEW t \in Threads, StartStep(t)
      PROVE  StopInv'
  <2> USE DEF Return, Take, Release, Pass, Untrack
  <2>1. CASE StartAlreadyRunning(t) \/ StartChecked(t)
    BY <1>2, <2>1 DEF StartAlreadyRunning, StartChecked
  <2>2. CASE Spawn(t)
    BY <1>2, <2>2 DEF Spawn
  <2>3. CASE SpawnFails(t) \/ ReaderThreadFails(t) \/ Record(t)
    BY <1>2, <2>3 DEF SpawnFails, ReaderThreadFails, Record
  <2> QED
    BY <1>2, <2>1, <2>2, <2>3 DEF StartStep
<1>3. ASSUME NEW t \in Threads, StopStep(t)
      PROVE  StopInv'
  <2> USE DEF Return, Take, Release, Pass, Untrack
  <2>1. CASE StopNotTracked(t) \/ StopAlreadyExited(t) \/ WaitReturns(t) \/ SignalRaises(t)
    BY <1>3, <2>1 DEF StopNotTracked, StopAlreadyExited, WaitReturns, SignalRaises
  <2>2. CASE StopAlive(t)
    BY <1>3, <2>2 DEF StopAlive, Alive, Live
  <2>3. CASE Signal(t)
    BY <1>3, <2>3 DEF Signal, Kill
  <2>4. CASE WaitExpires(t)
    BY <1>3, <2>4 DEF WaitExpires, Kill, Alive, Live
  <2> QED
    BY <1>3, <2>1, <2>2, <2>3, <2>4 DEF StopStep
<1>4. ASSUME NEW p \in Procs, ProcessExits(p)
      PROVE  StopInv'
  BY <1>4 DEF ProcessExits, threadVars, Live
<1> QED
  BY <1>1, <1>2, <1>3, <1>4 DEF Next

\* proc.wait() without a timeout is only called for a process that was killed
\* before it: it holds the lock no longer than the system takes to end that.
THEOREM LastWaitIsForTheKilled == Spec => []StopInv
<1>1. Init => StopInv
  BY DEF Init, StopInv
<1>2. IInv /\ StopInv /\ [Next]_vars => StopInv'
  <2>1. StopInv /\ UNCHANGED vars => StopInv'
    BY DEF StopInv, vars, Tracked, threadVars
  <2> QED
    BY <2>1, StopInvKept
<1> QED
  BY <1>1, <1>2, Invariance, PTL DEF Spec

-----------------------------------------------------------------------------
(* ProcessManager implements ProcessRegistry *)

\* Dropping the record of a dead process, or of none.
LEMMA UntrackForgets ==
  ASSUME TypeOK, RecordInv, NEW n \in Names, ~Alive(n), Untrack(n), UNCHANGED os
  PROVE  \/ Registry!Forget(n)
         \/ processes' = processes /\ TrackedLive' = TrackedLive
<1>1. TrackedLive' = TrackedLive
  BY PMAssumption DEF Untrack, Alive, TrackedLive, Live, TypeOK
<1>2. CASE processes[n] = NoProc
  BY <1>1, <1>2 DEF Untrack, TypeOK
<1>3. CASE processes[n] # NoProc
  BY <1>1, <1>3 DEF Untrack, Alive, TrackedLive, Registry!Forget
<1> QED
  BY <1>2, <1>3

\* A step that changes neither the records nor who is alive.
LEMMA SameRegistry ==
  ASSUME UNCHANGED processes, Live' = Live
  PROVE  processes' = processes /\ TrackedLive' = TrackedLive
  BY DEF TrackedLive

\* Every step is a step of the registry or leaves it alone.
LEMMA StepImplements ==
  ASSUME IInv, Next
  PROVE  \/ Registry!RegistryNext
         \/ processes' = processes /\ TrackedLive' = TrackedLive
<1> USE DEF Registry!RegistryNext, IInv
<1>1. ASSUME NEW t \in Threads,
             StartChecked(t) \/ StopAlreadyExited(t) \/ WaitReturns(t)
      PROVE  \/ \E n \in Names : Registry!Forget(n)
             \/ processes' = processes /\ TrackedLive' = TrackedLive
  <2>1. arg[t] \in Names /\ ~Alive(arg[t]) /\ Untrack(arg[t]) /\ UNCHANGED os
    BY <1>1 DEF StartChecked, StopAlreadyExited, WaitReturns, ArgInv
  <2> QED
    BY <2>1, UntrackForgets
<1>2. ASSUME NEW t \in Threads, Spawn(t)
      PROVE  processes' = processes /\ TrackedLive' = TrackedLive
  <2>1. PICK p \in Procs : os[p] = "unborn" /\ os' = [os EXCEPT ![p] = "running"]
    BY <1>2 DEF Spawn
  <2>2. UNCHANGED processes /\ Live' = Live \cup {p}
    BY <1>2, <2>1 DEF Spawn, Live, TypeOK
  <2>3. \A n \in Names : processes[n] # p
    BY <2>1, PMAssumption DEF RecordInv, Tracked
  <2> QED
    BY <2>2, <2>3 DEF TrackedLive
<1>3. ASSUME NEW t \in Threads, Record(t)
      PROVE  Registry!Register(arg[t], child[t]) /\ arg[t] \in Names /\ child[t] \in Procs
  <2>1. /\ arg[t] \in Names /\ child[t] \in Procs
        /\ processes[arg[t]] = NoProc
        /\ processes' = [processes EXCEPT ![arg[t]] = child[t]]
        /\ Live' = Live
    BY <1>3 DEF Record, ArgInv, StartInv, Tracked, TypeOK, Live
  <2>2. \A n \in Names : processes[n] # child[t]
    <3> SUFFICES ASSUME NEW n \in Names, processes[n] = child[t] PROVE FALSE
      OBVIOUS
    <3>1. owner[child[t]] = n /\ owner[child[t]] = arg[t]
      BY <1>3, <2>1, PMAssumption DEF Record, RecordInv, StartInv, Tracked
    <3> QED
      BY <2>1, <3>1, PMAssumption
  <2>3. TrackedLive' \in {TrackedLive, TrackedLive \cup {child[t]}}
    <3>1. \A n \in Names : processes'[n] = IF n = arg[t] THEN child[t] ELSE processes[n]
      BY <2>1 DEF TypeOK
    <3>2. \A p \in Live : p \in TrackedLive' <=> p \in TrackedLive \/ p = child[t]
      BY <2>1, <3>1, PMAssumption DEF TrackedLive, Live
    <3>3. TrackedLive \subseteq Live /\ TrackedLive' \subseteq Live
      BY <2>1 DEF TrackedLive
    <3>4. CASE child[t] \in Live
      BY <3>2, <3>3, <3>4
    <3>5. CASE child[t] \notin Live
      BY <3>2, <3>3, <3>5
    <3> QED
      BY <3>4, <3>5
  <2> QED
    BY <2>1, <2>2, <2>3, PMAssumption DEF Registry!Register, TrackedLive, Live
<1>4. ASSUME NEW p \in Procs, ProcessExits(p)
      PROVE  \/ Registry!Exit(p)
             \/ processes' = processes /\ TrackedLive' = TrackedLive
  BY <1>4 DEF ProcessExits, Registry!Exit, TrackedLive, Live, TypeOK
<1>5. ASSUME NEW t \in Threads,
             \/ \E n \in Names : CallStart(t, n) \/ \E f \in BOOLEAN : CallStop(t, n, f)
             \/ StartAlreadyRunning(t) \/ SpawnFails(t) \/ ReaderThreadFails(t)
             \/ StopNotTracked(t) \/ StopAlive(t) \/ Signal(t) \/ WaitExpires(t)
             \/ SignalRaises(t)
      PROVE  processes' = processes /\ TrackedLive' = TrackedLive
  <2>1. UNCHANGED processes /\ Live' = Live
    BY <1>5 DEF CallStart, CallStop, StartAlreadyRunning, SpawnFails, ReaderThreadFails,
       StopNotTracked, StopAlive, Signal, WaitExpires, SignalRaises, Kill, Live, TypeOK
  <2> QED
    BY <2>1, SameRegistry
<1> QED
  BY <1>1, <1>2, <1>3, <1>4, <1>5 DEF Next, StartStep, StopStep

\* Whatever the interleaving of starts and stops, their callers see a registry
\* in which a name changes hands only when its process is dead.
THEOREM RegistryImplemented == Spec => ImplementsRegistry
<1>1. Init => Registry!RegistryInit
  BY PMAssumption DEF Init, Registry!RegistryInit, TrackedLive, Live
<1>2. IInv /\ [Next]_vars => [Registry!RegistryNext]_(Registry!regVars)
  <2> SUFFICES ASSUME IInv, [Next]_vars
               PROVE  [Registry!RegistryNext]_(Registry!regVars)
    OBVIOUS
  <2>1. CASE Next
    BY <2>1, StepImplements DEF Registry!regVars
  <2>2. CASE UNCHANGED vars
    BY <2>2 DEF vars, Registry!regVars, TrackedLive, Live
  <2> QED
    BY <2>1, <2>2
<1> QED
  BY <1>1, <1>2, Invariance, PTL DEF Spec, ImplementsRegistry, Registry!RegistrySpec
=============================================================================
