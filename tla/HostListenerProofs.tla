------------------------- MODULE HostListenerProofs -------------------------
(***************************************************************************)
(* Proofs about HostListener, for any number of requests, servers and      *)
(* addresses.  The invariant says what the thread inside the lock has done *)
(* so far (SectionInv), and that only a server that is being shut down is  *)
(* asked to end (AskedInv), so that no loop ends by itself.                *)
(***************************************************************************)
EXTENDS HostListener, TLAPS

\* Only the thread that holds the lock is inside it.
LockInv == \A t \in Threads : pc[t] \in Critical <=> lock = t

SectionInv ==
    \A t \in Threads :
        /\ pc[t] \in {"serve", "publish"} =>
            ~running /\ server # NoServer /\ bound[server] \in Meant(config)
        /\ pc[t] = "serve" => loop[server] = "none"
        /\ pc[t] = "publish" => loop[server] # "none"
        /\ pc[t] = "shutdown" => running /\ server # NoServer

AskedInv ==
    \A s \in Servers : asked[s] =>
        s = server /\ loop[s] # "none" /\ \E t \in Threads : lock = t /\ pc[t] = "shutdown"

IInv ==
    /\ TypeOK
    /\ LockInv
    /\ SectionInv
    /\ AskedInv
    /\ NoStrayListener
    /\ ReportedIsServed

-----------------------------------------------------------------------------
(* The invariant *)

LEMMA InitIInv == Init => IInv
  <1> SUFFICES ASSUME Init PROVE IInv
    OBVIOUS
  <1>1. TypeOK
    BY DEF Init, TypeOK
  <1>2. LockInv /\ SectionInv
    BY HLAssumption DEF Init, LockInv, SectionInv, Critical
  <1>3. AskedInv /\ NoStrayListener
    BY DEF Init, AskedInv, NoStrayListener
  <1>4. ReportedIsServed
    BY DEF Init, ReportedIsServed
  <1> QED
    BY <1>1, <1>2, <1>3, <1>4 DEF IInv

LEMMA CallKeeps ==
    ASSUME IInv, NEW t \in Threads, NEW o \in {"start", "stop", "restart"},
           NEW a \in Asked \cup {NoAddress}, Call(t, o, a)
    PROVE  IInv'
  BY HLAssumption DEF Call, listenerVars, serverVars, IInv, TypeOK, LockInv, SectionInv,
     AskedInv, NoStrayListener, ReportedIsServed, Critical

LEMMA StopKeeps ==
    ASSUME IInv, NEW t \in Threads, StopStep(t)
    PROVE  IInv'
  <1> USE HLAssumption DEF listenerVars, serverVars, IInv, TypeOK, LockInv, SectionInv,
          AskedInv, NoStrayListener, ReportedIsServed, Critical, StopReturns, Return, At,
          Enters
  <1>1. CASE StopNotRunning(t)
    BY <1>1 DEF StopNotRunning
  <1>2. CASE StopAsks(t)
    BY <1>2 DEF StopAsks
  <1>3. CASE StopCloses(t)
    <2>1. pc[t] = "shutdown" /\ lock = t /\ server \in Servers
      BY <1>3 DEF StopCloses
    <2>2. ~asked[server]
      BY <1>3, <2>1 DEF StopCloses
    <2>3. \A s \in Servers : ~asked[s] /\ ~asked'[s]
      BY <1>3, <2>1, <2>2 DEF StopCloses
    <2>4. (NoStrayListener /\ AskedInv)'
      BY <1>3, <2>1, <2>3 DEF StopCloses
    <2>5. TypeOK'
      <3>1. /\ pc' \in [Threads -> {"idle", "stop", "start"} \cup Critical]
            /\ op' \in [Threads -> {"none", "start", "stop", "restart"}]
            /\ addr' \in [Threads -> Asked \cup {NoAddress}]
        BY <1>3 DEF StopCloses
      <3>2. bound' \in [Servers -> Addresses \cup {NoAddress}]
        BY <1>3, <2>1 DEF StopCloses
      <3> QED
        BY <1>3, <3>1, <3>2 DEF StopCloses
    <2>6. (LockInv /\ SectionInv /\ ReportedIsServed)'
      BY <1>3, <2>1 DEF StopCloses
    <2> QED
      BY <2>4, <2>5, <2>6
  <1> QED
    BY <1>1, <1>2, <1>3 DEF StopStep

LEMMA StartKeeps ==
    ASSUME IInv, NEW t \in Threads, StartStep(t)
    PROVE  IInv'
  <1> USE HLAssumption DEF listenerVars, serverVars, IInv, TypeOK, LockInv, SectionInv,
          AskedInv, NoStrayListener, ReportedIsServed, Critical, Return, At, Enters
  <1>1. CASE StartRefused(t)
    BY <1>1 DEF StartRefused
  <1>2. CASE StartBinds(t)
    <2>1. PICK s \in Servers, a \in Meant(addr[t]) :
            /\ bound[s] = NoAddress
            /\ bound' = [bound EXCEPT ![s] = a]
            /\ server' = s
      BY <1>2 DEF StartBinds
    <2>2. /\ lock = NoThread /\ lock' = t /\ ~running /\ UNCHANGED <<running, loop, asked>>
          /\ pc[t] = "start" /\ pc' = [pc EXCEPT ![t] = "serve"]
          /\ config' = addr[t] /\ UNCHANGED <<op, addr>>
      BY <1>2 DEF StartBinds
    <2>3. server = NoServer /\ \A r \in Servers : bound[r] = NoAddress /\ loop[r] = "none"
      BY <2>2
    <2>4. a \in Addresses \cup {NoAddress} /\ config' \in Asked \cup {NoAddress}
      BY <2>1, <2>2 DEF Meant, Asked
    <2>5. TypeOK'
      BY <2>1, <2>2, <2>4
    <2>6. LockInv'
      BY <2>2
    <2>7. SectionInv'
      <3>1. bound'[server'] = a /\ Meant(config') = Meant(addr[t])
        BY <2>1, <2>2
      <3>2. bound'[server'] \in Meant(config')
        BY <2>1, <3>1
      <3>3. \A u \in Threads : u # t => pc'[u] \notin Critical
        BY <2>2
      <3> QED
        BY <2>1, <2>2, <2>3, <3>2, <3>3
    <2>8. (AskedInv /\ NoStrayListener /\ ReportedIsServed)'
      BY <2>1, <2>2, <2>3
    <2> QED
      BY <2>5, <2>6, <2>7, <2>8
  <1>3. CASE BindFails(t)
    BY <1>3 DEF BindFails
  <1>4. CASE StartServes(t)
    BY <1>4 DEF StartServes
  <1>5. CASE ServeFails(t)
    BY <1>5 DEF ServeFails
  <1>6. CASE StartPublishes(t)
    BY <1>6 DEF StartPublishes
  <1> QED
    BY <1>1, <1>2, <1>3, <1>4, <1>5, <1>6 DEF StartStep

LEMMA LoopKeeps ==
    ASSUME IInv, NEW s \in Servers, LoopStep(s)
    PROVE  IInv'
  <1> USE HLAssumption DEF threadVars, listenerVars, IInv, TypeOK, LockInv, SectionInv,
          AskedInv, NoStrayListener, ReportedIsServed, Critical
  <1>1. CASE LoopBegins(s)
    BY <1>1 DEF LoopBegins
  <1>2. CASE LoopEnds(s)
    BY <1>2 DEF LoopEnds
  <1> QED
    BY <1>1, <1>2 DEF LoopStep

THEOREM Invariance == Spec => []IInv
  <1>1. IInv /\ UNCHANGED vars => IInv'
    BY DEF vars, threadVars, listenerVars, serverVars, IInv, TypeOK, LockInv, SectionInv,
       AskedInv, NoStrayListener, ReportedIsServed
  <1>2. IInv /\ [Next]_vars => IInv'
    BY <1>1, CallKeeps, StopKeeps, StartKeeps, LoopKeeps DEF Next
  <1> QED
    BY <1>2, InitIInv, PTL DEF Spec

-----------------------------------------------------------------------------
(* Results *)

\* Type correctness.
THEOREM TypeCorrect == Spec => []TypeOK
  BY Invariance, PTL DEF IInv

\* The portal can stop whatever listens.
THEOREM NoListenerIsLost == Spec => []NoStrayListener
  BY Invariance, PTL DEF IInv

\* A listener runs if and only if it is reported, and at the address reported if
\* no port 0 was asked for, whenever the lock is free.
THEOREM ReportIsTrue == Spec => []ReportedIsServed
  BY Invariance, PTL DEF IInv

\* What ShutdownEnds rests on: whoever waits in shutdown() waits for a loop that
\* was asked to end, or has ended; a request made before the loop began is not
\* lost.
ShutdownIsHeard ==
    \A t \in Threads : pc[t] = "shutdown" => asked[server] \/ loop[server] = "none"

THEOREM RequestsAreHeard == Spec => []ShutdownIsHeard
  <1>1. Init => ShutdownIsHeard
    BY DEF Init, ShutdownIsHeard
  <1>2. ASSUME IInv, ShutdownIsHeard, Next
        PROVE  ShutdownIsHeard'
    <2> USE HLAssumption DEF IInv, TypeOK, LockInv, SectionInv, ShutdownIsHeard, Critical,
            Enters, At, Return, StopReturns, threadVars, listenerVars, serverVars
    <2>1. ASSUME NEW t \in Threads, NEW o \in {"start", "stop", "restart"},
                 NEW a \in Asked \cup {NoAddress}, Call(t, o, a)
          PROVE  ShutdownIsHeard'
      BY <1>2, <2>1 DEF Call
    <2>2. ASSUME NEW t \in Threads, StopStep(t)
          PROVE  ShutdownIsHeard'
      <3>1. CASE StopNotRunning(t)
        BY <1>2, <3>1 DEF StopNotRunning
      <3>2. CASE StopAsks(t)
        BY <1>2, <3>2 DEF StopAsks, ReportedIsServed
      <3>3. CASE StopCloses(t)
        BY <1>2, <3>3 DEF StopCloses
      <3> QED
        BY <2>2, <3>1, <3>2, <3>3 DEF StopStep
    <2>3. ASSUME NEW t \in Threads, StartStep(t)
          PROVE  ShutdownIsHeard'
      <3>1. \A u \in Threads : pc'[u] # "shutdown"
        BY <1>2, <2>3 DEF StartStep, StartRefused, StartBinds, BindFails, StartServes,
                          ServeFails, StartPublishes
      <3> QED
        BY <3>1
    <2>4. ASSUME NEW s \in Servers, LoopStep(s)
          PROVE  ShutdownIsHeard'
      BY <1>2, <2>4 DEF LoopStep, LoopBegins, LoopEnds
    <2> QED
      BY <1>2, <2>1, <2>2, <2>3, <2>4 DEF Next
  <1>3. ShutdownIsHeard /\ UNCHANGED vars => ShutdownIsHeard'
    BY DEF ShutdownIsHeard, vars, threadVars, listenerVars, serverVars
  <1> QED
    BY <1>1, <1>2, <1>3, Invariance, PTL DEF Spec
=============================================================================
