---------------------------- MODULE HostListener ----------------------------
(***************************************************************************)
(* The Host API listener of views/pages.py: requests to the portal that    *)
(* start, stop and restart one HTTP server under _lifecycle_lock, and the  *)
(* serve_forever loop of each server, in a thread of its own.              *)
(*                                                                         *)
(* A restart is a stop and then a start: it lets go of the lock in         *)
(* between.  A stop waits, with the lock held, for the loop to end.        *)
(***************************************************************************)
CONSTANTS
    Threads, NoThread,   \* threads that serve requests to the portal
    Servers, NoServer,   \* server objects; a closed one may come again
    Addresses, NoAddress,
    AnyPort              \* an address with port 0: the system chooses the port

ASSUME HLAssumption ==
    /\ NoThread \notin Threads
    /\ NoServer \notin Servers
    /\ NoAddress \notin Addresses
    /\ AnyPort \notin Addresses
    /\ AnyPort # NoAddress

VARIABLES
    lock,      \* _lifecycle_lock
    pc, op,    \* each thread: where it is, in which action
    addr,      \* the address it was asked to listen on, port 0 included
    running,   \* _host_api_running
    server,    \* _host_api_server, with its thread
    config,    \* _host_api_config
    bound,     \* the address each server's socket listens on
    loop,      \* where each server's serve_forever is
    asked      \* the server's shutdown request

threadVars == <<lock, pc, op, addr>>
listenerVars == <<running, server, config>>
serverVars == <<bound, loop, asked>>
vars == <<threadVars, listenerVars, serverVars>>

Asked == Addresses \cup {AnyPort}

Critical == {"serve", "publish", "shutdown"}

TypeOK ==
    /\ lock \in Threads \cup {NoThread}
    /\ pc \in [Threads -> {"idle", "stop", "start"} \cup Critical]
    /\ op \in [Threads -> {"none", "start", "stop", "restart"}]
    /\ addr \in [Threads -> Asked \cup {NoAddress}]
    /\ running \in BOOLEAN
    /\ server \in Servers \cup {NoServer}
    /\ config \in Asked \cup {NoAddress}
    /\ bound \in [Servers -> Addresses \cup {NoAddress}]
    /\ loop \in [Servers -> {"none", "started", "serving"}]
    /\ asked \in [Servers -> BOOLEAN]

Init ==
    /\ lock = NoThread
    /\ pc = [t \in Threads |-> "idle"]
    /\ op = [t \in Threads |-> "none"]
    /\ addr = [t \in Threads |-> NoAddress]
    /\ running = FALSE
    /\ server = NoServer
    /\ config = NoAddress
    /\ bound = [s \in Servers |-> NoAddress]
    /\ loop = [s \in Servers |-> "none"]
    /\ asked = [s \in Servers |-> FALSE]

Call(t, o, a) ==
    /\ pc[t] = "idle"
    /\ op' = [op EXCEPT ![t] = o]
    /\ addr' = [addr EXCEPT ![t] = a]
    /\ pc' = [pc EXCEPT ![t] = IF o = "start" THEN "start" ELSE "stop"]
    /\ UNCHANGED <<lock, listenerVars, serverVars>>

Return(t) ==
    /\ pc' = [pc EXCEPT ![t] = "idle"]
    /\ op' = [op EXCEPT ![t] = "none"]
    /\ addr' = [addr EXCEPT ![t] = NoAddress]

At(t, l) == pc' = [pc EXCEPT ![t] = l] /\ UNCHANGED <<op, addr>>

Enters(t, l) == pc[t] = l /\ lock = NoThread

-----------------------------------------------------------------------------
(* _stop_listener *)

\* A restart goes on to start, also when there was nothing to stop.
StopReturns(t) == IF op[t] = "restart" THEN At(t, "start") ELSE Return(t)

StopNotRunning(t) ==
    /\ Enters(t, "stop")
    /\ ~running
    /\ StopReturns(t)
    /\ UNCHANGED <<lock, listenerVars, serverVars>>

\* Mutant of StopAsks: it waits for the loop before it asks it to end.
StopAsksNot(t) ==
    /\ Enters(t, "stop")
    /\ running
    /\ lock' = t
    /\ At(t, "shutdown")
    /\ UNCHANGED <<listenerVars, serverVars>>

\* shutdown(): from here the lock is held until the loop has ended.
StopAsks(t) ==
    /\ Enters(t, "stop")
    /\ running
    /\ asked' = [asked EXCEPT ![server] = TRUE]
    /\ lock' = t
    /\ At(t, "shutdown")
    /\ UNCHANGED <<listenerVars, bound, loop>>

\* Mutant of StopCloses: the socket is left open.
StopClosesNot(t) ==
    /\ pc[t] = "shutdown"
    /\ loop[server] = "none"
    /\ running' = FALSE
    /\ server' = NoServer
    /\ lock' = NoThread
    /\ StopReturns(t)
    /\ UNCHANGED <<config, bound, loop, asked>>

\* The loop has ended: the socket is closed, and joining its thread is a
\* matter of its last instructions.
StopCloses(t) ==
    /\ pc[t] = "shutdown"
    /\ loop[server] = "none"
    /\ bound' = [bound EXCEPT ![server] = NoAddress]
    /\ running' = FALSE
    /\ server' = NoServer
    /\ lock' = NoThread
    /\ StopReturns(t)
    /\ UNCHANGED <<config, loop, asked>>

-----------------------------------------------------------------------------
(* _start_listener *)

\* Mutant of StartRefused: the configuration is written before the check.
StartRefusedLate(t) ==
    /\ Enters(t, "start")
    /\ running
    /\ config' = addr[t]
    /\ Return(t)
    /\ UNCHANGED <<lock, running, server, serverVars>>

StartRefused(t) ==
    /\ Enters(t, "start")
    /\ running
    /\ Return(t)
    /\ UNCHANGED <<lock, listenerVars, serverVars>>

\* Where a socket listens that was asked to listen at a.
Meant(a) == IF a = AnyPort THEN Addresses ELSE {a}

\* The configuration keeps the address as it was asked for, port 0 too.
StartBinds(t) ==
    /\ Enters(t, "start")
    /\ ~running
    /\ config' = addr[t]
    /\ \E s \in Servers :
        /\ bound[s] = NoAddress
        /\ \E a \in Meant(addr[t]) : bound' = [bound EXCEPT ![s] = a]
        /\ server' = s
    /\ lock' = t
    /\ At(t, "serve")
    /\ UNCHANGED <<running, loop, asked>>

\* The address is in use or not ours: the configuration has it all the same.
BindFails(t) ==
    /\ Enters(t, "start")
    /\ ~running
    /\ config' = addr[t]
    /\ server' = NoServer
    /\ Return(t)
    /\ UNCHANGED <<lock, running, serverVars>>

StartServes(t) ==
    /\ pc[t] = "serve"
    /\ loop' = [loop EXCEPT ![server] = "started"]
    /\ At(t, "publish")
    /\ UNCHANGED <<lock, listenerVars, bound, asked>>

\* Thread.start() raises.  Nobody closes the server, but nothing refers to it
\* any more either, and its socket closes as it is collected.
ServeFails(t) ==
    /\ pc[t] = "serve"
    /\ bound' = [bound EXCEPT ![server] = NoAddress]
    /\ server' = NoServer
    /\ lock' = NoThread
    /\ Return(t)
    /\ UNCHANGED <<running, config, loop, asked>>

\* Mutant of StartPublishes: the server is kept in the place of the flag.
PublishServer(t) ==
    /\ pc[t] = "publish"
    /\ running' = server
    /\ lock' = NoThread
    /\ Return(t)
    /\ UNCHANGED <<server, config, serverVars>>

StartPublishes(t) ==
    /\ pc[t] = "publish"
    /\ running' = TRUE
    /\ lock' = NoThread
    /\ Return(t)
    /\ UNCHANGED <<server, config, serverVars>>

-----------------------------------------------------------------------------
(* socketserver.BaseServer.serve_forever *)

LoopBegins(s) ==
    /\ loop[s] = "started"
    /\ loop' = [loop EXCEPT ![s] = "serving"]
    /\ UNCHANGED <<threadVars, listenerVars, bound, asked>>

\* Also when it was asked before it began.
LoopEnds(s) ==
    /\ loop[s] = "serving"
    /\ asked[s]
    /\ loop' = [loop EXCEPT ![s] = "none"]
    /\ asked' = [asked EXCEPT ![s] = FALSE]
    /\ UNCHANGED <<threadVars, listenerVars, bound>>

-----------------------------------------------------------------------------
StopStep(t) == StopNotRunning(t) \/ StopAsks(t) \/ StopCloses(t)

StartStep(t) == StartRefused(t) \/ StartBinds(t) \/ BindFails(t)
                \/ StartServes(t) \/ ServeFails(t) \/ StartPublishes(t)

LoopStep(s) == LoopBegins(s) \/ LoopEnds(s)

Next ==
    \/ \E t \in Threads :
        \/ \E o \in {"start", "restart"}, a \in Asked : Call(t, o, a)
        \/ Call(t, "stop", NoAddress)
        \/ StopStep(t)
        \/ StartStep(t)
    \/ \E s \in Servers : LoopStep(s)

Spec == Init /\ [][Next]_vars

\* Every thread runs.  Nothing is assumed about who gets the lock.
Fairness ==
    /\ \A t \in Threads : WF_vars(StopStep(t) \/ StartStep(t))
    /\ \A s \in Servers : WF_vars(LoopStep(s))

FairSpec == Spec /\ Fairness

-----------------------------------------------------------------------------
(* Properties *)

\* No socket listens that the portal does not know of: what it does not know
\* of, nobody can stop, and no later start can bind its address.
NoStrayListener ==
    \A s \in Servers : bound[s] # NoAddress \/ loop[s] # "none" => s = server

\* Between two actions the flag, the configuration and the listener agree: a
\* listener runs if and only if one is reported, and it listens at the address
\* reported, if that is one.  (With port 0 it is not: the portal reports port 0,
\* and the listener has another.)
ReportedIsServed ==
    lock = NoThread =>
        /\ running <=> server # NoServer
        /\ running => bound[server] \in Meant(config) /\ loop[server] # "none"

\* A stop that is not refused comes to an end, even if it asks a loop that has
\* not begun yet.  (Who waits for the lock may wait for ever.)
ShutdownEnds ==
    \A t \in Threads : pc[t] = "shutdown" ~> pc[t] # "shutdown"
=============================================================================
