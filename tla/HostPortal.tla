------------------------------ MODULE HostPortal ------------------------------
(***************************************************************************)
(* The requests of views/pages.py, views/settings_api.py and the LLM half  *)
(* of services/inference_service.py: what happens between the settings and *)
(* the LLM service.  A request loads the settings, keeps them in a local   *)
(* variable and goes on to one or more calls of ServiceManager, each with  *)
(* a critical section of its own; other requests save the settings, start  *)
(* and stop the service between any two of its steps.                      *)
(*                                                                         *)
(* The threads of ServiceManager are the threads of the requests, and      *)
(* every call they make there is one of these requests' calls.  Of the     *)
(* settings only host.llm matters here, and the store, whose lock is held  *)
(* through each call, is one value.  The calls for the SAM service go to   *)
(* another lock and another service, in between and without effect here.   *)
(***************************************************************************)
EXTENDS ServiceManager

CONSTANT Served     \* the requests that come, of those there are

\* GET /host/, /api/host/status/, evaluate-llm in both servers; the actions of
\* POST /host/; PUT /api/settings/ and POST /api/settings/reset/
Requests == {"view", "status", "evaluate", "save", "put", "start", "stop", "restart"}

ASSUME PortalAssumption == Served \subseteq Requests

VARIABLES
    saved,        \* host.llm of the settings in the store
    request, at,  \* each thread: which request it serves, and where it is
    loaded,       \* each thread: its local "settings", host.llm of them
    current,      \* history: no other request has saved since the thread
                  \* loaded or saved
    flagCurrent,  \* history: the restart flag was last compared by a thread
                  \* that was current, and nobody has saved since
    modeCurrent   \* history: likewise for managed and external

requestVars == <<request, at, loaded, current>>
portalVars == <<saved, requestVars, flagCurrent, modeCurrent>>
allVars == <<vars, portalVars>>

\* Steps of a request that are calls of ServiceManager
Calls == {"sync", "check", "status", "state", "start", "stop", "restart"}

PortalTypeOK ==
    /\ TypeOK
    /\ saved \in Configs
    /\ request \in [Threads -> Requests \cup {"none"}]
    /\ at \in [Threads -> Calls \cup {"idle", "update", "send"}]
    /\ loaded \in [Threads -> Configs \cup {NoConfig}]
    /\ current \in [Threads -> BOOLEAN]
    /\ flagCurrent \in BOOLEAN
    /\ modeCurrent \in BOOLEAN

\* The settings are what the last run left; no request has compared them yet.
PortalInit ==
    /\ Init
    /\ saved \in Configs
    /\ request = [t \in Threads |-> "none"]
    /\ at = [t \in Threads |-> "idle"]
    /\ loaded = [t \in Threads |-> NoConfig]
    /\ current = [t \in Threads |-> FALSE]
    /\ flagCurrent = FALSE
    /\ modeCurrent = FALSE

-----------------------------------------------------------------------------
(* Requests and the store *)

\* The request goes on at l, or has been answered and its locals are gone.
Proceed(t, l) ==
    /\ at' = [at EXCEPT ![t] = l]
    /\ IF l = "idle"
       THEN /\ request' = [request EXCEPT ![t] = "none"]
            /\ loaded' = [loaded EXCEPT ![t] = NoConfig]
            /\ current' = [current EXCEPT ![t] = FALSE]
       ELSE UNCHANGED <<request, loaded, current>>

\* Mutant of AfterLoad: a status is answered without a sync before it.
AfterLoadUnsynced(r) ==
    IF r \in {"view", "evaluate"} THEN "sync"
    ELSE IF r \in {"save", "put"} THEN "update" ELSE r

\* Where a request goes with the settings it has loaded.
AfterLoad(r) ==
    IF r \in {"view", "status", "evaluate"} THEN "sync"
    ELSE IF r \in {"save", "put"} THEN "update" ELSE r

\* A request begins with its load: it has done nothing before, and when the
\* store raises there it ends having done nothing.
Arrive(t, r) ==
    /\ at[t] = "idle"
    /\ request' = [request EXCEPT ![t] = r]
    /\ at' = [at EXCEPT ![t] = AfterLoad(r)]
    /\ loaded' = [loaded EXCEPT ![t] = saved]
    /\ current' = [current EXCEPT ![t] = TRUE]
    /\ UNCHANGED <<vars, saved, flagCurrent, modeCurrent>>

\* The store refuses the update or raises: the request ends with an error.
StoreRaises(t) ==
    /\ at[t] = "update"
    /\ Proceed(t, "idle")
    /\ UNCHANGED <<vars, saved, flagCurrent, modeCurrent>>

\* What everybody else has loaded is old from now on.
Replace(t, c) ==
    /\ saved' = c
    /\ flagCurrent' = FALSE
    /\ modeCurrent' = FALSE

\* Mutant of Update: save_settings goes on with the settings it loaded first.
UpdateKeepsLocal(t, c) ==
    /\ at[t] = "update"
    /\ Replace(t, c)
    /\ current' = [u \in Threads |-> u = t]
    /\ at' = [at EXCEPT ![t] = IF request[t] = "save" THEN "check" ELSE "idle"]
    /\ UNCHANGED <<request, loaded, vars>>

\* store.update returns the new settings: save_settings checks with these,
\* the settings API returns them.
Update(t, c) ==
    /\ at[t] = "update"
    /\ Replace(t, c)
    /\ IF request[t] = "save"
       THEN /\ at' = [at EXCEPT ![t] = "check"]
            /\ loaded' = [loaded EXCEPT ![t] = c]
            /\ current' = [u \in Threads |-> u = t]
            /\ UNCHANGED request
       ELSE /\ at' = [at EXCEPT ![t] = "idle"]
            /\ loaded' = [loaded EXCEPT ![t] = NoConfig]
            /\ current' = [u \in Threads |-> FALSE]
            /\ request' = [request EXCEPT ![t] = "none"]
    /\ UNCHANGED vars

-----------------------------------------------------------------------------
(* Calls of ServiceManager *)

\* evaluate_llm reads the state, as status does.
CallService(t) ==
    /\ \/ at[t] \in {"status", "state"} /\ Call(t, "status", NoConfig)
       \/ at[t] = "stop" /\ Call(t, "stop", NoConfig)
       \/ at[t] \in {"sync", "check", "start", "restart"} /\ Call(t, at[t], loaded[t])
    /\ UNCHANGED portalVars

Up == state \in {"running", "external"}

\* Mutant of AfterCall: evaluate_llm relies on the status that was read before.
AfterCallUnchecked(t) ==
    IF at[t] = "sync" /\ request[t] # "view" THEN "status"
    ELSE IF at[t] = "status" /\ request[t] = "evaluate" /\ Up THEN "state"
    ELSE IF at[t] = "state" THEN "send" ELSE "idle"

\* Where a request goes on when its call has returned: an evaluation ends
\* with 503 when the status, and with 500 when the state, is another one.
AfterCall(t) ==
    IF at[t] = "sync" /\ request[t] # "view" THEN "status"
    ELSE IF at[t] = "status" /\ request[t] = "evaluate" /\ Up THEN "state"
    ELSE IF at[t] = "state" /\ Up THEN "send" ELSE "idle"

\* _start_locked takes its settings, past the check that nothing runs.
Begins(t) == StartExternal(t) \/ StartBare(t) \/ StartManaged(t)

ServiceStep(t) ==
    /\ OpStep(t)
    /\ IF pc'[t] = "idle" THEN Proceed(t, AfterCall(t)) ELSE UNCHANGED requestVars
    /\ flagCurrent' = IF Sync(t) \/ Check(t) \/ PollAnswered(t) THEN current[t] ELSE flagCurrent
    /\ modeCurrent' = IF Sync(t) \/ Begins(t) THEN current[t] ELSE modeCurrent
    /\ UNCHANGED saved

\* The prompt is sent to the endpoint of the settings the request has loaded,
\* with no lock held; whatever comes of it, the request is answered.
Send(t) ==
    /\ at[t] = "send"
    /\ Proceed(t, "idle")
    /\ UNCHANGED <<vars, saved, flagCurrent, modeCurrent>>

-----------------------------------------------------------------------------
Serve(t) ==
    \/ StoreRaises(t) \/ CallService(t) \/ ServiceStep(t) \/ Send(t)
    \/ \E c \in Configs : Update(t, c)

Exits(p) == ProcessExits(p) /\ UNCHANGED portalVars

PortalNext ==
    \/ \E t \in Threads : Serve(t) \/ \E r \in Served : Arrive(t, r)
    \/ \E p \in Procs : Exits(p)

PortalSpec == PortalInit /\ [][PortalNext]_allVars

\* A request that was begun goes on, and a process that is being stopped ends.
PortalFairness ==
    /\ \A t \in Threads : WF_allVars(Serve(t))
    /\ \A p \in Procs : WF_allVars((\E t \in Threads : pc[t] = "pm_stop") /\ Exits(p))

FairPortalSpec == PortalSpec /\ PortalFairness

-----------------------------------------------------------------------------
(* Properties *)

FlagIsRight == healthy /\ state = "running" => (restartRequired <=> saved # ranWith[pid])

ModeIsRight == (state = "external") <=> (saved \in ExternalConfigs)

\* The restart flag of a healthy service tells whether its process runs with
\* what is saved, whatever requests overlap, unless a save came after the
\* settings were loaded with which the flag was last compared.
FlagFollowsSettings == flagCurrent => FlagIsRight

\* The service is external exactly when the saved settings say so, unless a
\* save came after the settings were loaded with which it was last synced or
\* started.
ModeFollowsSettings == modeCurrent => ModeIsRight

\* However old the status that let an evaluation pass, the service that admits
\* it in the end is external, or runs and shows the process that is tracked; and
\* it is of the mode for which the prompt is meant, unless a save came after the
\* settings were loaded with which the evaluation is made or the service was last
\* synced or started.  (The prompt is sent later, with no lock held: the process
\* may have died, or be stopped, by then.)
AdmittedIsServed ==
    [][\A t \in Threads : at[t] = "state" /\ at'[t] = "send" =>
        /\ \/ state = "external"
           \/ state = "running" /\ pid # NoProc /\ pid = Tracked
        /\ current[t] /\ modeCurrent =>
            (state = "external" <=> loaded[t] \in ExternalConfigs)]_allVars

\* The portal polls the status every three seconds (host_portal.html:495):
\* once the settings are left alone, flag and mode become right and stay so,
\* whichever stale requests were still on their way.
SettingsSettle ==
    /\ <>[][\A t \in Threads, c \in Configs : ~Update(t, c)]_allVars
    /\ []<><<\E t \in Threads : Arrive(t, "status")>>_allVars
    => <>[](FlagIsRight /\ ModeIsRight)
=============================================================================
