# Almost ARCADIA in TLA+

Almost ARCADIA is a Django application with two roles. The *Host* runs model
services (an LLM behind an HTTP server that it spawns, a SAM3 segmentation model
in its own process) and offers them through a background HTTP listener. The
*Client* evaluates video frames with local models or with those of a remote
Host. This directory holds TLA+ models of the parts of both in which state,
threads and failures meet, the TLC runs that check them on small instances, and
TLAPS proofs of their safety properties for every value of the constants.

## 1. The system

| Part | Source | State it keeps | Operations |
|---|---|---|---|
| ProcessManager | `utils/model_host/process_manager.py` | a record per name, one lock | `start`, `stop`, `kill`, queries |
| ServiceManager | `services/service_manager.py` | per service: state, pid, health, restart flag, fingerprint of the applied configuration; a lock per service | `start`, `stop`, `restart`, `status`, `sync_configuration`, `check_restart_required` |
| SAMRuntime | `services/sam_runtime.py` | a state of its own, the helper, the applied weights; two locks | `start`, `stop`, `predict`, `mark_external` |
| Sam3ServerHelper | `utils/model_host/sam3_server_helper.py` | a module-level singleton with the loaded model | `initialize`, `reset_singleton`, `predict` |
| Inference service | `services/inference_service.py` | none; each request keeps the settings it loaded | `evaluate_host_llm`, `evaluate_host_sam3` |
| SettingsStore | `services/settings_store.py` | `settings.json`, `settings.json.bak`, a cache; one lock | `load`, `reload`, `update`, `reset_to_defaults` |
| Host API listener | `views/pages.py` | running flag, server, thread, configuration; one lock | start, stop, restart; request handlers |
| Views, settings API | `views/` | none beyond a request: the settings it loaded | `host_portal` and its actions, `host_status`, `settings_view`, `settings_reset` |
| Heatmap stream | `views/pages.py` | a generator per viewer: the capture, the frame in hand, its masks | one frame after the other |
| Remote client | `utils/model_host/remote_client_helper.py` | an HTTP session | `evaluate_sam3` with three attempts |
| LLM client | `services/llm_client.py` | an HTTP session | `evaluate` in three formats |
| Helpers without a caller | `llama_server_helper.py`, `vpn_tunnel_helper.py` | a flag; none | a llama server of a fixed name; network diagnostics |

How they meet. Requests to the Django views and requests to the Host listener run
in threads of their own and call the same singletons. ServiceManager calls
ProcessManager (LLM) or SAMRuntime (SAM) with the lock of the service held;
SAMRuntime resets and fills the singleton of Sam3ServerHelper.
`evaluate_host_sam3` takes the lock of the service three times: to sync the
configuration, to read the status, and to predict. SettingsStore is read at the
beginning of nearly every request, and `save_settings` writes it and then asks
ServiceManager whether a restart is due; nothing holds the two together, nor the
load at the beginning of a request and the calls that follow it. The listener is a `ThreadingHTTPServer`
whose `serve_forever` runs in a thread that start creates and stop joins.

What is hard about it:

* processes and threads die between any two steps, and calls take long with a
  lock held (a stop waits for a process, a start for a model to answer, an
  evaluation for a prediction);
* the same fact is kept in several places: the pid in ServiceManager and in
  ProcessManager, the state of the SAM service in three layers, the settings in a
  file, a backup and a cache, the listener in a flag, a server and a dictionary;
* status is read in one critical section and used in another, and a request goes
  on with the settings it loaded while others save new ones;
* a stream is a generator that learns at its yields that its viewer has gone, and
  waits in between for a Host that may fail;
* a settings document is migrated, merged, validated and merged again, with
  unknown fields at every level;
* saving and recovering the settings take several steps on disk, each of which
  can fail, and the program can die at each.

What makes each part correct:

* ProcessManager: never two live processes under one name, never a live process
  without a record, a `stop` that returns `True` means the process is gone.
* ServiceManager: what it reports of a running service (pid, healthy, restart
  required) is true of the process that runs; whoever takes its lock sees no
  middle of a start, a stop or a restart; a stop ends the process.
* SAM service: what is reported running predicts with the configured weights;
  the singleton never serves old weights; a prediction never meets a model that
  was taken away.
* SettingsStore: what callers get is what is on disk; a saved document is not
  lost; an update changes what it names and nothing else; a damaged file gives way
  to the backup.
* Requests: what the service reports of itself is about the saved settings; where
  a stale request has broken this, it is repaired; an evaluation is admitted only
  by a service that can serve it when it is admitted.
* Heatmap stream: masks are drawn on their own frame; the stream goes on when the
  Host fails, ends when its viewer leaves, and releases its capture.
* Listener: no socket stays bound that nobody can stop; the report is true; a
  stop comes to an end.

`PROJECT.json` lists the hazards of the code line by line, with the property
that would catch each or the reason why none does yet.

## 2. The modules

| Module | Models | Extended or used by |
|---|---|---|
| `ProcessRegistry` | what ProcessManager promises: a table from names to processes | implemented by `ProcessManager`, used by `ServiceManager` |
| `ProcessManager` | `process_manager.py`, step by step | `MCProcessManager`, `ProcessManagerProofs` |
| `ServiceManager` | the life of an LLM service, over `ProcessRegistry` | `MCServiceManager`, `ServiceManagerProofs` |
| `SamService` | the SAM service, all three layers, and its evaluations | `MCSamService`, `SamServiceProofs` |
| `SettingsRegister` | what the settings store promises: one saved document | implemented by `SettingsStore` and by `SettingsDocument` |
| `SettingsStore` | the store and its files | `MCSettingsStore`, `SettingsStoreProofs` |
| `SettingsDocument` | the document in them: migration, merge, validation | `MCSettingsDocument`, `SettingsDocumentProofs` |
| `HostPortal` | the requests between settings and LLM service; extends `ServiceManager` | `MCHostPortal`, `HostPortalProofs` |
| `HeatmapStream` | one viewer's stream and the retries of its requests | `MCHeatmapStream`, `HeatmapStreamProofs` |
| `HostListener` | the listener's lifecycle and its server loops | `MCHostListener`, `HostListenerProofs` |

Common conventions. A thread is a value of `Threads`; `pc`, `op` and its
arguments say where it is and in which call. A critical section that cannot
block is one action; one that can block, or whose steps can fail separately, is
several with the lock held in between. Actions marked "Mutant of ..." are not
part of any next-state relation: each is a plausible slip in the action it is
named after, and shows that the property it is paired with in `PROJECT.json`
can fail. Every actor may call any operation at any time with any argument.

**ProcessRegistry** has two variables, the table and the set of live tracked
processes, and three actions: a new process takes a name that is free or whose
process is dead (`Register`), a dead process loses its name (`Forget`), a
process dies (`Exit`).

**ProcessManager** follows `start` from the check of the record (`StartChecked`)
through `Popen` (`Spawn`, `SpawnFails`), the reader threads (`ReaderThreadFails`)
and the new record (`Record`), and `stop` from the signal through the
five-second wait, the kill and the second wait. A process that is sent SIGTERM
may go on; one that is killed dies. `leaked` is a history variable: processes
whose start raised after it had spawned them. The properties are about the
others (`Held`); what becomes of the leaked is a hazard that the code does not
handle.

**ServiceManager** instantiates the registry as `PM` and uses its actions as
its view of ProcessManager: the refinement checked and proved for
`ProcessManager` is what justifies that. A call of `pm.start` is one step
(`Adopt`, `SpawnLLM` or `SpawnLLMFails`), since ProcessManager holds its lock
throughout; `pm.stop` ends in `PmStopReturns`, once the process is dead, or in
`PmStopFails`, which stands for the `False` that ServiceManager ignores. What the
service does to processes it does through the registry's actions, so that their
rules hold of it whatever its own code does: nothing is claimed of them here, but
what the service reports of the processes. The
health wait alternates between looking at the process (`Poll`) and the answer of
the URL (`PollAnswered`, `PollUnanswered`) and gives up when the process is gone
or the deadline has passed (`HealthGivesUp`); an exception that it does not expect
makes the start fail with the process running (`HealthRaises`). `ranWith` is what the command line
of a tracked process was built from. A configuration is a value in one of three
sets: with an executable, without one, external.

**SamService** has the variables of ServiceManager, of SAMRuntime (`rtState`,
`helper`, `appliedWeights`) and of the singleton (`model`). The two locks of
SAMRuntime are left out: all calls come with the service's lock held, so they
never decide anything. SAMRuntime's refusals of external and of missing weights
are unreachable behind those of ServiceManager and are left out;
`LoadMeetsNoModel` shows that its refusal to start twice is unreachable as well.

**SettingsRegister** has the saved document and the last one that a caller was
told is saved. An update or a reset changes both at once (`Save`); a load, a
refused update, a failed save and a crash change neither. The operators that
merge an update and make a fresh document are parameters. Its promise is `void`
from a disturbance (`Disturb`: the file is edited behind the store's back, or a
read fails) until the store has read or written the file again.

**SettingsStore** models the one call that is in progress (the store's lock is
held through all of it) against a world that edits the file, fails reads, copies
and writes, and crashes the program at every step. A file holds a document, bytes
that are not JSON, bytes that are not UTF-8, JSON with values that are refused,
or nothing. The known fields are one value, the unknown ones a set; an update
(`Updates`) gives the value, adds unknown fields, and drops those of a section
that it puts a scalar in the place of. Where those are, and that an update changes
nothing else, is `SettingsDocument`'s subject. `acked`, `stale`, `aside` and
`unrestored` are history variables. `Write` stands for `os.replace` and the return
to the caller: a crash in between takes both the cache and the caller with it. It implements `SettingsRegister`: the saved document is the
one in the file, or the defaults where there is none; the promise is void once
something has disturbed the file, but for the times in which the store goes by
what is in the file now (`ReadAnew`).

**SettingsDocument** is the other side of that one value: a document is a tree,
written as a function from its paths (sequences of keys) to what is there, an
object or a scalar, and `Load`, `Update`, `Reset` and `Restart` do to it what
`_apply_legacy_migration` (`Migrated`), `_dict_to_appsettings` (`IsValid`,
`Build` over `Schema`), `_deep_merge_preserving` and `_build_raw_from_typed`
(`Merge`, which they both are) do. The code walks the trees recursively; here
`Merge` says what the result has at a path: what the overlay has there, or what
the base has unless a scalar of the overlay is at the path or above it
(`Spared`). So nothing is recursive, and theorems can be about one path at a
time. A scalar is its type and its JSON text, so that a number and the string of
it are two values; lists are scalars, as no merge looks into one. The calls are
atomic: what comes between their steps is `SettingsStore`'s subject. `reload` is a
`Restart` and a `Load`. It implements `SettingsRegister` too, which is never void
here: the saved document is what the next start makes of the file, migration
included, and what is in memory is what callers were told.

**HostPortal** extends `ServiceManager`: its threads are the threads of requests,
and every call they make is a call there. A request arrives with its load
(`Arrive`), keeps the LLM settings in `loaded`, and goes on as its view does: a
view syncs; a status syncs and reads; an evaluation syncs, reads the status, reads
the state again and sends (`Send`); `save_settings` updates and checks with what
the update returned; the settings API only updates; the service actions call
start, stop or restart with what was loaded. The store, whose lock is held
through each of its calls, is one value. `current`, `flagCurrent` and
`modeCurrent` are history variables: whether a thread's settings are still the
saved ones, and whether those with which the restart flag, or the mode, was last
brought in line were and are.

**HeatmapStream** is the generator of one viewer, cut where it can be left
waiting: at a yield, for the capture, for the Host, in a pause. A frame is known
by its place in the video, and `masks` holds the frame the masks are of. The
Host, the video and the viewer are the environment. A source has a length and can
be set back to its first frame or not (`seekable`): `cap.set` says nothing when it
has no effect, and a live source that has ended is rewound in vain.

**HostListener** models the two critical sections of `_start_listener` and
`_stop_listener` and, as external code, the two ends of
`socketserver.BaseServer.serve_forever`. `shutdown()` sets a request and waits
for the loop to end; a request made before the loop begins is seen when it does.
The address asked for may be one with port 0 (`AnyPort`), which is not checked: the
socket then listens at a port that the system chooses (`Meant`), and the
configuration keeps port 0.

## 3. The runs

All bounds are constants in the `.cfg` files.

| Run | Instance | Distinct states | What it shows |
|---|---|---|---|
| `process_manager` | 2 threads, 2 names, 2 processes | 37 thousand | the six properties below |
| `service_manager` | 2 threads, 2 processes, 4 configurations, 1 poll | 208 thousand | the seven properties below |
| `settings_store` | 2 values, 1 unknown field, 2 disturbances, 2 crashes | 294 thousand | the four properties below |
| `sam_service` | 3 threads, 2 weights, symmetry | 567 thousand | the five properties below |
| `host_listener` | 3 threads, 2 servers, 2 addresses and port 0 | 78 thousand | the four properties below |
| `host_portal` | 2 threads, 8 kinds of request, 4 configurations, 1 process, 1 poll, symmetry | 2.3 million | the three properties below |
| `host_portal_settles` | 2 threads, 4 kinds of request, 3 configurations, 1 process, 1 poll | 563 thousand | one liveness property |
| `heatmap_stream` | videos of 0 to 4 frames, seekable or not, 3 attempts | 2.7 thousand | the five properties below |
| `settings_document` | 7 files, 8 updates | 769 | the three properties below |

Why these bounds are enough to see what can happen. *Threads*: there is one lock,
so two threads show every contention; three are used where one thread is to hold
an outdated status, or to be between the halves of a restart, while two others
interact. *Processes*: in `process_manager` a process is used once, and two let
a name be started again after its process died, was stopped or was leaked; in
`service_manager` a dead and forgotten process may be used again, so the number
of starts is not bounded. *Configurations*: two that can run, to tell them
apart, and one of each other kind. *Polls*: one lets a start answer, time out
and see its process die. *Disturbances and crashes*: two, so that the second
hits the recovery from the first. *Servers*: two, so that a second could be
bound beside the first. *Requests*: two that overlap, and saves without a bound,
so that one of them can be overtaken any number of times; `host_portal_settles`
serves those that change what has to settle, with the status that is polled.
*Frames*: one of every two frames is asked about, so one and three frames make
the turns change with each pass of the video, two and four keep them, and none
is the source that opens and cannot be read. *Documents*: files of the first
schema and the current one, with unknown fields at every level, values that are
coerced, a version from the future, sections that are no objects; updates that
name known and unknown fields at every depth, put a scalar in the place of a
section, carry null, ask for a migration, or are refused. The proofs of section 4 do
not depend on the bounds.

Properties:

* `process_manager`: `TypeOK`; `OneProcessPerName`, no duplicates;
  `LiveIsTracked`, no orphans; `StopIsTrue`, a stop that says so has stopped it;
  `LockIsReleased`, liveness; `ImplementsRegistry`, refinement of
  `ProcessRegistry`.
* `service_manager`: `TypeOK`; `PidIsTracked`, the pid that a running service
  reports is the one a stop will signal; `HealthyMeansApplied`, a healthy service
  compares with what its process was started with; `TransientIsLocked`, whoever
  takes the lock finds the service neither starting nor stopping; `SyncFlagsDrift`,
  the restart flag after a sync is right; `StopEndsProcess`; `LockIsReleased`,
  liveness.
* `settings_store`: `TypeOK`; `CacheMirrorsDisk`; `BackupIsUsed`, a good backup is
  passed over only if it could not be restored or the process died before it was;
  `ImplementsRegister`, refinement of `SettingsRegister`: a document whose save
  returned outlives crashes, failed saves and refused updates, and is what updates
  are merged into.
* `sam_service`: `TypeOK`; `RunningServesApplied`, the three layers agree;
  `LoadMeetsNoModel`; `PredictionIsCurrent`; `NoLeakedModel`.
* `host_listener`: `TypeOK`; `NoStrayListener`; `ReportedIsServed`, between two
  actions a listener runs if and only if one is reported, at the address reported,
  unless that has port 0; `ShutdownEnds`, liveness.
* `host_portal`: `FlagFollowsSettings`, the restart flag tells
  whether the process runs with what is saved; `ModeFollowsSettings`, the service
  is external exactly when the settings say so (both unless a save came after the
  settings were loaded with which they were last compared: such a request does
  leave them wrong); `AdmittedIsServed`, an evaluation is admitted, however old the
  status that let it pass, only by a service that is external or runs with the
  tracked pid, and of the mode it was made for unless a save came in between. The
  prompt is sent later, with no lock held: what has become of the process by then
  is not promised.
* `host_portal_settles`: `SettingsSettle`, the other half: however wrong a stale
  request has left flag and mode, they become right and stay so once the settings
  are left alone and the status goes on being asked for.
* `heatmap_stream`: `StreamTypeOK`; `OverlayIsOfItsFrame`;
  `EndReleasesCapture`; `StreamGoesOn` and `LeavingEndsStream`, liveness, both of
  sources that have frames and can be set back to the first (`Readable`). Of one
  that opens and yields no frame, and of a live one that has ended, they fail: the
  generator rewinds it for ever without a yield.
* `settings_document`: `RestartYieldsTheSame`, what the program writes it can load
  again, and it means what the program has in memory; `UpdateIsLocal`, an update
  changes the fields it names and no others; `ImplementsRegister`, refinement of
  `SettingsRegister`: a load or a start changes nothing, whatever it has to
  migrate, and a reset keeps what is unknown. What `UpdateIsLocal` sets aside is
  what an object has below a path at which the schema wants a field: no unknown
  field, as the field becomes a text with that object in it.

Three runs check what the source or its documentation claims, and find it
violated by what the code does:

| Run | Claim | What happens |
|---|---|---|
| `external_has_no_process` | `service_manager.py:22` "External services have no process and no local model." | a sync to external forgets the pid of a running process, which lives on |
| `malformed_gives_backup` | `settings_store.py:15-16` "backup is restored to the active file so the next restart is clean" | a crash between the rename and the restore: defaults are written, the backup is not looked at (`BackupIsUsed`: the one other thing that loses a good backup is an OSError while it is read or restored) |
| `status_during_inference` | `README.md:144` "Status requests work while inference is running." | `status()` waits for the lock that the prediction holds |

A fourth is shown by a run that passes. `README.md:132` lists "starting" and
"stopping" among the states that status reports, and a test
(`core_orchestrator/tests/test_service_manager.py:139`) takes "starting" for an answer; `TransientIsLocked` says
that `status()`, which takes the lock that start, stop and restart hold throughout,
answers neither: it waits for them.

More was met while modelling, and is in the models without a run of its own:

* a start in external mode, and one whose process cannot be spawned, leave the pid
  as it was (`service_manager.py:298-301`): an external or failed service may
  report that of a process long gone, and a sync to managed makes it a stopped one
  that does;
* the listener's port is not validated (`pages.py:387`): with port 0 the system
  chooses one, and the portal goes on reporting 0;
* an OSError while the backup is read, or written to the active file, is treated as
  a malformed backup (`settings_store.py:593-612`): the defaults are written
  although the backup is good, and the next save replaces it;
* a start that adopts a process leaves no fingerprint, so that a later sync has
  nothing to compare with (`service_manager.py:191` "If running config differs
  from saved, mark restart_required."). A service in that
  state is never healthy (`HealthyMeansApplied`), which is why
  `FlagFollowsSettings` is about healthy services;
* a restart of a FAILED service does not stop its process, which the start then
  adopts (`README.md:131` "Restart: stops then starts");
* a backup that is not UTF-8 makes the load raise (`README.md:192` "If backup is
  also malformed, factory defaults are loaded");
* `mark_external` drops the helper and not the singleton, and a later stop may
  leave the model in memory (`sam_runtime.py:35`);
* a section that is replaced by a scalar or null loses its unknown fields
  (`settings_store.py:389`, against lines 14 and 449 "Unknown nested fields are
  preserved at all levels."): in `SettingsStore` such an update drops them, in
  `SettingsDocument` it is held to name what is below the path;
* `sam3_weights_path` is assigned in `generate()` and read before that: the stream
  in local mode ends with an error frame (`pages.py:704`);
* the health wait does not strip the slash at the end of `base_url` and asks it
  even for a managed service (`service_manager.py:468`).

`CHECK_DEADLOCK` is on in all runs that are expected to pass but `heatmap_stream`:
a thread that is idle can always call, a stream is over when it has ended.

### Fairness

Five runs check liveness.

* `ProcessManager`: every thread in a call goes on when it can, and a process
  that was killed dies (SIGKILL cannot be ignored). Nothing is assumed of a
  process that was sent SIGTERM: the five-second timeout is what ends the wait.
* `ServiceManager`: every thread in a call goes on when it can, and a process
  that is being stopped dies; this is what `ProcessManager` shows of its `stop`,
  SIGKILL after five seconds included. That the model ever answers is not
  assumed: the deadline is what ends the wait, and MaxPolls is that deadline.
* `HostListener`: every thread runs, those of the server loops included.
* `HostPortal`: a request that was begun goes on, and a process that is being
  stopped dies. Requests need not come; that the status is asked for again and
  again is the premise of `SettingsSettle`, and the portal's page does so every
  three seconds (`host_portal.html:495`).
* `HeatmapStream`: the generator goes on, as the server asks for chunks and a
  request is answered or times out (weak; of the steps that raise nothing, as no
  exception need come to end a stream); and a viewer who has gone is noticed if
  the generator comes to a yield again and again (strong: the write to a closed
  connection fails in the end, though not at the first yield).

Strong fairness is used nowhere else, and nothing is assumed about which waiting thread
gets a lock: `threading.Lock` is not fair. So `LockIsReleased` and
`ShutdownEnds` say that whoever is inside comes out, not that everyone gets in.

## 4. The proofs

TLAPS checks, for any sets of threads, names, processes, configurations, weights,
servers and documents, subject to the named `ASSUME` of each module (the special
values such as `NoProc` are not among the ordinary ones, the three sets of
configurations are disjoint, the bounds are numbers, files and updates are trees
and an update is an object, which is what the views pass on):

| Module | Theorems | Strengthening |
|---|---|---|
| `ProcessManagerProofs` | `TypeCorrect`, `SpawnRaceFixed`, `NoOrphan`, `StopTellsTheTruth`, `LastWaitIsForTheKilled`, `RegistryImplemented` | who is in a critical section holds the lock; a thread about to record has spawned a process of its own for the name it was given, and that name is free; a record's owner is its name |
| `ServiceManagerProofs` | `TypeCorrect`, `StatusIsAboutTheProcess`, `PidIsTheTracked`, `RestartIsAtomic`, `DriftIsFlagged`, `StopWorks`, `CriticalSectionsAreShort`, `RestartsGoOn` | lock and place of each thread agree; every live process is the tracked one; what state, pid and fingerprint are at each place inside a start and a stop |
| `SamServiceProofs` | `TypeCorrect`, `LayersAgree`, `LoadsAreFresh`, `PredictionsAreCurrent`, `LeaksOnlyWhenExternal` | lock and place agree; which pairs of service and runtime state occur; what a runtime that is not running has in its helper |
| `SettingsStoreProofs` | `TypeCorrect`, `CacheIsTheFile`, `NoSavedDocumentIsLost`, `GoodBackupIsUsed`, `RegisterImplemented`, `RegisterIsDurable` | at each place of a call, how cache, file and the document to be written relate: a recovery has an empty cache and follows a disturbance; the store writes the defaults of its own accord only where no file is; what a caller writes is made of the cached document; where a malformed file was set aside and nothing has its place, the recovery is on, was cut short, or has no good backup |
| `SettingsDocumentProofs` | `DocInvariance`, `DocumentsAreTrees`, `RestartReadsWhatIsCached`, `UpdatesAreLocal`, `RegisterImplemented`, `RepeatedUpdatesChangeNothing` | file, typed settings and raw document belong together (`Sound`): the file loads as these settings, and the raw document is that file migrated, is not to be migrated again and means the same |
| `HostListenerProofs` | `TypeCorrect`, `NoListenerIsLost`, `ReportIsTrue`, `RequestsAreHeard` | lock and place agree; what flag, server, socket and loop are at each place |
| `HostPortalProofs` | `PortalUsesService`, `PortalTypeCorrect`, `FlagIsTruthful`, `ModeIsTruthful`, `AdmissionIsSound` | the invariant of `ServiceManagerProofs`; the call a request is in is the one its place names, with the settings it loaded; settings that are current are the saved ones |
| `HeatmapStreamProofs` | `StreamTypeCorrect`, `MasksBelong`, `CaptureIsReleased`, `YieldsAreClose` | masks that are about to be drawn are those of the frame in hand |

Each proof has the same shape. The properties are not inductive on their own:
they say nothing of the middle of a critical section, so from them alone a step
could start in a state that never occurs. `IInv` adds what holds there. Three
facts follow: `Init => IInv`; `IInv /\ [Next]_vars => IInv'`, one lemma or
step for each action or group of actions; and `IInv` implies the property (or,
for an action property, `IInv` and a step do). The theorem `Invariance` puts the
first two together and the others are corollaries of it. `PortalUsesService` comes first in `HostPortalProofs`: every step of a request is
a step of `ServiceManager` or leaves it alone, so that its invariant, proved for
every sequence of calls, holds under the requests and need not be proved again.
For `RegistryImplemented` every action of ProcessManager is shown to be one
of `Register`, `Forget`, `Exit` or a step that leaves table and live processes
alone.

The register is implemented twice. In `SettingsStoreProofs` the steps fall into
those that leave the file alone, the disturbances, and the writes; a write is a
`Save` because the invariant ties its target to the document on disk, through the
cache, across the copy to the backup and everything that may fail before it.
`RegisterIsDurable` is then a theorem about the register alone: undisturbed, it
never forgets what a caller was told, and so neither does the store
(`SavedSurvives`, which is also proved of it directly as `NoSavedDocumentIsLost`).
`GoodBackupIsUsed` bounds the claim that run `malformed_gives_backup` refutes: of all
that may happen after a malformed file was set aside, only an OSError in the restore
and a crash before it make the store pass over a good backup, in that call or a
later one. In `SettingsDocumentProofs` every call leaves what the next start makes of
the file alone, or replaces it as the register does.

The proofs about documents rest on two facts. The validator of every field of the
schema leaves its own results alone (`ValidatedTwice`, for each of the six kinds of
fields), so that what was coerced when it was written is not coerced again when it
is read. And what a merge has at a path depends on the two documents there and
above it alone (`MergeGet`), so that no induction over the tree is needed.
`MergeAgain` follows from the second: to merge the same documents again changes
nothing, and so an update that comes twice (a page submitted twice, an answer that
was lost) is not refused and changes nothing (`RepeatedUpdatesChangeNothing`; not
true of one that carries a version, which may ask for a migration).

Liveness under fairness and `ENABLED` are out of the prover's reach, and so
`LockIsReleased` (twice), `ShutdownEnds`, `SettingsSettle`, `StreamGoesOn` and
`LeavingEndsStream` are only model-checked. The part of four of them that is
safety is proved. `LastWaitIsForTheKilled`: the wait without a timeout that
ProcessManager makes with its lock held is only ever for a process that was killed.
`CriticalSectionsAreShort`: every step that a thread takes inside ServiceManager's
lock brings it closer to the release (`Distance` falls), and no step of another
sets it back, so that a section has at most `2 * MaxPolls + 6` steps; what is
left to fairness is that the thread runs and the process it stops ends.
`RequestsAreHeard`: whoever waits in `shutdown()` waits for a loop that was asked to
end, or has ended, so that no request is lost before its loop begins. `YieldsAreClose`:
between two yields of a `Readable` source every step brings the next one closer, in at
most `3 * MaxRetries + 4` steps, whatever the Host answers; for the others there is
no such bound, as the generator rewinds them for ever. The three
claims that do not hold are only model-checked as well: a counterexample is the
answer. Every invariant and every action property of the passing runs is proved.

## 5. What is left out, and why

* Log buffers, timestamps, error texts and the bodies of requests: no decision
  depends on them.
* Operations without a caller: `mark_external` and `mark_external_healthy` of
  ServiceManager, `restart`, `sync_from_config` of SAMRuntime.
* Two services at once: each has its own lock and runtime, and its own name in
  ProcessManager. `_global_lock` guards only the creation of the two.
* The second process that a reader thread's failure leaves behind is in
  `ProcessManager` but not in `ServiceManager`, which sees tracked processes only.
* Files that were set aside (`settings.json.malformed-...`): nothing reads them.
* Command lines, URLs, masks and scores: data.
* In `SettingsDocument`, the version among the typed settings, which no code reads;
  an update that carries one is cached with it and written with version 1.
* What the model server makes of a prompt, and how the three formats of
  `llm_client.py` are composed and parsed: whatever comes of it, the request is
  answered and no state has changed.
* The SAM half of the requests in `HostPortal`: the same calls on another service
  with another lock, which `SamService` has with any configuration at any time.
* How many abandoned evaluations wait at the Host when clients time out and ask
  again: it depends on the number of clients, which nothing bounds.
* A failure of `cap.set` at `pages.py:690-691`, which is outside the `try` whose
  `finally` releases the capture: OpenCV reports a position that it cannot set by
  its result, which nobody looks at. `EndReleasesCapture` is about what follows.
* How the socket of a server closes whose thread could not be started: nobody calls
  `server_close` (`pages.py:415-419`), but nothing refers to the server either, and
  `ServeFails` has its socket closed as it is collected.
* Local prediction in the stream: unreachable behind the error of `SetupLocal`.
* `llama_server_helper.py` and `vpn_tunnel_helper.py`: no part of the program calls
  them. The first is a client of ProcessManager under one fixed name, the second
  looks at the network.
* Command preview, logs, the connection test, the status handler of the listener,
  the pages of the client: they read and change nothing.
* `views.py` is shadowed by the package `views/`; templates and Django
  configuration are presentation.

## 6. Plan

Done, in this order: `ProcessRegistry` and `ProcessManager` with the refinement;
`ServiceManager` over the registry; `SettingsStore`; `SamService`;
`HostListener`; and the proofs of each. Then `HostPortal` over `ServiceManager`,
`HeatmapStream` with the retries of the remote client, their proofs, and
`SettingsDocument`.

Then more proofs: `SettingsRegister`, implemented by `SettingsStore`, and by
`SettingsDocument`, which was rewritten without recursion for that; what
the two `LockIsReleased`, `ShutdownEnds` and `StreamGoesOn` rest on.

To come:

1. An abstract service, one state machine with a configuration, which
   `ServiceManager` and `SamService` implement.
2. What `SettingsSettle` rests on, as far as it is safety.
