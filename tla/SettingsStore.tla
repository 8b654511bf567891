---------------------------- MODULE SettingsStore ----------------------------
(***************************************************************************)
(* services/settings_store.py: settings in a JSON file, a backup beside it *)
(* and a cache in memory.  The store's lock is held through every call, so *)
(* one call is in progress at a time; what interleaves with its steps is   *)
(* the world outside: an edit of the file, a failing read, copy, rename or *)
(* write, and a crash of the whole process.                                *)
(*                                                                         *)
(* A document is what loading it yields: the values of the known fields    *)
(* (one value stands for all of them) and the set of its unknown fields.   *)
(***************************************************************************)
EXTENDS Naturals

CONSTANTS
    Vals,          \* valid values of the known fields
    Default,       \* the factory default
    Invalid,       \* a value the validation refuses
    Extras,        \* unknown fields
    MaxDisturbed,  \* bounds the edits from outside and the failing reads
    MaxCrashes

ASSUME SSAssumption ==
    /\ Default \in Vals
    /\ Invalid \notin Vals
    /\ MaxDisturbed \in Nat
    /\ MaxCrashes \in Nat

Doc(v, xs) == [kind |-> "doc", val |-> v, extra |-> xs]
Docs == {Doc(v, xs) : v \in Vals, xs \in SUBSET Extras}
Defaults == Doc(Default, {})

\* The defaults, with the unknown fields of d.
Fresh(d) == Doc(Default, d.extra)

\* What an update asks for: the value of the known fields, unknown fields to
\* add, and the unknown fields that go because a scalar takes the place of
\* their section.
Change(v, xs, gs) == [val |-> v, extra |-> xs, gone |-> gs]
Updates == {u \in [val : Vals, extra : SUBSET Extras, gone : SUBSET Extras] :
               u.extra \cap u.gone = {}}
Refused == Change(Invalid, {}, {})
NoChange == Change(Default, {}, {})

Missing == [kind |-> "missing"]
BadJson == [kind |-> "bad_json"]      \* JSONDecodeError
BadBytes == [kind |-> "bad_bytes"]    \* UnicodeDecodeError
BadValues == [kind |-> "bad_values"]  \* JSON, but no valid settings
Malformed == {BadJson, BadBytes}
Contents == Docs \cup Malformed \cup {Missing, BadValues}

NoDoc == [kind |-> "none"]            \* self._cached is None

VARIABLES
    primary,    \* settings.json
    backup,     \* settings.json.bak
    cached,     \* self._cached and self._cached_raw
    pc,         \* where the call in progress is
    op,         \* which call it is
    arg,        \* what an update merges in
    target,     \* what is being written
    loading,    \* the write is of the defaults, inside _load_with_lock
    disturbed,  \* how often the file was edited or could not be read
    stale,      \* history: the file was edited since the cache was filled
    acked,      \* history: what the last write to succeed wrote
    aside,      \* history: a malformed file was set aside, none has its place
    unrestored, \* history: since then a restore failed or a crash came first
    crashes

callVars == <<pc, op, arg, target, loading>>
ghostVars == <<disturbed, stale, acked, aside, unrestored, crashes>>
vars == <<primary, backup, cached, callVars, ghostVars>>

TypeOK ==
    /\ primary \in Contents
    /\ backup \in Contents
    /\ cached \in Docs \cup {NoDoc}
    /\ pc \in {"idle", "load", "recover", "merge", "copy", "copying", "write"}
    /\ op \in {"none", "load", "update", "reset"}
    /\ arg \in Updates \cup {Refused}
    /\ target \in Docs
    /\ loading \in BOOLEAN
    /\ disturbed \in 0 .. MaxDisturbed
    /\ stale \in BOOLEAN
    /\ acked \in Contents
    /\ aside \in BOOLEAN
    /\ unrestored \in BOOLEAN
    /\ crashes \in 0 .. MaxCrashes

\* The files are whatever the last run of the application left.
Init ==
    /\ primary \in Docs \cup {Missing}
    /\ backup \in {Missing, Defaults}
    /\ cached = NoDoc
    /\ pc = "idle"
    /\ op = "none"
    /\ arg = NoChange
    /\ target = Defaults
    /\ loading = FALSE
    /\ disturbed = 0
    /\ stale = FALSE
    /\ acked = primary
    /\ aside = FALSE
    /\ unrestored = FALSE
    /\ crashes = 0

-----------------------------------------------------------------------------
(* Calls *)

Enter(o, at) ==
    /\ pc = "idle"
    /\ op' = o
    /\ pc' = at

\* A call returns or raises: its locals are gone.
Leave ==
    /\ pc' = "idle"
    /\ op' = "none"
    /\ arg' = NoChange
    /\ target' = Defaults
    /\ loading' = FALSE

CallLoad ==
    /\ Enter("load", "load")
    /\ UNCHANGED <<primary, backup, cached, arg, target, loading, ghostVars>>

CallReload ==
    /\ Enter("load", "load")
    /\ cached' = NoDoc
    /\ UNCHANGED <<primary, backup, arg, target, loading, ghostVars>>

CallUpdate(u) ==
    /\ Enter("update", "load")
    /\ arg' = u
    /\ UNCHANGED <<primary, backup, cached, target, loading, ghostVars>>

\* Unknown fields are kept from the cache only: a reset does not load.
CallReset ==
    /\ Enter("reset", "copy")
    /\ target' = IF cached = NoDoc THEN Defaults ELSE Fresh(cached)
    /\ UNCHANGED <<primary, backup, cached, arg, loading, ghostVars>>

-----------------------------------------------------------------------------
(* _load_with_lock *)

\* The settings are there: an update goes on to merge, a load returns them.
Continue ==
    IF op = "update"
    THEN /\ pc' = "merge"
         /\ loading' = FALSE
         /\ UNCHANGED <<op, arg, target>>
    ELSE Leave

LoadCached ==
    /\ pc = "load"
    /\ cached # NoDoc
    /\ Continue
    /\ UNCHANGED <<primary, backup, cached, ghostVars>>

Read == pc = "load" /\ cached = NoDoc

WriteDefaults ==
    /\ pc' = "copy"
    /\ target' = Defaults
    /\ loading' = TRUE
    /\ UNCHANGED <<primary, backup, cached, op, arg>>

LoadMissing ==
    /\ Read
    /\ primary = Missing
    /\ WriteDefaults
    /\ UNCHANGED ghostVars

\* The file or its backup is parsed and valid: it is the cache now.
Parsed(d) ==
    /\ d \in Docs
    /\ cached' = d
    /\ stale' = FALSE
    /\ aside' = FALSE
    /\ unrestored' = FALSE
    /\ Continue
    /\ UNCHANGED <<backup, disturbed, acked, crashes>>

LoadValid ==
    /\ Read
    /\ Parsed(primary)
    /\ UNCHANGED primary

\* Mutant of LoadBadValues: what was read is cached before it is validated.
LoadBadValuesCached ==
    /\ Read
    /\ primary = BadValues
    /\ Leave
    /\ cached' = primary
    /\ UNCHANGED <<primary, backup, ghostVars>>

\* _dict_to_appsettings raises, and will again on every load.
LoadBadValues ==
    /\ Read
    /\ primary = BadValues
    /\ Leave
    /\ UNCHANGED <<primary, backup, cached, ghostVars>>

\* The file is set aside, unless it can be renamed to neither name.
SetAside ==
    /\ pc' = "recover"
    /\ primary' \in {Missing, primary}
    /\ UNCHANGED <<backup, cached, op, arg, target, loading>>

LoadMalformed ==
    /\ Read
    /\ primary \in Malformed
    /\ SetAside
    /\ aside' = TRUE
    /\ unrestored' = FALSE
    /\ UNCHANGED <<disturbed, stale, acked, crashes>>

\* An OSError is treated as a malformed file, however good the file is.
ReadFails ==
    /\ Read
    /\ primary # Missing
    /\ disturbed < MaxDisturbed
    /\ disturbed' = disturbed + 1
    /\ SetAside
    /\ UNCHANGED <<stale, acked, aside, unrestored, crashes>>

-----------------------------------------------------------------------------
(* _attempt_backup_recovery, after the file was set aside *)

\* Mutant of RecoverBackup: the backup is used but not restored.
RecoverBackupUnrestored ==
    /\ pc = "recover"
    /\ Parsed(backup)
    /\ UNCHANGED primary

RecoverBackup ==
    /\ pc = "recover"
    /\ Parsed(backup)
    /\ primary' = backup

RecoverBadValues ==
    /\ pc = "recover"
    /\ backup = BadValues
    /\ primary' = backup
    /\ Leave
    /\ UNCHANGED <<backup, cached, ghostVars>>

\* UnicodeDecodeError is not among the exceptions caught here.
RecoverRaises ==
    /\ pc = "recover"
    /\ backup = BadBytes
    /\ Leave
    /\ UNCHANGED <<primary, backup, cached, ghostVars>>

\* Mutant of RecoverDefaults: whether there is a good backup is not asked.
RecoverDefaultsAlways ==
    /\ pc = "recover"
    /\ WriteDefaults
    /\ UNCHANGED ghostVars

\* There is no backup, or it is malformed too.
RecoverDefaults ==
    /\ pc = "recover"
    /\ backup \in {Missing, BadJson}
    /\ WriteDefaults
    /\ UNCHANGED ghostVars

\* An OSError while the backup is read, or written to the active file: it is
\* treated as a malformed backup, however good it is.
RestoreFails ==
    /\ pc = "recover"
    /\ backup # Missing
    /\ WriteDefaults
    /\ unrestored' = TRUE
    /\ UNCHANGED <<disturbed, stale, acked, aside, crashes>>

-----------------------------------------------------------------------------
(* update *)

\* The update wins: over a field, and over the whole section that it puts a
\* scalar in the place of.
Merged(base, u) == Doc(u.val, (base.extra \ u.gone) \cup u.extra)

Merge ==
    /\ pc = "merge"
    /\ arg.val \in Vals
    /\ target' = Merged(cached, arg)
    /\ pc' = "copy"
    /\ UNCHANGED <<primary, backup, cached, op, arg, loading, ghostVars>>

MergeRefused ==
    /\ pc = "merge"
    /\ arg.val \notin Vals
    /\ Leave
    /\ UNCHANGED <<primary, backup, cached, ghostVars>>

-----------------------------------------------------------------------------
(* _save_raw_with_lock *)

CopySkipped ==
    /\ pc = "copy"
    /\ primary = Missing
    /\ pc' = "write"
    /\ UNCHANGED <<primary, backup, cached, op, arg, target, loading, ghostVars>>

\* copy2 truncates the backup and fills it: it is in pieces for a while.
CopyStarts ==
    /\ pc = "copy"
    /\ primary # Missing
    /\ backup' \in Malformed
    /\ pc' = "copying"
    /\ UNCHANGED <<primary, cached, op, arg, target, loading, ghostVars>>

CopyEnds ==
    /\ pc = "copying"
    /\ backup' = primary
    /\ pc' = "write"
    /\ UNCHANGED <<primary, cached, op, arg, target, loading, ghostVars>>

\* An OSError before or during the copy: the save goes on without a backup.
CopyFails ==
    /\ pc \in {"copy", "copying"}
    /\ primary # Missing
    /\ pc' = "write"
    /\ UNCHANGED <<primary, backup, cached, op, arg, target, loading, ghostVars>>

\* os.replace: the new document is there whole, then it is cached, and the
\* caller is told.  (A crash in between takes the cache and the caller too.)
Write ==
    /\ pc = "write"
    /\ primary' = target
    /\ cached' = target
    /\ acked' = target
    /\ stale' = FALSE
    /\ aside' = FALSE
    /\ unrestored' = FALSE
    /\ IF loading THEN Continue ELSE Leave
    /\ UNCHANGED <<backup, disturbed, crashes>>

\* Mutant of WriteFails: the file is written in place.
WriteFailsTorn ==
    /\ pc = "write"
    /\ primary' = BadJson
    /\ Leave
    /\ UNCHANGED <<backup, cached, ghostVars>>

WriteFails ==
    /\ pc = "write"
    /\ Leave
    /\ UNCHANGED <<primary, backup, cached, ghostVars>>

-----------------------------------------------------------------------------
(* The world outside *)

\* An edit while the file is copied is one after the copy: the copy reads on
\* in the file it has opened.
Edit(c) ==
    /\ pc # "copying"
    /\ disturbed < MaxDisturbed
    /\ disturbed' = disturbed + 1
    /\ primary' = c
    /\ stale' = TRUE
    /\ aside' = FALSE
    /\ unrestored' = FALSE
    /\ UNCHANGED <<backup, cached, callVars, acked, crashes>>

\* The process dies at any step; the next one starts with no cache.
Crash ==
    /\ crashes < MaxCrashes
    /\ crashes' = crashes + 1
    /\ cached' = NoDoc
    /\ Leave
    /\ unrestored' = (unrestored \/ pc = "recover")
    /\ UNCHANGED <<primary, backup, disturbed, stale, acked, aside>>

Load == LoadCached \/ LoadMissing \/ LoadValid \/ LoadBadValues
        \/ LoadMalformed \/ ReadFails

Recover == RecoverBackup \/ RecoverBadValues \/ RecoverRaises
           \/ RecoverDefaults \/ RestoreFails

Save == CopySkipped \/ CopyStarts \/ CopyEnds \/ CopyFails \/ Write \/ WriteFails

Next ==
    \/ CallLoad \/ CallReload \/ CallReset
    \/ \E u \in Updates \cup {Refused} : CallUpdate(u)
    \/ Load \/ Recover \/ Merge \/ MergeRefused \/ Save
    \/ \E c \in Contents : Edit(c)
    \/ Crash

Spec == Init /\ [][Next]_vars

-----------------------------------------------------------------------------
(* Properties *)

\* What the callers are given is what is on disk, whichever step of a load,
\* a recovery or a save failed, unless the file was edited behind the store's
\* back since ("the on-disk file is the authoritative source", line 7).
CacheMirrorsDisk ==
    cached # NoDoc /\ ~stale => primary = cached

\* The store is a register of one document, whatever the calls in progress, the
\* crashes and the failed saves: what is saved changes as a whole, by an update
\* merged into it or by a reset, and is what the caller was told.  A file that
\* is missing stands for the defaults.  The promise is void from a disturbance
\* until the file is read again, or written: while the cache is stale, while a
\* file that cannot be loaded is there, and while one is being set aside.
OrDefaults(c) == IF c = Missing THEN Defaults ELSE c

ReadAnew ==
    /\ ~stale
    /\ primary \in Docs \cup {Missing}
    /\ pc # "recover"
    /\ loading => primary = Missing

Register == INSTANCE SettingsRegister WITH
    saved <- OrDefaults(primary),
    told <- OrDefaults(acked),
    void <- disturbed > 0 /\ ~ReadAnew,
    disturbances <- disturbed

ImplementsRegister == Register!RegisterSpec

\* What that says of a store that is never disturbed: a document whose save
\* returned outlives crashes, failed saves and refused updates, and nothing but
\* a later save replaces it.
SavedSurvives ==
    disturbed = 0 => primary = acked

\* A good backup is never overlooked: where a malformed file was set aside, the
\* store does not go back to the defaults while the backup is a valid document,
\* unless it could not be restored or the process died before that.
BackupIsUsed ==
    [][~loading /\ loading' /\ aside /\ backup \in Docs => unrestored']_vars

\* The claim of lines 15-16: a malformed file is set aside and the backup takes
\* its place.  A load never finds the file gone, with the backup still unused.
MalformedGivesBackup ==
    [][LoadMissing /\ aside => backup \notin Docs]_vars
=============================================================================
