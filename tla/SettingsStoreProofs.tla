------------------------- MODULE SettingsStoreProofs -------------------------
(***************************************************************************)
(* Proofs about SettingsStore, for any values, unknown fields, number of   *)
(* edits, failing reads and crashes.                                       *)
(*                                                                         *)
(* The invariant ties the place a call is at to what it may rely on there: *)
(* a recovery runs with an empty cache and only after a disturbance, the   *)
(* defaults are written on the store's own account only where no file is,  *)
(* and what an update or a reset is about to write is made of the cached   *)
(* document, which CacheMirrorsDisk makes the document on disk.  The       *)
(* refinement of SettingsRegister rests on all of it.                      *)
(***************************************************************************)
EXTENDS SettingsStore, TLAPS

Saving == {"copy", "copying", "write"}

RecoveryIsNeeded ==
    pc = "recover" => cached = NoDoc /\ disturbed > 0

ReadableUndisturbed ==
    disturbed = 0 => primary \in Docs \cup {Missing}

StaleIsDisturbed ==
    stale => disturbed > 0

WhereCallsAre ==
    /\ pc \in {"load", "recover"} => op # "reset"
    /\ pc = "merge" => op = "update" /\ cached # NoDoc

DefaultsAreWritten ==
    loading =>
        /\ pc \in Saving
        /\ op # "reset"
        /\ cached = NoDoc
        /\ target = Defaults
        /\ disturbed = 0 => primary = Missing

CallersWrite ==
    pc \in Saving /\ ~loading =>
        \/ /\ op = "update"
           /\ cached # NoDoc
           /\ arg \in Updates
           /\ target = Merged(cached, arg)
        \/ /\ op = "reset"
           /\ target = IF cached = NoDoc THEN Defaults ELSE Fresh(cached)

IInv ==
    /\ TypeOK
    /\ CacheMirrorsDisk
    /\ SavedSurvives
    /\ RecoveryIsNeeded
    /\ ReadableUndisturbed
    /\ StaleIsDisturbed
    /\ WhereCallsAre
    /\ DefaultsAreWritten
    /\ CallersWrite

-----------------------------------------------------------------------------
(* Documents *)

\* A document is none of the other contents of a file.
LEMMA DocIsDoc ==
    ASSUME NEW v \in Vals, NEW xs \in SUBSET Extras
    PROVE  /\ Doc(v, xs) \in Docs
           /\ Doc(v, xs).kind = "doc"
           /\ Doc(v, xs).val = v
           /\ Doc(v, xs).extra = xs
  BY DEF Docs, Doc

LEMMA DocsAreDocs ==
    ASSUME NEW d \in Docs
    PROVE  /\ d.kind = "doc" /\ d.val \in Vals /\ d.extra \in SUBSET Extras
           /\ d # NoDoc /\ d # Missing /\ d # BadValues /\ d \notin Malformed
           /\ d \in Contents
  <1>1. PICK v \in Vals, xs \in SUBSET Extras : d = Doc(v, xs)
    BY DEF Docs
  <1>2. d.kind = "doc" /\ d.val \in Vals /\ d.extra \in SUBSET Extras
    BY <1>1 DEF Doc
  <1>3. d # NoDoc /\ d # Missing /\ d # BadValues /\ d \notin Malformed
    BY <1>2 DEF NoDoc, Missing, BadValues, Malformed, BadJson, BadBytes
  <1> QED
    BY <1>2, <1>3 DEF Contents

LEMMA DefaultsIsDoc == Defaults \in Docs /\ Defaults.extra = {}
  BY SSAssumption, DocIsDoc DEF Defaults

\* An update merged into a document yields a document.
LEMMA MergedIsDoc ==
    ASSUME NEW d \in Docs, NEW u \in Updates
    PROVE  Merged(d, u) \in Docs
  <1>1. u.val \in Vals /\ (d.extra \ u.gone) \cup u.extra \in SUBSET Extras
    BY DocsAreDocs DEF Updates
  <1> QED
    BY <1>1, DocIsDoc DEF Merged

LEMMA NoChangeIsUpdate == NoChange \in Updates
  BY SSAssumption DEF NoChange, Change, Updates

LEMMA FreshIsDoc ==
    ASSUME NEW d \in Docs
    PROVE  Fresh(d) \in Docs
  BY SSAssumption, DocIsDoc, DocsAreDocs DEF Fresh

LEMMA NoDocIsNoDoc == NoDoc \notin Contents
  <1>1. NoDoc.kind = "none"
    BY DEF NoDoc
  <1> QED
    BY <1>1, DocsAreDocs DEF NoDoc, Contents, Missing, BadValues, Malformed, BadJson, BadBytes

-----------------------------------------------------------------------------
(* Invariance *)

LEMMA InitIInv == Init => IInv
  <1> SUFFICES ASSUME Init PROVE IInv
    OBVIOUS
  <1>1. primary \in Contents /\ backup \in Contents
    BY DefaultsIsDoc, DocsAreDocs DEF Init, Contents
  <1>2. 0 \in 0 .. MaxDisturbed /\ 0 \in 0 .. MaxCrashes
    BY SSAssumption
  <1>3. TypeOK
    BY <1>1, <1>2, DefaultsIsDoc, NoChangeIsUpdate DEF Init, TypeOK
  <1> QED
    BY <1>3 DEF Init, IInv, Saving, CacheMirrorsDisk, SavedSurvives, RecoveryIsNeeded,
                ReadableUndisturbed, StaleIsDisturbed, WhereCallsAre,
                DefaultsAreWritten, CallersWrite

LEMMA CallsKeepIInv ==
    ASSUME IInv,
           \/ CallLoad \/ CallReload \/ CallReset
           \/ \E u \in Updates \cup {Refused} : CallUpdate(u)
    PROVE  IInv'
  <1> USE DEF IInv, TypeOK, CacheMirrorsDisk, SavedSurvives, RecoveryIsNeeded,
              ReadableUndisturbed, StaleIsDisturbed, WhereCallsAre,
              DefaultsAreWritten, CallersWrite, Enter, ghostVars, Saving
  <1>1. CASE CallLoad
    BY <1>1 DEF CallLoad
  <1>2. CASE CallReload
    BY <1>2 DEF CallReload
  <1>3. CASE CallReset
    <2>1. target' \in Docs
      BY <1>3, DefaultsIsDoc, FreshIsDoc DEF CallReset
    <2> QED
      BY <1>3, <2>1 DEF CallReset
  <1>4. ASSUME NEW u \in Updates \cup {Refused}, CallUpdate(u)
        PROVE  IInv'
    BY <1>4 DEF CallUpdate
  <1> QED
    BY <1>1, <1>2, <1>3, <1>4

\* What a finished load leaves: an update about to merge, or no call.
LEMMA ContinueFacts ==
    ASSUME TypeOK, Continue
    PROVE  /\ \/ pc' = "idle" /\ op' = "none"
              \/ pc' = "merge" /\ op = "update" /\ op' = "update"
           /\ arg' \in Updates \cup {Refused} /\ target' \in Docs
           /\ loading' = FALSE
  BY DefaultsIsDoc, NoChangeIsUpdate DEF TypeOK, Continue, Leave

LEMMA LeaveFacts ==
    ASSUME Leave
    PROVE  /\ pc' = "idle" /\ op' = "none" /\ arg' \in Updates
           /\ target' \in Docs /\ loading' = FALSE
  BY DefaultsIsDoc, NoChangeIsUpdate DEF Leave

LEMMA LoadKeepsIInv ==
    ASSUME IInv, Load
    PROVE  IInv'
  <1> USE DEF IInv, TypeOK, CacheMirrorsDisk, SavedSurvives, RecoveryIsNeeded,
              ReadableUndisturbed, StaleIsDisturbed, WhereCallsAre,
              DefaultsAreWritten, CallersWrite, ghostVars, Saving
  <1>1. CASE LoadCached
    BY <1>1, ContinueFacts DEF LoadCached
  <1>2. CASE LoadMissing
    BY <1>2, DefaultsIsDoc DEF LoadMissing, WriteDefaults, Read
  <1>3. CASE LoadValid
    BY <1>3, ContinueFacts, DocsAreDocs DEF LoadValid, Parsed, Read
  <1>4. CASE LoadBadValues
    BY <1>4, LeaveFacts DEF LoadBadValues, Read
  <1>5. CASE LoadMalformed
    <2>1. disturbed > 0
      BY <1>5, DocsAreDocs, SSAssumption
      DEF LoadMalformed, Malformed, Missing, BadJson, BadBytes
    <2>2. TypeOK'
      <3>1. primary' \in Contents
        BY <1>5 DEF LoadMalformed, SetAside, Contents
      <3>2. /\ pc' = "recover" /\ aside' = TRUE /\ unrestored' = FALSE
            /\ UNCHANGED <<backup, cached, op, arg, target, loading, disturbed, stale,
                           acked, crashes>>
        BY <1>5 DEF LoadMalformed, SetAside
      <3> QED
        BY <3>1, <3>2
    <2>3. /\ pc' = "recover" /\ op # "reset" /\ cached = NoDoc
          /\ UNCHANGED <<cached, op, loading, disturbed, stale>>
      BY <1>5 DEF LoadMalformed, SetAside, Read
    <2>4. ~loading
      BY <1>5 DEF LoadMalformed, Read
    <2> QED
      BY <2>1, <2>2, <2>3, <2>4
  <1>6. CASE ReadFails
    <2>1. disturbed' \in 0 .. MaxDisturbed /\ disturbed' > 0
      BY <1>6, SSAssumption DEF ReadFails
    <2> QED
      BY <1>6, <2>1 DEF ReadFails, SetAside, Read, Contents
  <1> QED
    BY <1>1, <1>2, <1>3, <1>4, <1>5, <1>6 DEF Load

LEMMA RecoverKeepsIInv ==
    ASSUME IInv, Recover
    PROVE  IInv'
  <1> USE DEF IInv, TypeOK, CacheMirrorsDisk, SavedSurvives, RecoveryIsNeeded,
              ReadableUndisturbed, StaleIsDisturbed, WhereCallsAre,
              DefaultsAreWritten, CallersWrite, ghostVars, Saving
  <1>1. CASE RecoverBackup
    <2>1. disturbed' = disturbed /\ disturbed # 0 /\ backup \in Docs
      BY <1>1, SSAssumption DEF RecoverBackup, Parsed
    <2>2. primary' \in Contents /\ cached' \in Docs /\ cached' # NoDoc
      BY <1>1, <2>1, DocsAreDocs DEF RecoverBackup, Parsed
    <2> QED
      BY <1>1, <2>1, <2>2, ContinueFacts DEF RecoverBackup, Parsed
  <1>2. CASE RecoverBadValues
    BY <1>2, LeaveFacts, SSAssumption DEF RecoverBadValues
  <1>3. CASE RecoverRaises
    BY <1>3, LeaveFacts DEF RecoverRaises
  <1>4. CASE RecoverDefaults
    BY <1>4, DefaultsIsDoc, SSAssumption DEF RecoverDefaults, WriteDefaults
  <1>5. CASE RestoreFails
    <2>1. disturbed' = disturbed /\ disturbed # 0 /\ cached' = NoDoc
      BY <1>5, SSAssumption DEF RestoreFails, WriteDefaults
    <2> QED
      BY <1>5, <2>1, DefaultsIsDoc DEF RestoreFails, WriteDefaults
  <1> QED
    BY <1>1, <1>2, <1>3, <1>4, <1>5 DEF Recover

LEMMA SaveKeepsIInv ==
    ASSUME IInv, Save
    PROVE  IInv'
  <1> USE DEF IInv, TypeOK, CacheMirrorsDisk, SavedSurvives, RecoveryIsNeeded,
              ReadableUndisturbed, StaleIsDisturbed, WhereCallsAre,
              DefaultsAreWritten, CallersWrite, ghostVars, Saving
  <1>1. CASE CopySkipped
    BY <1>1 DEF CopySkipped
  <1>2. CASE CopyStarts
    BY <1>2 DEF CopyStarts, Contents
  <1>3. CASE CopyEnds
    BY <1>3 DEF CopyEnds
  <1>4. CASE CopyFails
    BY <1>4 DEF CopyFails
  <1>5. CASE Write
    BY <1>5, ContinueFacts, LeaveFacts, DocsAreDocs DEF Write
  <1>6. CASE WriteFails
    BY <1>6, LeaveFacts DEF WriteFails
  <1> QED
    BY <1>1, <1>2, <1>3, <1>4, <1>5, <1>6 DEF Save

LEMMA MergeKeepsIInv ==
    ASSUME IInv, Merge \/ MergeRefused
    PROVE  IInv'
  <1> USE DEF IInv, TypeOK, CacheMirrorsDisk, SavedSurvives, RecoveryIsNeeded,
              ReadableUndisturbed, StaleIsDisturbed, WhereCallsAre,
              DefaultsAreWritten, CallersWrite, ghostVars, Saving
  <1>1. CASE Merge
    <2>1. arg \in Updates /\ cached \in Docs
      BY <1>1, SSAssumption DEF Merge, Refused, Change
    <2>2. target' = Merged(cached, arg) /\ target' \in Docs
      BY <1>1, <2>1, MergedIsDoc DEF Merge
    <2> QED
      BY <1>1, <2>1, <2>2 DEF Merge
  <1>2. CASE MergeRefused
    BY <1>2, LeaveFacts DEF MergeRefused
  <1> QED
    BY <1>1, <1>2

LEMMA WorldKeepsIInv ==
    ASSUME IInv, Crash \/ \E c \in Contents : Edit(c)
    PROVE  IInv'
  <1> USE DEF IInv, TypeOK, CacheMirrorsDisk, SavedSurvives, RecoveryIsNeeded,
              ReadableUndisturbed, StaleIsDisturbed, WhereCallsAre,
              DefaultsAreWritten, CallersWrite, Saving
  <1>1. CASE Crash
    BY <1>1, LeaveFacts, SSAssumption DEF Crash
  <1>2. ASSUME NEW c \in Contents, Edit(c)
        PROVE  IInv'
    <2>1. disturbed' \in 0 .. MaxDisturbed /\ disturbed' > 0
      BY <1>2, SSAssumption DEF Edit
    <2>2. TypeOK'
      BY <1>2, <2>1 DEF Edit, callVars
    <2>3. (CacheMirrorsDisk /\ SavedSurvives /\ ReadableUndisturbed)'
      BY <1>2, <2>1 DEF Edit
    <2> QED
      BY <1>2, <2>1, <2>2, <2>3 DEF Edit, callVars
  <1> QED
    BY <1>1, <1>2

THEOREM Invariance == Spec => []IInv
  <1>1. IInv /\ UNCHANGED vars => IInv'
    BY DEF IInv, TypeOK, CacheMirrorsDisk, SavedSurvives, RecoveryIsNeeded,
           ReadableUndisturbed, StaleIsDisturbed, WhereCallsAre,
           DefaultsAreWritten, CallersWrite, vars, callVars, ghostVars
  <1>2. IInv /\ [Next]_vars => IInv'
    BY <1>1, CallsKeepIInv, LoadKeepsIInv, RecoverKeepsIInv, SaveKeepsIInv,
       MergeKeepsIInv, WorldKeepsIInv DEF Next
  <1> QED
    BY <1>2, InitIInv, PTL DEF Spec

-----------------------------------------------------------------------------
(* Results *)

\* Every file is a document, missing, or broken in one of the three ways that
\* are told apart, and the cache is only ever a valid document.
THEOREM TypeCorrect == Spec => []TypeOK
  BY Invariance, PTL DEF IInv

\* The cache never disagrees with the file the store last read or wrote.
THEOREM CacheIsTheFile == Spec => []CacheMirrorsDisk
  BY Invariance, PTL DEF IInv

\* A saved document is lost to no crash, failed save or refused update.
THEOREM NoSavedDocumentIsLost == Spec => []SavedSurvives
  BY Invariance, PTL DEF IInv

-----------------------------------------------------------------------------
(* A malformed file and its backup *)

\* Where a malformed file was set aside and nothing has taken its place, the
\* recovery is still on, or was cut short, or there was no backup to restore.
AsideInv ==
    aside =>
        /\ primary \notin Docs
        /\ pc = "recover" \/ backup \notin Docs \/ unrestored

LEMMA AsideInvKept ==
    ASSUME TypeOK, AsideInv, Next
    PROVE  AsideInv'
  <1> USE DEF AsideInv, ghostVars
  <1>1. CASE \/ CallLoad \/ CallReload \/ CallReset
             \/ \E u \in Updates \cup {Refused} : CallUpdate(u)
    BY <1>1 DEF CallLoad, CallReload, CallReset, CallUpdate, Enter
  <1>2. CASE Load
    <2>1. CASE LoadMalformed \/ ReadFails
      <3>1. primary' \in {Missing, primary} /\ pc' = "recover"
        BY <2>1 DEF LoadMalformed, ReadFails, SetAside
      <3>2. aside' => primary \notin Docs
        BY <2>1, DocsAreDocs DEF LoadMalformed, ReadFails
      <3>3. Missing \notin Docs
        BY DocsAreDocs
      <3> QED
        BY <3>1, <3>2, <3>3
    <2>2. CASE LoadCached \/ LoadMissing \/ LoadValid \/ LoadBadValues
      <3>1. pc = "load" /\ UNCHANGED <<primary, backup>> /\ (~aside' \/ UNCHANGED ghostVars)
        BY <2>2 DEF LoadCached, LoadMissing, LoadValid, LoadBadValues, Parsed, Read,
                    WriteDefaults
      <3> QED
        BY <3>1
    <2> QED
      BY <1>2, <2>1, <2>2 DEF Load
  <1>3. CASE Recover
    BY <1>3, DocsAreDocs, DefaultsIsDoc
    DEF Recover, RecoverBackup, RecoverBadValues, RecoverRaises, RecoverDefaults,
        RestoreFails, Parsed, WriteDefaults, Malformed
  <1>4. CASE Merge \/ MergeRefused
    BY <1>4 DEF Merge, MergeRefused, Leave
  <1>5. CASE Save
    BY <1>5, DocsAreDocs
    DEF Save, CopySkipped, CopyStarts, CopyEnds, CopyFails, Write, WriteFails
  <1>6. CASE \E c \in Contents : Edit(c)
    BY <1>6 DEF Edit
  <1>7. CASE Crash
    BY <1>7 DEF Crash
  <1> QED
    BY <1>1, <1>2, <1>3, <1>4, <1>5, <1>6, <1>7 DEF Next

\* Lines 15-16 claim that the backup takes the place of a malformed file, and
\* MalformedGivesBackup, which says so, does not hold.  Of all that may go wrong
\* in a recovery, two things lose a good backup: a crash before it is restored,
\* and an OSError that keeps it from being read or restored.
THEOREM GoodBackupIsUsed == Spec => BackupIsUsed
  <1>1. Init => AsideInv
    BY DEF Init, AsideInv
  <1>2. TypeOK /\ AsideInv /\ [Next]_vars => AsideInv'
    <2>1. AsideInv /\ UNCHANGED vars => AsideInv'
      BY DEF AsideInv, vars, callVars, ghostVars
    <2> QED
      BY <2>1, AsideInvKept
  <1>3. ASSUME AsideInv, Next, ~loading, loading', aside, backup \in Docs
        PROVE  unrestored'
    <2>1. LoadMissing \/ RecoverDefaults \/ RestoreFails
      <3>1. ~(\/ CallLoad \/ CallReload \/ CallReset
              \/ \E u \in Updates \cup {Refused} : CallUpdate(u))
        BY <1>3 DEF CallLoad, CallReload, CallReset, CallUpdate
      <3>2. ~(Continue \/ Leave)
        BY <1>3 DEF Continue, Leave
      <3>3. Load \/ Recover
        BY <1>3, <3>1, <3>2
        DEF Next, Merge, MergeRefused, Save, CopySkipped, CopyStarts, CopyEnds, CopyFails,
            Write, WriteFails, Edit, callVars, Crash
      <3> QED
        BY <1>3, <3>2, <3>3
        DEF Load, LoadCached, LoadValid, LoadBadValues, LoadMalformed, ReadFails, SetAside,
            Recover, RecoverBackup, RecoverBadValues, RecoverRaises, Parsed
    <2>2. CASE LoadMissing
      BY <1>3, <2>2 DEF AsideInv, LoadMissing, Read, ghostVars
    <2>3. CASE RecoverDefaults
      BY <1>3, <2>3, DocsAreDocs DEF RecoverDefaults, Malformed
    <2>4. CASE RestoreFails
      BY <2>4 DEF RestoreFails
    <2> QED
      BY <2>1, <2>2, <2>3, <2>4
  <1>4. AsideInv /\ [Next]_vars =>
            [~loading /\ loading' /\ aside /\ backup \in Docs => unrestored']_vars
    BY <1>3
  <1> QED
    BY <1>1, <1>2, <1>4, TypeCorrect, PTL DEF Spec, BackupIsUsed

-----------------------------------------------------------------------------
(* The register *)

Whole == disturbed = 0 \/ ReadAnew

LEMMA VoidIsNotWhole ==
    ASSUME TypeOK
    PROVE  (disturbed > 0 /\ ~ReadAnew) <=> ~Whole
  BY SSAssumption DEF TypeOK, Whole

\* A step after which the file, if it was good for anything, still is, and says
\* the same, is none of the register.
LEMMA QuietSteps ==
    ASSUME TypeOK, TypeOK', UNCHANGED <<disturbed, acked>>,
           Whole => Whole' /\ OrDefaults(primary') = OrDefaults(primary)
    PROVE  [Register!RegisterNext]_(Register!regVars)
  <1>1. CASE Whole
    BY <1>1, VoidIsNotWhole DEF Register!regVars, Whole, TypeOK
  <1>2. CASE ~Whole
    BY <1>2, VoidIsNotWhole
    DEF Register!RegisterNext, Register!WhileVoid, Whole
  <1> QED
    BY <1>1, <1>2

LEMMA DisturbingSteps ==
    ASSUME TypeOK, disturbed' = disturbed + 1, UNCHANGED acked, ~ReadAnew'
    PROVE  Register!Disturb
  BY SSAssumption DEF Register!Disturb, TypeOK

LEMMA WritesAreSaves ==
    ASSUME IInv, IInv', Write
    PROVE  Register!RegisterNext
  <1> USE DEF Register!RegisterNext
  <1>1. /\ target \in Docs
        /\ OrDefaults(primary') = target
        /\ OrDefaults(acked') = target
        /\ UNCHANGED disturbed
    BY DocsAreDocs DEF IInv, TypeOK, Write, OrDefaults
  <1>2. ReadAnew'
    BY <1>1, ContinueFacts, LeaveFacts DEF IInv, Write, ReadAnew
  <1>3. CASE ~Whole
    <2>1. Register!WhileVoid
      BY <1>1, <1>3, VoidIsNotWhole DEF IInv, Register!WhileVoid
    <2> QED
      BY <2>1
  <1>4. CASE Whole /\ loading
    <2>1. OrDefaults(primary) = Defaults /\ target = Defaults
      BY <1>4 DEF IInv, DefaultsAreWritten, Whole, ReadAnew, OrDefaults
    <2>2. Register!Confirm
      BY <1>1, <1>2, <1>4, <2>1, VoidIsNotWhole
      DEF IInv, Register!Confirm, Register!Save
    <2> QED
      BY <2>2
  <1>5. CASE Whole /\ ~loading /\ cached = NoDoc
    <2>1. target = Defaults
      BY <1>5 DEF IInv, CallersWrite, Saving, Write
    <2>2. Register!Reset
      BY <1>1, <1>2, <1>5, <2>1, VoidIsNotWhole
      DEF IInv, Register!Reset, Register!Save
    <2> QED
      BY <2>2
  <1>6. CASE Whole /\ ~loading /\ cached # NoDoc
    <2>1. OrDefaults(primary) = cached
      <3>1. primary = cached /\ cached \in Docs
        BY <1>6, SSAssumption
        DEF IInv, TypeOK, CacheMirrorsDisk, StaleIsDisturbed, Whole, ReadAnew
      <3> QED
        BY <3>1, DocsAreDocs DEF OrDefaults
    <2>2. CASE arg \in Updates /\ target = Merged(cached, arg)
      <3>1. Register!Update(arg)
        BY <1>1, <1>2, <1>6, <2>1, <2>2, VoidIsNotWhole
        DEF IInv, Register!Update, Register!Save
      <3> QED
        BY <2>2, <3>1
    <2>3. CASE target = Fresh(cached)
      <3>1. Register!Reset
        BY <1>1, <1>2, <1>6, <2>1, <2>3, VoidIsNotWhole
        DEF IInv, Register!Reset, Register!Save
      <3> QED
        BY <3>1
    <2> QED
      BY <1>6, <2>2, <2>3 DEF IInv, CallersWrite, Saving, Write
  <1> QED
    BY <1>3, <1>4, <1>5, <1>6

LEMMA StepImplements ==
    ASSUME IInv, IInv', Next
    PROVE  [Register!RegisterNext]_(Register!regVars)
  <1> DEFINE Quiet ==
        /\ UNCHANGED <<disturbed, acked>>
        /\ Whole => Whole' /\ OrDefaults(primary') = OrDefaults(primary)
  <1> USE DEF Whole, ReadAnew, ghostVars
  <1>1. CASE \/ CallLoad \/ CallReload \/ CallReset
             \/ \E u \in Updates \cup {Refused} : CallUpdate(u)
    <2>1. Quiet
      BY <1>1 DEF CallLoad, CallReload, CallReset, CallUpdate, Enter
    <2> QED
      BY <2>1, QuietSteps DEF IInv
  <1>2. CASE Load /\ ~ReadFails
    <2>1. CASE LoadCached \/ LoadValid \/ LoadBadValues
      <3>1. Quiet
        BY <2>1, ContinueFacts, LeaveFacts, DocsAreDocs
        DEF LoadCached, LoadValid, LoadBadValues, Parsed, IInv, TypeOK
      <3> QED
        BY <3>1, QuietSteps DEF IInv
    <2>2. CASE LoadMissing
      <3>1. Quiet
        BY <2>2 DEF LoadMissing, WriteDefaults, Read
      <3> QED
        BY <3>1, QuietSteps DEF IInv
    <2>3. CASE LoadMalformed
      <3>1. ~Whole
        BY <2>3, DocsAreDocs
        DEF IInv, ReadableUndisturbed, LoadMalformed, Malformed, Missing, BadJson, BadBytes
      <3>2. Quiet
        BY <2>3, <3>1 DEF LoadMalformed
      <3> QED
        BY <3>2, QuietSteps DEF IInv
    <2> QED
      BY <1>2, <2>1, <2>2, <2>3 DEF Load
  <1>3. CASE ReadFails
    <2>1. Register!Disturb
      BY <1>3, DisturbingSteps DEF IInv, ReadFails, SetAside
    <2> QED
      BY <2>1 DEF Register!RegisterNext
  <1>4. CASE Recover
    <2>1. ~Whole
      BY <1>4, SSAssumption
      DEF IInv, TypeOK, RecoveryIsNeeded, Recover, RecoverBackup, RecoverBadValues,
          RecoverRaises, RecoverDefaults, RestoreFails
    <2>2. UNCHANGED <<disturbed, acked>>
      BY <1>4 DEF Recover, RecoverBackup, RecoverBadValues, RecoverRaises,
                  RecoverDefaults, RestoreFails, Parsed
    <2> QED
      BY <2>1, <2>2, QuietSteps DEF IInv
  <1>5. CASE Merge \/ MergeRefused
    <2>1. Quiet
      BY <1>5, LeaveFacts DEF Merge, MergeRefused, IInv, TypeOK
    <2> QED
      BY <2>1, QuietSteps DEF IInv
  <1>6. CASE CopySkipped \/ CopyStarts \/ CopyEnds \/ CopyFails
    <2>1. UNCHANGED <<primary, loading, ghostVars>> /\ pc' # "recover"
      BY <1>6 DEF CopySkipped, CopyStarts, CopyEnds, CopyFails
    <2>2. Quiet
      BY <2>1 DEF IInv, TypeOK
    <2> QED
      BY <2>2, QuietSteps DEF IInv
  <1>7. CASE WriteFails
    <2>1. Quiet
      BY <1>7, LeaveFacts DEF WriteFails, IInv, TypeOK
    <2> QED
      BY <2>1, QuietSteps DEF IInv
  <1>8. CASE Write
    BY <1>8, WritesAreSaves
  <1>9. CASE \E c \in Contents : Edit(c)
    <2>1. Register!Disturb
      BY <1>9, DisturbingSteps DEF IInv, Edit
    <2> QED
      BY <2>1 DEF Register!RegisterNext
  <1>10. CASE Crash
    <2>1. Quiet
      BY <1>10, LeaveFacts DEF Crash
    <2> QED
      BY <2>1, QuietSteps DEF IInv
  <1> QED
    BY <1>1, <1>2, <1>3, <1>4, <1>5, <1>6, <1>7, <1>8, <1>9, <1>10
    DEF Next, Load, Save

\* Every step of the store is one of the register, or none: what is saved
\* changes by updates and resets alone, each as a whole and each with what the
\* caller is told, whatever crashes, fails or is refused on the way.
THEOREM RegisterImplemented == Spec => ImplementsRegister
<1>1. Init => Register!RegisterInit
  <2> SUFFICES ASSUME Init PROVE Register!RegisterInit
    OBVIOUS
  <2>1. OrDefaults(primary) \in Docs
    BY DefaultsIsDoc DEF Init, OrDefaults
  <2> QED
    BY <2>1 DEF Init, Register!RegisterInit
<1>2. IInv /\ IInv' /\ [Next]_vars => [Register!RegisterNext]_(Register!regVars)
  <2> SUFFICES ASSUME IInv, IInv', [Next]_vars
               PROVE  [Register!RegisterNext]_(Register!regVars)
    OBVIOUS
  <2>1. CASE Next
    BY <2>1, StepImplements
  <2>2. CASE UNCHANGED vars
    BY <2>2 DEF vars, callVars, ghostVars, Register!regVars, ReadAnew, OrDefaults
  <2> QED
    BY <2>1, <2>2
<1> QED
  BY <1>1, <1>2, Invariance, PTL DEF Spec, ImplementsRegister, Register!RegisterSpec

\* The register keeps what its callers were told, for as long as it is not
\* disturbed; so does the store, which implements it.
THEOREM RegisterIsDurable == ImplementsRegister => []Register!Durable
<1> DEFINE RInv == disturbed \in Nat /\ Register!Durable
<1> USE DEF Register!Durable
<1>1. Register!RegisterInit => RInv
  BY DEF Register!RegisterInit
<1>2. RInv /\ [Register!RegisterNext]_(Register!regVars) => RInv'
  BY DEF Register!RegisterNext, Register!Update, Register!Reset, Register!Confirm,
         Register!Save, Register!Disturb, Register!WhileVoid, Register!regVars
<1>3. RInv => Register!Durable
  OBVIOUS
<1> QED
  BY <1>1, <1>2, <1>3, PTL DEF ImplementsRegister, Register!RegisterSpec
=============================================================================
