-------------------------- MODULE SettingsRegister --------------------------
(***************************************************************************)
(* What SettingsStore promises its callers, without its backup, its cache, *)
(* its copies and its crashes: one saved document, which is only replaced  *)
(* as a whole, by an update merged into it or by a reset.  Crashes, failed *)
(* saves and refused updates are no steps of it at all.                    *)
(*                                                                         *)
(* The promise is void from a disturbance (an edit of the file behind the  *)
(* store's back, a read that fails) until the store has read or written    *)
(* the file again; then it holds anew.                                     *)
(***************************************************************************)
EXTENDS Naturals

CONSTANTS
    Docs,           \* the documents a store may start from
    Updates,        \* what callers merge into them
    Defaults,       \* the document of a store without a file
    Merged(_, _),   \* an update merged into a document
    Fresh(_)        \* the defaults with the unknown fields of a document

VARIABLES
    saved,          \* the document that a restart would read
    told,           \* the last one a caller was told is saved
    void,           \* the promise is void
    disturbances    \* how often it has been made void

regVars == <<saved, told, void, disturbances>>

RegisterInit ==
    /\ saved \in Docs
    /\ told = saved
    /\ void = FALSE
    /\ disturbances = 0

\* A caller is told that the document is saved, and it is.
Save(d) ==
    /\ ~void
    /\ saved' = d
    /\ told' = d
    /\ UNCHANGED <<void, disturbances>>

Update(u) == Save(Merged(saved, u))

\* Unknown fields are kept if the store happens to know them.
Reset == Save(Fresh(saved)) \/ Save(Defaults)

\* The defaults are written where there was no file: it stood for them.
Confirm == Save(saved)

Disturb ==
    /\ disturbances' = disturbances + 1
    /\ void' = TRUE
    /\ told' = told

\* Nothing is promised but that what callers are told is saved.
WhileVoid ==
    /\ void
    /\ void' \in BOOLEAN
    /\ told' \in {told, saved'}
    /\ UNCHANGED disturbances

RegisterNext == (\E u \in Updates : Update(u)) \/ Reset \/ Confirm \/ Disturb \/ WhileVoid

RegisterSpec == RegisterInit /\ [][RegisterNext]_regVars

-----------------------------------------------------------------------------
\* Of a register that is never disturbed a restart reads what the last caller
\* was told is saved.
Durable == disturbances = 0 => ~void /\ told = saved
=============================================================================
