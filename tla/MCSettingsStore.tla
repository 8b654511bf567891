--------------------------- MODULE MCSettingsStore ---------------------------
(***************************************************************************)
(* SettingsStore for TLC: two values and one unknown field, so that every  *)
(* document differs from the defaults in each of the two ways, an edit (or *)
(* a failing read) and a second one while the first is being recovered     *)
(* from, and a crash in the recovery from an earlier crash.                *)
(***************************************************************************)
EXTENDS SettingsStore
=============================================================================
