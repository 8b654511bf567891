--------------------------- MODULE SettingsDocument ---------------------------
(***************************************************************************)
(* What services/settings_store.py does with the contents of the settings: *)
(* SettingsStore has the file, the backup and the crashes and takes a      *)
(* document for one value; here a document is the tree it is, and the      *)
(* calls, atomic under the store's lock, migrate, merge and validate it.   *)
(*                                                                         *)
(* A tree is a function from its paths to what is there: an object, or a   *)
(* scalar with its type and its text, as str() has it.  A list is a scalar *)
(* here: no merge looks into one.                                          *)
(***************************************************************************)
EXTENDS Integers, Sequences

CONSTANTS
    Keys,       \* the keys of objects
    Files,      \* what the settings file may hold when the program starts
    Updates     \* the bodies of PUT /api/settings/ and of save_settings

VARIABLES
    file,       \* settings.json, or NoDoc
    cached,     \* self._cached, or NoDoc
    raw         \* self._cached_raw, or NoDoc

vars == <<file, cached, raw>>

-----------------------------------------------------------------------------
(* Trees *)

Str(text) == <<"string", text>>
Num(text) == <<"number", text>>
Null == <<"null", "None">>
True == <<"bool", "True">>
False == <<"bool", "False">>
List(text) == <<"list", text>>
Object == <<"object", "dict">>
Absent == <<"absent", "">>

\* d.get for all the keys of a path; nothing is below a scalar
Get(d, path) == IF path \in DOMAIN d THEN d[path] ELSE Absent

Prefixes(path) == {SubSeq(path, 1, n) : n \in 0 .. Len(path)}

\* Where there is something, its prefixes are objects.
IsTree(d) ==
    /\ << >> \in DOMAIN d
    /\ \A path \in DOMAIN d :
        /\ path \in Seq(Keys)
        /\ \A p \in Prefixes(path) : p \in DOMAIN d /\ (p # path => d[p] = Object)

NoDoc == << >>

\* The tree that has these values, and the objects they are in
Tree(values) ==
    [path \in {<< >>} \cup UNION {Prefixes(p) : p \in DOMAIN values} |->
        IF path \in DOMAIN values THEN values[path] ELSE Object]

\* Mutant of Merge: what the overlay has under a key replaces what there was.
MergeTopLevel(base, overlay) ==
    [path \in DOMAIN overlay
              \cup {p \in DOMAIN base : p = << >> \/ <<Head(p)>> \notin DOMAIN overlay} |->
        IF path \in DOMAIN overlay THEN overlay[path] ELSE base[path]]

\* No scalar of the overlay is at the path, or above it.
Spared(path, overlay) ==
    \A p \in Prefixes(path) : p \in DOMAIN overlay => overlay[p] = Object

\* _deep_merge_preserving, and _build_raw_from_typed with the typed as overlay:
\* the overlay wins, and objects on both sides are merged.
Merge(base, overlay) ==
    [path \in DOMAIN overlay \cup {p \in DOMAIN base : Spared(p, overlay)} |->
        IF path \in DOMAIN overlay THEN overlay[path] ELSE base[path]]

-----------------------------------------------------------------------------
(* The schema: what a field is when it is absent, when it is null, and what *)
(* else it may be.                                                          *)

Refused == <<"refused", "">>

Field(kind, allowed, absent, null) ==
    [kind |-> kind, allowed |-> allowed, absent |-> absent, null |-> null]

OneOf(values, default) == Field("enum", values, Str(default), Refused)
Port(default) == Field("port", {}, Num(default), Refused)
Text(default) == Field("text", {}, Str(default), Str(default))
TextList == Field("list", {}, List("[]"), List("[]"))
\* A timeout that is null is the validator's default, not the field's.
Timeout(default) == Field("timeout", {}, Num(default), Num("60"))
Flag == Field("flag", {}, False, Refused)

NoText == ""

Mode == OneOf({"managed", "external"}, "managed")
Routing == OneOf({"local", "remote"}, "local")

Client == [llm_mode |-> Routing, sam3_mode |-> Routing, dataset_path |-> Text(NoText)]

Host == [listen_ip |-> Text("0.0.0.0"), listen_port |-> Port("8080")]

Ui == [last_tab |-> Text("dashboard"), theme |-> Text("dark")]

RemoteHost ==
    [host |-> Text("127.0.0.1"), port |-> Port("8080"),
     scheme |-> OneOf({"http", "https"}, "http")]

LLM ==
    [service_mode |-> Mode, executable |-> Text(NoText), model_path |-> Text(NoText),
     model_id |-> Text(NoText), base_url |-> Text(NoText),
     api_format |-> OneOf({"llama-completion", "openai-chat", "openai-responses"},
                          "llama-completion"),
     host |-> Text("127.0.0.1"), port |-> Port("8081"), arguments |-> TextList,
     startup_timeout_seconds |-> Timeout("60"), request_timeout_seconds |-> Timeout("120"),
     auto_start |-> Flag]

SAM ==
    [service_mode |-> Mode, weights_path |-> Text(NoText), base_url |-> Text(NoText),
     arguments |-> TextList, startup_timeout_seconds |-> Timeout("60"),
     request_timeout_seconds |-> Timeout("120"), auto_start |-> Flag]

\* _dict_to_appsettings reads these as objects; the builders of the inner
\* sections return defaults for what is no object.
OuterSections == {<<"client">>, <<"host">>, <<"ui">>}

Sections == OuterSections \cup
    {<<"client", "remote_host">>, <<"client", "local_llm">>, <<"client", "local_sam3">>,
     <<"host", "llm">>, <<"host", "sam3">>}

\* The fields of each section
Schema == [section \in Sections |->
    CASE section = <<"client">> -> Client
      [] section = <<"host">> -> Host
      [] section = <<"ui">> -> Ui
      [] section = <<"client", "remote_host">> -> RemoteHost
      [] section \in {<<"client", "local_llm">>, <<"host", "llm">>} -> LLM
      [] section \in {<<"client", "local_sam3">>, <<"host", "sam3">>} -> SAM]

\* The paths of the known fields
Known == UNION {{Append(section, k) : k \in DOMAIN Schema[section]} : section \in Sections}

FieldAt(path) == Schema[SubSeq(path, 1, Len(path) - 1)][path[Len(path)]]

-----------------------------------------------------------------------------
(* Validation *)

\* int() of a text, for the numbers the inputs have
AsInt == [text \in {"0", "1", "60", "120", "8080", "8081", "70000"} |->
    CASE text = "0" -> 0
      [] text = "1" -> 1
      [] text = "60" -> 60
      [] text = "120" -> 120
      [] text = "8080" -> 8080
      [] text = "8081" -> 8081
      [] text = "70000" -> 70000]

IntIn(v, range) ==
    LET text == IF v = True THEN "1" ELSE v[2]
    IN  IF v[1] \in {"number", "string", "bool"} /\ text \in DOMAIN AsInt /\ AsInt[text] \in range
        THEN Num(text)
        ELSE Refused

Ports == 1 .. 65535
Seconds == Nat \ {0}

EnumOf(allowed, v) == IF v[2] \in allowed THEN Str(v[2]) ELSE Refused

FlagOf(v) ==
    IF v \in {True, Str("true"), Num("1"), Str("1")} THEN True
    ELSE IF v \in {False, Str("false"), Num("0"), Str("0")} THEN False
    ELSE Refused

\* An empty item leaves its list.
ListOf(v) ==
    IF v \in {List("[]"), List("['']")} THEN List("[]")
    ELSE IF v \in {List("['a']"), List("['a''']")} THEN List("['a']")
    ELSE Refused

\* What a validator returns for a value that is there and not null: in a text
\* field everything becomes text.
Coerced(f, v) ==
    CASE f.kind = "enum" -> EnumOf(f.allowed, v)
      [] f.kind = "port" -> IntIn(v, Ports)
      [] f.kind = "timeout" -> IntIn(v, Seconds)
      [] f.kind = "text" -> Str(v[2])
      [] f.kind = "flag" -> FlagOf(v)
      [] f.kind = "list" -> ListOf(v)

Validated(f, v) ==
    IF v = Absent THEN f.absent ELSE IF v = Null THEN f.null ELSE Coerced(f, v)

\* _dict_to_appsettings raises nothing.
IsValid(d) ==
    /\ Get(d, << >>) = Object
    /\ \A section \in OuterSections : Get(d, section) \in {Absent, Object}
    /\ \A path \in Known : Validated(FieldAt(path), Get(d, path)) # Refused

\* The typed settings, as _dataclass_to_dict has them but for the version
Build(d) ==
    [path \in {<< >>} \cup Sections \cup Known |->
        IF path \in Known THEN Validated(FieldAt(path), Get(d, path)) ELSE Object]

Defaults == Build(NoDoc)

-----------------------------------------------------------------------------
(* _apply_legacy_migration *)

Version == <<"version">>

WithVersion(d) == Merge(d, Tree([path \in {Version} |-> Num("1")]))

\* "version < 1" raises for a version that is no number.
HasVersion(d) ==
    /\ Get(d, << >>) = Object
    /\ Get(d, Version) \in {Absent, Num("0"), Num("1"), Num("2")}

IsLegacy(d) == Get(d, Version) \in {Absent, Num("0")}

\* What "or" passes over: nothing, null, an empty text, list or object, zero
Falsy(d, path) ==
    \/ Get(d, path) \in {Absent, Null, Str(""), List("[]"), Num("0"), False}
    \/ Get(d, path) = Object /\ \A p \in DOMAIN d : path \in Prefixes(p) => p = path

\* A legacy routing mode is for both routes that have no mode of their own.
\* A client that is no object stays what it is and is refused.
WithModes(d) ==
    LET top == <<"routing_mode">>
        inner == Get(d, <<"client", "routing_mode">>)
        mode == IF ~Falsy(d, top) THEN Get(d, top)
                ELSE IF inner # Absent THEN inner ELSE Str("local")
        modes == [path \in {<<"client", "llm_mode">>, <<"client", "sam3_mode">>} |-> mode]
        client == [path \in {<<"client">>} |-> Object]
    IN  Merge(Tree(IF mode \in {Str("local"), Str("remote")} THEN modes ELSE client), d)

Without(d, keys) == [path \in {p \in DOMAIN d : p = << >> \/ Head(p) \notin keys} |-> d[path]]

\* A legacy listener address moves to the host; an object that is moved stands
\* for its text, which is all that a text field has of it.
WithListener(d) ==
    LET ip == Get(d, <<"listen_ip">>)
        port == IF Get(d, <<"listen_port">>) = Absent
                THEN Num("8080") ELSE Get(d, <<"listen_port">>)
        address == [path \in {<<"host", "listen_ip">>, <<"host", "listen_port">>} |->
                        IF path = <<"host", "listen_ip">> THEN ip ELSE port]
    IN  IF ip = Absent \/ Get(d, <<"host">>) # Absent THEN d
        ELSE Merge(Without(d, {"listen_ip", "listen_port"}), Tree(address))

Migrated(d) == IF IsLegacy(d) THEN WithVersion(WithListener(WithModes(d))) ELSE d

Loads(d) == HasVersion(d) /\ IsValid(Migrated(d))

-----------------------------------------------------------------------------
(* The store's calls *)

ASSUME SDAssumption ==
    /\ Known \cup Sections \cup {Version} \subseteq Seq(Keys)
    /\ \A d \in Files : IsTree(d)
    /\ \A u \in Updates : IsTree(u) /\ u[<< >>] = Object

\* Mutant of Normalized: the raw document wins over the typed one.
NormalizedRawWins(typed, doc) == WithVersion(Merge(typed, doc))

\* The raw document with the typed settings in it, as it is written
Normalized(typed, doc) == WithVersion(Merge(doc, typed))

DocInit ==
    /\ file \in Files \cup {NoDoc}
    /\ cached = NoDoc
    /\ raw = NoDoc

\* The store after _load_with_lock, where that does not raise
Opens == cached # NoDoc \/ file = NoDoc \/ Loads(file)
Opened ==
    IF cached # NoDoc THEN [file |-> file, cached |-> cached, raw |-> raw]
    ELSE IF file = NoDoc
    THEN LET doc == Normalized(Defaults, Defaults)
         IN  [file |-> doc, cached |-> Defaults, raw |-> doc]
    ELSE [file |-> file, cached |-> Build(Migrated(file)), raw |-> Migrated(file)]

Becomes(s) == file' = s.file /\ cached' = s.cached /\ raw' = s.raw

Load == Opens /\ Becomes(Opened)

Update(u) ==
    /\ Opens
    /\ LET merged == Merge(Opened.raw, u)
           typed == Build(Migrated(merged))
           doc == Normalized(typed, Migrated(merged))
       IN  /\ Loads(merged)
           /\ Becomes([file |-> doc, cached |-> typed, raw |-> doc])

\* Nothing of a refused update is left, but the store has been loaded.
UpdateRefused(u) ==
    /\ Opens
    /\ ~Loads(Merge(Opened.raw, u))
    /\ Becomes(Opened)

\* Mutant of Reset: the raw document in memory is not replaced.
ResetKeepsRaw ==
    LET doc == Normalized(Defaults, IF raw = NoDoc THEN Defaults ELSE raw)
    IN  Becomes([file |-> doc, cached |-> Defaults, raw |-> raw])

\* reset_to_defaults does not load; it keeps what is unknown in the cache.
Reset ==
    LET doc == Normalized(Defaults, IF raw = NoDoc THEN Defaults ELSE raw)
    IN  Becomes([file |-> doc, cached |-> Defaults, raw |-> doc])

\* The program starts again.  reload is this and Load, or, where that raises,
\* this alone.
Restart ==
    /\ cached' = NoDoc
    /\ raw' = NoDoc
    /\ UNCHANGED file

DocNext ==
    \/ Load \/ Reset \/ Restart
    \/ \E u \in Updates : Update(u) \/ UpdateRefused(u)

DocSpec == DocInit /\ [][DocNext]_vars

-----------------------------------------------------------------------------
(* Properties *)

DocTypeOK ==
    /\ file = NoDoc \/ IsTree(file)
    /\ cached = NoDoc \/ IsTree(cached)
    /\ raw = NoDoc \/ IsTree(raw)

\* What the store has in memory is what the next start of the program will
\* read: what update and reset write can be loaded again, and is valid, and
\* means the same, whatever migration and coercion it took.
RestartYieldsTheSame ==
    cached # NoDoc => Loads(file) /\ Build(Migrated(file)) = cached

\* The step leaves every field alone that u does not name, known or unknown,
\* and gives a known one that u names what the validation makes of the value.
\* (What an object holds where a known field should be is no unknown field: it
\* becomes a text with the object.)
ChangesOnly(u) ==
    /\ \A path \in DOMAIN raw \ (Known \cup Sections \cup {Version}) :
        path \notin DOMAIN u /\ Spared(path, u) /\ Prefixes(path) \cap Known = {} =>
            Get(raw', path) = raw[path]
    /\ \A path \in Known :
        IF path \in DOMAIN u
        THEN cached'[path] = Validated(FieldAt(path), u[path])
        ELSE Spared(path, u) => cached'[path] = cached[path]

\* An update that does not ask for a migration changes the fields it names and
\* no others, however deep they are: migration, the two merges and validation
\* together disturb nothing else.
UpdateIsLocal ==
    [][\A u \in Updates :
        Update(u) /\ cached # NoDoc /\ Version \notin DOMAIN u => ChangesOnly(u)]_vars

\* The document of a file, as the next start of the program has it
InFile(f) == IF f = NoDoc THEN Normalized(Defaults, Defaults) ELSE Migrated(f)

\* An update merged into a document, as it is written
Updated(d, u) ==
    LET merged == Migrated(Merge(d, u)) IN Normalized(Build(merged), merged)

\* The defaults with the unknown fields of a document
Fresh(d) == Normalized(Defaults, d)

\* The store is a register of one document: to load it, to refuse an update and
\* to start again do not change what is saved, migration included; an update
\* changes it to a function of what was saved and the update, a reset to the
\* defaults, and what is in memory is what is saved.  (The file is not disturbed
\* here: that is SettingsStore's subject.)
Register == INSTANCE SettingsRegister WITH
    Docs <- {InFile(f) : f \in Files \cup {NoDoc}},
    Defaults <- Normalized(Defaults, Defaults),
    Merged <- Updated,
    saved <- InFile(file),
    told <- IF raw = NoDoc THEN InFile(file) ELSE raw,
    void <- FALSE,
    disturbances <- 0

ImplementsRegister == Register!RegisterSpec
=============================================================================
