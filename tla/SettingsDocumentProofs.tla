------------------------ MODULE SettingsDocumentProofs ------------------------
(***************************************************************************)
(* Proofs about SettingsDocument, for any files and any updates that are   *)
(* trees, over any keys.                                                   *)
(*                                                                         *)
(* Two facts carry them.  The validation of every field of the schema has  *)
(* its own results for fixed points, so that what was coerced once is not  *)
(* coerced again when it is read back.  And what a merged document has at  *)
(* a path depends on nothing but the two documents at that path and at the *)
(* prefixes of it, so that a merge is reasoned about one path at a time,   *)
(* without an induction over the tree.  That the prefixes are objects, so  *)
(* that nothing is below a scalar such as the version, is the type         *)
(* invariant, and UpdateIsLocal needs it.                                  *)
(***************************************************************************)
EXTENDS SettingsDocument, SequenceTheorems, TLAPS

-----------------------------------------------------------------------------
(* Validation *)

\* A field of the schema: its validator is known and leaves the defaults alone.
IsField(f) ==
    /\ f.kind \in {"enum", "port", "timeout", "text", "flag", "list"}
    /\ f.absent \notin {Absent, Null, Refused}
    /\ Coerced(f, f.absent) = f.absent
    /\ f.null # Refused =>
        f.null \notin {Absent, Null} /\ Coerced(f, f.null) = f.null

LEMMA AbsentIsNotNull == Absent # Null
  BY DEF Absent, Null

LEMMA TextTwice ==
    ASSUME NEW t
    PROVE  Str(t)[2] = t /\ Str(t) \notin {Absent, Null, Refused}
  BY DEF Str, Absent, Null, Refused

\* What each validator returns is a value, and it leaves that as it is.
LEMMA EnumTwice ==
    ASSUME NEW S, NEW v, EnumOf(S, v) # Refused
    PROVE  /\ EnumOf(S, EnumOf(S, v)) = EnumOf(S, v)
           /\ EnumOf(S, v) \notin {Absent, Null}
  <1>1. v[2] \in S /\ EnumOf(S, v) = Str(v[2])
    BY SMTT(20) DEF EnumOf
  <1>2. Str(v[2])[2] = v[2]
    BY SMTT(20) DEF Str
  <1>3. Str(v[2]) \notin {Absent, Null}
    BY SMTT(20) DEF Str, Absent, Null
  <1> QED
    BY SMTT(20), <1>1, <1>2, <1>3 DEF EnumOf

LEMMA FlagTwice ==
    ASSUME NEW v, FlagOf(v) # Refused
    PROVE  /\ FlagOf(FlagOf(v)) = FlagOf(v)
           /\ FlagOf(v) \notin {Absent, Null}
  <1>1. FlagOf(v) \in {True, False}
    BY SMTT(20) DEF FlagOf
  <1>2. True \notin {Absent, Null, False, Str("false"), Num("0"), Str("0")}
    BY SMTT(20) DEF True, False, Str, Num, Absent, Null
  <1>3. False \notin {Absent, Null, True, Str("true"), Num("1"), Str("1")}
    BY SMTT(20) DEF True, False, Str, Num, Absent, Null
  <1> QED
    BY SMTT(20), <1>1, <1>2, <1>3 DEF FlagOf

LEMMA ListTwice ==
    ASSUME NEW v, ListOf(v) # Refused
    PROVE  /\ ListOf(ListOf(v)) = ListOf(v)
           /\ ListOf(v) \notin {Absent, Null}
  <1>1. ListOf(v) \in {List("[]"), List("['a']")}
    BY SMTT(20) DEF ListOf
  <1>2. List("[]") \notin {Absent, Null}
    BY SMTT(20) DEF List, Absent, Null
  <1>3. List("['a']") \notin {Absent, Null, List("[]"), List("['']")}
    BY SMTT(20) DEF List, Absent, Null
  <1> QED
    BY SMTT(20), <1>1, <1>2, <1>3 DEF ListOf

LEMMA IntTwice ==
    ASSUME NEW range, NEW v, IntIn(v, range) # Refused
    PROVE  /\ IntIn(IntIn(v, range), range) = IntIn(v, range)
           /\ IntIn(v, range) \notin {Absent, Null}
  <1>1. PICK text : /\ IntIn(v, range) = Num(text)
                    /\ text \in DOMAIN AsInt /\ AsInt[text] \in range
    BY SMTT(20) DEF IntIn
  <1>2. Num(text)[1] = "number" /\ Num(text)[2] = text
        /\ Num(text) \notin {Absent, Null, True}
    BY SMTT(20) DEF Num, Absent, Null, True
  <1>3. IntIn(Num(text), range) = Num(text)
    BY SMTT(20), <1>1, <1>2 DEF IntIn
  <1> QED
    BY <1>1, <1>2, <1>3

\* What the validation of a field returns, it returns when it is given that.
LEMMA ValidatedTwice ==
    ASSUME NEW f, IsField(f), NEW v, Validated(f, v) # Refused
    PROVE  Validated(f, Validated(f, v)) = Validated(f, v)
  <1>1. CASE v \in {Absent, Null}
    BY <1>1, AbsentIsNotNull DEF IsField, Validated
  <1>2. CASE v \notin {Absent, Null}
    <2>1. Validated(f, v) = Coerced(f, v) /\ Coerced(f, v) # Refused
      BY <1>2 DEF Validated
    <2>2. Coerced(f, v) \notin {Absent, Null} /\ Coerced(f, Coerced(f, v)) = Coerced(f, v)
      <3>1. CASE f.kind = "enum"
        BY <2>1, <3>1, EnumTwice DEF Coerced
      <3>2. CASE f.kind = "port"
        BY <2>1, <3>2, IntTwice DEF Coerced
      <3>3. CASE f.kind = "timeout"
        BY <2>1, <3>3, IntTwice DEF Coerced
      <3>4. CASE f.kind = "text"
        BY <3>4, TextTwice DEF Coerced
      <3>5. CASE f.kind = "flag"
        BY <2>1, <3>5, FlagTwice DEF Coerced
      <3>6. CASE f.kind = "list"
        BY <2>1, <3>6, ListTwice DEF Coerced
      <3> QED
        BY <3>1, <3>2, <3>3, <3>4, <3>5, <3>6 DEF IsField
    <2> QED
      BY <2>1, <2>2 DEF Validated
  <1> QED
    BY <1>1, <1>2
-----------------------------------------------------------------------------
(* The schema *)

\* No field has the name of an inner section.
InnerKeys == {"remote_host", "local_llm", "local_sam3", "llm", "sam3"}

AreFields(fields) ==
    \A k \in DOMAIN fields : k \notin InnerKeys /\ IsField(fields[k])

\* The six kinds of fields, with their defaults
LEMMA TextIsField == ASSUME NEW t PROVE IsField(Text(t))
  <1>1. /\ Text(t).kind = "text" /\ Text(t).absent = Str(t) /\ Text(t).null = Str(t)
    BY DEF Text, Field
  <1>2. Coerced(Text(t), Str(t)) = Str(t)
    BY <1>1, TextTwice DEF Coerced
  <1> QED
    BY <1>1, <1>2, TextTwice DEF IsField

LEMMA ListIsField == IsField(TextList)
  <1>1. TextList.kind = "list" /\ TextList.absent = List("[]") /\ TextList.null = List("[]")
    BY DEF TextList, Field
  <1>2. ListOf(List("[]")) = List("[]")
    BY DEF ListOf
  <1>3. List("[]") \notin {Absent, Null, Refused}
    BY DEF List, Absent, Null, Refused
  <1> QED
    BY <1>1, <1>2, <1>3 DEF IsField, Coerced

LEMMA FlagIsField == IsField(Flag)
  <1>1. Flag.kind = "flag" /\ Flag.absent = False /\ Flag.null = Refused
    BY DEF Flag, Field
  <1>2. False \notin {Absent, Null, Refused, True, Str("true"), Num("1"), Str("1")}
    BY DEF False, True, Str, Num, Absent, Null, Refused
  <1>3. FlagOf(False) = False
    BY <1>2 DEF FlagOf
  <1> QED
    BY <1>1, <1>2, <1>3 DEF IsField, Coerced

LEMMA EnumIsField ==
    ASSUME NEW S, NEW t \in S
    PROVE  IsField(OneOf(S, t))
  <1>1. /\ OneOf(S, t).kind = "enum" /\ OneOf(S, t).allowed = S
        /\ OneOf(S, t).absent = Str(t) /\ OneOf(S, t).null = Refused
    BY DEF OneOf, Field
  <1>2. EnumOf(S, Str(t)) = Str(t)
    BY TextTwice DEF EnumOf
  <1> QED
    BY <1>1, <1>2, TextTwice DEF IsField, Coerced

LEMMA NumberTwice ==
    ASSUME NEW t \in DOMAIN AsInt, NEW range, AsInt[t] \in range
    PROVE  IntIn(Num(t), range) = Num(t) /\ Num(t) \notin {Absent, Null, Refused}
  <1>1. /\ Num(t)[1] = "number" /\ Num(t)[2] = t
        /\ Num(t) \notin {Absent, Null, Refused, True}
    BY DEF Num, Absent, Null, Refused, True
  <1> QED
    BY <1>1 DEF IntIn

LEMMA PortIsField ==
    ASSUME NEW t \in {"8080", "8081"}
    PROVE  IsField(Port(t))
  <1>1. /\ Port(t).kind = "port" /\ Port(t).absent = Num(t) /\ Port(t).null = Refused
    BY DEF Port, Field
  <1>2. t \in DOMAIN AsInt /\ AsInt[t] \in Ports
    <2>1. AsInt["8080"] = 8080 /\ AsInt["8081"] = 8081
      BY DEF AsInt
    <2>2. "8080" \in DOMAIN AsInt /\ "8081" \in DOMAIN AsInt
      BY DEF AsInt
    <2>3. 8080 \in Ports /\ 8081 \in Ports
      BY DEF Ports
    <2> QED
      BY <2>1, <2>2, <2>3
  <1>3. Coerced(Port(t), Num(t)) = Num(t) /\ Num(t) \notin {Absent, Null, Refused}
    BY <1>1, <1>2, NumberTwice DEF Coerced
  <1> QED
    BY <1>1, <1>3 DEF IsField

LEMMA TimeoutIsField ==
    ASSUME NEW t \in {"60", "120"}
    PROVE  IsField(Timeout(t))
  <1>1. /\ Timeout(t).kind = "timeout"
        /\ Timeout(t).absent = Num(t) /\ Timeout(t).null = Num("60")
    BY DEF Timeout, Field
  <1>2. \A n \in {"60", "120"} : n \in DOMAIN AsInt /\ AsInt[n] \in Seconds
    BY DEF AsInt, Seconds
  <1>3. \A n \in {"60", "120"} :
            /\ Coerced(Timeout(t), Num(n)) = Num(n)
            /\ Num(n) \notin {Absent, Null, Refused}
    BY <1>1, <1>2, NumberTwice DEF Coerced
  <1> QED
    BY <1>1, <1>3 DEF IsField

\* Every section of the schema is made of fields.
LEMMA SectionsHaveFields ==
    /\ AreFields(Client) /\ AreFields(Host) /\ AreFields(Ui)
    /\ AreFields(RemoteHost) /\ AreFields(LLM) /\ AreFields(SAM)
  <1>1. IsField(Mode) /\ IsField(Routing)
    BY EnumIsField DEF Mode, Routing
  <1>2. IsField(OneOf({"http", "https"}, "http"))
    BY EnumIsField
  <1>3. IsField(OneOf({"llama-completion", "openai-chat", "openai-responses"},
                      "llama-completion"))
    BY EnumIsField
  <1>4. IsField(Port("8080")) /\ IsField(Port("8081"))
    BY PortIsField
  <1>5. IsField(Timeout("60")) /\ IsField(Timeout("120"))
    BY TimeoutIsField
  <1>6. \A t : IsField(Text(t))
    BY TextIsField
  <1>7. AreFields(Client)
    BY <1>1, <1>6, SMTT(20) DEF Client, AreFields, InnerKeys
  <1>8. AreFields(Host)
    BY <1>4, <1>6, SMTT(20) DEF Host, AreFields, InnerKeys
  <1>9. AreFields(Ui)
    BY <1>6, SMTT(20) DEF Ui, AreFields, InnerKeys
  <1>10. AreFields(RemoteHost)
    BY <1>2, <1>4, <1>6, SMTT(20) DEF RemoteHost, AreFields, InnerKeys
  <1>11. AreFields(LLM)
    BY <1>1, <1>3, <1>4, <1>5, <1>6, ListIsField, FlagIsField, SMTT(20)
    DEF LLM, AreFields, InnerKeys
  <1>12. AreFields(SAM)
    BY <1>1, <1>5, <1>6, ListIsField, FlagIsField, SMTT(20) DEF SAM, AreFields, InnerKeys
  <1> QED
    BY <1>7, <1>8, <1>9, <1>10, <1>11, <1>12

-----------------------------------------------------------------------------
(* Paths *)

LEMMA AppendFacts ==
    ASSUME NEW s \in Seq(Keys), NEW k
    PROVE  /\ Len(Append(s, k)) = Len(s) + 1
           /\ Append(s, k)[Len(s) + 1] = k
           /\ \A i \in 1 .. Len(s) : Append(s, k)[i] = s[i]
           /\ SubSeq(Append(s, k), 1, Len(s)) = s
  <1> DEFINE S == Keys \cup {k}
  <1>1. s \in Seq(S) /\ k \in S
    BY SeqMonotonic
  <1> HIDE DEF S
  <1>2. Len(Append(s, k)) = Len(s) + 1 /\ Append(s, k)[Len(s) + 1] = k
    BY <1>1, AppendProperties
  <1>3. \A i \in 1 .. Len(s) : Append(s, k)[i] = s[i]
    BY <1>1, AppendProperties
  <1>4. SubSeq(Append(s, k), 1, Len(s)) = s
    BY <1>1
  <1> QED
    BY <1>2, <1>3, <1>4

\* A path is a prefix of itself, and a proper prefix is shorter.
LEMMA PrefixFacts ==
    ASSUME NEW path \in Seq(Keys)
    PROVE  /\ path \in Prefixes(path)
           /\ << >> \in Prefixes(path)
           /\ \A p \in Prefixes(path) :
                /\ p \in Seq(Keys)
                /\ Prefixes(p) \subseteq Prefixes(path)
                /\ p # path => Len(p) < Len(path)
  <1>1. Len(path) \in Nat
    BY LenProperties
  <1>2. path \in Prefixes(path)
    <2>1. SubSeq(path, 1, Len(path)) = path
      BY SubSeqFull
    <2>2. Len(path) \in 0 .. Len(path)
      BY <1>1
    <2> QED
      BY <2>1, <2>2, ZenonT(20) DEF Prefixes
  <1>3. << >> \in Prefixes(path)
    <2>1. SubSeq(path, 1, 0) = << >>
      BY SubSeqEmpty
    <2> QED
      BY <1>1, <2>1 DEF Prefixes
  <1>4. ASSUME NEW p \in Prefixes(path)
        PROVE  /\ p \in Seq(Keys)
               /\ Prefixes(p) \subseteq Prefixes(path)
               /\ p # path => Len(p) < Len(path)
    <2>1. PICK n \in 0 .. Len(path) : p = SubSeq(path, 1, n)
      BY DEF Prefixes
    <2>2. p \in Seq(Keys) /\ Len(p) = n
      BY <1>1, <2>1
    <2>3. ASSUME NEW m \in 0 .. n
          PROVE  SubSeq(p, 1, m) = SubSeq(path, 1, m)
      BY <1>1, <2>1, <2>3
    <2>4. Prefixes(p) \subseteq Prefixes(path)
      BY <1>1, <2>2, <2>3 DEF Prefixes
    <2>5. n = Len(path) => p = path
      BY <2>1, SubSeqFull
    <2> QED
      BY <1>1, <2>2, <2>4, <2>5
  <1> QED
    BY <1>2, <1>3, <1>4

\* What the schema is made of: fields whose validation has its own results for
\* fixed points, at paths that are neither a section's nor below the version.
LEMMA KnownFacts ==
    /\ \A path \in Known : IsField(FieldAt(path))
    /\ Known \cap (Sections \cup {<< >>}) = {}
    /\ \A path \in Known \cup Sections :
        path \in Seq(Keys) /\ path # << >> /\ path[1] # "version"
  <1>1. \A s \in Sections : s \in Seq(Keys) /\ AreFields(Schema[s])
    <2>1. \A s \in Sections : AreFields(Schema[s])
      BY SectionsHaveFields DEF Schema, Sections, OuterSections
    <2> QED
      BY <2>1, SDAssumption
  <1>2. \A s \in Sections :
            /\ Len(s) = 1 \/ (Len(s) = 2 /\ s[2] \in InnerKeys)
            /\ s[1] # "version"
    <2>1. \A s \in Sections : Len(s) = 1 \/ (Len(s) = 2 /\ s[2] \in InnerKeys)
      BY DEF Sections, OuterSections, InnerKeys
    <2>2. \A s \in Sections : s[1] # "version"
      BY DEF Sections, OuterSections
    <2> QED
      BY <2>1, <2>2
  <1>3. ASSUME NEW path \in Known
        PROVE  /\ IsField(FieldAt(path)) /\ path \notin Sections
               /\ Len(path) \in {2, 3} /\ path[1] # "version"
    <2>1. PICK s \in Sections : path \in {Append(s, k) : k \in DOMAIN Schema[s]}
      BY DEF Known
    <2>2. PICK k \in DOMAIN Schema[s] : path = Append(s, k)
      BY <2>1
    <2>3. /\ Len(path) = Len(s) + 1 /\ path[Len(path)] = k
          /\ SubSeq(path, 1, Len(path) - 1) = s
      BY <1>1, <2>2, AppendFacts, LenProperties
    <2>4. k \notin InnerKeys /\ IsField(FieldAt(path))
      BY <1>1, <2>3 DEF AreFields, FieldAt
    <2>5. CASE Len(s) = 1
      <3>1. Len(path) = 2
        BY <2>3, <2>5
      <3>2. path \notin Sections
        <4>1. path[2] = k
          BY <2>3, <3>1
        <4>2. path \in Sections => path[2] \in InnerKeys
          BY <1>2, <3>1
        <4> QED
          BY <2>4, <4>1, <4>2
      <3>3. path[1] = s[1]
        BY <1>1, <2>2, <2>5, AppendFacts
      <3> QED
        BY <1>2, <2>4, <3>1, <3>2, <3>3
    <2>6. CASE Len(s) = 2
      <3>1. Len(path) = 3
        BY <2>3, <2>6
      <3>2. path \notin Sections
        BY <1>2, <3>1
      <3>3. path[1] = s[1]
        BY <1>1, <2>2, <2>6, AppendFacts
      <3> QED
        BY <1>2, <2>4, <3>1, <3>2, <3>3
    <2> QED
      BY <1>2, <2>5, <2>6
  <1>4. \A path \in Known \cup Sections : path \in Seq(Keys) /\ path # << >>
    BY <1>2, <1>3, SDAssumption
  <1> QED
    BY <1>2, <1>3, <1>4

-----------------------------------------------------------------------------
(* Trees *)

\* What a merged document has at a path.
LEMMA MergeGet ==
    ASSUME NEW base, NEW overlay, NEW path
    PROVE  Get(Merge(base, overlay), path) =
              IF path \in DOMAIN overlay THEN overlay[path]
              ELSE IF Spared(path, overlay) THEN Get(base, path) ELSE Absent
  BY DEF Merge, Get

\* What is at or below the version has "version" for its first key.
LEMMA BelowVersion ==
    ASSUME NEW path \in Seq(Keys), Version \in Prefixes(path)
    PROVE  path[1] = "version"
  <1>1. PICK n \in 0 .. Len(path) : Version = SubSeq(path, 1, n)
    BY DEF Prefixes
  <1>2. Len(Version) = 1 /\ Version[1] = "version" /\ Len(path) \in Nat
    BY LenProperties DEF Version
  <1>3. Len(SubSeq(path, 1, n)) = n
    BY <1>2
  <1>4. n = 1
    BY <1>1, <1>2, <1>3
  <1>5. SubSeq(path, 1, n)[1] = path[1]
    BY <1>2, <1>4
  <1> QED
    BY <1>1, <1>2, <1>5

\* Values at the same depth make a tree, with nothing but objects above them.
LEMMA TreeIsTree ==
    ASSUME NEW values, NEW n \in Nat,
           \A path \in DOMAIN values : path \in Seq(Keys) /\ Len(path) = n
    PROVE  IsTree(Tree(values))
  <1> DEFINE paths == {<< >>} \cup UNION {Prefixes(p) : p \in DOMAIN values}
  <1>1. ASSUME NEW path \in paths
        PROVE  /\ path \in Seq(Keys) /\ Prefixes(path) \subseteq paths
               /\ \A p \in Prefixes(path) : p # path => p \notin DOMAIN values
    <2>1. CASE path = << >>
      <3>1. path \in Seq(Keys) /\ Len(path) = 0
        BY <2>1, EmptySeq
      <3>2. ASSUME NEW p \in Prefixes(path)
            PROVE  p = path
        <4>1. p \in Seq(Keys) /\ (p # path => Len(p) < 0)
          BY <3>1, PrefixFacts
        <4>2. Len(p) \in Nat
          BY <4>1, LenProperties
        <4> QED
          BY <4>1, <4>2
      <3> QED
        BY <2>1, <3>1, <3>2
    <2>2. ASSUME NEW q \in DOMAIN values, path \in Prefixes(q)
          PROVE  /\ path \in Seq(Keys) /\ Prefixes(path) \subseteq paths
                 /\ \A p \in Prefixes(path) : p # path => p \notin DOMAIN values
      <3>1. q \in Seq(Keys) /\ Len(q) = n
        OBVIOUS
      <3>2. path \in Seq(Keys) /\ Prefixes(path) \subseteq Prefixes(q)
        BY <2>2, <3>1, PrefixFacts
      <3>3. ASSUME NEW p \in Prefixes(path), p # path
            PROVE  p \notin DOMAIN values
        <4>1. Len(p) < Len(path)
          BY <3>2, <3>3, PrefixFacts
        <4>2. path = q \/ Len(path) < Len(q)
          BY <2>2, <3>1, PrefixFacts
        <4>3. p \in Seq(Keys)
          BY <3>2, <3>3, PrefixFacts
        <4>4. Len(p) \in Nat /\ Len(path) \in Nat
          BY <3>2, <4>3, LenProperties
        <4>5. Len(p) # n
          BY <3>1, <4>1, <4>2, <4>4
        <4> QED
          BY <4>5
      <3> QED
        BY <3>2, <3>3
    <2> QED
      BY <2>1, <2>2
  <1>2. DOMAIN Tree(values) = paths
    BY DEF Tree
  <1>3. \A path \in paths : path \notin DOMAIN values => Tree(values)[path] = Object
    BY DEF Tree
  <1> HIDE DEF paths
  <1>4. << >> \in paths
    BY DEF paths
  <1> QED
    BY <1>1, <1>2, <1>3, <1>4 DEF IsTree

\* Two trees are merged into a tree.
LEMMA MergeIsTree ==
    ASSUME NEW base, IsTree(base), NEW overlay, IsTree(overlay)
    PROVE  IsTree(Merge(base, overlay))
  <1> DEFINE new == Merge(base, overlay)
  <1>1. DOMAIN new = DOMAIN overlay \cup {p \in DOMAIN base : Spared(p, overlay)}
    BY DEF Merge
  <1>2. \A path \in DOMAIN new :
            new[path] = IF path \in DOMAIN overlay THEN overlay[path] ELSE base[path]
    BY DEF Merge
  <1> HIDE DEF new
  <1>3. << >> \in DOMAIN new
    BY <1>1 DEF IsTree
  <1>4. ASSUME NEW path \in DOMAIN new, NEW p \in Prefixes(path)
        PROVE  p \in DOMAIN new /\ (p # path => new[p] = Object)
    <2>1. CASE path \in DOMAIN overlay
      BY <1>1, <1>2, <2>1 DEF IsTree
    <2>2. CASE path \in DOMAIN base /\ Spared(path, overlay)
      <3>1. path \in Seq(Keys) /\ p \in DOMAIN base /\ (p # path => base[p] = Object)
        BY <2>2 DEF IsTree
      <3>2. Spared(p, overlay)
        BY <2>2, <3>1, PrefixFacts DEF Spared
      <3>3. p \in DOMAIN overlay => overlay[p] = Object
        BY <2>2 DEF Spared
      <3> QED
        BY <1>1, <1>2, <3>1, <3>2, <3>3
    <2> QED
      BY <1>1, <2>1, <2>2
  <1>5. \A path \in DOMAIN new : path \in Seq(Keys)
    BY <1>1 DEF IsTree
  <1>6. IsTree(new)
    BY <1>3, <1>4, <1>5 DEF IsTree
  <1> QED
    BY <1>6 DEF new

\* Validation makes a tree of anything.
LEMMA BuildIsTree == ASSUME NEW d PROVE IsTree(Build(d))
  <1> DEFINE paths == {<< >>} \cup Sections \cup Known
  <1>1. << >> \in Seq(Keys) /\ \A p \in Prefixes(<< >>) : p = << >>
    <2>1. << >> \in Seq(Keys) /\ Len(<< >>) = 0
      BY EmptySeq
    <2>2. ASSUME NEW p \in Prefixes(<< >>)
          PROVE  p = << >>
      <3>1. p \in Seq(Keys) /\ (p # << >> => Len(p) < 0)
        BY <2>1, PrefixFacts
      <3>2. Len(p) \in Nat
        BY <3>1, LenProperties
      <3> QED
        BY <3>1, <3>2
    <2> QED
      BY <2>1, <2>2
  <1>2. ASSUME NEW s \in Seq(Keys), NEW k, Append(s, k) \in Seq(Keys),
               NEW p \in Prefixes(Append(s, k)), p # Append(s, k)
        PROVE  p \in Prefixes(s)
    <2> DEFINE path == Append(s, k)
    <2>1. Len(path) = Len(s) + 1 /\ SubSeq(path, 1, Len(s)) = s /\ Len(s) \in Nat
      BY AppendFacts, LenProperties
    <2> HIDE DEF path
    <2>2. PICK n \in 0 .. Len(path) : p = SubSeq(path, 1, n)
      BY DEF Prefixes, path
    <2>3. n # Len(path)
      BY <1>2, <2>2, SubSeqFull DEF path
    <2>4. n \in 0 .. Len(s)
      BY <2>1, <2>3
    <2>5. SubSeq(SubSeq(path, 1, Len(s)), 1, n) = SubSeq(path, 1, n)
      BY <1>2, <2>1, <2>4 DEF path
    <2> QED
      BY <2>1, <2>2, <2>4, <2>5 DEF Prefixes
  <1>3. ASSUME NEW s \in OuterSections, NEW p \in Prefixes(s)
        PROVE  p \in {<< >>, s}
    <2>1. s \in Seq(Keys) /\ Len(s) = 1
      BY SDAssumption DEF Sections, OuterSections
    <2>2. p \in Seq(Keys) /\ (p # s => Len(p) < 1)
      BY <2>1, PrefixFacts
    <2>3. Len(p) = 0 => p = << >>
      BY <2>2, EmptySeq
    <2> QED
      BY <2>2, <2>3, LenProperties
  <1>4. ASSUME NEW s \in Sections, NEW p \in Prefixes(s)
        PROVE  p \in paths /\ p \notin Known
    <2>1. s \in OuterSections \/ \E o \in OuterSections, k \in InnerKeys : s = Append(o, k)
      BY DEF Sections, OuterSections, InnerKeys
    <2>2. OuterSections \subseteq Sections /\ Sections \subseteq Seq(Keys)
      BY SDAssumption DEF Sections
    <2>3. p \in {<< >>, s} \cup OuterSections
      <3>1. CASE s \in OuterSections
        BY <1>3, <3>1
      <3>2. ASSUME NEW o \in OuterSections, NEW k \in InnerKeys, s = Append(o, k)
            PROVE  p \in {<< >>, s} \cup OuterSections
        <4>1. o \in Seq(Keys) /\ s \in Seq(Keys)
          BY <2>2
        <4>2. p # s => p \in Prefixes(o)
          BY <1>2, <3>2, <4>1
        <4> QED
          BY <1>3, <4>2
      <3> QED
        BY <2>1, <3>1, <3>2
    <2> QED
      BY <2>2, <2>3, KnownFacts
  <1>5. ASSUME NEW path \in Known, NEW p \in Prefixes(path), p # path
        PROVE  p \in paths /\ p \notin Known
    <2>1. PICK s \in Sections : path \in {Append(s, k) : k \in DOMAIN Schema[s]}
      BY DEF Known
    <2>2. PICK k \in DOMAIN Schema[s] : path = Append(s, k)
      BY <2>1
    <2>3. p \in Prefixes(s)
      BY <1>2, <1>5, <2>2, SDAssumption
    <2> QED
      BY <1>4, <2>3
  <1>6. DOMAIN Build(d) = paths /\ \A p \in paths \ Known : Build(d)[p] = Object
    BY DEF Build
  <1>7. paths \subseteq Seq(Keys) /\ << >> \in paths /\ << >> \notin Known
    BY <1>1, SDAssumption, KnownFacts
  <1> HIDE DEF paths
  <1>8. ASSUME NEW path \in paths, NEW p \in Prefixes(path)
        PROVE  p \in paths /\ (p # path => p \notin Known)
    BY <1>1, <1>4, <1>5, <1>7, <1>8 DEF paths
  <1> QED
    BY <1>6, <1>7, <1>8 DEF IsTree

LEMMA VersionPrefixes ==
    /\ Version \in Seq(Keys) /\ Len(Version) = 1 /\ Version # << >>
    /\ Prefixes(Version) = {<< >>, Version}
  <1>1. Version \in Seq(Keys) /\ Len(Version) = 1 /\ Version # << >>
    BY SDAssumption DEF Version
  <1>2. ASSUME NEW p \in Prefixes(Version), p # Version
        PROVE  p = << >>
    <2>1. p \in Seq(Keys) /\ Len(p) < 1
      BY <1>1, <1>2, PrefixFacts
    <2> QED
      BY <2>1, EmptySeq, LenProperties
  <1> QED
    BY <1>1, <1>2, PrefixFacts

\* The document with which the version is set
LEMMA VersionTree ==
    LET mark == Tree([path \in {Version} |-> Num("1")])
    IN  /\ IsTree(mark)
        /\ DOMAIN mark = {<< >>, Version}
        /\ mark[<< >>] = Object /\ mark[Version] = Num("1")
        /\ \A path \in Seq(Keys) : Version \notin Prefixes(path) => Spared(path, mark)
  <1> DEFINE values == [path \in {Version} |-> Num("1")]
             mark == Tree(values)
  <1>1. Version \in Seq(Keys) /\ Len(Version) = 1 /\ Version # << >>
    BY VersionPrefixes
  <1>2. \A path \in DOMAIN values : path \in Seq(Keys) /\ Len(path) = 1
    BY <1>1
  <1>3. IsTree(mark)
    BY <1>2, TreeIsTree
  <1>4. Prefixes(Version) = {<< >>, Version}
    BY VersionPrefixes
  <1>5. DOMAIN mark = {<< >>, Version}
    BY <1>4 DEF Tree
  <1>6. mark[<< >>] = Object /\ mark[Version] = Num("1")
    BY <1>1, <1>5 DEF Tree
  <1> HIDE DEF mark
  <1>7. \A path \in Seq(Keys) : Version \notin Prefixes(path) => Spared(path, mark)
    BY <1>5, <1>6 DEF Spared
  <1> QED
    BY <1>3, <1>5, <1>6, <1>7 DEF mark

-----------------------------------------------------------------------------
(* Migration *)

LEMMA WithoutIsTree ==
    ASSUME NEW d, IsTree(d), NEW keys
    PROVE  IsTree(Without(d, keys))
  <1> DEFINE new == Without(d, keys)
  <1>1. /\ DOMAIN new = {p \in DOMAIN d : p = << >> \/ Head(p) \notin keys}
        /\ \A path \in DOMAIN new : new[path] = d[path]
    BY DEF Without
  <1> HIDE DEF new
  <1>2. << >> \in DOMAIN new /\ \A path \in DOMAIN new : path \in Seq(Keys)
    BY <1>1 DEF IsTree
  <1>3. ASSUME NEW path \in DOMAIN new, NEW p \in Prefixes(path)
        PROVE  p \in DOMAIN new /\ (p # path => new[p] = Object)
    <2>1. p \in DOMAIN d /\ (p # path => d[p] = Object)
      BY <1>1 DEF IsTree
    <2>2. PICK n \in 0 .. Len(path) : p = SubSeq(path, 1, n)
      BY DEF Prefixes
    <2>3. CASE n = 0
      <3>1. p = << >>
        BY <2>2, <2>3, SubSeqEmpty
      <3> QED
        BY <1>1, <2>1, <3>1
    <2>4. CASE n # 0
      <3>1. Len(path) \in Nat /\ path \in Seq(Keys)
        BY <1>2, LenProperties
      <3>2. 1 \in 1 .. Len(path) /\ n \in 1 .. Len(path)
        BY <2>4, <3>1
      <3>3. Head(p) = path[1]
        BY <2>2, <3>1, <3>2, HeadTailOfSubSeq
      <3>4. Head(path) = path[1] /\ path # << >>
        BY <3>1, <3>2, EmptySeq
      <3> QED
        BY <1>1, <2>1, <3>3, <3>4
    <2> QED
      BY <2>3, <2>4
  <1>4. IsTree(new)
    BY <1>2, <1>3 DEF IsTree
  <1> QED
    BY <1>4 DEF new

\* The fields that the migration writes are among those of the schema.
LEMMA MigratedFields ==
    /\ {<<"client", "llm_mode">>, <<"client", "sam3_mode">>} \subseteq Seq(Keys)
    /\ {<<"host", "listen_ip">>, <<"host", "listen_port">>} \subseteq Seq(Keys)
    /\ <<"client">> \in Seq(Keys)
  <1>1. <<"client">> \in Sections /\ <<"host">> \in Sections
    BY DEF Sections, OuterSections
  <1>2. Schema[<<"client">>] = Client
    BY <1>1 DEF Schema
  <1>3. Schema[<<"host">>] = Host
    BY <1>1 DEF Schema
  <1>4. "llm_mode" \in DOMAIN Client /\ "sam3_mode" \in DOMAIN Client
    BY DEF Client
  <1>5. "listen_ip" \in DOMAIN Host /\ "listen_port" \in DOMAIN Host
    BY DEF Host
  <1>6. \A s \in Sections : \A k \in DOMAIN Schema[s] : Append(s, k) \in Known
    BY DEF Known
  <1>7. /\ Append(<<"client">>, "llm_mode") \in Known
        /\ Append(<<"client">>, "sam3_mode") \in Known
        /\ Append(<<"host">>, "listen_ip") \in Known
        /\ Append(<<"host">>, "listen_port") \in Known
    BY ONLY <1>1, <1>2, <1>3, <1>4, <1>5, <1>6, ZenonT(20)
  <1>8. /\ <<"client", "llm_mode">> = Append(<<"client">>, "llm_mode")
        /\ <<"client", "sam3_mode">> = Append(<<"client">>, "sam3_mode")
        /\ <<"host", "listen_ip">> = Append(<<"host">>, "listen_ip")
        /\ <<"host", "listen_port">> = Append(<<"host">>, "listen_port")
    OBVIOUS
  <1> QED
    BY <1>1, <1>7, <1>8, SDAssumption

\* The migration makes a tree of a tree.
LEMMA MigratedIsTree ==
    ASSUME NEW d, IsTree(d)
    PROVE  IsTree(Migrated(d))
  <1>1. ASSUME NEW e, IsTree(e)
        PROVE  IsTree(WithModes(e))
    <2>1. ASSUME NEW v
          PROVE  IsTree(Tree(
                     [path \in {<<"client", "llm_mode">>, <<"client", "sam3_mode">>} |-> v]))
      <3> DEFINE values == [path \in {<<"client", "llm_mode">>, <<"client", "sam3_mode">>} |-> v]
      <3>1. \A path \in DOMAIN values : path \in Seq(Keys) /\ Len(path) = 2
        BY MigratedFields
      <3> QED
        BY <3>1, TreeIsTree
    <2>2. IsTree(Tree([path \in {<<"client">>} |-> Object]))
      <3> DEFINE values == [path \in {<<"client">>} |-> Object]
      <3>1. \A path \in DOMAIN values : path \in Seq(Keys) /\ Len(path) = 1
        BY MigratedFields
      <3> QED
        BY <3>1, TreeIsTree
    <2> QED
      BY <1>1, <2>1, <2>2, MergeIsTree DEF WithModes
  <1>2. ASSUME NEW e, IsTree(e)
        PROVE  IsTree(WithListener(e))
    <2>1. ASSUME NEW v, NEW w
          PROVE  IsTree(Tree([path \in {<<"host", "listen_ip">>, <<"host", "listen_port">>} |->
                                    IF path = <<"host", "listen_ip">> THEN v ELSE w]))
      <3> DEFINE values == [path \in {<<"host", "listen_ip">>, <<"host", "listen_port">>} |->
                                    IF path = <<"host", "listen_ip">> THEN v ELSE w]
      <3>1. \A path \in DOMAIN values : path \in Seq(Keys) /\ Len(path) = 2
        BY MigratedFields
      <3> QED
        BY <3>1, TreeIsTree
    <2> QED
      BY <1>2, <2>1, WithoutIsTree, MergeIsTree DEF WithListener
  <1>3. ASSUME NEW e, IsTree(e)
        PROVE  IsTree(WithVersion(e))
    BY <1>3, VersionTree, MergeIsTree DEF WithVersion
  <1> QED
    BY <1>1, <1>2, <1>3 DEF Migrated

-----------------------------------------------------------------------------
(* What is written *)

\* What a document has after its version was set
LEMMA WithVersionGet ==
    ASSUME NEW d, NEW path \in Seq(Keys)
    PROVE  Get(WithVersion(d), path) =
              IF path = << >> THEN Object
              ELSE IF path = Version THEN Num("1")
              ELSE IF Version \in Prefixes(path) THEN Absent
              ELSE Get(d, path)
  <1> DEFINE mark == Tree([p \in {Version} |-> Num("1")])
  <1>1. /\ DOMAIN mark = {<< >>, Version}
        /\ mark[<< >>] = Object /\ mark[Version] = Num("1")
        /\ Version \notin Prefixes(path) => Spared(path, mark)
    BY VersionTree
  <1>2. Num("1") # Object /\ Version # << >>
    BY DEF Num, Object, Version
  <1>3. Get(WithVersion(d), path) =
              IF path \in DOMAIN mark THEN mark[path]
              ELSE IF Spared(path, mark) THEN Get(d, path) ELSE Absent
    BY MergeGet DEF WithVersion
  <1> HIDE DEF mark
  <1>4. Version \in Prefixes(path) => ~Spared(path, mark)
    BY <1>1, <1>2 DEF Spared
  <1> QED
    BY <1>1, <1>2, <1>3, <1>4

\* The typed settings win over the document they are written into.
LEMMA NormalizedGet ==
    ASSUME NEW from, NEW doc
    PROVE  LET new == Normalized(Build(from), doc)
           IN  /\ Get(new, << >>) = Object
               /\ Get(new, Version) = Num("1")
               /\ \A section \in Sections : Get(new, section) = Object
               /\ \A path \in Known :
                    Get(new, path) = Validated(FieldAt(path), Get(from, path))
  <1> DEFINE typed == Build(from)
             merged == Merge(doc, typed)
             new == Normalized(typed, doc)
  <1>1. /\ DOMAIN typed = {<< >>} \cup Sections \cup Known
        /\ \A path \in Sections : typed[path] = Object
        /\ \A path \in Known : typed[path] = Validated(FieldAt(path), Get(from, path))
    BY KnownFacts DEF Build
  <1>2. \A path \in DOMAIN typed : Get(merged, path) = typed[path]
    BY MergeGet
  <1>3. \A path \in Seq(Keys) :
            Get(new, path) =
                IF path = << >> THEN Object
                ELSE IF path = Version THEN Num("1")
                ELSE IF Version \in Prefixes(path) THEN Absent
                ELSE Get(merged, path)
    BY WithVersionGet DEF Normalized
  <1> HIDE DEF typed, merged, new
  <1>4. \A path \in Known \cup Sections :
            path \in Seq(Keys) /\ path \notin {<< >>, Version} /\ Version \notin Prefixes(path)
    <2>1. Version[1] = "version"
      BY DEF Version
    <2> QED
      BY <2>1, KnownFacts, BelowVersion
  <1>5. << >> \in Seq(Keys) /\ Version \in Seq(Keys) /\ Version # << >>
    BY EmptySeq, SDAssumption DEF Version
  <1>6. Get(new, << >>) = Object /\ Get(new, Version) = Num("1")
    BY <1>3, <1>5
  <1>7. \A path \in Known \cup Sections : Get(new, path) = typed[path]
    BY <1>1, <1>2, <1>3, <1>4
  <1> QED
    BY <1>1, <1>6, <1>7 DEF new, typed

\* A file, the typed settings and the raw document that belong together: the
\* file loads as these settings, and so does the raw document, which is not of
\* the first schema any more.
Sound(f, typed, doc) ==
    /\ IsTree(f) /\ Loads(f) /\ Build(Migrated(f)) = typed
    /\ IsTree(doc) /\ HasVersion(doc) /\ ~IsLegacy(doc) /\ Build(doc) = typed
    /\ doc = Migrated(f)

LEMMA CurrentIsCurrent ==
    ASSUME NEW d, Get(d, << >>) = Object, Get(d, Version) = Num("1")
    PROVE  HasVersion(d) /\ ~IsLegacy(d)
  BY DEF HasVersion, IsLegacy, Num, Absent

\* What is written is read back as what was meant.
LEMMA WrittenIsSound ==
    ASSUME NEW from,
           \A path \in Known : Validated(FieldAt(path), Get(from, path)) # Refused,
           NEW doc, IsTree(doc)
    PROVE  LET new == Normalized(Build(from), doc) IN Sound(new, Build(from), new)
  <1> DEFINE new == Normalized(Build(from), doc)
  <1>1. /\ Get(new, << >>) = Object /\ Get(new, Version) = Num("1")
        /\ \A section \in Sections : Get(new, section) = Object
        /\ \A path \in Known : Get(new, path) = Validated(FieldAt(path), Get(from, path))
    BY NormalizedGet
  <1>2. IsTree(new)
    <2>1. IsTree(Merge(doc, Build(from)))
      BY BuildIsTree, MergeIsTree
    <2> QED
      BY <2>1, VersionTree, MergeIsTree DEF Normalized, WithVersion
  <1> HIDE DEF new
  <1>3. HasVersion(new) /\ ~IsLegacy(new) /\ Migrated(new) = new
    BY <1>1, CurrentIsCurrent DEF Migrated
  <1>4. \A path \in Known :
            Validated(FieldAt(path), Get(new, path)) = Validated(FieldAt(path), Get(from, path))
    BY <1>1, KnownFacts, ValidatedTwice
  <1>5. IsValid(new)
    BY <1>1, <1>4 DEF IsValid, Sections
  <1>6. Build(new) = Build(from)
    BY <1>4 DEF Build
  <1>7. Sound(new, Build(from), new)
    BY <1>2, <1>3, <1>5, <1>6 DEF Sound, Loads
  <1> QED
    BY <1>7 DEF new

\* The factory defaults pass the validation.
LEMMA DefaultsAreValid ==
    \A path \in Known : Validated(FieldAt(path), Get(NoDoc, path)) # Refused
  <1>1. \A path : Get(NoDoc, path) = Absent
    BY DEF Get, NoDoc
  <1> QED
    BY <1>1, KnownFacts DEF Validated, IsField

LEMMA TreeIsDoc == ASSUME NEW d, IsTree(d) PROVE d # NoDoc
  BY DEF IsTree, NoDoc

-----------------------------------------------------------------------------
(* Invariance *)

DInv ==
    /\ DocTypeOK
    /\ cached # NoDoc => Sound(file, cached, raw)
    /\ cached = NoDoc => raw = NoDoc

\* Whatever is opened is sound.
LEMMA OpenedIsSound ==
    ASSUME DInv, Opens
    PROVE  Sound(Opened.file, Opened.cached, Opened.raw)
  <1>1. CASE cached # NoDoc
    BY <1>1 DEF DInv, Opened
  <1>2. CASE cached = NoDoc /\ file = NoDoc
    <2>1. LET doc == Normalized(Defaults, Defaults) IN Sound(doc, Defaults, doc)
      BY DefaultsAreValid, BuildIsTree, WrittenIsSound DEF Defaults
    <2> QED
      BY <1>2, <2>1 DEF Opened
  <1>3. CASE cached = NoDoc /\ file # NoDoc
    <2>1. IsTree(file) /\ Loads(file)
      BY <1>3 DEF DInv, DocTypeOK, Opens
    <2>2. IsTree(Migrated(file)) /\ HasVersion(Migrated(file)) /\ ~IsLegacy(Migrated(file))
      <3>1. IsTree(Migrated(file))
        BY <2>1, MigratedIsTree
      <3>2. CASE IsLegacy(file)
        <4>1. Version \in Seq(Keys) /\ << >> \in Seq(Keys) /\ Version # << >>
          BY SDAssumption, EmptySeq DEF Version
        <4> QED
          BY <3>1, <3>2, <4>1, WithVersionGet, CurrentIsCurrent DEF Migrated
      <3>3. CASE ~IsLegacy(file)
        BY <2>1, <3>1, <3>3 DEF Migrated, Loads
      <3> QED
        BY <3>2, <3>3
    <2> QED
      BY <1>3, <2>1, <2>2 DEF Opened, Sound
  <1> QED
    BY <1>1, <1>2, <1>3

\* An update's result, with the document it was merged into.
LEMMA UpdateFacts ==
    ASSUME DInv, NEW u \in Updates, Update(u)
    PROVE  LET merged == Migrated(Merge(Opened.raw, u))
           IN  /\ cached' = Build(merged)
               /\ raw' = Normalized(Build(merged), merged)
               /\ Sound(file', cached', raw')
  <1> DEFINE base == Merge(Opened.raw, u)
  <1>1. IsTree(Opened.raw)
    BY OpenedIsSound DEF Update, Sound
  <1>2. IsTree(base) /\ IsTree(Migrated(base))
    BY <1>1, SDAssumption, MergeIsTree, MigratedIsTree
  <1>3. /\ Loads(base)
        /\ file' = Normalized(Build(Migrated(base)), Migrated(base))
        /\ cached' = Build(Migrated(base))
        /\ raw' = Normalized(Build(Migrated(base)), Migrated(base))
    BY DEF Update, Becomes
  <1> HIDE DEF base
  <1>4. Sound(file', cached', raw')
    BY <1>2, <1>3, WrittenIsSound DEF Loads, IsValid
  <1> QED
    BY <1>3, <1>4 DEF base

LEMMA SoundKeepsDInv ==
    ASSUME IsTree(cached'), Sound(file', cached', raw')
    PROVE  DInv'
  BY TreeIsDoc DEF DInv, DocTypeOK, Sound

\* The invariant: documents are trees, and what is cached, with the file and
\* the raw document, is sound.
THEOREM DocInvariance == DocSpec => []DInv
  <1>1. DocInit => DInv
    BY SDAssumption DEF DocInit, DInv, DocTypeOK
  <1>2. ASSUME DInv, DocNext
        PROVE  DInv'
    <2>1. CASE Load
      <3>1. Sound(file', cached', raw')
        BY <1>2, <2>1, OpenedIsSound DEF Load, Becomes
      <3> QED
        BY <3>1, BuildIsTree, SoundKeepsDInv DEF Sound
    <2>2. CASE Reset
      <3> DEFINE base == IF raw = NoDoc THEN Defaults ELSE raw
                 doc == Normalized(Defaults, base)
      <3>1. IsTree(base)
        BY <1>2, BuildIsTree DEF DInv, DocTypeOK, Defaults
      <3>2. file' = doc /\ cached' = Defaults /\ raw' = doc
        BY <2>2 DEF Reset, Becomes
      <3> HIDE DEF base
      <3>3. Sound(doc, Defaults, doc)
        BY <3>1, DefaultsAreValid, WrittenIsSound DEF Defaults
      <3> QED
        BY <3>2, <3>3, BuildIsTree, SoundKeepsDInv DEF Sound
    <2>3. CASE Restart
      BY <1>2, <2>3 DEF Restart, DInv, DocTypeOK
    <2>4. ASSUME NEW u \in Updates, Update(u)
          PROVE  DInv'
      <3>1. Sound(file', cached', raw')
        BY <1>2, <2>4, UpdateFacts
      <3> QED
        BY <3>1, BuildIsTree, SoundKeepsDInv DEF Sound
    <2>5. ASSUME NEW u \in Updates, UpdateRefused(u)
          PROVE  DInv'
      <3>1. Sound(file', cached', raw')
        BY <1>2, <2>5, OpenedIsSound DEF UpdateRefused, Becomes
      <3> QED
        BY <3>1, BuildIsTree, SoundKeepsDInv DEF Sound
    <2> QED
      BY <1>2, <2>1, <2>2, <2>3, <2>4, <2>5 DEF DocNext
  <1>3. DInv /\ UNCHANGED vars => DInv'
    BY DEF DInv, DocTypeOK, vars
  <1> QED
    BY <1>1, <1>2, <1>3, PTL DEF DocSpec

-----------------------------------------------------------------------------
(* Results *)

\* File, cache and raw document are trees: nothing is ever below a scalar.
THEOREM DocumentsAreTrees == DocSpec => []DocTypeOK
  BY DocInvariance, PTL DEF DInv

\* What the store has in memory is what the next start of the program reads.
THEOREM RestartReadsWhatIsCached == DocSpec => []RestartYieldsTheSame
  <1>1. DInv => RestartYieldsTheSame
    BY DEF DInv, Sound, RestartYieldsTheSame
  <1> QED
    BY <1>1, DocInvariance, PTL

\* An update changes the fields it names and no others: the unknown fields are
\* not disturbed by the migration, the validation and the two merges.
THEOREM UpdatesAreLocal == DocSpec => UpdateIsLocal
  <1>1. ASSUME DInv, NEW u \in Updates, Update(u), cached # NoDoc, Version \notin DOMAIN u
        PROVE  ChangesOnly(u)
    <2> DEFINE merged == Merge(raw, u)
               typed == Build(merged)
    <2>1. Sound(file, cached, raw) /\ Opened.raw = raw
      BY <1>1 DEF DInv, Opened
    <2>2. \A path : Get(merged, path) =
                IF path \in DOMAIN u THEN u[path]
                ELSE IF Spared(path, u) THEN Get(raw, path) ELSE Absent
      BY MergeGet
    <2>3. Get(merged, Version) = Get(raw, Version)
      <3>1. Spared(Version, u)
        BY <1>1, VersionPrefixes, SDAssumption DEF Spared
      <3> QED
        BY <1>1, <2>2, <3>1
    <2>4. Migrated(merged) = merged
      BY <2>1, <2>3 DEF Migrated, Sound, IsLegacy
    <2>5. cached' = typed /\ raw' = Normalized(typed, merged)
      BY <1>1, <2>1, <2>4, UpdateFacts
    <2>6. \A path \in Known :
                /\ typed[path] = Validated(FieldAt(path), Get(merged, path))
                /\ cached[path] = Validated(FieldAt(path), Get(raw, path))
      BY <2>1 DEF Build, Sound
    <2>7. /\ DOMAIN typed = {<< >>} \cup Sections \cup Known
          /\ \A path \in DOMAIN typed : path \notin Known => typed[path] = Object
      BY DEF Build
    <2>8. \A path \in Seq(Keys) :
                Get(raw', path) =
                    IF path = << >> THEN Object
                    ELSE IF path = Version THEN Num("1")
                    ELSE IF Version \in Prefixes(path) THEN Absent
                    ELSE Get(Merge(merged, typed), path)
      BY <2>5, WithVersionGet DEF Normalized
    <2> HIDE DEF merged, typed
    <2>9. ASSUME NEW path \in DOMAIN raw \ (Known \cup Sections \cup {Version}),
                 path \notin DOMAIN u, Spared(path, u), Prefixes(path) \cap Known = {}
          PROVE  Get(raw', path) = raw[path]
      <3>1. path \in Seq(Keys) /\ path # << >>
        BY <2>1, <2>9, SDAssumption DEF Sound, IsTree
      <3>2. Version \notin Prefixes(path)
        <4>1. Version \in Prefixes(path) => Version \in DOMAIN raw /\ raw[Version] = Object
          BY <2>1, <2>9 DEF Sound, IsTree
        <4>2. Get(raw, Version) \in {Num("1"), Num("2")}
          BY <2>1 DEF Sound, HasVersion, IsLegacy
        <4>3. Object \notin {Num("1"), Num("2")}
          BY DEF Object, Num
        <4> QED
          BY <4>1, <4>2, <4>3 DEF Get
      <3>3. path \notin DOMAIN typed /\ Spared(path, typed)
        BY <2>7, <2>9, <3>1 DEF Spared
      <3>4. Get(raw', path) = Get(merged, path)
        BY <2>8, <3>1, <3>2, <3>3, <2>9, MergeGet
      <3> QED
        BY <2>2, <2>9, <3>4 DEF Get
    <2>10. ASSUME NEW path \in Known
           PROVE  IF path \in DOMAIN u
                  THEN cached'[path] = Validated(FieldAt(path), u[path])
                  ELSE Spared(path, u) => cached'[path] = cached[path]
      BY <2>2, <2>5, <2>6
    <2> QED
      BY <2>9, <2>10 DEF ChangesOnly
  <1>2. DInv /\ [DocNext]_vars =>
        [\A u \in Updates :
            Update(u) /\ cached # NoDoc /\ Version \notin DOMAIN u => ChangesOnly(u)]_vars
    BY <1>1
  <1> QED
    BY <1>2, DocInvariance, PTL DEF DocSpec, UpdateIsLocal

-----------------------------------------------------------------------------
(* The register *)

\* What is opened is what is saved, migrated if it has to be, and leaves it.
LEMMA OpenedIsSaved ==
    ASSUME DInv, Opens
    PROVE  Opened.raw = InFile(file) /\ InFile(Opened.file) = Opened.raw
  <1>1. Sound(Opened.file, Opened.cached, Opened.raw)
    BY OpenedIsSound
  <1>2. Opened.file # NoDoc /\ Opened.raw = Migrated(Opened.file)
    BY <1>1, TreeIsDoc DEF Sound
  <1>3. Opened.raw = InFile(file)
    <2>1. CASE cached # NoDoc
      BY <1>2, <2>1 DEF Opened, InFile
    <2>2. CASE cached = NoDoc
      BY <2>2 DEF Opened, InFile
    <2> QED
      BY <2>1, <2>2
  <1> QED
    BY <1>2, <1>3 DEF InFile

\* What is in memory is what is in the file.
LEMMA MemoryIsSaved ==
    ASSUME NEW f, NEW typed, NEW doc,
           typed # NoDoc => Sound(f, typed, doc),
           typed = NoDoc => doc = NoDoc
    PROVE  (IF doc = NoDoc THEN InFile(f) ELSE doc) = InFile(f)
  <1>1. CASE typed = NoDoc
    BY <1>1
  <1>2. CASE typed # NoDoc
    <2>1. f # NoDoc /\ doc = Migrated(f)
      BY <1>2, TreeIsDoc DEF Sound
    <2> QED
      BY <2>1 DEF InFile
  <1> QED
    BY <1>1, <1>2

LEMMA StepImplements ==
    ASSUME DInv, DInv', DocNext
    PROVE  [Register!RegisterNext]_(Register!regVars)
  <1>1. /\ (IF raw = NoDoc THEN InFile(file) ELSE raw) = InFile(file)
        /\ (IF raw' = NoDoc THEN InFile(file') ELSE raw') = InFile(file')
    BY MemoryIsSaved DEF DInv
  <1>2. ASSUME Opens, Becomes(Opened)
        PROVE  UNCHANGED Register!regVars
    <2>1. InFile(file') = InFile(file)
      BY <1>2, OpenedIsSaved DEF Becomes
    <2> QED
      BY <1>1, <2>1 DEF Register!regVars
  <1>3. CASE Load
    BY <1>2, <1>3 DEF Load
  <1>4. ASSUME NEW u \in Updates, UpdateRefused(u)
        PROVE  UNCHANGED Register!regVars
    BY <1>2, <1>4 DEF UpdateRefused
  <1>5. CASE Restart
    BY <1>1, <1>5 DEF Restart, Register!regVars
  <1>6. ASSUME NEW u \in Updates, Update(u)
        PROVE  Register!RegisterNext
    <2>1. Opened.raw = InFile(file)
      BY <1>6, OpenedIsSaved DEF Update
    <2>2. raw' = Updated(InFile(file), u) /\ Sound(file', cached', raw')
      BY <1>6, <2>1, UpdateFacts DEF Updated
    <2>3. InFile(file') = Updated(InFile(file), u)
      BY <2>2, TreeIsDoc DEF Sound, InFile
    <2>4. Register!Update(u)
      BY <1>1, <2>3 DEF Register!Update, Register!Save
    <2> QED
      BY <2>4 DEF Register!RegisterNext
  <1>7. CASE Reset
    <2>1. raw' = Normalized(Defaults, IF raw = NoDoc THEN Defaults ELSE raw) /\ cached' = Defaults
      BY <1>7 DEF Reset, Becomes
    <2>2. cached' # NoDoc
      BY <2>1, BuildIsTree, TreeIsDoc DEF Defaults
    <2>3. Sound(file', cached', raw')
      BY <2>2 DEF DInv
    <2>4. InFile(file') = raw'
      BY <2>3, TreeIsDoc DEF Sound, InFile
    <2>5. \/ InFile(file') = Normalized(Defaults, Defaults)
          \/ InFile(file') = Fresh(InFile(file))
      BY <1>1, <2>1, <2>4 DEF Fresh
    <2>6. Register!Reset
      BY <1>1, <2>5 DEF Register!Reset, Register!Save
    <2> QED
      BY <2>6 DEF Register!RegisterNext
  <1> QED
    BY <1>3, <1>4, <1>5, <1>6, <1>7 DEF DocNext

\* However files are migrated and updates are merged and coerced, the store is
\* one saved document, which only updates and resets change.
THEOREM RegisterImplemented == DocSpec => ImplementsRegister
  <1>1. DocInit => Register!RegisterInit
    BY DEF DocInit, Register!RegisterInit
  <1>2. DInv /\ DInv' /\ [DocNext]_vars => [Register!RegisterNext]_(Register!regVars)
    <2> SUFFICES ASSUME DInv, DInv', [DocNext]_vars
                 PROVE  [Register!RegisterNext]_(Register!regVars)
      OBVIOUS
    <2>1. CASE DocNext
      BY <2>1, StepImplements
    <2>2. CASE UNCHANGED vars
      BY <2>2 DEF vars, Register!regVars, InFile
    <2> QED
      BY <2>1, <2>2
  <1> QED
    BY <1>1, <1>2, DocInvariance, PTL DEF DocSpec, ImplementsRegister, Register!RegisterSpec
-----------------------------------------------------------------------------
(* Repeated updates *)

\* To merge the same documents again, in the same order, changes nothing.
LEMMA MergeAgain ==
    ASSUME NEW base, NEW u, NEW t, NEW v
    PROVE  LET r == Merge(Merge(Merge(base, u), t), v)
           IN  Merge(Merge(Merge(r, u), t), v) = r
  <1> DEFINE Has(d, p) == p \in DOMAIN d
             m == Merge(base, u)
             x == Merge(m, t)
             r == Merge(x, v)
             m2 == Merge(r, u)
             x2 == Merge(m2, t)
             r2 == Merge(x2, v)
  <1>1. ASSUME NEW b, NEW o
        PROVE  /\ Merge(b, o) = [p \in DOMAIN Merge(b, o) |-> Merge(b, o)[p]]
               /\ \A p : Has(Merge(b, o), p) <=> Has(o, p) \/ (Has(b, p) /\ Spared(p, o))
               /\ \A p : Has(Merge(b, o), p) =>
                    Merge(b, o)[p] = IF Has(o, p) THEN o[p] ELSE b[p]
    BY DEF Merge
  <1>2. \A p : Has(m, p) => m[p] = IF Has(u, p) THEN u[p] ELSE base[p]
    BY <1>1
  <1>3. /\ \A p : Has(x, p) <=> Has(t, p) \/ (Has(m, p) /\ Spared(p, t))
        /\ \A p : Has(x, p) => x[p] = IF Has(t, p) THEN t[p] ELSE m[p]
    BY <1>1
  <1>4. /\ \A p : Has(r, p) <=> Has(v, p) \/ (Has(x, p) /\ Spared(p, v))
        /\ \A p : Has(r, p) => r[p] = IF Has(v, p) THEN v[p] ELSE x[p]
        /\ r = [p \in DOMAIN r |-> r[p]]
    BY <1>1
  <1>5. /\ \A p : Has(m2, p) <=> Has(u, p) \/ (Has(r, p) /\ Spared(p, u))
        /\ \A p : Has(m2, p) => m2[p] = IF Has(u, p) THEN u[p] ELSE r[p]
    BY <1>1
  <1>6. /\ \A p : Has(x2, p) <=> Has(t, p) \/ (Has(m2, p) /\ Spared(p, t))
        /\ \A p : Has(x2, p) => x2[p] = IF Has(t, p) THEN t[p] ELSE m2[p]
    BY <1>1
  <1>7. /\ \A p : Has(r2, p) <=> Has(v, p) \/ (Has(x2, p) /\ Spared(p, v))
        /\ \A p : Has(r2, p) => r2[p] = IF Has(v, p) THEN v[p] ELSE x2[p]
        /\ r2 = [p \in DOMAIN r2 |-> r2[p]]
    BY <1>1
  <1>8. \A p : Has(m, p) <=> Has(u, p) \/ (Has(base, p) /\ Spared(p, u))
    BY <1>1
  <1> HIDE DEF m, x, r, m2, x2, r2
  <1>9. ASSUME NEW p
        PROVE  (p \in DOMAIN r2 <=> p \in DOMAIN r) /\ (p \in DOMAIN r => r2[p] = r[p])
    BY <1>2, <1>3, <1>4, <1>5, <1>6, <1>7, <1>8
  <1>10. DOMAIN r2 = DOMAIN r
    BY <1>9
  <1>11. r2 = r
    BY <1>4, <1>7, <1>9, <1>10
  <1> QED
    BY <1>11 DEF m, x, r, m2, x2, r2

\* An update that was applied and comes again, because its answer was lost or
\* the page was submitted twice, changes nothing any more.
RepeatIsNoChange ==
    [][\A u \in Updates :
        Update(u) /\ Version \notin DOMAIN u =>
            Loads(Merge(raw', u)) /\ Updated(raw', u) = raw']_vars

\* However a value was migrated, coerced and merged, to put it again is not a
\* change, and it is not refused.
THEOREM RepeatedUpdatesChangeNothing == DocSpec => RepeatIsNoChange
  <1>1. ASSUME DInv, NEW u \in Updates, Update(u), Version \notin DOMAIN u
        PROVE  Loads(Merge(raw', u)) /\ Updated(raw', u) = raw'
    <2> DEFINE base == Opened.raw
               m == Merge(base, u)
               t == Build(m)
               again == Merge(raw', u)
    <2>1. Sound(Opened.file, Opened.cached, base) /\ Loads(m)
      BY <1>1, OpenedIsSound DEF Update
    <2>2. Spared(Version, u) /\ Spared(<< >>, u) /\ << >> \in DOMAIN u /\ u[<< >>] = Object
      BY <1>1, VersionPrefixes, PrefixFacts, EmptySeq, SDAssumption DEF Spared, IsTree
    <2>3. Get(m, Version) = Get(base, Version)
      BY <1>1, <2>2, MergeGet
    <2>4. Migrated(m) = m
      BY <2>1, <2>3 DEF Migrated, Sound, IsLegacy
    <2>5. raw' = Normalized(t, m) /\ Sound(file', cached', raw')
      BY <1>1, <2>4, UpdateFacts
    <2>6. /\ Get(raw', Version) = Num("1")
          /\ \A path \in Known : Get(raw', path) = Validated(FieldAt(path), Get(m, path))
          /\ \A section \in Sections : Get(raw', section) = Object
      BY <2>1, <2>5, NormalizedGet
    <2>7. \A path : Get(m, path) = IF path \in DOMAIN u THEN u[path]
                                   ELSE IF Spared(path, u) THEN Get(base, path) ELSE Absent
      BY MergeGet
    <2>8. \A path : Get(again, path) = IF path \in DOMAIN u THEN u[path]
                                       ELSE IF Spared(path, u) THEN Get(raw', path) ELSE Absent
      BY MergeGet
    <2>9. \A path \in Known : Validated(FieldAt(path), Get(m, path)) # Refused
      BY <2>1, <2>4 DEF Loads, IsValid
    <2> HIDE DEF base, m, again
    <2>10. \A path \in Known :
                Validated(FieldAt(path), Get(again, path)) = Validated(FieldAt(path), Get(m, path))
      BY <2>6, <2>7, <2>8, <2>9, KnownFacts, ValidatedTwice
    <2>11. Build(again) = t
      BY <2>10 DEF Build
    <2>12. Get(again, << >>) = Object /\ Get(again, Version) = Num("1")
      BY <1>1, <2>2, <2>6, <2>8
    <2>13. HasVersion(again) /\ Migrated(again) = again
      BY <2>12, CurrentIsCurrent DEF Migrated
    <2>14. \A section \in OuterSections : Get(again, section) \in {Absent, Object}
      <3>1. \A section \in OuterSections : Get(m, section) \in {Absent, Object}
        BY <2>1, <2>4 DEF Loads, IsValid
      <3> QED
        BY <2>6, <2>7, <2>8, <3>1 DEF Sections
    <2>15. Loads(again)
      BY <2>9, <2>10, <2>12, <2>13, <2>14 DEF Loads, IsValid
    <2>16. Updated(raw', u) = raw'
      <3>1. Updated(raw', u) = Normalized(t, again)
        BY <2>11, <2>13 DEF Updated, again
      <3>2. Normalized(t, again) = raw'
        BY <2>5, MergeAgain DEF Normalized, WithVersion, m, again
      <3> QED
        BY <3>1, <3>2
    <2> QED
      BY <2>15, <2>16 DEF again
  <1>2. DInv /\ [DocNext]_vars =>
        [\A u \in Updates :
            Update(u) /\ Version \notin DOMAIN u =>
                Loads(Merge(raw', u)) /\ Updated(raw', u) = raw']_vars
    BY <1>1
  <1> QED
    BY <1>2, DocInvariance, PTL DEF DocSpec, RepeatIsNoChange
=============================================================================
