----------------------------- MODULE JsonValues -----------------------------
(***************************************************************************)
(* How the client library turns JSON into typed values and back            *)
(* (src/src/deska/db/JsonExtraction.cpp, Revisions.cpp, MacAddress.cpp).   *)
(* A JSON value is a pair <<type, data>>: <<"str", text>>, <<"array",      *)
(* sequence>>, <<"obj", sequence of <<name, value>>>>, ...  Of a text only *)
(* what it can be read as is kept (TextOf).  A typed value is a pair       *)
(* <<type, data>> of the variant Value.                                    *)
(***************************************************************************)
EXTENDS JsonMessages, Integers, SequencesExt

Null  == <<"null", "">>
Unset == <<"unset", "">>
Ok(v) == <<"ok", v>>
StructureError  == <<"error", "JsonStructureError">>
ConversionError == <<"error", "exception of the converting library">>
AssertionFailed == <<"error", "the program aborts">>

(* The texts used, by what reads them: lexical_cast and the parsers of     *)
(* boost::asio and boost::date_time.                                       *)
TextOf == [int |-> {"12"}, double |-> {"12", "1.5"}, ipv4address |-> {"10.0.0.1"}, ipv6address |-> {"::1"},
           date |-> {"2011-04-07"}, timestamp |-> {"2011-04-07 17:22:33"},
           macaddress |-> {"00:16:3e:37:53:2b"}, string |-> {"t", "f", "12", "1.5", "golias"}]
BoolText == [t |-> "true", f |-> "false"]
(* from_simple_string ignores what comes after the day.                    *)
DayOf == [text \in TextOf["timestamp"] |-> "2011-04-07"]

(* The data types of kindAttributes and the members of the variant they    *)
(* are stored in.                                                          *)
AttributeTypes ==
  {"string", "int", "identifier", "identifier_set", "double", "bool", "macaddress",
   "ipv4address", "ipv6address", "timestamp", "date"}
VariantOf(type) == IF type = "identifier" THEN "string" ELSE type

(* ipv4, ipv6, date and timestamp throw exceptions of their libraries, the *)
(* others are reported as a broken protocol.                               *)
TextError(type) ==
  IF type \in {"ipv4address", "ipv6address", "date", "timestamp"} THEN ConversionError ELSE StructureError

\* mutant: a text that cannot be read is kept as a text
FromTextWrong(type, text) ==
  IF text \in TextOf[type] THEN Ok(<<VariantOf(type), text>>) ELSE Ok(<<"string", text>>)
FromText(type, text) ==
  IF type = "bool"
  THEN IF text \in DOMAIN BoolText THEN Ok(<<"bool", BoolText[text]>>) ELSE StructureError
  ELSE IF type = "date" /\ text \in DOMAIN DayOf THEN Ok(<<"date", DayOf[text]>>)
  ELSE IF text \in TextOf[type] THEN Ok(<<VariantOf(type), text>>) ELSE TextError(type)

ExtractSet(j) ==
  IF j[1] # "array" \/ \E i \in 1..Len(j[2]) : j[2][i][1] # "str" THEN StructureError
  ELSE Ok(<<"identifier_set", {j[2][i][2] : i \in 1..Len(j[2])}>>)

(* The JSON types in which a value of a type may come, besides text.       *)
Native == [int |-> {"int"}, double |-> {"real", "int"}, bool |-> {"bool"}]

(* SpecializedExtractor<JsonWrappedAttribute>.                             *)
ExtractAttribute(type, j) ==
  CASE j[1] = "null" -> Ok(Unset)
    [] j[1] # "null" /\ type = "identifier_set" -> ExtractSet(j)
    [] j[1] # "null" /\ type \in {"string", "identifier"} ->
         IF j[1] = "str" THEN Ok(<<"string", j[2]>>) ELSE StructureError
    [] OTHER ->
         IF j[1] = "str" THEN FromText(type, j[2])
         ELSE IF type \in DOMAIN Native /\ j[1] \in Native[type] THEN Ok(<<type, j[2]>>)
         ELSE StructureError

(* JsonConversionTraits<Value>::toJson.                                    *)
\* mutant: the empty set is written as null
ValueToJsonWrong(v) ==
  CASE v \in {Unset, <<"identifier_set", {}>>} -> Null
    [] v[1] = "int" -> <<"int", v[2]>>
    [] v[1] = "double" -> <<"real", v[2]>>
    [] v[1] = "bool" -> <<"bool", v[2]>>
    [] v[1] = "identifier_set" /\ v[2] # {} -> <<"array", SetToSeq({<<"str", x>> : x \in v[2]})>>
    [] OTHER -> <<"str", v[2]>>
ValueToJson(v) ==
  CASE v = Unset -> Null
    [] v[1] = "int" -> <<"int", v[2]>>
    [] v[1] = "double" -> <<"real", v[2]>>
    [] v[1] = "bool" -> <<"bool", v[2]>>
    [] v[1] = "identifier_set" -> <<"array", SetToSeq({<<"str", x>> : x \in v[2]})>>
    [] OTHER -> <<"str", v[2]>>

(* A tuple (origin, value).                                                *)
ExtractWithOrigin(type, j) ==
  IF j[1] # "array" \/ Len(j[2]) # 2 THEN StructureError
  ELSE LET v == ExtractAttribute(type, j[2][2]) IN
       IF v[1] = "error" THEN v
       ELSE IF j[2][1][1] = "null" THEN Ok(<<Unset, v[2]>>)
       ELSE IF j[2][1][1] = "str" THEN Ok(<<j[2][1], v[2]>>)
       ELSE StructureError

-----------------------------------------------------------------------------
(* JSON objects read field by field; good is the set of the fields that    *)
(* their extractors take.                                                  *)
Get(obj, name) == obj[CHOOSE i \in 1..Len(obj) : obj[i][1] = name][2]
ReadFields(names, optional) ==
  [i \in 1..Len(names) |-> [ReadField(names[i]) EXCEPT !.required = names[i] \notin optional]]
Parses(names, optional, good, obj, strict) ==
  ParseJsonObject(ReadFields(names, optional),
                  [i \in 1..Len(obj) |-> Node(obj[i][1], IF obj[i] \in good THEN "data" ELSE "bad")],
                  strict) = "ok"

StringFields(obj) == {f \in ToSet(obj) : f[2][1] = "str"}

(* The attributes of one object: every attribute of the kind has to be     *)
(* there, and nothing else; with its origin, or without.                   *)
ExtractAttributeMap(withOrigin, types, j) ==
  LET names == [i \in 1..Len(types) |-> types[i][1]]
      TypeOf(n) == types[CHOOSE i \in 1..Len(types) : types[i][1] = n][2]
      Element(type, v) == IF withOrigin THEN ExtractWithOrigin(type, v) ELSE ExtractAttribute(type, v)
      good == {f \in ToSet(j[2]) : f[1] \in ToSet(names) => Element(TypeOf(f[1]), f[2])[1] = "ok"}
  IN  IF j[1] # "obj" \/ ~Parses(names, {}, good, j[2], TRUE) THEN StructureError
      ELSE Ok({<<names[i], Element(types[i][2], Get(j[2], names[i]))[2]>> : i \in 1..Len(names)})

(* The attributes of all objects of a kind: one broken object spoils the   *)
(* answer.                                                                 *)
ExtractAttributeMapList(withOrigin, types, j) ==
  LET one(i) == ExtractAttributeMap(withOrigin, types, j[2][i][2]) IN
  IF j[1] # "obj" \/ \E i \in 1..Len(j[2]) : one(i)[1] = "error" THEN StructureError
  ELSE Ok({<<j[2][i][1], one(i)[2]>> : i \in 1..Len(j[2])})

(* kindAttributes: an object of names and names of types.                  *)
ExtractKindAttributes(j) ==
  IF j[1] = "obj" /\ \A i \in 1..Len(j[2]) : j[2][i][2][1] = "str" /\ j[2][i][2][2] \in AttributeTypes
  THEN Ok([i \in 1..Len(j[2]) |-> <<j[2][i][1], j[2][i][2][2]>>])
  ELSE StructureError

RelationKinds == {"EMBED_INTO", "REFERS_TO", "TEMPLATIZED", "CONTAINS", "CONTAINABLE"}
ExtractRelation(j) ==
  IF /\ j[1] = "obj"
     /\ Parses(<<"relation", "target", "column">>, {}, StringFields(j[2]), j[2], TRUE)
     /\ Get(j[2], "relation")[2] \in RelationKinds
  THEN Ok(<<Get(j[2], "relation")[2], Get(j[2], "target")[2], Get(j[2], "column")[2]>>)
  ELSE StructureError

-----------------------------------------------------------------------------
(* Revisions and changesets: a prefix and an unsigned number that is not   *)
(* zero; the texts are pairs <<prefix, number>>, a number that is no       *)
(* number is negative.  In pending changesets and revisions null is read   *)
(* in the place of the number, and then fails an assertion.                *)
FromRevisionText(prefix, text) ==
  IF text[1] = prefix /\ text[2] > 0 THEN Ok(text[2]) ELSE StructureError
RevisionToText(prefix, n) == <<prefix, n>>

ExtractRevision(prefix, j) == IF j[1] = "str" THEN FromRevisionText(prefix, j[2]) ELSE StructureError

AttachStatus == [DETACHED |-> "ATTACH_DETACHED", INPROGRESS |-> "ATTACH_IN_PROGRESS"]

PendingChangesetField(n, j) ==
  CASE n = "changeset" -> j[1] = "null" \/ ExtractRevision("tmp", j)[1] = "ok"
    [] n = "parentRevision" -> j[1] = "null" \/ ExtractRevision("r", j)[1] = "ok"
    [] n = "status" -> j[1] = "str" /\ j[2] \in DOMAIN AttachStatus
    [] n = "timestamp" -> j[1] = "str" /\ j[2] \in TextOf["timestamp"]
    [] n = "activeConnectionInfo" -> j[1] \in {"null", "str"}
    [] OTHER -> j[1] = "str"
ExtractPendingChangeset(j) ==
  IF ~Parses(<<"changeset", "author", "timestamp", "parentRevision", "message", "status", "activeConnectionInfo">>,
             {"activeConnectionInfo"}, {f \in ToSet(j[2]) : PendingChangesetField(f[1], f[2])}, j[2], TRUE) THEN StructureError
  ELSE IF Null \in {Get(j[2], "changeset"), Get(j[2], "parentRevision")} THEN AssertionFailed
  ELSE Ok(<<Get(j[2], "changeset"), Get(j[2], "parentRevision"), AttachStatus[Get(j[2], "status")[2]]>>)

RevisionMetadataField(n, j) ==
  CASE n = "revision" -> j[1] = "null" \/ ExtractRevision("r", j)[1] = "ok"
    [] n = "timestamp" -> j[1] = "str" /\ j[2] \in TextOf["timestamp"]
    [] OTHER -> j[1] = "str"
ExtractRevisionMetadata(j) ==
  IF ~Parses(<<"revision", "author", "timestamp", "commitMessage">>, {}, {f \in ToSet(j[2]) : RevisionMetadataField(f[1], f[2])}, j[2], TRUE) THEN StructureError
  ELSE IF Get(j[2], "revision") = Null THEN AssertionFailed
  ELSE Ok(<<Get(j[2], "revision"), Get(j[2], "author")[2]>>)

-----------------------------------------------------------------------------
(* MAC addresses, byte by byte.                                            *)
ReadMacAddressByte(b) == IF b < 0 \/ b >= 255 THEN <<"error", "byte out of range">> ELSE Ok(b)
MacFromText(bytes) ==
  IF Len(bytes) < 6 THEN <<"error", "too short">>
  ELSE IF \E i \in 1..6 : ReadMacAddressByte(bytes[i])[1] = "error" THEN <<"error", "byte out of range">>
  ELSE IF Len(bytes) > 6 THEN <<"error", "garbage at the end">>
  ELSE Ok(bytes)
MacToText(mac) == [i \in 1..6 |-> mac[i] % 256]

-----------------------------------------------------------------------------
(* Changes: written into applyBatchedChanges, and read from the answers of *)
(* the diffing functions.  A change is a sequence of its members.          *)
Str(x) == <<"str", x>>
ModificationToJson(c) ==
  LET named(names) == [i \in 1..Len(names) |-> <<names[i], Str(c[i])>>] IN
  CASE c[1] \in {"createObject", "deleteObject"} -> named(<<"command", "kindName", "objectName">>)
    [] c[1] = "renameObject" -> named(<<"command", "kindName", "oldObjectName", "newObjectName">>)
    [] c[1] \in {"setAttributeInsert", "setAttributeRemove"} ->
         named(<<"command", "kindName", "objectName", "attributeName", "attributeData">>)
    [] c[1] = "setAttribute" ->
         named(<<"command", "kindName", "objectName", "attributeName">>)
           \o <<<<"attributeData", ValueToJson(c[5])>>>>
           \o (IF c[6] = Unset THEN <<>> ELSE <<<<"oldAttributeData", ValueToJson(c[6])>>>>)

Wanted ==
  [createObject |-> <<"command", "kindName", "objectName">>,
   deleteObject |-> <<"command", "kindName", "objectName">>,
   renameObject |-> <<"command", "kindName", "oldObjectName", "newObjectName">>,
   setAttribute |-> <<"command", "kindName", "objectName", "attributeName">>]

(* JsonWrappedObjectModification: the command first, whatever else is      *)
(* there; then the fields of that command and no other; the values of      *)
(* setAttribute only once the type of the attribute is known.              *)
(* types: a set of <<kind, attribute, type>>.                              *)
ExtractModification(types, j) ==
  LET obj == j[2]
      cmd == Get(obj, "command")[2]
      named == [i \in 1..Len(Wanted[cmd]) |-> Get(obj, Wanted[cmd][i])[2]]
      data == {f \in ToSet(obj) : f[1] \in {"attributeData", "oldAttributeData"}}
      texts == data \cup StringFields(obj)
      of == {t \in types : t[1] = named[2] /\ t[2] = named[4]}
      type == (CHOOSE t \in of : TRUE)[3]
      typed == (ToSet(obj) \ data) \cup {f \in data : ExtractAttribute(type, f[2])[1] = "ok"}
  IN
  IF j[1] # "obj" \/ ~Parses(<<"command">>, {}, texts, obj, FALSE) THEN StructureError
  ELSE IF cmd \notin DOMAIN Wanted THEN StructureError
  ELSE IF cmd # "setAttribute"
       THEN IF Parses(Wanted[cmd], {}, texts, obj, TRUE) THEN Ok(named) ELSE StructureError
  ELSE IF ~Parses(Wanted[cmd], {}, texts, obj, FALSE) \/ of = {} THEN StructureError
  ELSE IF ~Parses(Wanted[cmd] \o <<"attributeData", "oldAttributeData">>, {}, typed, obj, TRUE) THEN StructureError
  ELSE Ok(named \o <<ExtractAttribute(type, Get(obj, "attributeData"))[2],
                     ExtractAttribute(type, Get(obj, "oldAttributeData"))[2]>>)

-----------------------------------------------------------------------------
(* dbException: the class first; a known class is thrown as it is.         *)
RemoteErrors ==
  {"InvalidKindError", "InvalidAttributeError", "NotFoundError", "NoChangesetError", "ChangesetAlreadyOpenError",
   "FreezingError", "FilterError", "ReCreateObjectError", "AlreadyExistsError", "RevisionParsingError",
   "RevisionRangeError", "ChangesetParsingError", "ChangesetRangeError", "ConstraintError", "ObsoleteParentError",
   "NotASetError", "ChangesetLockingError", "CfgGeneratingError", "SpecialReadOnlyAttributeError", "SqlError",
   "ServerError"}

ThrownFor(j) ==
  LET type == Get(j[2], "type")[2] IN
  IF j[1] # "obj" \/ ~Parses(<<"type">>, {}, StringFields(j[2]), j[2], FALSE) THEN "JsonStructureError"
  ELSE IF type \in RemoteErrors /\ Parses(<<"type", "message">>, {}, StringFields(j[2]), j[2], TRUE) THEN type
  ELSE "JsonStructureError"

-----------------------------------------------------------------------------
(* Filters: only written.  <<"and", s>>, <<"or", s>> or an expression.     *)
Comparisons ==
  [EQ |-> "columnEq", NE |-> "columnNe", GT |-> "columnGt", GE |-> "columnGe", LT |-> "columnLt", LE |-> "columnLe",
   CONTAINS |-> "columnContains", NOT_CONTAINS |-> "columnNotContains"]

ExpressionToJson(e) ==
  CASE e[1] = "metadata" ->
         <<"obj", <<<<"condition", Str(Comparisons[e[2]])>>, <<"metadata", Str(e[3])>>, <<"value", e[4]>>>>>>
    [] e[1] = "attribute" ->
         <<"obj", <<<<"condition", Str(Comparisons[e[2]])>>, <<"kind", Str(e[3])>>, <<"attribute", Str(e[4])>>,
                    <<"value", ValueToJson(e[5])>>>>>>
    [] e[1] = "special" ->
         <<"obj", <<<<"specialCondition", Str("embeddedLastOne")>>, <<"kind", Str(e[2])>>>>>>

RECURSIVE FilterToJson(_)
FilterToJson(f) ==
  IF f[1] \in {"and", "or"}
  THEN <<"obj", <<<<"operator", Str(f[1])>>,
                  <<"operands", <<"array", [i \in 1..Len(f[2]) |-> FilterToJson(f[2][i])]>>>>>>>>
  ELSE ExpressionToJson(f)
=============================================================================
