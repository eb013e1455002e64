---------------------------- MODULE JsonRoundTrip ----------------------------
(***************************************************************************)
(* One conversion of JsonValues after another: done holds the last one,    *)
(* what went in and what came out.  The inputs are values of every type of *)
(* attribute, JSON of every type in the place of each, and answers in      *)
(* which a member was lost, repeated, replaced, added or moved.            *)
(***************************************************************************)
EXTENDS JsonValues
CONSTANT Bytes            \* values of one byte of a MAC address

VARIABLE done
vars == <<done>>

(* A MAC address with bytes ff, as its other constructor makes it.         *)
Broadcast == <<"macaddress", "ff:ff:ff:ff:ff:ff">>

Values ==
  {Unset, Broadcast} \cup {<<"bool", b>> : b \in {"true", "false"}} \cup {<<"identifier_set", s>> : s \in SUBSET {"a", "b"}}
    \cup UNION {{<<t, x>> : x \in TextOf[t]} : t \in AttributeTypes \ {"bool", "identifier", "identifier_set"}}
TypesOf(v) == IF v = Unset THEN AttributeTypes ELSE {t \in AttributeTypes : VariantOf(t) = v[1]}

Texts == UNION {TextOf[t] : t \in DOMAIN TextOf}
Json ==
  {Null, <<"int", "12">>, <<"real", "1.5">>, <<"bool", "true">>, <<"obj", <<>>>>} \cup {Str(x) : x \in Texts \cup {Broadcast[2]}}
    \cup {<<"array", s>> : s \in {<<>>, <<Str("a"), Str("b")>>, <<Str("a"), Null>>, <<<<"int", "12">>>>,
                                  <<Null, Str("12")>>, <<Str("t"), <<"int", "12">>>>}}

(* A kind with a mandatory pair of attributes, and the changes of it.      *)
Scheme  == <<<<"slots", "int">>, <<"note", "string">>>>
Types   == {<<"hw", Scheme[i][1], Scheme[i][2]>> : i \in 1..2}
Members == {<<n, v>> : n \in {"slots", "note", "rack"}, v \in {Str("12"), Str("golias"), Null, <<"bool", "true">>}}
Changes ==
  {<<"createObject", "hw", "a">>, <<"deleteObject", "hw", "a">>, <<"renameObject", "hw", "a", "b">>}
    \cup {<<"setAttribute", "hw", "a", "slots", new, <<"int", "12">>>> : new \in {Unset, <<"int", "12">>}}
    \cup {<<"setAttribute", "hw", "a", "note", <<"string", "t">>, <<"string", "12">>>>}

(* What can happen to the members of an object on the way.                 *)
Distorted(obj) ==
  {obj, Reverse(obj), Append(obj, <<"author", Str("t")>>)}
    \cup {RemoveAt(obj, i) : i \in 1..Len(obj)} \cup {Append(obj, obj[i]) : i \in 1..Len(obj)}
    \cup {[obj EXCEPT ![i] = <<obj[i][1], Null>>] : i \in 2..Len(obj)}
    \cup {[obj EXCEPT ![i] = <<obj[i][1], <<"array", <<>>>>>>] : i \in 2..Len(obj)}

(* What the server answers with, whole.                                    *)
Time == <<"timestamp", Str("2011-04-07 17:22:33")>>
Writer == <<"author", Str("golias")>>
Answers ==
  [pendingChangesets |-> <<<<"changeset", Str(<<"tmp", 2>>)>>, Writer, <<"status", Str("DETACHED")>>, Time,
                           <<"parentRevision", Str(<<"r", 1>>)>>, <<"message", Str("t")>>, <<"activeConnectionInfo", Null>>>>,
   listRevisions     |-> <<<<"revision", Str(<<"r", 2>>)>>, Writer, Time, <<"commitMessage", Str("t")>>>>,
   kindRelations     |-> <<<<"relation", Str("REFERS_TO")>>, <<"target", Str("hw")>>, <<"column", Str("hardware")>>>>,
   kindAttributes    |-> <<<<"slots", Str("int")>>, <<"note", Str("string")>>>>]
ExtractAnswer(name, j) ==
  CASE name = "pendingChangesets" -> ExtractPendingChangeset(j)
    [] name = "listRevisions"     -> ExtractRevisionMetadata(j)
    [] name = "kindRelations"     -> ExtractRelation(j)
    [] name = "kindAttributes"    -> ExtractKindAttributes(j)

(* The classes of errors the server answers with.                          *)
ServerErrors ==
  {"ChangesetAlreadyOpenError", "NoChangesetError", "ReCreateObjectError", "NotFoundError", "ObsoleteParentError",
   "ConstraintError", "SpecialReadOnlyAttributeError", "AlreadyExistsError", "ChangesetParsingError",
   "RevisionParsingError", "RevisionRangeError", "ChangesetRangeError", "ChangesetLockingError", "SqlError",
   "ServerError", "InvalidKindError", "InvalidAttributeError", "FilterError", "NotASetError",
   "CfgGeneratingError", "FreezingError"}

Conditions ==
  {<<"metadata", c, m, Str(x)>> : c \in DOMAIN Comparisons, m \in {"author", "status"}, x \in {"t", "12"}}
    \cup {<<"attribute", c, "hw", "slots", v>> : c \in DOMAIN Comparisons, v \in {Unset, <<"int", "12">>}}
    \cup {<<"special", k>> : k \in {"hw", "host"}}
Filters ==
  Conditions \cup {<<op, <<>>>> : op \in {"and", "or"}} \cup {<<op, <<c>>>> : op \in {"and", "or"}, c \in Conditions}

-----------------------------------------------------------------------------
Init == done = <<"none">>

WriteValue == \E v \in Values : \E t \in TypesOf(v) : done' = <<"value", t, v, ExtractAttribute(t, ValueToJson(v))>>
ReadValue  == \E j \in Json, t \in AttributeTypes : done' = <<"json", t, j, ExtractAttribute(t, j)>>
ReadOrigin == \E j \in Json, t \in AttributeTypes : done' = <<"origin", t, j, ExtractWithOrigin(t, j)>>
ReadObject ==
  \E n \in 0..3 : \E obj \in [1..n -> Members] :
    done' = <<"object", obj, ExtractAttributeMapList(FALSE, Scheme, <<"obj", <<<<"a", <<"obj", obj>>>>>>>>)>>
ReadChange ==
  \E c \in Changes : \E obj \in Distorted(ModificationToJson(c)) :
    done' = <<"change", c, obj, ExtractModification(Types, <<"obj", obj>>)>>
ReadAnswer ==
  \E name \in DOMAIN Answers : \E obj \in Distorted(Answers[name]) :
    done' = <<"answer", name, obj, ExtractAnswer(name, <<"obj", obj>>)>>
ReadError ==
  \E e \in ServerErrors \cup {"KeyError"}, keys \in {<<"type">>, <<"message", "type">>, <<"type", "message", "hint">>} :
    done' = <<"error", e, keys,
              ThrownFor(<<"obj", [i \in 1..Len(keys) |-> <<keys[i], Str(IF keys[i] = "type" THEN e ELSE "t")>>]>>)>>
WriteFilters ==
  \E f \in Filters, g \in Filters : f # g /\ done' = <<"filters", f, g, FilterToJson(f) = FilterToJson(g)>>
ReadRevision ==
  \E own \in {"r", "tmp"}, asked \in {"r", "tmp"}, n \in -1..3 :
    done' = <<"revision", own, asked, n, FromRevisionText(asked, RevisionToText(own, n))>>
WriteMac == \E mac \in [1..6 -> Bytes] : done' = <<"mac", mac, MacFromText(MacToText(mac))>>

Convert ==
  WriteValue \/ ReadValue \/ ReadOrigin \/ ReadObject \/ ReadChange \/ ReadAnswer \/ ReadError
    \/ WriteFilters \/ ReadRevision \/ WriteMac

-----------------------------------------------------------------------------
(* What is written and read again is the same: a value of an attribute     *)
(* keeps its type, so that what a client sets is what the others see; a    *)
(* number written as a revision is never read as a changeset nor the other *)
(* way round, and r0 and tmp0 are refused.  One value does not survive: a  *)
(* MAC address with a byte ff is printed by operator<<, but the string     *)
(* constructor refuses it (MacAddress.cpp: buf >= 0xff), byte by byte and  *)
(* as the value of an attribute, where the answer it came in is refused.   *)
ValuesSurvive ==
  /\ done[1] = "value" => done[4] = IF done[3] = Broadcast THEN StructureError ELSE Ok(done[3])
  /\ done[1] = "revision" => done[5] = IF done[2] = done[3] /\ done[4] > 0 THEN Ok(done[4]) ELSE StructureError
  /\ done[1] = "mac" =>
       done[3] = IF 255 \in ToSet(done[2]) THEN <<"error", "byte out of range">> ELSE Ok(done[2])

(* Whatever comes in the place of a value, alone or with its origin, the   *)
(* client takes a value of the type the scheme has for the attribute, the  *)
(* unset value, or nothing: never a value of another type.  Every error    *)
(* the server can answer with is thrown as the class of that name; only    *)
(* what is no error of the protocol becomes a JsonStructureError, which    *)
(* most commands do not catch.                                             *)
NothingMistyped ==
  /\ done[1] = "json"   => done[4][1] = "error" \/ done[4][2] = Unset \/ done[4][2][1] = VariantOf(done[2])
  /\ done[1] = "origin" => done[4][1] = "error" \/ done[4][2][2] = Unset \/ done[4][2][2][1] = VariantOf(done[2])
  /\ done[1] = "error"  =>
       done[4] = IF done[2] \in ServerErrors /\ done[3] = <<"message", "type">> THEN done[2] ELSE "JsonStructureError"

(* The data of an object is taken whole or not at all: each attribute of   *)
(* the scheme once, with a value that can be read, and no other member.  A *)
(* change in the answer of a diff is read as the change it was, in any     *)
(* order of its members, and is refused when a member is missing,          *)
(* repeated, unknown or cannot be read; null is a value only for the       *)
(* attribute data.  So are a pending changeset, a revision and a relation; *)
(* only the connection of a changeset may be left out or null.  Two        *)
(* different filters are never sent as the same JSON.                      *)
MessagesAreExact ==
  /\ done[1] = "object" =>
       LET obj == done[2]
           whole == /\ Len(obj) = 2
                    /\ \E i \in 1..2 : /\ obj[i][1] = "slots" /\ obj[i][2] \in {Null, Str("12")}
                                       /\ obj[3 - i][1] = "note" /\ obj[3 - i][2] \in {Null, Str("12"), Str("golias")}
       IN  (done[3][1] = "ok") <=> whole
  /\ done[1] = "change" =>
       LET sent == ModificationToJson(done[2])
           obj  == done[3]
           IsData(n) == n \in {"attributeData", "oldAttributeData"}
       IN  /\ obj \in {sent, Reverse(sent)} => done[4] = Ok(done[2])
           /\ done[4][1] = "ok" =>
                /\ Len(obj) = Len(sent)
                /\ \A i \in 1..Len(sent) : sent[i] \in ToSet(obj) \/ (IsData(sent[i][1]) /\ <<sent[i][1], Null>> \in ToSet(obj))
  /\ done[1] = "answer" /\ done[2] # "kindAttributes" =>
       LET sent == ToSet(Answers[done[2]])
           obj  == done[3]
           free == {m \in sent : m[1] = "activeConnectionInfo"}
           whole == Len(obj) = Cardinality(ToSet(obj)) /\ ToSet(obj) \subseteq sent /\ sent \ free \subseteq ToSet(obj)
       IN  /\ (done[4][1] = "ok") <=> whole
           /\ whole => done[4] = ExtractAnswer(done[2], <<"obj", Answers[done[2]]>>)
  /\ done[1] = "filters" => ~done[4]
=============================================================================
