------------------------------ MODULE MCReading ------------------------------
(* Hosts with interfaces with ports; hardware with slots that hosts may     *)
(* contain; and texts of a few words.                                       *)
EXTENDS ClientReading

MCBytes == {0, 254, 255}
MCKinds == {"host", "interface", "port", "hardware", "slot"}
MCEmbeddedInto == [interface |-> "host", port |-> "interface", slot |-> "hardware"]
MCContainsKind == {<<"host", "hardware">>}
MCAttributes == [host |-> {"hardware", "role", "os"}, hardware |-> {"host", "cpu"}, interface |-> {"peer"},
                 port |-> {}, slot |-> {"card"}]
MCSets == {"role"}
MCRefersTo == {<<"interface", "peer", "host">>}
MCBooleans == {"cpu"}
MCInstances ==
  {<<"host", <<"a">>>>, <<"host", <<"b">>>>, <<"hardware", <<"a">>>>, <<"slot", <<"a", "s">>>>,
   <<"interface", <<"a", "x">>>>, <<"interface", <<"b", "x">>>>, <<"interface", <<"b", "y">>>>, <<"port", <<"a", "x", "p">>>>}
InOrder ==
  <<<<"host", <<"a">>>>, <<"interface", <<"a", "x">>>>, <<"interface", <<"b", "x">>>>, <<"interface", <<"b", "y">>>>,
    <<"hardware", <<"a">>>>, <<"host", <<"b">>>>, <<"slot", <<"a", "s">>>>, <<"port", <<"a", "x", "p">>>>>>
PlaceIn(s, x) == CHOOSE i \in 1..Len(s) : s[i] = x
MCIdentifiers == {[i \in MCInstances |-> PlaceIn(InOrder, i)], [i \in MCInstances |-> 9 - PlaceIn(InOrder, i)]}
MCNamePlaces == [n \in {"a", "b", "p", "s", "x", "y", "z"} |-> PlaceIn(<<"a", "b", "p", "s", "x", "y", "z">>, n)]

MCTyping == {"", "h"}
MCCommandPatterns ==
  {<<<<"start">>>>, <<<<"dump">>, <<"%file">>>>, <<<<"help">>, <<"kinds">>>>, <<<<"help">>, <<"host">>>>}

Object(k, n) == <<"object", k, n>>
Names(k) == UNION {Suffixes(i[2]) \ {<<>>} : i \in {j \in MCInstances : j[1] = k}}
AttributeNames == UNION {MCAttributes[k] : k \in MCKinds}
ConditionWords ==
  {<<a>> : a \in AttributeNames \cup {"name"}} \cup {<<k, ".", a>> : k \in MCKinds, a \in AttributeNames \cup {"name"}}
MCUniverse ==
  UNION {{Object(k, n) : n \in Names(k) \cup {<<"z">>}} : k \in MCKinds}
    \cup {<<"filter", k, <<>>>> : k \in MCKinds}
    \cup {<<"filter", k, <<w, <<"=">>, <<"v">>>>>> : k \in MCKinds, w \in ConditionWords}
    \cup {<<"new", k>> : k \in MCKinds} \cup {<<"no", a>> : a \in AttributeNames} \cup {<<"end">>}
    \cup {<<w, a, <<"v">>>> : w \in {"set", "add", "remove"}, a \in AttributeNames}

InHost == <<Object("host", "a")>>
MCPlaces ==
  {<<>>, InHost, <<Object("host", "a"), Object("interface", "x")>>, <<Object("hardware", "a")>>,
   <<Object("host", "a"), Object("interface", "x"), Object("port", "p")>>, <<<<"filter", "host", <<>>>>>>}
MCBegun ==
  LET first == {Object("host", <<"a">>), Object("host", <<"z">>), Object("interface", <<"x">>), Object("interface", <<"a", "x">>),
                <<"filter", "interface", <<>>>>, <<"new", "interface">>, <<"set", "os", <<"v">>>>, <<"end">>}
      second == {Object("interface", <<"x">>), <<"set", "peer", <<"a">>>>, <<"set", "os", <<"v">>>>}
      bare == {<<t>> : t \in first} \cup {<<t, u>> : t \in first, u \in second}
  IN  {<<>>} \cup bare \cup {<<<<w>>>> : w \in FunctionWords} \cup {<<<<w>>, t>> : w \in FunctionWords, t \in first}

Kind(op, path) == <<"kind", "interface", op, path>>
Author(v) == <<"metadata", "author", "EQ", v>>
LogLeaves == {Kind("EQ", <<"a", "x">>), Kind("GE", <<"x">>), Kind("EQ", <<>>), Kind("NE", <<"a", "x", "p">>), Kind("EQ", <<"a", "">>),
              Author("karel"), Author(""), <<"word", "foo">>}
MCLogLines ==
  LogLeaves \cup {<<op, <<f, g>>>> : op \in {"&", "|"}, f \in LogLeaves, g \in LogLeaves}

MCPlaceOf == [o \in {"host", "hw"} \X {"a", "b", "c", "d"} |->
                PlaceIn(<<"host", "hw">>, o[1]) * 10 + PlaceIn(<<"a", "b", "c", "d">>, o[2])]
(* What may become of one object, from its fate and its attributes.        *)
Sets1(k, n) == {<<"setAttribute", k, n, "slots", <<"int", "12">>, Unset>>, <<"setAttribute", k, n, "note", <<"string", "t">>, <<"string", "12">>>>}
Fates(k, n, old) ==
  LET sets == {<<>>} \cup {<<c>> : c \in Sets1(k, n)} \cup {SetToSeq(Sets1(k, n))}
      del == <<"deleteObject", k, n>>  new == <<"createObject", k, n>>  name == <<"renameObject", k, old, n>>
  IN  {<<del>>} \cup {s \o f : s \in sets, f \in {<<>>, <<new>>, <<new, del>>, <<name>>, <<name, del>>}}
MCChangeLists ==
  {f \o g \o h : f \in Fates("hw", "b", "d"), g \in Fates("hw", "a", "c"), h \in {<<>>, <<<<"createObject", "host", "a">>>>, <<<<"deleteObject", "host", "c">>>>}}

(* All that can be there of the instances, with values that are the        *)
(* object's own, not set, or from a template.                              *)
MCStores ==
  LET whole == {T \in SUBSET MCInstances : \A o \in T : Len(o[2]) = 1 \/ <<MCEmbeddedInto[o[1]], Front(o[2])>> \in T}
      IsRelation(o, a) == <<o[1], a>> \in MCContainsKind \/ <<a, o[1]>> \in MCContainsKind
      Own(T, values) == [o \in T |-> [a \in MCAttributes[o[1]] |->
                           IF IsRelation(o, a) THEN (IF <<a, o[2]>> \in T THEN o[2] ELSE <<>>) ELSE values]]
      Inherited(T, given) == [o \in T |-> [a \in MCAttributes[o[1]] |-> IF IsRelation(o, a) THEN <<<<>>, <<>>>> ELSE given]]
  IN  {[own |-> Own(T, <<"v">>), inherited |-> Inherited(T, <<<<"u">>, <<"t">>>>)] : T \in whole}
        \cup {[own |-> Own(T, <<>>), inherited |-> Inherited(T, given)] :
                 T \in whole, given \in {<<<<>>, <<>>>>, <<<<"u">>, <<"t">>>>, <<<<"u">>, <<"a">>>>}}

MCTextLines == {<<l>> : l \in UNION {[1..n -> {1, 3, 6}] : n \in 1..4}} \cup {<<<<1, 3>>, l>> : l \in [1..3 -> {1, 3, 6}]}
MCWidths == {0, 2, 6, 7, 10}
MCStrings == UNION {[1..n -> {"l", "\"", "'", " "}] : n \in 1..5}
MCTyped == UNION {[1..n -> {"", "l1", "l2"}] : n \in 0..5}

MCWhereNames == {"where", "where1"}
Days  == {<<y, m, d>> : y \in {1899, 1900, 2000, 2001}, m \in {0, 2, 4, 12, 13}, d \in {0, 1, 29, 30, 31, 32}}
Times == {<<0, 0, 0, 0>>, <<23, 59, 59, 5>>, <<24, 0, 0, 0>>, <<0, 60, 0, 0>>}
DoubleDigits ==
  {<<1>>, <<1, 5>>, <<1, 2, 3, 4, 5, 6>>, <<1, 2, 3, 4, 5, 6, 4>>, <<1, 2, 3, 4, 5, 9, 5>>, <<9, 9, 9, 9, 9, 9, 7, 1>>}
Groups == [1..8 -> {0, 1}] \cup {<<0, 0, 0, 0, 0, 65535, 1, 1>>, <<0, 0, 0, 0, 0, 65535, 0, 1>>, <<0, 0, 0, 0, 65535, 0, 0, 1>>}
MCTypedValues ==
  {<<"date", d>> : d \in Days} \cup {<<"timestamp", <<d, t>>>> : d \in Days, t \in Times}
    \cup {<<"macaddress", m>> : m \in [1..6 -> {0, 254, 255}]}
MCStoredValues ==
  {v \in MCTypedValues : CASE v[1] = "date" -> Exists(v[2])
                          [] v[1] = "timestamp" -> Exists(v[2][1]) /\ TimeMatches(v[2][2])
                          [] v[1] = "macaddress" -> MacFromText(v[2])[1] = "ok"}
    \cup {<<"identifier", n>> : n \in {"a", "b", "where", "where1"}}
    \cup {<<"identifier_set", s>> : s \in SUBSET {"a", "b", "where1"}}
    \cup {<<"double", d>> : d \in DoubleDigits} \cup {<<"ipv6address", g>> : g \in Groups}
    \cup {<<"bool", "true">>, <<"int", "12">>, <<"ipv4address", "10.0.0.1">>}
=============================================================================
