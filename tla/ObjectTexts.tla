----------------------------- MODULE ObjectTexts -----------------------------
(***************************************************************************)
(* What dump and show print about the objects: dump everything there is,   *)
(* show the objects of the context, with the values their templates give   *)
(* them and with the objects they contain.  The data are functions from    *)
(* the objects to functions from their attributes: own, what was set, and  *)
(* inherited, pairs <<value, name of the template>>.  Values and names are *)
(* paths, the empty one for a value that is not set.  A line is <<depth,   *)
(* "object", kind, name>>, <<depth, "attribute", attribute, value,         *)
(* origin>> or <<depth, "end">>.                                           *)
(***************************************************************************)
EXTENDS CliParser, FiniteSets

NoValue == <<>>
ObjectsOf(data) == DOMAIN data.own
InstancesIn(data, k) == {o \in ObjectsOf(data) : o[1] = k}

(* An attribute of a relation with a kind has the name of that kind.       *)
ContainedKind(k, a)   == IF a \in ContainedIn(k) THEN a ELSE NoName
ContainableKind(k, a) == IF a \in ContainableIn(k) THEN a ELSE NoName
\* mutant: the filter forgets what the parent itself is nested in
NestedObjectsOfAny(data, o) == {p \in ObjectsOf(data) : p[1] \in EmbedsIn(o[1]) /\ Last(Front(p[2])) = Last(o[2])}
NestedObjects(data, o)    == {p \in ObjectsOf(data) : p[1] \in EmbedsIn(o[1]) /\ Front(p[2]) = o[2]}
ContainedObjects(data, o) == {<<k, o[2]>> : k \in ContainedIn(o[1])} \cap ObjectsOf(data)

(* Where a value came from is not said of the object's own ones, by its    *)
(* whole name or by its local one, which a template can have as well.      *)
ResolvedWithOrigin(data, o, a) ==
  LET own == data.own[o][a] IN IF own # NoValue THEN <<own, o[2]>> ELSE data.inherited[o][a]
ToldOrigin(o, origin) == IF origin \in {o[2], <<Last(o[2])>>} THEN <<>> ELSE origin

-----------------------------------------------------------------------------
ObjectLine(o)              == <<0, "object", o[1], <<Last(o[2])>>>>
FullObjectLine(o)          == <<0, "object", o[1], o[2]>>
AttributeLine(a, v)        == <<0, "attribute", a, v, <<>>>>
OriginLine(o, a, resolved) == <<0, "attribute", a, resolved[1], ToldOrigin(o, resolved[2])>>
EndLine                    == <<0, "end">>
Indented(text) == [i \in 1..Len(text) |-> [text[i] EXCEPT ![1] = @ + 1]]
Listed(texts) == FlattenSeq([i \in 1..Cardinality(DOMAIN texts) |-> texts[SetToSeq(DOMAIN texts)[i]]])

(* dumpObjectRecursive: the block of an object, its end left out.          *)
DumpText(data) ==
  LET block[o \in ObjectsOf(data)] ==
        Listed([a \in Attributes[o[1]] |-> <<AttributeLine(a, data.own[o][a])>>])
          \o Listed([n \in NestedObjects(data, o) |-> <<ObjectLine(n)>> \o Indented(block[n]) \o <<EndLine>>])
  IN  Listed([o \in {p \in ObjectsOf(data) : p[1] \notin DOMAIN EmbeddedInto} |-> <<ObjectLine(o)>> \o Indented(block[o]) \o <<EndLine>>])

(* showObjectRecursive: the block of an object printed in that of a        *)
(* container (<<>> for none), which ends if there is anything in it.  That *)
(* every contained object was printed is asserted at the end.              *)
NotPrinted == <<0, "assertion failed">>
RefersBack(data, o, container, a) ==
  /\ container # <<>> /\ ContainableKind(o[1], a) = container[1]
  /\ ResolvedWithOrigin(data, o, a)[1] = container[2]
ShowBlocks(data) ==
  LET block[x \in ObjectsOf(data) \X (ObjectsOf(data) \cup {<<>>})] ==
        LET o == x[1]
            attributes == {a \in Attributes[o[1]] : ~RefersBack(data, o, x[2], a)}
            contained  == ContainedObjects(data, o)
            Within(a)  == LET c == <<ContainedKind(o[1], a), o[2]>>
                          IN  IF c \in contained THEN Indented(block[<<c, o>>]) ELSE <<>>
            Nested(n)  == LET b == block[<<n, <<>>>>]
                          IN  <<ObjectLine(n)>> \o Indented(b) \o (IF b = <<>> THEN <<>> ELSE <<EndLine>>)
        IN  Listed([a \in attributes |-> <<OriginLine(o, a, ResolvedWithOrigin(data, o, a))>> \o Within(a)])
              \o (IF \E c \in contained : ~\E a \in attributes : ContainedKind(o[1], a) = c[1] THEN <<NotPrinted>> ELSE <<>>)
              \o Listed([n \in NestedObjects(data, o) |-> Nested(n)])
  IN  block

(* show without a context, in that of one object and in that of a filter.  *)
ShowTop(data) ==
  Listed([k \in Kinds \ DOMAIN EmbeddedInto |-> Listed([o \in InstancesIn(data, k) |-> <<FullObjectLine(o)>>])])
ShowObject(data, o) == ShowBlocks(data)[<<o, <<>>>>]
ShowFiltered(data, S) ==
  LET Shown(o) == LET b == ShowObject(data, o)
                  IN  <<FullObjectLine(o)>> \o Indented(b) \o (IF b = <<>> THEN <<>> ELSE <<EndLine>>)
  IN  Listed([o \in S |-> Shown(o)])
=============================================================================
