---------------------------- MODULE ChangeScripts ----------------------------
(***************************************************************************)
(* What the commands of deska-cli write about changes and read again: the  *)
(* difference of two states as the server reports it, the order and the    *)
(* pruning of its modifications, the file rebase opens in an editor, the   *)
(* patch of diff and the backup, and what the lines of such a file do when *)
(* they are performed without any questions.                               *)
(*                                                                         *)
(* A state of the data is a function from the ids of the objects to        *)
(* [kind, name, in, val]: the local name, the id of the object it is       *)
(* embedded in, the values of its attributes.  A modification is           *)
(*   <<"delete", kind, path>>            <<"create", kind, path>>          *)
(*   <<"rename", kind, path, new path>>                                    *)
(*   <<"set", kind, path, attribute, old value, new value>>                *)
(* Lines are the lines of CliParser; comments are left out of the files,   *)
(* whose items are [by, line]: whose modification the line was made of.    *)
(***************************************************************************)
EXTENDS CliParser

CONSTANTS
  KindsInOrder,   \* the kinds and the names as the CLI sorts them
  NamesInOrder,
  Values,         \* what an attribute may be set to
  NoValue,        \* an attribute that is not set
  TopOfAll        \* what the objects of the top level are embedded in

-----------------------------------------------------------------------------
(* Objects by their names.                                                 *)
PathsOf(d) ==
  LET path[u \in DOMAIN d] == IF d[u].in = TopOfAll THEN <<d[u].name>> ELSE Append(path[d[u].in], d[u].name)
  IN  path
Ids(d, k, path) == LET paths == PathsOf(d) IN {u \in DOMAIN d : d[u].kind = k /\ paths[u] = path}
Has(d, k, path) == Ids(d, k, path) # {}
NamedIn(d) == LET paths == PathsOf(d) IN {<<d[u].kind, paths[u]>> : u \in DOMAIN d}
IdOf(d, k, path) == CHOOSE u \in Ids(d, k, path) : TRUE
Below(d, u) ==
  LET under[v \in DOMAIN d] == v = u \/ (d[v].in # TopOfAll /\ under[d[v].in]) IN {v \in DOMAIN d : under[v]}
Unset(k) == [a \in Attributes[k] |-> NoValue]
ValueIn(d, u, a) == IF u \in DOMAIN d THEN d[u].val[a] ELSE NoValue

(* Two states show the same objects.                                       *)
Shown(d) == LET paths == PathsOf(d) IN {<<d[u].kind, paths[u], d[u].val>> : u \in DOMAIN d}

-----------------------------------------------------------------------------
(* oneKindDiff.  Attributes are reported under the new name of the object, *)
(* also those of new objects.  InChangeset: the server tells the new name  *)
(* of a renamed embedded object twice.                                     *)
Deletions(a, b) == {<<"delete", a[u].kind, PathsOf(a)[u]>> : u \in DOMAIN a \ DOMAIN b}
Creations(a, b) == {<<"create", b[u].kind, PathsOf(b)[u]>> : u \in DOMAIN b \ DOMAIN a}
Renames(a, b, inChangeset) ==
  {<<"rename", b[u].kind, PathsOf(IF inChangeset /\ b[u].in # TopOfAll THEN b ELSE a)[u], PathsOf(b)[u]>> :
     u \in {v \in DOMAIN a \cap DOMAIN b : a[v].name # b[v].name}}
\* Settings with a plausible bug in it: under the old name of the object.
SettingsOldNames(a, b) ==
  UNION {{<<"set", b[u].kind, PathsOf(IF u \in DOMAIN a THEN a ELSE b)[u], x, ValueIn(a, u, x), b[u].val[x]>> :
            x \in {y \in Attributes[b[u].kind] : ValueIn(a, u, y) # b[u].val[y]}} : u \in DOMAIN b}
Settings(a, b) ==
  UNION {{<<"set", b[u].kind, PathsOf(b)[u], x, ValueIn(a, u, x), b[u].val[x]>> :
            x \in {y \in Attributes[b[u].kind] : ValueIn(a, u, y) # b[u].val[y]}} : u \in DOMAIN b}
Diff(a, b, inChangeset) == Deletions(a, b) \cup Renames(a, b, inChangeset) \cup Creations(a, b) \cup Settings(a, b)

-----------------------------------------------------------------------------
(* The order of modifications: ModificationTypeGetter, then the comparator *)
(* of the type.                                                            *)
Types == <<"delete", "rename", "create", "set">>
Place(seq, x) == CHOOSE i \in DOMAIN seq : seq[i] = x
TypeOf(m) == Place(Types, m[1])

\* Lexicographic, as the names of paths compare.
PathLess(p, q) ==
  \/ IsStrictPrefix(p, q)
  \/ \E i \in 1..Len(p) : /\ i <= Len(q) /\ SubSeq(p, 1, i - 1) = SubSeq(q, 1, i - 1)
                          /\ Place(NamesInOrder, p[i]) < Place(NamesInOrder, q[i])

ComparatorLess(m, n) ==
  \/ Place(KindsInOrder, m[2]) < Place(KindsInOrder, n[2])
  \/ /\ m[2] = n[2]
     /\ \/ PathLess(m[3], n[3])
        \/ /\ m[3] = n[3] /\ m[1] = "rename" /\ PathLess(m[4], n[4])
        \/ /\ m[3] = n[3] /\ m[1] = "set" /\ m[4] # n[4] /\ Place(NamesInOrder, m[4]) < Place(NamesInOrder, n[4])
Less(m, n) == TypeOf(m) < TypeOf(n) \/ (TypeOf(m) = TypeOf(n) /\ ComparatorLess(m, n))
Sorted(ms) ==
  LET s[rest \in SUBSET ms] ==
        IF rest = {} THEN <<>>
        ELSE LET least == CHOOSE m \in rest : \A n \in rest \ {m} : Less(m, n) IN <<least>> \o s[rest \ {least}]
  IN  s[ms]

(* clearChildDeletions: the inner iterator is not reset, so that only the  *)
(* first modification is compared with all; what its deletion implies is   *)
(* erased, again and again.  In what the server reports the first one is   *)
(* the first of some kind: its order of kinds and of objects is its own.   *)
DeletesParentOf(m, n) ==
  /\ m[1] = "delete" /\ n[1] = "delete"
  /\ n[2] \in DOMAIN EmbeddedInto /\ EmbeddedInto[n[2]] = m[2] /\ Front(n[3]) = m[3]
ClearChildDeletions(first, ms) == {n \in ms : ~DeletesParentOf(first, n)}
FirstReported(ms) == IF ms = {} THEN {<<>>} ELSE {m \in ms : \A n \in ms : n[2] = m[2] => TypeOf(m) <= TypeOf(n)}

-----------------------------------------------------------------------------
(* The lines of a modification of ours, and of a patch or a backup.        *)
Header(m) == <<<<"object", m[2], m[3]>>>>
Value(m)  == IF m[6] = NoValue THEN <<<<"no", m[4]>>>> ELSE <<<<"set", m[4], m[6]>>>>
WordOf(path) == <<"word", path>>
Command(m) ==
  CASE m[1] = "delete" -> <<<<"delete">>, <<"object", m[2], m[3]>>>>
    [] m[1] = "create" -> <<<<"create">>, <<"object", m[2], m[3]>>>>
    [] m[1] = "rename" -> <<<<"rename">>, <<"object", m[2], m[3]>>, WordOf(m[4])>>
Backed(m) == IF m[1] = "set" THEN Header(m) \o Value(m) ELSE Command(m)
\* ModificationBackupChecker: read-only attributes are not written.
Writable(m) == m[1] = "set" => m[4] \notin RoAttributes(m[2])
Patch(ms) ==
  LET kept == {m \in ClearChildDeletions(Sorted(ms)[1], ms) : Writable(m)}
      seq  == Sorted(kept)
  IN  IF ms = {} THEN <<>> ELSE [i \in DOMAIN seq |-> Backed(seq[i])]

(* The merge of rebase: theirs first where it is less, one item for a      *)
(* modification made by both.                                              *)
\* Merged with a plausible bug in it: what is left of ours is forgotten.
MergedNoTail(theirs, ours) ==
  LET m[i \in 1..(Len(theirs) + 1), j \in 1..(Len(ours) + 1)] ==
        CASE i > Len(theirs) /\ j > Len(ours) -> <<>>
          [] i <= Len(theirs) /\ (j > Len(ours) \/ (j <= Len(ours) /\ Less(theirs[i], ours[j]))) ->
               <<[by |-> "theirs", mod |-> theirs[i]]>> \o m[i + 1, j]
          [] i <= Len(theirs) /\ j <= Len(ours) /\ theirs[i] = ours[j] ->
               <<[by |-> "both", mod |-> theirs[i]]>> \o m[i + 1, j + 1]
          [] i > Len(theirs) -> <<>>
          [] OTHER -> <<[by |-> "ours", mod |-> ours[j]]>> \o m[i, j + 1]
  IN  m[1, 1]

Merged(theirs, ours) ==
  LET m[i \in 1..(Len(theirs) + 1), j \in 1..(Len(ours) + 1)] ==
        CASE i > Len(theirs) /\ j > Len(ours) -> <<>>
          [] i <= Len(theirs) /\ (j > Len(ours) \/ (j <= Len(ours) /\ Less(theirs[i], ours[j]))) ->
               <<[by |-> "theirs", mod |-> theirs[i]]>> \o m[i + 1, j]
          [] i <= Len(theirs) /\ j <= Len(ours) /\ theirs[i] = ours[j] ->
               <<[by |-> "both", mod |-> theirs[i]]>> \o m[i + 1, j + 1]
          [] OTHER -> <<[by |-> "ours", mod |-> ours[j]]>> \o m[i, j + 1]
  IN  m[1, 1]

IsSetting(item) == item.mod[1] = "set"
ObjectOf(item) == <<item.mod[2], item.mod[3]>>

(* The converters.  `last` is a sequence: the item before, if any.  An     *)
(* object gets one header, and an end when the next one comes.  Of an      *)
(* object we have deleted the end is commented out, unless it is the last  *)
(* of the file and ours, and so is the header of what others changed.      *)
By(item, line) == <<[by |-> item.by, line |-> line]>>
EndOf(last, item, gone) ==
  IF last # <<>> /\ IsSetting(last[1]) /\ ObjectOf(last[1]) \notin gone THEN By(item, <<<<"end">>>>) ELSE <<>>
Headed(item, last, gone) ==
  IF last # <<>> /\ IsSetting(last[1]) /\ ObjectOf(last[1]) = ObjectOf(item) THEN <<>>
  ELSE EndOf(last, item, gone)
       \o IF item.by = "theirs" /\ ObjectOf(item) \in gone THEN <<>> ELSE By(item, Header(item.mod))

OurItem(item, last, gone) ==
  IF IsSetting(item) THEN Headed(item, last, gone) \o By(item, Value(item.mod)) ELSE By(item, Command(item.mod))
\* TheirItem with a plausible bug in it: the value is not commented out.
TheirItemValued(item, last, gone) ==
  IF IsSetting(item) THEN Headed(item, last, gone) \o By(item, Value(item.mod)) ELSE <<>>
TheirItem(item, last, gone) == IF IsSetting(item) THEN Headed(item, last, gone) ELSE <<>>
BothItem(item, last, gone) == IF IsSetting(item) THEN Headed(item, last, gone) ELSE <<>>
Converted(item, last, gone) ==
  CASE item.by = "ours" -> OurItem(item, last, gone)
    [] item.by = "theirs" -> TheirItem(item, last, gone)
    [] item.by = "both" -> BothItem(item, last, gone)

\* ourDeletions is filled before the child deletions are cleared.
RebaseFile(firstOurs, ours, firstTheirs, theirs) ==
  LET gone == {<<m[2], m[3]>> : m \in {n \in ours : n[1] = "delete"}}
      Kept(first, ms) == Sorted({m \in ClearChildDeletions(first, ms) : Writable(m)})
      items == Merged(Kept(firstTheirs, theirs), Kept(firstOurs, ours))
      text[i \in 0..Len(items)] ==
        IF i = 0 THEN <<>> ELSE text[i - 1] \o Converted(items[i], IF i = 1 THEN <<>> ELSE <<items[i - 1]>>, gone)
      last == Last(items)
  IN  IF items = <<>> THEN <<>>
      ELSE text[Len(items)] \o EndOf(<<last>>, last, IF last.by = "ours" THEN {} ELSE gone)

-----------------------------------------------------------------------------
(* What a line does when nothing is asked.  The state: the data of the     *)
(* changeset, what was deleted in it, the ids ever used, the context, and  *)
(* whether every line was performed.                                       *)
Opened(d, used) == [data |-> d, gone |-> <<>>, used |-> used, ctx |-> <<>>, ok |-> TRUE]
Fresh(p) == 1 + Max({0} \cup p.used \cup DOMAIN p.data \cup DOMAIN p.gone)
Holder(d, k, path) == IF k \in DOMAIN EmbeddedInto THEN Ids(d, EmbeddedInto[k], Front(path)) ELSE {TopOfAll}
DeletedAs(p, k, name, in) ==
  {u \in DOMAIN p.gone : p.gone[u].kind = k /\ p.gone[u].name = name /\ p.gone[u].in = in}
Failed(p) == [p EXCEPT !.ok = FALSE]

\* An object deleted in the changeset comes back as it was.
Create(p, k, path) ==
  IF Has(p.data, k, path) \/ Holder(p.data, k, path) = {} THEN Failed(p)
  ELSE LET in   == CHOOSE u \in Holder(p.data, k, path) : TRUE
           back == DeletedAs(p, k, Last(path), in)
       IN  IF back = {}
           THEN [p EXCEPT !.data = (Fresh(p) :> [kind |-> k, name |-> Last(path), in |-> in, val |-> Unset(k)]) @@ @]
           ELSE LET u == CHOOSE v \in back : TRUE
                IN  [p EXCEPT !.data = (u :> p.gone[u]) @@ @, !.gone = Restrict(@, DOMAIN @ \ {u})]
Delete(p, k, path) ==
  LET dead == Below(p.data, IdOf(p.data, k, path))
  IN  [p EXCEPT !.gone = Restrict(p.data, dead) @@ @, !.data = Restrict(@, DOMAIN @ \ dead)]

\* The new name is a word, that of a path for the server to refuse.
Rename(p, k, path, word) ==
  LET u == IdOf(p.data, k, path)
  IN  IF Len(word) # 1 \/ Has(p.data, k, Front(path) \o word) \/ DeletedAs(p, k, word[1], p.data[u].in) # {} THEN Failed(p)
      ELSE [p EXCEPT !.data[u].name = word[1]]
Write(p, a, v) ==
  LET u == IdOf(p.data, LastKind(p.ctx), PathOf(p.ctx)) IN [p EXCEPT !.data[u].val[a] = v]

Applied(p, sig) ==
  LET ctx  == IF sig[1] \in {"enter", "create"} THEN Append(p.ctx, <<"object", sig[3], sig[4]>>) ELSE p.ctx
      made == Create(p, LastKind(ctx), PathOf(ctx))
      left == [p EXCEPT !.ctx = Front(@)]
  IN  IF ~p.ok THEN p ELSE
      CASE sig[1] = "left" -> left
        [] sig[1] = "enter" /\ Has(p.data, LastKind(ctx), PathOf(ctx)) -> [p EXCEPT !.ctx = ctx]
        [] sig[1] = "create" \/ (sig[1] = "enter" /\ ~Has(p.data, LastKind(ctx), PathOf(ctx))) -> [made EXCEPT !.ctx = ctx]
        [] sig[1] = "delete" -> Delete(p, LastKind(ctx), PathOf(ctx))
        [] sig[1] = "rename" -> Rename(p, LastKind(ctx), PathOf(ctx), sig[4])
        [] sig[1] = "set" -> Write(p, sig[4][1], sig[4][2])
        [] sig[1] = "no" -> Write(p, sig[4][1], NoValue)
Perform(p, line) ==
  LET r == ParseLine(p.ctx, line, NamedIn(p.data))
      after[i \in 0..Len(r.sig)] ==
        IF i = 0 THEN p ELSE Applied(after[i - 1], r.sig[i])
  IN  IF r.ok /\ p.ok THEN after[Len(r.sig)] ELSE Failed(p)
PerformAll(p, lines) ==
  LET after[i \in 0..Len(lines)] == IF i = 0 THEN p ELSE Perform(after[i - 1], lines[i]) IN after[Len(lines)]
=============================================================================
