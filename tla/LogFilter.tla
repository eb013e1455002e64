------------------------------ MODULE LogFilter ------------------------------
(***************************************************************************)
(* The filters of the command log (CliCommands_Log.cpp) and what the       *)
(* server makes of the conditions they are built from (server/db/          *)
(* filter.py).  What the user writes is one of                             *)
(*   <<"&", operands>>  <<"|", operands>>                                  *)
(*   <<"kind", k, operator, path>>  kind = object; the path is <<>> where  *)
(*                                  what stands there is no object name    *)
(*   <<"metadata", m, operator, v>> v is "" where it is no value of m      *)
(*   <<"word", text>>               a word that names nothing              *)
(* and what is sent a filter of JsonValues.                                *)
(***************************************************************************)
EXTENDS CliParser

Strict == [NE |-> "NE", GT |-> "GT", GE |-> "GT", LT |-> "LT", LE |-> "LT"]

(* constructKindFilter.  The server compares local names: a longer name is *)
(* the name of the object and the one of the object it is embedded in.     *)
NameIs(op, k, path) == <<"attribute", op, k, "name", <<Last(path)>>>>
IsIn(op, k, path)   == <<"attribute", op, k, EmbeddedInto[k], Front(path)>>
\* mutant: the parents are compared with the operator itself
KindFilterLoose(op, k, path) ==
  IF Len(path) = 1 THEN NameIs(op, k, path)
  ELSE IF op = "EQ" THEN <<"and", <<NameIs(op, k, path), IsIn(op, k, path)>>>>
  ELSE <<"or", <<IsIn(op, k, path), <<"and", <<NameIs(op, k, path), IsIn("EQ", k, path)>>>>>>>>
KindFilter(op, k, path) ==
  IF Len(path) = 1 THEN NameIs(op, k, path)
  ELSE IF op = "EQ" THEN <<"and", <<NameIs(op, k, path), IsIn(op, k, path)>>>>
  ELSE <<"or", <<IsIn(Strict[op], k, path), <<"and", <<NameIs(op, k, path), IsIn("EQ", k, path)>>>>>>>>

(* A name of several parts has to have all of them.                        *)
IsWholePath(k, path) == Last(path) # NoName /\ (Len(path) = 1 \/ Len(path) - 1 = Depth[k])

RECURSIVE LogFilterOf(_)
LogFilterOf(f) ==
  CASE f[1] = "&" -> <<"and", [i \in 1..Len(f[2]) |-> LogFilterOf(f[2][i])]>>
    [] f[1] = "|" -> <<"or", [i \in 1..Len(f[2]) |-> LogFilterOf(f[2][i])]>>
    [] f[1] = "kind" -> KindFilter(f[3], f[2], f[4])
    [] f[1] = "metadata" -> <<"metadata", f[3], f[2], f[4]>>

-----------------------------------------------------------------------------
(* The errors the grammar leaves behind, as pairs <<type, what it is       *)
(* about>>.  A kind is looked for first, so that the name of a metadata    *)
(* leaves an error even if it is one; a name that does not nest does not   *)
(* stop the grammar.  What the alternatives tried later leave behind comes *)
(* after these and is never told.                                          *)
Fails(f) == f[1] = "word" \/ (f[1] = "kind" /\ f[4] = <<>>) \/ (f[1] = "metadata" /\ f[4] = "")
LeafErrors(f) ==
  CASE f[1] = "word" -> <<<<"ATTRIBUTE", f>>>>
    [] f[1] = "kind" /\ f[4] = <<>> -> <<<<"IDENTIFIER", f>>, <<"ATTRIBUTE", f>>>>
    [] f[1] = "kind" /\ f[4] # <<>> -> IF IsWholePath(f[2], f[4]) THEN <<>> ELSE <<<<"IDENTIFIER_NESTING", f>>>>
    [] OTHER -> <<<<"ATTRIBUTE", f>>>> \o (IF Fails(f) THEN <<<<"VALUE_TYPE", f>>>> ELSE <<>>)

RECURSIVE Leaves(_)
Leaves(f) == IF f[1] \in {"&", "|"} THEN FlattenSeq([i \in 1..Len(f[2]) |-> Leaves(f[2][i])]) ELSE <<f>>

(* The grammar stops at the first leaf that fails.                         *)
LogErrors(f) ==
  LET leaves == Leaves(f)
      read == {i \in 1..Len(leaves) : \A j \in 1..(i - 1) : ~Fails(leaves[j])}
  IN  FlattenSeq([i \in 1..Cardinality(read) |-> LeafErrors(leaves[i])])
Refused(f) == \E i \in 1..Len(LogErrors(f)) : LogErrors(f)[i][1] # "ATTRIBUTE" \/ Fails(LogErrors(f)[i][2])

(* Log::operator(): the errors are looked for type by type.                *)
LogReported == <<"VALUE_TYPE", "IDENTIFIER", "ATTRIBUTE", "IDENTIFIER_NESTING">>
LogTold(f) ==
  LET errors == LogErrors(f)
      Of(t) == {i \in 1..Len(errors) : errors[i][1] = t}
      t == LogReported[CHOOSE i \in 1..4 : Of(LogReported[i]) # {} /\ \A j \in 1..(i - 1) : Of(LogReported[j]) = {}]
  IN  errors[CHOOSE i \in Of(t) : \A j \in Of(t) : i <= j]

-----------------------------------------------------------------------------
(* What the server selects.  Names are compared as texts, an object that   *)
(* is named by its identifier in the history (find_uid), which is null if  *)
(* there is none.                                                          *)
Compare(op, x, y) ==
  CASE op = "EQ" -> x = y
    [] op = "NE" -> x # y
    [] op = "GT" -> x > y
    [] op = "GE" -> x >= y
    [] op = "LT" -> x < y
    [] op = "LE" -> x <= y

\* names, uids: the order of names, and the identifiers of the objects that were there
RECURSIVE Holds(_, _, _, _)
Holds(f, object, names, uids) ==
  CASE f[1] = "and" -> \A i \in 1..Len(f[2]) : Holds(f[2][i], object, names, uids)
    [] f[1] = "or"  -> \E i \in 1..Len(f[2]) : Holds(f[2][i], object, names, uids)
    [] f[1] = "attribute" /\ f[4] = "name" -> Compare(f[2], names[Last(object[2])], names[f[5][1]])
    [] f[1] = "attribute" /\ f[4] # "name" ->
         IF <<f[4], f[5]>> \in DOMAIN uids
         THEN Compare(f[2], uids[<<f[4], Front(object[2])>>], uids[<<f[4], f[5]>>])
         ELSE f[2] = "NE"
=============================================================================
