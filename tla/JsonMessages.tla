---------------------------- MODULE JsonMessages ----------------------------
(***************************************************************************)
(* The messages of the DBAPI as the client library builds and reads them   *)
(* (src/src/deska/db/JsonApi.cpp, JsonHandler.cpp).  A JSON object is a    *)
(* sequence of nodes [name, value]; of a value only what the handler tells *)
(* apart is kept: the command name, the tag, or data which the extractor   *)
(* of the field accepts ("data") or throws on ("bad").                     *)
(***************************************************************************)
EXTENDS Naturals, SequencesExt

Tag == "T"

(* What each method of JsonApiParser puts into its request: the arguments  *)
(* it always sends, the set of those it sends when the caller gave them,   *)
(* and whether it reads a result back (a field named like the command).    *)
Sig(args, optional, result) == [args |-> args, optional |-> optional, result |-> result]

MetadataCalls ==
  [kindNames      |-> Sig(<<>>, {}, TRUE),
   kindAttributes |-> Sig(<<"kindName">>, {}, TRUE),
   kindRelations  |-> Sig(<<"kindName">>, {}, TRUE)]

OfObject == Sig(<<"kindName", "objectName">>, {"revision"}, TRUE)
OfKind   == Sig(<<"kindName">>, {"filter", "revision"}, TRUE)

ReadCalls ==
  [kindInstances |-> OfKind,
   objectData |-> OfObject, resolvedObjectData |-> OfObject, resolvedObjectDataWithOrigin |-> OfObject,
   multipleObjectData |-> OfKind, multipleResolvedObjectData |-> OfKind,
   multipleResolvedObjectDataWithOrigin |-> OfKind]

Modifies(args) == Sig(<<"kindName">> \o args, {}, FALSE)
SetsAttribute  == Modifies(<<"objectName", "attributeName", "attributeData">>)

ModifyCalls ==
  [deleteObject |-> Modifies(<<"objectName">>), restoreDeletedObject |-> Modifies(<<"objectName">>),
   createObject |-> Sig(<<"kindName", "objectName">>, {}, TRUE),
   renameObject |-> Modifies(<<"oldObjectName", "newObjectName">>),
   setAttribute |-> SetsAttribute, setAttributeInsert |-> SetsAttribute, setAttributeRemove |-> SetsAttribute,
   applyBatchedChanges |-> Sig(<<"modifications">>, {}, FALSE)]

Plain == Sig(<<>>, {}, FALSE)

ChangesetCalls ==
  [startChangeset |-> Sig(<<>>, {}, TRUE), commitChangeset |-> Sig(<<"commitMessage">>, {}, TRUE),
   restoringCommit |-> Sig(<<"commitMessage", "author", "timestamp">>, {}, TRUE),
   pendingChangesets |-> Sig(<<>>, {"filter"}, TRUE), listRevisions |-> Sig(<<>>, {"filter"}, TRUE),
   resumeChangeset |-> Sig(<<"changeset">>, {}, FALSE),
   detachFromCurrentChangeset |-> Sig(<<"message">>, {}, FALSE),
   abortCurrentChangeset |-> Plain, lockCurrentChangeset |-> Plain, unlockCurrentChangeset |-> Plain,
   freezeView |-> Plain, unFreezeView |-> Plain,
   showConfigDiff |-> Sig(<<>>, {"forceRegenerate"}, TRUE)]

BetweenRevisions == Sig(<<"revisionA", "revisionB">>, {"filter"}, TRUE)
OfChangeset      == Sig(<<"changeset">>, {"filter"}, TRUE)

DiffCalls ==
  [dataDifference |-> BetweenRevisions, resolvedDataDifference |-> BetweenRevisions,
   dataDifferenceInTemporaryChangeset |-> OfChangeset,
   resolvedDataDifferenceInTemporaryChangeset |-> OfChangeset]

Commands == UNION {DOMAIN MetadataCalls, DOMAIN ReadCalls, DOMAIN ModifyCalls,
                   DOMAIN ChangesetCalls, DOMAIN DiffCalls}

Signature(cmd) ==
  CASE cmd \in DOMAIN MetadataCalls  -> MetadataCalls[cmd]
    [] cmd \in DOMAIN ReadCalls      -> ReadCalls[cmd]
    [] cmd \in DOMAIN ModifyCalls    -> ModifyCalls[cmd]
    [] cmd \in DOMAIN ChangesetCalls -> ChangesetCalls[cmd]
    [] cmd \in DOMAIN DiffCalls      -> DiffCalls[cmd]

-----------------------------------------------------------------------------
(* JsonField: how a field is written and what is expected to come back.    *)
NoMatch == "-"
JsonField(name) ==
  [write |-> name, read |-> name, sent |-> FALSE, allowed |-> TRUE, required |-> TRUE,
   match |-> NoMatch, extract |-> FALSE]

CommandField(cmd) == [JsonField("command") EXCEPT !.read = "response", !.sent = TRUE, !.match = cmd]
Written(name, value) == [JsonField(name) EXCEPT !.sent = TRUE, !.match = value]
Argument(name) == [JsonField(name) EXCEPT !.sent = TRUE, !.required = FALSE, !.allowed = FALSE]
ReadField(name) == [JsonField(name) EXCEPT !.extract = TRUE]

(* The fields of one call, in the order in which the methods add them; the *)
(* order of the optional ones is left open, for it makes no difference.    *)
Fields(cmd, given) ==
  LET sig  == Signature(cmd)
      args == sig.args \o SetToSeq(sig.optional \cap given)
  IN  <<CommandField(cmd), Written("tag", Tag)>>
        \o [i \in 1..Len(args) |-> Argument(args[i])]
        \o (IF sig.result THEN <<ReadField(cmd)>> ELSE <<>>)

(* find_if: the first rule for a key, 0 when there is none.                *)
RuleFor(fields, name) ==
  LET rules == {i \in 1..Len(fields) : fields[i].read = name}
  IN  IF rules = {} THEN 0 ELSE CHOOSE i \in rules : \A j \in rules : i <= j

(* What checking the i-th node finds; the nodes before it were accepted.   *)
\* mutant: a repeated member is not noticed
NodeErrorWrong(fields, obj, i, strict) ==
  LET r == RuleFor(fields, obj[i].name) IN
  IF r = 0 THEN IF strict THEN "unknown field" ELSE "none"
  ELSE IF ~fields[r].allowed THEN "just for sending"
  ELSE IF fields[r].match # NoMatch /\ obj[i].value # fields[r].match THEN "value mismatch"
  ELSE IF fields[r].extract /\ obj[i].value = "bad" THEN "extraction" ELSE "none"
NodeError(fields, obj, i, strict) ==
  LET r == RuleFor(fields, obj[i].name) IN
  CASE r = 0 /\ ~strict -> "none"
    [] r = 0 /\ strict  -> "unknown field"
    [] r # 0 /\ ~fields[r].allowed -> "just for sending"
    [] r # 0 /\ fields[r].allowed /\ (\E j \in 1..(i - 1) : obj[j].name = obj[i].name) -> "duplicate field"
    [] OTHER -> IF fields[r].match # NoMatch /\ obj[i].value # fields[r].match THEN "value mismatch"
                ELSE IF fields[r].extract /\ obj[i].value = "bad" THEN "extraction"
                ELSE "none"

(* parseJsonObject: the first error, in the order of the nodes, then the   *)
(* fields which did not come.                                              *)
ParseJsonObject(fields, obj, strict) ==
  LET wrong == {i \in 1..Len(obj) : NodeError(fields, obj, i, strict) # "none"}
      first == CHOOSE i \in wrong : \A j \in wrong : i <= j
  IN  IF wrong # {} THEN NodeError(fields, obj, first, strict)
      ELSE IF \E f \in 1..Len(fields) : /\ fields[f].required
                                        /\ \A i \in 1..Len(obj) : RuleFor(fields, obj[i].name) # f
           THEN "missing field"
           ELSE "ok"

-----------------------------------------------------------------------------
(* Answers of the server: CommandParser and DB.run of the server fill in   *)
(* the name of the command and its tag.                                    *)
Node(name, value) == [name |-> name, value |-> value]

ResultObject(cmd, value) ==
  <<Node("response", cmd), Node("tag", Tag)>>
    \o (IF Signature(cmd).result THEN <<Node(cmd, value)>> ELSE <<>>)
ErrorObject(cmd) == <<Node("response", cmd), Node("tag", Tag), Node("dbException", "data")>>
FatalObject      == <<Node("dbException", "data")>>

(* receive(): an exception of the server is looked for first, whatever     *)
(* else the object holds.                                                  *)
Received(cmd, given, obj) ==
  IF \E i \in 1..Len(obj) : obj[i].name = "dbException"
  THEN "remote error"
  ELSE ParseJsonObject(Fields(cmd, given), obj, TRUE)
=============================================================================
