------------------------ MODULE ClientLibraryProofs ------------------------
(***************************************************************************)
(* Proofs about the client library: see ClientLibrary.                     *)
(***************************************************************************)
EXTENDS ClientLibrary, FiniteSetTheorems, SequenceTheorems, TLAPS

-----------------------------------------------------------------------------
(* The names of the calls and of their arguments.                          *)
LEMMA CallNames ==
    /\ DOMAIN MetadataCalls = {"kindNames", "kindAttributes", "kindRelations"}
    /\ DOMAIN ReadCalls = {"kindInstances", "objectData", "resolvedObjectData", "resolvedObjectDataWithOrigin",
          "multipleObjectData", "multipleResolvedObjectData", "multipleResolvedObjectDataWithOrigin"}
    /\ DOMAIN ModifyCalls = {"deleteObject", "restoreDeletedObject", "createObject", "renameObject",
          "setAttribute", "setAttributeInsert", "setAttributeRemove", "applyBatchedChanges"}
    /\ DOMAIN ChangesetCalls = {"startChangeset", "commitChangeset", "restoringCommit", "pendingChangesets",
          "listRevisions", "resumeChangeset", "detachFromCurrentChangeset", "abortCurrentChangeset",
          "lockCurrentChangeset", "unlockCurrentChangeset", "freezeView", "unFreezeView", "showConfigDiff"}
    /\ DOMAIN DiffCalls = {"dataDifference", "resolvedDataDifference", "dataDifferenceInTemporaryChangeset",
          "resolvedDataDifferenceInTemporaryChangeset"}
  BY DEF MetadataCalls, ReadCalls, ModifyCalls, ChangesetCalls, DiffCalls

Arguments == {"kindName", "objectName", "attributeName", "attributeData", "oldObjectName", "newObjectName",
              "modifications", "commitMessage", "author", "timestamp", "changeset", "message",
              "revisionA", "revisionB"}

WellFormed(sig) == sig.args \in Seq(Arguments) /\ sig.result \in BOOLEAN

LEMMA SomeArguments ==
    /\ <<>> \in Seq(Arguments)
    /\ \A a \in Arguments : <<a>> \in Seq(Arguments)
    /\ \A a, b \in Arguments : <<a, b>> \in Seq(Arguments)
    /\ \A a, b, c \in Arguments : <<a, b, c>> \in Seq(Arguments)
    /\ \A s \in Seq(Arguments) : <<"kindName">> \o s \in Seq(Arguments)
<1>1. "kindName" \in Arguments
  BY DEF Arguments
<1> QED
  BY <1>1

LEMMA SigIsWellFormed ==
    ASSUME NEW args \in Seq(Arguments), NEW optional, NEW result \in BOOLEAN
    PROVE  WellFormed(Sig(args, optional, result))
  BY DEF WellFormed, Sig

\* Nothing a request sends is named like a field of the answer.
LEMMA Signatures ==
    ASSUME NEW c \in Commands
    PROVE  WellFormed(Signature(c))
<1>1. CASE c \in DOMAIN MetadataCalls
  <2>1. Signature(c) = MetadataCalls[c]
    BY <1>1, CallNames DEF Signature
  <2>2. "kindName" \in Arguments
    BY DEF Arguments
  <2>3. WellFormed(Sig(<<>>, {}, TRUE)) /\ WellFormed(Sig(<<"kindName">>, {}, TRUE))
    BY <2>2, SomeArguments, SigIsWellFormed
  <2>4. /\ MetadataCalls["kindNames"] = Sig(<<>>, {}, TRUE)
        /\ MetadataCalls["kindAttributes"] = Sig(<<"kindName">>, {}, TRUE)
        /\ MetadataCalls["kindRelations"] = Sig(<<"kindName">>, {}, TRUE)
    BY DEF MetadataCalls
  <2>5. c \in {"kindNames", "kindAttributes", "kindRelations"}
    BY <1>1, CallNames
  <2> QED
    BY <2>1, <2>3, <2>4, <2>5
<1>2. CASE c \in DOMAIN ReadCalls
  <2>1. Signature(c) = ReadCalls[c]
    BY <1>2, CallNames DEF Signature
  <2>2. "kindName" \in Arguments /\ "objectName" \in Arguments
    BY DEF Arguments
  <2>3. WellFormed(OfObject) /\ WellFormed(OfKind)
    BY <2>2, SomeArguments, SigIsWellFormed DEF OfObject, OfKind
  <2>4. ReadCalls[c] \in {OfObject, OfKind}
    BY <1>2, CallNames DEF ReadCalls
  <2> QED
    BY <2>1, <2>3, <2>4
<1>3. CASE c \in DOMAIN ModifyCalls
  <2>1. Signature(c) = ModifyCalls[c]
    BY <1>3, CallNames DEF Signature
  <2>2. /\ "kindName" \in Arguments /\ "objectName" \in Arguments /\ "attributeName" \in Arguments
        /\ "attributeData" \in Arguments /\ "oldObjectName" \in Arguments /\ "newObjectName" \in Arguments
        /\ "modifications" \in Arguments
    BY DEF Arguments
  <2>3. /\ WellFormed(Modifies(<<"objectName">>)) /\ WellFormed(Modifies(<<"oldObjectName", "newObjectName">>))
        /\ WellFormed(SetsAttribute)
    BY <2>2, SomeArguments, SigIsWellFormed DEF Modifies, SetsAttribute
  <2>4. /\ WellFormed(Sig(<<"kindName", "objectName">>, {}, TRUE))
        /\ WellFormed(Sig(<<"modifications">>, {}, FALSE))
    BY <2>2, SomeArguments, SigIsWellFormed
  <2>5. /\ \A x \in {"deleteObject", "restoreDeletedObject"} : ModifyCalls[x] = Modifies(<<"objectName">>)
        /\ \A x \in {"setAttribute", "setAttributeInsert", "setAttributeRemove"} : ModifyCalls[x] = SetsAttribute
        /\ ModifyCalls["renameObject"] = Modifies(<<"oldObjectName", "newObjectName">>)
        /\ ModifyCalls["createObject"] = Sig(<<"kindName", "objectName">>, {}, TRUE)
        /\ ModifyCalls["applyBatchedChanges"] = Sig(<<"modifications">>, {}, FALSE)
    BY DEF ModifyCalls
  <2>6. c \in {"deleteObject", "restoreDeletedObject", "createObject", "renameObject",
               "setAttribute", "setAttributeInsert", "setAttributeRemove", "applyBatchedChanges"}
    BY <1>3, CallNames
  <2> QED
    BY <2>1, <2>3, <2>4, <2>5, <2>6
<1>4. CASE c \in DOMAIN ChangesetCalls
  <2> DEFINE Possible == {<<>>, <<"commitMessage">>, <<"commitMessage", "author", "timestamp">>, <<"changeset">>, <<"message">>}
  <2>1. Signature(c) = ChangesetCalls[c]
    BY <1>4, CallNames DEF Signature
  <2>2. /\ "commitMessage" \in Arguments /\ "author" \in Arguments /\ "timestamp" \in Arguments
        /\ "changeset" \in Arguments /\ "message" \in Arguments
    BY DEF Arguments
  <2>3. \A args \in Possible : args \in Seq(Arguments)
    BY <2>2, SomeArguments
  <2>4. \A args \in Possible, o \in {{}, {"filter"}, {"forceRegenerate"}}, r \in BOOLEAN : WellFormed(Sig(args, o, r))
    BY <2>3, SigIsWellFormed
  <2>5. /\ ChangesetCalls["startChangeset"] = Sig(<<>>, {}, TRUE)
        /\ ChangesetCalls["commitChangeset"] = Sig(<<"commitMessage">>, {}, TRUE)
        /\ ChangesetCalls["restoringCommit"] = Sig(<<"commitMessage", "author", "timestamp">>, {}, TRUE)
        /\ \A x \in {"pendingChangesets", "listRevisions"} : ChangesetCalls[x] = Sig(<<>>, {"filter"}, TRUE)
        /\ ChangesetCalls["resumeChangeset"] = Sig(<<"changeset">>, {}, FALSE)
        /\ ChangesetCalls["detachFromCurrentChangeset"] = Sig(<<"message">>, {}, FALSE)
        /\ \A x \in {"abortCurrentChangeset", "lockCurrentChangeset", "unlockCurrentChangeset", "freezeView", "unFreezeView"} :
              ChangesetCalls[x] = Sig(<<>>, {}, FALSE)
        /\ ChangesetCalls["showConfigDiff"] = Sig(<<>>, {"forceRegenerate"}, TRUE)
    BY DEF ChangesetCalls, Plain
  <2>6. c \in {"startChangeset", "commitChangeset", "restoringCommit", "pendingChangesets",
          "listRevisions", "resumeChangeset", "detachFromCurrentChangeset", "abortCurrentChangeset",
          "lockCurrentChangeset", "unlockCurrentChangeset", "freezeView", "unFreezeView", "showConfigDiff"}
    BY <1>4, CallNames
  <2> QED
    BY <2>1, <2>4, <2>5, <2>6
<1>5. CASE c \in DOMAIN DiffCalls
  <2>1. Signature(c) = DiffCalls[c]
    BY <1>5, CallNames DEF Signature
  <2>2. "revisionA" \in Arguments /\ "revisionB" \in Arguments /\ "changeset" \in Arguments
    BY DEF Arguments
  <2>3. WellFormed(BetweenRevisions) /\ WellFormed(OfChangeset)
    BY <2>2, SomeArguments, SigIsWellFormed DEF BetweenRevisions, OfChangeset
  <2>4. DiffCalls[c] \in {BetweenRevisions, OfChangeset}
    BY <1>5, CallNames DEF DiffCalls
  <2> QED
    BY <2>1, <2>3, <2>4
<1> QED
  BY <1>1, <1>2, <1>3, <1>4, <1>5 DEF Commands

LEMMA NothingGiven ==
    ASSUME NEW S
    PROVE  SetToSeq(S \cap {}) = <<>>
<1>1. S \cap {} = {} /\ Cardinality({}) = 0 /\ 1 .. 0 = {}
  BY FS_EmptySet
<1>2. <<>> \in [{} -> {}] /\ IsInjective(<<>>) /\ \A f \in [{} -> {}] : f = <<>>
  BY DEF IsInjective
<1>3. SetToSeq({}) = CHOOSE f \in [{} -> {}] : IsInjective(f)
  BY <1>1 DEF SetToSeq
<1> QED
  BY <1>1, <1>2, <1>3

\* The fields of a call whose caller gave no optional argument.
LEMMA FieldsOf ==
    ASSUME NEW c \in Commands, NEW sig, sig = Signature(c)
    PROVE  /\ Fields(c, {}) = <<CommandField(c), Written("tag", Tag)>>
                               \o [i \in 1 .. Len(sig.args) |-> Argument(sig.args[i])]
                               \o (IF sig.result THEN <<ReadField(c)>> ELSE <<>>)
           /\ Len(sig.args) \in Nat
           /\ \A i \in 1 .. Len(sig.args) : sig.args[i] \in Arguments
<1>1. sig.args \in Seq(Arguments) /\ sig.result \in BOOLEAN
  BY Signatures DEF WellFormed
<1>2. SetToSeq(sig.optional \cap {}) = <<>>
  BY NothingGiven
<1>3. sig.args \o <<>> = sig.args
  BY <1>1
<1> QED
  BY <1>1, <1>2, <1>3 DEF Fields

LEMMA Concat ==
    ASSUME NEW S, NEW s \in Seq(S), NEW t \in Seq(S)
    PROVE  /\ s \o t \in Seq(S) /\ Len(s) \in Nat /\ Len(t) \in Nat /\ Len(s \o t) = Len(s) + Len(t)
           /\ \A i \in 1 .. Len(s) : (s \o t)[i] = s[i]
           /\ \A i \in (Len(s) + 1) .. (Len(s) + Len(t)) : (s \o t)[i] = t[i - Len(s)]
  OBVIOUS

\* The rules for what an answer holds: the two fields every answer has, the
\* arguments, which an answer has not, and the result of the calls that read
\* one.
LEMMA Rules ==
    ASSUME NEW c \in Commands, NEW sig, sig = Signature(c), NEW n, n = Len(sig.args), NEW F, F = Fields(c, {})
    PROVE  /\ n \in Nat
           /\ Len(F) = IF sig.result THEN n + 3 ELSE n + 2
           /\ F[1].read = "response" /\ F[1].allowed /\ F[1].match = c /\ ~F[1].extract
           /\ F[2].read = "tag" /\ F[2].allowed /\ F[2].match = Tag /\ ~F[2].extract
           /\ \A i \in 3 .. n + 2 : F[i].read \in Arguments /\ ~F[i].required
           /\ sig.result => F[n + 3].read = c /\ F[n + 3].allowed /\ F[n + 3].match = NoMatch /\ F[n + 3].extract
<1> DEFINE A == [i \in 1 .. n |-> Argument(sig.args[i])]
           R == IF sig.result THEN <<ReadField(c)>> ELSE <<>>
           H == <<CommandField(c), Written("tag", Tag)>>
<1>1. F = H \o A \o R /\ n \in Nat /\ \A i \in 1 .. n : sig.args[i] \in Arguments
  BY FieldsOf
<1>2. \E T : H \in Seq(T) /\ A \in Seq(T) /\ R \in Seq(T)
  <2> DEFINE T == {CommandField(c), Written("tag", Tag), ReadField(c)} \cup {Argument(a) : a \in Arguments}
  <2>1. H \in Seq(T) /\ R \in Seq(T)
    <3>1. /\ CommandField(c) \in T /\ Written("tag", Tag) \in T /\ ReadField(c) \in T
      OBVIOUS
    <3> HIDE DEF T
    <3> QED
      BY <3>1
  <2>2. \A i \in 1 .. n : A[i] \in T
    BY <1>1
  <2>3. A \in Seq(T)
    BY <1>1, <2>2
  <2> QED
    BY <2>1, <2>3
<1>3. Len(H) = 2 /\ H[1] = CommandField(c) /\ H[2] = Written("tag", Tag)
  OBVIOUS
<1>4. Len(A) = n /\ \A i \in 1 .. n : A[i] = Argument(sig.args[i])
  BY <1>1
<1>5. sig.result => Len(R) = 1 /\ R[1] = ReadField(c)
  OBVIOUS
<1>6. ~sig.result => Len(R) = 0
  OBVIOUS
<1> HIDE DEF H, A, R
<1>7. PICK T : H \in Seq(T) /\ A \in Seq(T) /\ R \in Seq(T)
  BY <1>2
<1>8. /\ Len(F) = 2 + n + Len(R)
      /\ F[1] = H[1] /\ F[2] = H[2]
      /\ \A i \in 3 .. n + 2 : F[i] = A[i - 2]
      /\ Len(R) = 1 => F[n + 3] = R[1]
  <2>1. PICK G : G = H \o A
    OBVIOUS
  <2>2. /\ G \in Seq(T) /\ Len(G) = 2 + n
        /\ G[1] = H[1] /\ G[2] = H[2]
        /\ \A i \in 3 .. n + 2 : G[i] = A[i - 2]
    <3>1. /\ Len(H) = 2 /\ Len(A) = n /\ n \in Nat /\ G \in Seq(T) /\ Len(G) = Len(H) + Len(A)
          /\ \A i \in 1 .. Len(H) : G[i] = H[i]
          /\ \A i \in (Len(H) + 1) .. (Len(H) + Len(A)) : G[i] = A[i - Len(H)]
      BY ZenonT(40), <1>1, <1>3, <1>4, <1>7, <2>1, Concat
    <3> QED
      BY <3>1
  <2>3. Len(R) \in Nat /\ F = G \o R
    BY <1>1, <1>7, <2>1
  <2>4. G \in Seq(T) /\ R \in Seq(T)
    BY <1>7, <2>2
  <2>5. /\ Len(R) \in Nat /\ Len(F) = Len(G) + Len(R)
        /\ \A i \in 1 .. Len(G) : F[i] = G[i]
        /\ \A i \in (Len(G) + 1) .. (Len(G) + Len(R)) : F[i] = R[i - Len(G)]
    BY <2>3, <2>4, Concat
  <2>6. 1 \in 1 .. n + 2 /\ 2 \in 1 .. n + 2 /\ \A i \in 3 .. n + 2 : i \in 1 .. n + 2
    BY <1>1
  <2>7. Len(F) = 2 + n + Len(R) /\ F[1] = H[1] /\ F[2] = H[2]
    BY <2>2, <2>5, <2>6
  <2>8. \A i \in 3 .. n + 2 : F[i] = A[i - 2]
    BY <2>2, <2>5, <2>6
  <2>9. ASSUME Len(R) = 1 PROVE F[n + 3] = R[1]
    <3>1. Len(G) + 1 = n + 3 /\ n + 3 \in (Len(G) + 1) .. (Len(G) + Len(R)) /\ (n + 3) - Len(G) = 1
      BY <1>1, <2>2, <2>9
    <3> QED
      BY <2>5, <3>1
  <2> QED
    BY <2>7, <2>8, <2>9
<1>9. /\ CommandField(c).read = "response" /\ CommandField(c).allowed
      /\ CommandField(c).match = c /\ ~CommandField(c).extract
  BY SMT DEF CommandField, JsonField
<1>10. LET W == Written("tag", Tag) IN W.read = "tag" /\ W.allowed /\ W.match = Tag /\ ~W.extract
  BY DEF Written, JsonField
<1>11. \A a : Argument(a).read = a /\ ~Argument(a).required
  BY DEF Argument, JsonField
<1>12. /\ ReadField(c).read = c /\ ReadField(c).allowed /\ ReadField(c).match = NoMatch /\ ReadField(c).extract
  BY DEF ReadField, JsonField
<1>13. \A i \in 3 .. n + 2 : F[i].read \in Arguments /\ ~F[i].required
  <2> TAKE i \in 3 .. n + 2
  <2>1. i - 2 \in 1 .. n
    BY <1>1
  <2>2. F[i] = Argument(sig.args[i - 2]) /\ sig.args[i - 2] \in Arguments
    BY <1>1, <1>4, <1>8, <2>1
  <2> QED
    BY <1>11, <2>2
<1>14. Len(F) = IF sig.result THEN n + 3 ELSE n + 2
  BY SMTT(40), <1>1, <1>5, <1>6, <1>8
<1>15. F[1] = CommandField(c) /\ F[2] = Written("tag", Tag) /\ (sig.result => F[n + 3] = ReadField(c))
  BY <1>3, <1>5, <1>8
<1> QED
  BY <1>1, <1>9, <1>10, <1>12, <1>13, <1>14, <1>15

LEMMA RuleIs ==
    ASSUME NEW F, NEW name, NEW r \in Nat, Len(F) \in Nat, r \in 1 .. Len(F),
           F[r].read = name, \A i \in 1 .. Len(F) : i < r => F[i].read # name
    PROVE  RuleFor(F, name) = r
<1> DEFINE rules == {i \in 1 .. Len(F) : F[i].read = name}
<1>1. r \in rules /\ rules # {} /\ \A j \in rules : r <= j
  OBVIOUS
<1>2. \A i \in rules : (\A j \in rules : i <= j) => i = r
  BY <1>1
<1>3. (CHOOSE i \in rules : \A j \in rules : i <= j) = r
  <2> HIDE DEF rules
  <2> QED
    BY <1>1, <1>2
<1> QED
  BY <1>1, <1>3 DEF RuleFor

LEMMA CommandNames ==
    ASSUME NEW c \in Commands
    PROVE  c \notin Arguments \cup {"response", "tag", "dbException"}
<1>1. DOMAIN MetadataCalls \cap (Arguments \cup {"response", "tag", "dbException"}) = {}
  BY CallNames DEF Arguments
<1>2. DOMAIN ReadCalls \cap (Arguments \cup {"response", "tag", "dbException"}) = {}
  BY CallNames DEF Arguments
<1>3. DOMAIN ModifyCalls \cap (Arguments \cup {"response", "tag", "dbException"}) = {}
  BY CallNames DEF Arguments
<1>4. DOMAIN ChangesetCalls \cap (Arguments \cup {"response", "tag", "dbException"}) = {}
  BY CallNames DEF Arguments
<1>5. DOMAIN DiffCalls \cap (Arguments \cup {"response", "tag", "dbException"}) = {}
  BY CallNames DEF Arguments
<1> QED
  BY <1>1, <1>2, <1>3, <1>4, <1>5 DEF Commands

\* What the server answers to a request is taken by the call that sent it.
LEMMA ResultsAreAccepted ==
    ASSUME NEW c \in Commands
    PROVE  Reply(c, "result") \in Accepts[c]
<1> DEFINE sig == Signature(c)
           n == Len(sig.args)
           F == Fields(c, {})
           obj == ResultObject(c, "data")
<1>1. sig.result \in BOOLEAN
  BY Signatures DEF WellFormed
<1>2. PICK R : R = sig.result
  OBVIOUS
<1>3. /\ n \in Nat
      /\ Len(F) = IF R THEN n + 3 ELSE n + 2
      /\ F[1].read = "response" /\ F[1].allowed /\ F[1].match = c /\ ~F[1].extract
      /\ F[2].read = "tag" /\ F[2].allowed /\ F[2].match = Tag /\ ~F[2].extract
      /\ \A i \in 3 .. n + 2 : F[i].read \in Arguments /\ ~F[i].required
      /\ R => F[n + 3].read = c /\ F[n + 3].allowed /\ F[n + 3].match = NoMatch /\ F[n + 3].extract
  <2>1. /\ n \in Nat
        /\ Len(F) = IF sig.result THEN n + 3 ELSE n + 2
        /\ F[1].read = "response" /\ F[1].allowed /\ F[1].match = c /\ ~F[1].extract
        /\ F[2].read = "tag" /\ F[2].allowed /\ F[2].match = Tag /\ ~F[2].extract
        /\ \A i \in 3 .. n + 2 : F[i].read \in Arguments /\ ~F[i].required
        /\ sig.result => F[n + 3].read = c /\ F[n + 3].allowed /\ F[n + 3].match = NoMatch /\ F[n + 3].extract
    BY ZenonT(40), Rules
  <2> HIDE DEF n, F
  <2> QED
    BY <1>2, <2>1
<1>4. /\ Len(obj) = IF R THEN 3 ELSE 2
      /\ obj[1] = Node("response", c) /\ obj[2] = Node("tag", Tag)
      /\ R => obj[3] = Node(c, "data")
  <2>1. CASE R
    <3>1. obj = <<Node("response", c), Node("tag", Tag)>> \o <<Node(c, "data")>>
      BY <1>2, <2>1 DEF ResultObject
    <3> QED
      BY <2>1, <3>1
  <2>2. CASE ~R
    <3>1. obj = <<Node("response", c), Node("tag", Tag)>> \o <<>>
      BY <1>2, <2>2 DEF ResultObject
    <3> QED
      BY <2>2, <3>1
  <2> QED
    BY <2>1, <2>2
<1>5. /\ obj[1].name = "response" /\ obj[1].value = c /\ obj[2].name = "tag" /\ obj[2].value = Tag
      /\ R => obj[3].name = c /\ obj[3].value = "data"
  BY <1>4 DEF Node
<1>6. c \notin Arguments /\ c # "response" /\ c # "tag" /\ c # "dbException"
  BY CommandNames
<1>7. "response" \notin Arguments /\ "tag" \notin Arguments
  BY DEF Arguments
<1> HIDE DEF sig, n, F, obj
<1>8. R \in BOOLEAN
  BY <1>1, <1>2
<1>9. RuleFor(F, "response") = 1 /\ RuleFor(F, "tag") = 2
  <2>1. 1 \in 1 .. Len(F) /\ 2 \in 1 .. Len(F) /\ Len(F) \in Nat /\ "response" # "tag"
    BY <1>3, <1>8
  <2>2. \A i \in 1 .. Len(F) : i < 2 => i = 1
    BY <2>1
  <2>3. \A i \in 1 .. Len(F) : ~(i < 1)
    BY <2>1
  <2> QED
    BY <1>3, <2>1, <2>2, <2>3, RuleIs
<1>10. R => RuleFor(F, c) = n + 3
  <2> SUFFICES ASSUME R PROVE RuleFor(F, c) = n + 3
    OBVIOUS
  <2>1. n + 3 \in Nat /\ n + 3 \in 1 .. Len(F) /\ Len(F) \in Nat
    BY <1>3
  <2>2. ASSUME NEW i \in 1 .. Len(F), i < n + 3 PROVE F[i].read # c
    <3>1. i = 1 \/ i = 2 \/ i \in 3 .. n + 2
      BY <1>3, <2>2
    <3> QED
      BY <1>3, <1>6, <3>1
  <2> QED
    BY <1>3, <2>1, <2>2, RuleIs
<1>11. \A i \in 1 .. Len(obj) : i = 1 \/ i = 2 \/ (i = 3 /\ R)
  <2>1. CASE R
    <3>1. Len(obj) = 3
      BY <1>4, <2>1
    <3> QED
      BY <2>1, <3>1
  <2>2. CASE ~R
    <3>1. Len(obj) = 2
      BY <1>4, <2>2
    <3> QED
      BY <3>1
  <2> QED
    BY <2>1, <2>2
<1>12. ~\E i \in 1 .. Len(obj) : obj[i].name = "dbException"
  BY <1>5, <1>6, <1>11
<1>13. NodeError(F, obj, 1, TRUE) = "none"
  <2>1. ~\E j \in 1 .. (1 - 1) : obj[j].name = obj[1].name
    OBVIOUS
  <2> QED
    BY <1>3, <1>5, <1>9, <2>1 DEF NodeError
<1>14. NodeError(F, obj, 2, TRUE) = "none"
  <2>1. ~\E j \in 1 .. (2 - 1) : obj[j].name = obj[2].name
    BY <1>5
  <2> QED
    BY <1>3, <1>5, <1>9, <2>1 DEF NodeError
<1>15. R => NodeError(F, obj, 3, TRUE) = "none"
  <2> SUFFICES ASSUME R PROVE NodeError(F, obj, 3, TRUE) = "none"
    OBVIOUS
  <2>1. ~\E j \in 1 .. (3 - 1) : obj[j].name = obj[3].name
    BY <1>5, <1>6
  <2>2. n + 3 # 0
    BY <1>3
  <2>3. RuleFor(F, obj[3].name) = n + 3 /\ obj[3].value # "bad"
    BY <1>5, <1>10
  <2> QED
    BY <1>3, <2>1, <2>2, <2>3 DEF NodeError
<1>16. {i \in 1 .. Len(obj) : NodeError(F, obj, i, TRUE) # "none"} = {}
  BY <1>11, <1>13, <1>14, <1>15
<1>17. ~\E f \in 1 .. Len(F) : F[f].required /\ \A i \in 1 .. Len(obj) : RuleFor(F, obj[i].name) # f
  <2> SUFFICES ASSUME NEW f \in 1 .. Len(F), F[f].required
               PROVE  \E i \in 1 .. Len(obj) : RuleFor(F, obj[i].name) = f
    OBVIOUS
  <2>1. f = 1 \/ f = 2 \/ (f = n + 3 /\ R)
    <3>1. f = 1 \/ f = 2 \/ f \in 3 .. n + 2 \/ (f = n + 3 /\ R)
      BY <1>3, <1>8
    <3> QED
      BY <1>3, <3>1
  <2>2. 1 \in 1 .. Len(obj) /\ 2 \in 1 .. Len(obj) /\ (R => 3 \in 1 .. Len(obj))
    BY <1>4, <1>8
  <2> QED
    BY <1>5, <1>9, <1>10, <2>1, <2>2
<1>18. ParseJsonObject(F, obj, TRUE) = "ok"
  BY <1>16, <1>17 DEF ParseJsonObject
<1>19. Received(c, {}, obj) = "ok"
  BY <1>12, <1>18 DEF Received, F
<1>20. Reply(c, "result") \in Answers /\ ObjectOf(Reply(c, "result")) = obj
  BY DEF Reply, Answers, ObjectOf, obj
<1> QED
  BY <1>19, <1>20 DEF Accepts

\* Nothing else is, but a value of another type by a call that reads none.
LEMMA ErrorsAreThrown ==
    ASSUME NEW c \in Commands, NEW r \in [cmd : Commands, form : Forms], r \in Accepts[c]
    PROVE  r.form \in {"result", "bad"}
<1>1. r \in Answers /\ Received(c, {}, ObjectOf(r)) = "ok"
  BY DEF Accepts
<1>2. SUFFICES r.form \notin {"refused", "fatal"}
  BY <1>1 DEF Answers
<1>3. ASSUME NEW obj, NEW i \in 1 .. Len(obj), obj[i].name = "dbException"
      PROVE  Received(c, {}, obj) # "ok"
  BY <1>3 DEF Received
<1>4. r.form # "refused"
  <2> SUFFICES ASSUME r.form = "refused" PROVE FALSE
    OBVIOUS
  <2>1. PICK obj : obj = ErrorObject(r.cmd)
    OBVIOUS
  <2>2. 3 \in 1 .. Len(obj) /\ obj[3].name = "dbException"
    BY <2>1 DEF ErrorObject, Node
  <2>3. ObjectOf(r) = obj
    BY <2>1 DEF ObjectOf
  <2> QED
    BY <1>1, <1>3, <2>2, <2>3
<1>5. r.form # "fatal"
  <2> SUFFICES ASSUME r.form = "fatal" PROVE FALSE
    OBVIOUS
  <2>1. PICK obj : obj = FatalObject
    OBVIOUS
  <2>2. 1 \in 1 .. Len(obj) /\ obj[1].name = "dbException"
    BY <2>1 DEF FatalObject, Node
  <2>3. ObjectOf(r) = obj
    BY <2>1 DEF ObjectOf
  <2> QED
    BY <1>1, <1>3, <2>2, <2>3
<1> QED
  BY <1>4, <1>5

-----------------------------------------------------------------------------
(* The numbers of changes.                                                 *)
LEMMA IdsOf ==
    ASSUME NEW s \in Seq(Command)
    PROVE  /\ Ids(s) \in Seq(Nat) /\ Len(Ids(s)) = Len(s)
           /\ \A i \in 1 .. Len(s) : Ids(s)[i] = s[i].id
<1>1. \A i \in 1 .. Len(s) : s[i].id \in Nat
  <2>1. \A i \in 1 .. Len(s) : s[i] \in Command
    OBVIOUS
  <2>2. \A x \in Command : x.id \in Nat
    BY DEF Command
  <2> QED
    BY <2>1, <2>2
<1> QED
  BY <1>1 DEF Ids

LEMMA SameSequence ==
    ASSUME NEW S, NEW s \in Seq(S), NEW t \in Seq(S), Len(s) = Len(t), \A i \in 1 .. Len(s) : s[i] = t[i]
    PROVE  s = t
<1>1. DOMAIN s = 1 .. Len(s) /\ DOMAIN t = 1 .. Len(t)
  OBVIOUS
<1> QED
  BY <1>1

LEMMA SequenceOver ==
    ASSUME NEW S, NEW T, NEW s \in Seq(S), \A i \in 1 .. Len(s) : s[i] \in T
    PROVE  s \in Seq(T)
<1>1. s = [i \in 1 .. Len(s) |-> s[i]] /\ Len(s) \in Nat
  OBVIOUS
<1> QED
  BY <1>1

LEMMA IdsOfConcat ==
    ASSUME NEW s \in Seq(Command), NEW t \in Seq(Command)
    PROVE  Ids(s \o t) = Ids(s) \o Ids(t)
<1>1. s \o t \in Seq(Command) /\ Len(s \o t) = Len(s) + Len(t)
  BY Concat
<1>2. /\ Ids(s \o t) \in Seq(Nat) /\ Ids(s) \in Seq(Nat) /\ Ids(t) \in Seq(Nat)
      /\ Len(Ids(s \o t)) = Len(s) + Len(t) /\ Len(Ids(s)) = Len(s) /\ Len(Ids(t)) = Len(t)
  <2>1. Ids(s \o t) \in Seq(Nat) /\ Len(Ids(s \o t)) = Len(s \o t)
    BY <1>1, IdsOf
  <2>2. /\ Ids(s) \in Seq(Nat) /\ Ids(t) \in Seq(Nat)
        /\ Len(Ids(s)) = Len(s) /\ Len(Ids(t)) = Len(t)
    BY IdsOf
  <2> QED
    BY <1>1, <2>1, <2>2
<1>3. Ids(s) \o Ids(t) \in Seq(Nat) /\ Len(Ids(s) \o Ids(t)) = Len(s) + Len(t)
  <2>1. \A a, b \in Seq(Nat) : a \o b \in Seq(Nat) /\ Len(a \o b) = Len(a) + Len(b)
    OBVIOUS
  <2> QED
    BY <1>2, <2>1
<1>4. ASSUME NEW i \in 1 .. Len(s) + Len(t) PROVE Ids(s \o t)[i] = (Ids(s) \o Ids(t))[i]
  <2>1. Ids(s \o t)[i] = (s \o t)[i].id
    BY <1>1, IdsOf
  <2>2. CASE i \in 1 .. Len(s)
    <3>1. (s \o t)[i] = s[i] /\ (Ids(s) \o Ids(t))[i] = Ids(s)[i] /\ Ids(s)[i] = s[i].id
      BY <1>2, <2>2, IdsOf
    <3> QED
      BY <2>1, <3>1
  <2>3. CASE i \notin 1 .. Len(s)
    <3>1. i - Len(s) \in 1 .. Len(t)
      BY <2>3
    <3>2. (s \o t)[i] = t[i - Len(s)] /\ (Ids(s) \o Ids(t))[i] = Ids(t)[i - Len(s)]
      <4>1. i \in (Len(s) + 1) .. (Len(s) + Len(t))
        BY <2>3
      <4>2. (s \o t)[i] = t[i - Len(s)]
        BY <4>1
      <4>3. (Ids(s) \o Ids(t))[i] = Ids(t)[i - Len(Ids(s))]
        <5> DEFINE a == Ids(s)
                   b == Ids(t)
        <5>1. a \in Seq(Nat) /\ b \in Seq(Nat) /\ Len(a) = Len(s) /\ Len(b) = Len(t)
          BY <1>2
        <5> HIDE DEF a, b
        <5>2. (a \o b)[i] = b[i - Len(a)]
          BY <4>1, <5>1
        <5> QED
          BY <5>2 DEF a, b
      <4> QED
        BY <1>2, <4>2, <4>3
    <3>3. Ids(t)[i - Len(s)] = t[i - Len(s)].id
      BY <3>1, IdsOf
    <3> QED
      BY <2>1, <3>2, <3>3
  <2> QED
    BY <2>2, <2>3
<1> QED
  BY <1>2, <1>3, <1>4, SameSequence

LEMMA Associative == \A s, t, u \in Seq(Nat) : (s \o t) \o u = s \o (t \o u)
  BY SMTT(40), ConcatAssociative

LEMMA EmptyIsASeq == \A S : <<>> \in Seq(S)
  OBVIOUS

LEMMA EmptyIsShort == Len(<<>>) = 0 /\ Len(<<>>) <= 1
  OBVIOUS

LEMMA OneAlone ==
    ASSUME NEW S, NEW a \in S, NEW t, t = <<a>>
    PROVE  t \in Seq(S) /\ Len(t) = 1 /\ t[1] = a /\ t # <<>> /\ \A i \in 1 .. Len(t) : i = 1 /\ t[i] = a
<1>1. t \in Seq(S) /\ Len(t) = 1 /\ t[1] = a
  OBVIOUS
<1> QED
  BY <1>1

LEMMA TwoInARow ==
    ASSUME NEW S, NEW a \in S, NEW b \in S, NEW t, t = <<a, b>>
    PROVE  /\ t \in Seq(S) /\ Len(t) = 2 /\ t[1] = a /\ t[2] = b /\ t # <<>>
           /\ \A i \in 1 .. Len(t) : (i = 1 /\ t[i] = a) \/ (i = 2 /\ t[i] = b)
<1>1. t \in Seq(S) /\ Len(t) = 2 /\ t[1] = a /\ t[2] = b
  OBVIOUS
<1> QED
  BY <1>1

LEMMA OneByOne ==
    ASSUME NEW S, NEW a \in S, NEW b \in S
    PROVE  /\ Append(<<>>, a) = <<a>> /\ <<>> \o <<a>> = <<a>>
           /\ Append(<<a>>, b) = <<a, b>> /\ <<a>> \o <<b>> = <<a, b>>
<1>1. PICK s : s = <<a>>
  OBVIOUS
<1>2. PICK r : r = <<b>>
  OBVIOUS
<1>3. PICK t : t = <<a, b>>
  OBVIOUS
<1>4. PICK u : u = Append(s, b)
  OBVIOUS
<1>5. PICK v : v = s \o r
  OBVIOUS
<1>6. s \in Seq(S) /\ Len(s) = 1 /\ s[1] = a
  BY <1>1
<1>7. r \in Seq(S) /\ Len(r) = 1 /\ r[1] = b
  BY <1>2
<1>8. t \in Seq(S) /\ Len(t) = 2 /\ t[1] = a /\ t[2] = b
  BY <1>3
<1>9. u \in Seq(S) /\ Len(u) = 2 /\ u[1] = a /\ u[2] = b
  BY <1>4, <1>6
<1>10. v \in Seq(S) /\ Len(v) = 2 /\ v[1] = a /\ v[2] = b
  <2>1. /\ v \in Seq(S) /\ Len(v) = Len(s) + Len(r)
        /\ \A i \in 1 .. Len(s) : v[i] = s[i]
        /\ \A i \in (Len(s) + 1) .. (Len(s) + Len(r)) : v[i] = r[i - Len(s)]
    BY <1>5, <1>6, <1>7, Concat
  <2> QED
    BY <1>6, <1>7, <2>1
<1>11. u = t /\ v = t
  BY <1>8, <1>9, <1>10
<1>12. Append(<<>>, a) = <<a>> /\ <<>> \o <<a>> = <<a>>
  OBVIOUS
<1> QED
  BY <1>1, <1>2, <1>3, <1>4, <1>5, <1>11, <1>12

LEMMA TailOfOne ==
    ASSUME NEW S, NEW s \in Seq(S), Len(s) = 1
    PROVE  Tail(s) = <<>>
<1>1. Tail(s) \in Seq(S) /\ Len(Tail(s)) = 0
  OBVIOUS
<1> QED
  BY <1>1, EmptySeq

LEMMA NoIds == Ids(<<>>) = <<>>
  BY DEF Ids

\* New numbers keep a sequence increasing.
LEMMA Longer ==
    ASSUME NEW n \in Nat, NEW s \in Seq(Nat), NEW t \in Seq(Nat), Increasing(s),
           \A i \in 1 .. Len(s) : s[i] \in 1 .. n,
           \A i \in 1 .. Len(t) : t[i] = n + i
    PROVE  /\ Increasing(s \o t)
           /\ \A i \in 1 .. Len(s \o t) : (s \o t)[i] \in 1 .. (n + Len(t))
<1>1. ASSUME NEW i \in 1 .. Len(s \o t)
      PROVE  \/ i \in 1 .. Len(s) /\ (s \o t)[i] = s[i]
             \/ i \notin 1 .. Len(s) /\ i - Len(s) \in 1 .. Len(t) /\ (s \o t)[i] = n + (i - Len(s))
  <2>1. CASE i \in 1 .. Len(s)
    BY <2>1
  <2>2. CASE i \notin 1 .. Len(s)
    <3>1. i - Len(s) \in 1 .. Len(t) /\ (s \o t)[i] = t[i - Len(s)]
      BY <2>2
    <3> QED
      BY <2>2, <3>1
  <2> QED
    BY <2>1, <2>2
<1>2. ASSUME NEW i \in 1 .. Len(s \o t) PROVE (s \o t)[i] \in 1 .. (n + Len(t))
  BY <1>1
<1>3. ASSUME NEW i \in 1 .. Len(s \o t), NEW j \in 1 .. Len(s \o t), i < j PROVE (s \o t)[i] < (s \o t)[j]
  <2>1. Len(s) \in Nat /\ Len(t) \in Nat /\ Len(s \o t) \in Nat /\ i \in Int /\ j \in Int
    OBVIOUS
  <2>2. CASE j \in 1 .. Len(s)
    <3>1. i \in 1 .. Len(s)
      BY <1>3, <2>1, <2>2
    <3> QED
      BY <1>1, <1>3, <2>2, <3>1 DEF Increasing
  <2>3. CASE j \notin 1 .. Len(s)
    <3>1. (s \o t)[j] = n + (j - Len(s)) /\ j - Len(s) >= 1
      BY <1>1, <2>3
    <3>2. CASE i \in 1 .. Len(s)
      BY SMTT(40), <1>1, <2>1, <3>1, <3>2
    <3>3. CASE i \notin 1 .. Len(s)
      BY <1>1, <1>3, <2>1, <3>1, <3>3
    <3> QED
      BY <3>2, <3>3
  <2> QED
    BY <2>2, <2>3
<1> QED
  BY <1>2, <1>3 DEF Increasing

\* What precedes in an increasing sequence is increasing, and different from
\* what follows.
LEMMA Shorter ==
    ASSUME NEW s \in Seq(Nat), NEW t \in Seq(Nat), Increasing(s \o t)
    PROVE  Increasing(s) /\ ToSet(s) \cap ToSet(t) = {}
<1>1. /\ Len(s) \in Nat /\ Len(t) \in Nat /\ Len(s \o t) = Len(s) + Len(t)
      /\ \A i \in 1 .. Len(s) : (s \o t)[i] = s[i]
      /\ \A i \in 1 .. Len(t) : (s \o t)[Len(s) + i] = t[i]
  OBVIOUS
<1>2. Increasing(s)
  <2>1. SUFFICES ASSUME NEW i \in 1 .. Len(s), NEW j \in 1 .. Len(s), i < j PROVE s[i] < s[j]
    BY DEF Increasing
  <2>2. i \in 1 .. Len(s \o t) /\ j \in 1 .. Len(s \o t)
    BY ONLY <1>1, i \in 1 .. Len(s), j \in 1 .. Len(s)
  <2>3. (s \o t)[i] < (s \o t)[j]
    BY <2>1, <2>2 DEF Increasing
  <2> QED
    BY <1>1, <2>3
<1>3. ASSUME NEW i \in 1 .. Len(s), NEW j \in 1 .. Len(t) PROVE s[i] # t[j]
  <2>1. i \in 1 .. Len(s \o t) /\ Len(s) + j \in 1 .. Len(s \o t) /\ i < Len(s) + j
    BY <1>1
  <2>2. (s \o t)[i] < (s \o t)[Len(s) + j]
    BY <2>1 DEF Increasing
  <2>3. s[i] \in Nat /\ t[j] \in Nat
    OBVIOUS
  <2> QED
    BY <1>1, <2>2, <2>3
<1>4. DOMAIN s = 1 .. Len(s) /\ DOMAIN t = 1 .. Len(t)
  OBVIOUS
<1> QED
  BY <1>2, <1>3, <1>4 DEF ToSet

LEMMA Members ==
    ASSUME NEW S, NEW s \in Seq(S), NEW t \in Seq(S)
    PROVE  /\ ToSet(s) \subseteq S
           /\ ToSet(s \o t) = ToSet(s) \cup ToSet(t)
           /\ \A i \in 1 .. Len(s) : s[i] \in ToSet(s)
<1>1. /\ DOMAIN s = 1 .. Len(s) /\ DOMAIN t = 1 .. Len(t) /\ DOMAIN (s \o t) = 1 .. Len(s \o t)
      /\ Len(s) \in Nat /\ Len(t) \in Nat /\ Len(s \o t) = Len(s) + Len(t)
      /\ \A i \in 1 .. Len(s) : (s \o t)[i] = s[i]
      /\ \A i \in 1 .. Len(t) : (s \o t)[Len(s) + i] = t[i]
  OBVIOUS
<1>2. ToSet(s) \subseteq ToSet(s \o t) /\ ToSet(t) \subseteq ToSet(s \o t)
  <2>1. \A i \in 1 .. Len(s) : i \in 1 .. Len(s \o t)
    BY <1>1
  <2>2. \A i \in 1 .. Len(t) : Len(s) + i \in 1 .. Len(s \o t)
    BY <1>1
  <2> QED
    BY <1>1, <2>1, <2>2 DEF ToSet
<1>3. ASSUME NEW i \in 1 .. Len(s \o t) PROVE (s \o t)[i] \in ToSet(s) \cup ToSet(t)
  <2>1. CASE i \in 1 .. Len(s)
    BY <1>1, <2>1 DEF ToSet
  <2>2. CASE i \notin 1 .. Len(s)
    <3>1. i - Len(s) \in 1 .. Len(t) /\ Len(s) + (i - Len(s)) = i
      BY <1>1, <2>2
    <3>2. (s \o t)[i] = t[i - Len(s)]
      BY <1>1, <3>1
    <3> QED
      BY <1>1, <3>1, <3>2 DEF ToSet
  <2> QED
    BY <2>1, <2>2
<1>4. ToSet(s \o t) \subseteq ToSet(s) \cup ToSet(t)
  BY <1>1, <1>3 DEF ToSet
<1>5. ToSet(s) \subseteq S /\ \A i \in 1 .. Len(s) : s[i] \in ToSet(s)
  BY <1>1 DEF ToSet
<1> QED
  BY <1>2, <1>4, <1>5

-----------------------------------------------------------------------------
(* Calls.  What they have in common when they begin.                       *)
Goes(todo) == pending = <<>> \/ (todo # <<>> /\ todo[1].flush)
Own(todo)  == IF todo = <<>> \/ todo[Len(todo)].flush THEN <<>> ELSE todo[Len(todo)].ids
Asks(e)    == e.cmd \in DOMAIN MetadataCalls

Good(todo, queue, ids, m) ==
  /\ todo \in Seq(Exchanges) /\ queue \in Seq(Command) /\ ids \in Seq(Nat) /\ m \in Modes
  /\ \A i \in 1 .. Len(todo) :
       /\ todo[i].flush => i = 1 /\ pending # <<>> /\ todo[i] = FlushExchange
       /\ ~todo[i].flush /\ todo[i].ids # <<>> =>
            i = Len(todo) /\ queue = <<>> /\ Goes(todo) /\ todo[i].cmd \in DOMAIN ModifyCalls
       /\ todo[i].cmd \notin {"kindAttributes", "kindRelations"}
  /\ ids = Own(todo) \o Ids(queue)
  /\ \A i \in 1 .. Len(ids) : ids[i] = issued + i
  /\ m = SEND_IMMEDIATELY => queue = <<>> /\ Goes(todo)
  /\ \/ \A i \in 1 .. Len(todo) : ~Asks(todo[i])
     \/ ~asked /\ todo[1].cmd = "kindNames" /\ \A i \in 2 .. Len(todo) : ~Asks(todo[i])

NewCall(todo, queue, ids, m) ==
  [busy |-> TRUE, waiting |-> FALSE, todo |-> todo, queue |-> queue, ids |-> ids, mode |-> m]

LEMMA NewNumbers ==
    ASSUME IInv, NEW ids \in Seq(Nat), \A i \in 1 .. Len(ids) : ids[i] = issued + i, issued + Len(ids) <= MaxChanges,
           Idle
    PROVE  /\ issued + Len(ids) \in 0 .. MaxChanges
           /\ ids \in Seq(1 .. MaxChanges)
           /\ Increasing(accepted \o ids)
           /\ \A i \in 1 .. Len(accepted \o ids) : (accepted \o ids)[i] \in 1 .. (issued + Len(ids))
           /\ ToSet(applied) \cap ToSet(ids) = {}
<1>1. issued \in Nat /\ MaxChanges \in Nat /\ Len(ids) \in Nat /\ accepted \in Seq(Nat) /\ applied \in Seq(Nat)
  BY ConstantsAssumption DEF IInv, TypeOK
<1>2. call.ids = <<>> /\ accepted \o <<>> = accepted
  BY <1>1 DEF IInv, CallShape, Idle, NoCall
<1>3. Increasing(accepted) /\ \A i \in 1 .. Len(accepted) : accepted[i] \in 1 .. issued
  BY <1>2 DEF IInv, Numbered
<1>4. /\ Increasing(accepted \o ids)
      /\ \A i \in 1 .. Len(accepted \o ids) : (accepted \o ids)[i] \in 1 .. (issued + Len(ids))
  BY <1>1, <1>3, Longer
<1>5. \A i \in 1 .. Len(ids) : ids[i] \in 1 .. MaxChanges
  BY <1>1
<1>6. DOMAIN ids = 1 .. Len(ids)
  OBVIOUS
<1>7. ids \in Seq(1 .. MaxChanges)
  BY <1>5, SequenceOver
<1>8. ToSet(applied) \subseteq 1 .. issued
  BY DEF IInv, Numbered
<1>9. \A i \in 1 .. Len(ids) : ids[i] \notin 1 .. issued
  BY <1>1
<1>10. ToSet(applied) \cap ToSet(ids) = {}
  BY <1>6, <1>8, <1>9 DEF ToSet
<1> QED
  BY <1>1, <1>4, <1>7, <1>10

\* A call that needs no exchange returns at once.
LEMMA ReturnsAtOnce ==
    ASSUME IInv, NEW queue, NEW ids, NEW m, Good(<<>>, queue, ids, m), Begin(<<>>, queue, ids, m)
    PROVE  IInv'
<1>1. /\ queue \in Seq(Command) /\ m \in Modes /\ ids \in Seq(Nat)
      /\ \A i \in 1 .. Len(ids) : ids[i] = issued + i
      /\ m = SEND_IMMEDIATELY => queue = <<>> /\ pending = <<>>
      /\ Ids(queue) \in Seq(Nat)
  BY IdsOf DEF Good, Goes
<1>2. ids = Ids(queue)
  BY <1>1 DEF Good, Own
<1>3. /\ Idle /\ issued + Len(ids) <= MaxChanges /\ issued' = issued + Len(ids)
      /\ pending' = pending \o queue /\ accepted' = accepted \o ids /\ mode' = m
      /\ UNCHANGED <<call, asked, cache, requests, replies, server, applied>>
  BY DEF Begin
<1>4. /\ issued + Len(ids) \in 0 .. MaxChanges
      /\ ids \in Seq(1 .. MaxChanges)
      /\ Increasing(accepted \o ids)
      /\ \A i \in 1 .. Len(accepted \o ids) : (accepted \o ids)[i] \in 1 .. (issued + Len(ids))
  BY <1>1, <1>3, NewNumbers
<1>5. TypeOK
  BY DEF IInv
<1>6. call = NoCall /\ call.ids = <<>> /\ call.queue = <<>> /\ ~call.busy /\ ~call.waiting /\ call.todo = <<>>
  BY <1>3 DEF IInv, CallShape, Idle, NoCall
<1>13. /\ Ids(pending \o queue) = Ids(pending) \o ids /\ Ids(pending) \in Seq(Nat)
       /\ applied \in Seq(Nat) /\ accepted \in Seq(Nat)
  <2>1. pending \in Seq(Command)
    BY <1>5 DEF TypeOK
  <2>2. Ids(pending \o queue) = Ids(pending) \o ids
    BY <1>1, <1>2, <2>1, IdsOfConcat
  <2>3. Ids(pending) \in Seq(Nat)
    BY <2>1, IdsOf
  <2> QED
    BY <1>5, <2>2, <2>3, ConstantsAssumption DEF TypeOK
<1>7. TypeOK'
  <2>1. pending' \in Seq(Command) /\ accepted' \in Seq(1 .. MaxChanges) /\ issued' \in 0 .. MaxChanges
    BY <1>1, <1>3, <1>4, <1>5, Concat DEF TypeOK
  <2> QED
    BY <1>1, <1>3, <1>5, <2>1 DEF TypeOK
<1>8. CallShape'
  <2>1. mode' = SEND_IMMEDIATELY => pending' = <<>>
    BY <1>1, <1>3
  <2> QED
    BY <1>3, <1>6, <2>1 DEF CallShape, NoCall
<1>9. Pipes'
  BY <1>3 DEF IInv, Pipes
<1>10. Numbered'
  <2>1. accepted' \o <<>> = accepted' /\ Ids(<<>>) = <<>> /\ ToSet(<<>>) = {}
    BY <1>7, NoIds DEF TypeOK, ToSet
  <2>2. ToSet(Ids(pending')) \subseteq ToSet(accepted')
    <3>1. Ids(pending') = Ids(pending) \o ids /\ Ids(pending) \in Seq(Nat) /\ accepted \in Seq(Nat)
      BY <1>3, <1>13
    <3>2. /\ ToSet(Ids(pending')) = ToSet(Ids(pending)) \cup ToSet(ids)
          /\ ToSet(accepted') = ToSet(accepted) \cup ToSet(ids)
      BY <1>1, <1>3, <3>1, Members
    <3> QED
      BY <3>2 DEF IInv, Numbered
  <2>3. 1 .. issued \subseteq 1 .. issued'
    BY <1>1, <1>3, <1>5, ConstantsAssumption DEF TypeOK
  <2>4. ToSet(applied) \subseteq 1 .. issued'
    BY <2>3 DEF IInv, Numbered
  <2>5. call'.ids = <<>> /\ call'.queue = <<>>
    BY <1>3, <1>6
  <2> QED
    BY <1>3, <1>4, <2>1, <2>2, <2>4, <2>5 DEF Numbered
<1>11. Balance'
  <2>1. ~Served /\ ~Served'
    BY <1>3, <1>6 DEF Served
  <2>2. SUFFICES ASSUME server # "gone" PROVE applied \o Ids(pending \o queue) = (accepted \o ids) \o <<>>
    BY <1>3, <2>1 DEF Balance
  <2>3. applied \o Ids(pending) = accepted \o <<>>
    BY <2>1, <2>2 DEF IInv, Balance
  <2>4. Ids(pending \o queue) = Ids(pending) \o ids /\ Ids(pending) \in Seq(Nat)
    BY <1>13
  <2>5. applied \in Seq(Nat) /\ accepted \in Seq(Nat)
    BY <1>13
  <2>6. applied \o (Ids(pending) \o ids) = (applied \o Ids(pending)) \o ids
    <3>1. ids \in Seq(Nat)
      BY <1>1
    <3> QED
      BY <2>4, <2>5, <3>1, Associative
  <2> QED
    BY <1>1, <2>3, <2>4, <2>5, <2>6
<1>12. SchemeShape'
  <2>1. \A i \in 1 .. Len(call.todo)' : ~AsksScheme(i)'
    BY <1>3, <1>6
  <2> QED
    BY <1>3, <2>1 DEF IInv, SchemeShape, Scheme
<1> QED
  BY <1>7, <1>8, <1>9, <1>10, <1>11, <1>12 DEF IInv

\* A call that needs exchanges has them before it.
LEMMA StartsExchanges ==
    ASSUME IInv, NEW todo, NEW queue, NEW ids, NEW m, Good(todo, queue, ids, m), Begin(todo, queue, ids, m),
           todo # <<>>
    PROVE  IInv'
<1>1. /\ todo \in Seq(Exchanges) /\ queue \in Seq(Command) /\ m \in Modes /\ ids \in Seq(Nat)
      /\ \A i \in 1 .. Len(ids) : ids[i] = issued + i
  BY DEF Good
<1>2. /\ Idle /\ issued + Len(ids) <= MaxChanges /\ issued' = issued + Len(ids)
      /\ call' = NewCall(todo, queue, ids, m)
      /\ UNCHANGED <<pending, accepted, mode, asked, cache, requests, replies, server, applied>>
  BY DEF Begin, NewCall
<1>3. /\ issued + Len(ids) \in 0 .. MaxChanges
      /\ Increasing(accepted \o ids)
      /\ \A i \in 1 .. Len(accepted \o ids) : (accepted \o ids)[i] \in 1 .. (issued + Len(ids))
      /\ ToSet(applied) \cap ToSet(ids) = {}
  BY <1>1, <1>2, NewNumbers
<1>4. call = NoCall /\ ~call.busy /\ ~call.waiting
  BY <1>2 DEF IInv, CallShape, Idle, NoCall
<1>5. /\ call'.busy /\ ~call'.waiting /\ call'.todo = todo /\ call'.queue = queue
      /\ call'.ids = ids /\ call'.mode = m
  BY <1>2 DEF NewCall
<1>6. Len(todo) \in Nat /\ Len(todo) >= 1 /\ 1 \in 1 .. Len(todo) /\ Len(todo) \in 1 .. Len(todo)
  BY <1>1
<1>7. TypeOK'
  <2>1. call' \in [busy : BOOLEAN, waiting : BOOLEAN, todo : Seq(Exchanges), queue : Seq(Command),
                   ids : Seq(Nat), mode : Modes]
    BY <1>1, <1>2 DEF NewCall
  <2> QED
    BY <1>2, <1>3, <2>1 DEF IInv, TypeOK
<1>8. CallShape'
  <2>1. FlushExchange' = FlushExchange /\ QueueGoes' = Goes(todo) /\ OwnIds' = Own(todo)
    BY <1>2, <1>5 DEF FlushExchange, Exchange, Ids, QueueGoes, Goes, OwnIds, Own, IsFlush
  <2>2. (IsFlush(1) => pending # <<>> /\ call.todo[1] = FlushExchange)'
    BY <1>2, <1>5, <1>6, <2>1 DEF Good, IsFlush
  <2>3. (\A i \in 2 .. Len(call.todo) : ~IsFlush(i))'
    <3>1. \A i \in 2 .. Len(todo) : i \in 1 .. Len(todo) /\ i # 1
      BY <1>6
    <3> QED
      BY <1>5, <3>1 DEF Good, IsFlush
  <2>4. (\A i \in 1 .. Len(call.todo) :
           /\ Changing(i) => /\ i = Len(call.todo) /\ call.queue = <<>> /\ QueueGoes
                             /\ call.todo[i].cmd \in DOMAIN ModifyCalls
           /\ call.todo[i].cmd \in {"kindAttributes", "kindRelations"} => call.todo[i].arg \in KindSet)'
    BY <1>5, <2>1 DEF Good, Changing, IsFlush
  <2>5. (call.ids = OwnIds \o Ids(call.queue))'
    BY <1>5, <2>1 DEF Good, Ids
  <2>6. (mode = SEND_IMMEDIATELY => pending = <<>>)'
    BY <1>2 DEF IInv, CallShape
  <2>7. (call.busy /\ call.mode = SEND_IMMEDIATELY => call.queue = <<>> /\ QueueGoes)'
    BY <1>5, <2>1 DEF Good, SEND_IMMEDIATELY
  <2> QED
    BY <1>5, <2>2, <2>3, <2>4, <2>5, <2>6, <2>7 DEF CallShape
<1>9. Pipes'
  <2>1. requests = <<>>
    <3>1. server # "gone" => Len(requests) + Len(replies) = 0
      BY <1>4 DEF IInv, Pipes
    <3>2. requests \in Seq(Exchanges) /\ Len(replies) \in Nat /\ Len(requests) \in Nat
      BY DEF IInv, TypeOK, Pipes
    <3>3. server # "gone" => requests = <<>>
      BY <3>1, <3>2
    <3> QED
      BY <3>3 DEF IInv, Pipes
  <2>2. replies # <<>> => replies[1].form = "fatal"
    BY <1>4 DEF IInv, Pipes
  <2> QED
    BY <1>2, <1>4, <1>5, <2>1, <2>2 DEF IInv, Pipes
<1>10. Numbered'
  <2>1. ToSet(applied) \subseteq 1 .. issued'
    <3>1. 1 .. issued \subseteq 1 .. issued'
      BY <1>1, <1>2, ConstantsAssumption DEF IInv, TypeOK
    <3> QED
      BY <3>1 DEF IInv, Numbered
  <2>2. ToSet(Ids(queue)) \subseteq ToSet(ids)
    <3>1. Own(todo) \in Seq(Nat)
      <4>1. todo[Len(todo)] \in Exchanges
        BY <1>1, <1>6
      <4>2. todo[Len(todo)].ids \in Seq(Nat)
        BY <4>1 DEF Exchanges
      <4> QED
        BY <4>2, EmptyIsASeq DEF Own
    <3>2. Ids(queue) \in Seq(Nat) /\ ids = Own(todo) \o Ids(queue)
      BY <1>1, IdsOf DEF Good
    <3> QED
      BY <3>1, <3>2, Members
  <2> QED
    BY <1>2, <1>3, <1>5, <2>1, <2>2 DEF IInv, Numbered, Ids
<1>11. Balance'
  BY <1>2, <1>4, <1>5 DEF IInv, Balance, Served, Ids
<1>12. SchemeShape'
  <2>1. \A i : AsksScheme(i)' <=> Asks(todo[i])
    BY <1>5 DEF AsksScheme, Asks
  <2> QED
    BY <1>2, <1>5, <2>1 DEF IInv, SchemeShape, Scheme, Good
<1> QED
  BY <1>7, <1>8, <1>9, <1>10, <1>11, <1>12 DEF IInv

-----------------------------------------------------------------------------
(* Every method begins with what Good says.                                *)
LEMMA FlushIs ==
    ASSUME TypeOK
    PROVE  /\ FlushExchange \in Exchanges /\ FlushExchange.flush /\ FlushExchange.cmd = "applyBatchedChanges"
           /\ FlushExchange.ids = Ids(pending)
           /\ Flush = IF pending = <<>> THEN <<>> ELSE <<FlushExchange>>
<1>1. "applyBatchedChanges" \in Commands
  BY CallNames DEF Commands
<1>2. Ids(pending) \in Seq(Nat)
  BY IdsOf DEF TypeOK
<1> QED
  BY <1>1, <1>2 DEF FlushExchange, Exchange, Exchanges, Flush

LEMMA ExchangeIs ==
    ASSUME NEW cmd \in Commands, NEW arg \in KindSet \cup {NoKind}, NEW ids \in Seq(Nat)
    PROVE  /\ Exchange(cmd, arg, ids) \in Exchanges
           /\ Exchange(cmd, arg, ids).cmd = cmd /\ Exchange(cmd, arg, ids).ids = ids
           /\ ~Exchange(cmd, arg, ids).flush
  BY DEF Exchange, Exchanges

LEMMA ModifyIsNoMetadata ==
    /\ DOMAIN ModifyCalls \subseteq Commands
    /\ "applyBatchedChanges" \in DOMAIN ModifyCalls
    /\ \A cmd \in DOMAIN ModifyCalls : cmd \notin DOMAIN MetadataCalls /\ ~NeedsMetadata(cmd)
<1>1. \A cmd \in DOMAIN ModifyCalls : cmd \notin DOMAIN MetadataCalls
  BY CallNames
<1>2. \A cmd \in DOMAIN ModifyCalls : cmd \notin DOMAIN ReadCalls
  BY CallNames
<1>3. \A cmd \in DOMAIN ModifyCalls : cmd \notin DOMAIN DiffCalls
  BY CallNames
<1>4. "applyBatchedChanges" \in DOMAIN ModifyCalls
  BY CallNames
<1> QED
  BY <1>1, <1>2, <1>3, <1>4 DEF NeedsMetadata, Commands

\* A change made at once, behind nothing or behind the flush.
LEMMA AtOnceIsGood ==
    ASSUME IInv, NEW cmd \in DOMAIN ModifyCalls, NEW ids \in Seq(Nat), ids # <<>>,
           \A i \in 1 .. Len(ids) : ids[i] = issued + i,
           NEW before, before = Flush \/ (before = <<>> /\ mode = SEND_IMMEDIATELY)
    PROVE  Good(Append(before, Exchange(cmd, NoKind, ids)), <<>>, ids, mode)
<1> DEFINE e == Exchange(cmd, NoKind, ids)
           todo == Append(before, e)
<1>1. e \in Exchanges /\ e.cmd = cmd /\ e.ids = ids /\ ~e.flush
  <2>1. cmd \in Commands /\ NoKind \in KindSet \cup {NoKind}
    BY ModifyIsNoMetadata
  <2> QED
    BY <2>1, ExchangeIs
<1>2. TypeOK /\ (mode = SEND_IMMEDIATELY => pending = <<>>)
  BY DEF IInv, CallShape
<1>3. mode \in Modes /\ <<>> \in Seq(Command) /\ ids = ids \o Ids(<<>>)
  BY SMTT(40), <1>2, NoIds DEF TypeOK
<1>4. cmd \notin DOMAIN MetadataCalls /\ cmd \notin {"kindAttributes", "kindRelations"}
  BY ModifyIsNoMetadata, CallNames
<1> HIDE DEF e
<1>5. CASE pending = <<>>
  <2>1. todo = <<e>>
    <3>1. before = <<>>
      BY <1>2, <1>5, FlushIs
    <3> QED
      BY <3>1
  <2> HIDE DEF todo
  <2>2. todo \in Seq(Exchanges) /\ Len(todo) = 1 /\ todo[1] = e /\ todo # <<>>
    BY <1>1, <2>1
  <2>3. \A i \in 1 .. Len(todo) : i = 1 /\ todo[i] = e
    BY <2>2
  <2>4. Goes(todo) /\ Own(todo) = ids
    BY <1>1, <1>5, <2>2 DEF Goes, Own
  <2>5. Good(todo, <<>>, ids, mode)
    BY <1>1, <1>3, <1>4, <2>2, <2>3, <2>4 DEF Good, Asks
  <2> QED
    BY <2>5 DEF e, todo
<1>6. CASE pending # <<>>
  <2>1. todo = <<FlushExchange, e>>
    <3>1. before = <<FlushExchange>> /\ FlushExchange \in Exchanges
      BY <1>2, <1>6, FlushIs
    <3>2. PICK f : f = FlushExchange
      OBVIOUS
    <3>3. Append(<<f>>, e) = <<f, e>>
      BY <1>1, <3>1, <3>2, OneByOne
    <3> QED
      BY <3>1, <3>2, <3>3
  <2> HIDE DEF todo
  <2>2. FlushExchange \in Exchanges /\ FlushExchange.flush /\ FlushExchange.cmd = "applyBatchedChanges"
    BY <1>2, FlushIs
  <2>3. /\ todo \in Seq(Exchanges) /\ Len(todo) = 2 /\ todo[1] = FlushExchange /\ todo[2] = e /\ todo # <<>>
    BY <1>1, <2>1, <2>2
  <2>4. \A i \in 1 .. Len(todo) : (i = 1 /\ todo[i] = FlushExchange) \/ (i = 2 /\ todo[i] = e)
    BY <2>3
  <2>5. Goes(todo) /\ Own(todo) = ids
    BY <1>1, <2>2, <2>3 DEF Goes, Own
  <2>6. "applyBatchedChanges" \notin DOMAIN MetadataCalls
    BY CallNames
  <2>7. Good(todo, <<>>, ids, mode)
    BY <1>1, <1>3, <1>4, <1>6, <2>2, <2>3, <2>4, <2>5, <2>6, CallNames DEF Good, Asks
  <2> QED
    BY <2>7 DEF e, todo
<1> QED
  BY <1>5, <1>6

\* Changes queued, behind nothing or behind the flush; or only the flush.
LEMMA QueuedIsGood ==
    ASSUME IInv, NEW cs \in Seq(Command), NEW m \in Modes,
           \A i \in 1 .. Len(cs) : cs[i].id = issued + i,
           NEW before, before = <<>> \/ before = Flush,
           m = SEND_IMMEDIATELY => cs = <<>> /\ (before = Flush \/ mode = SEND_IMMEDIATELY)
    PROVE  Good(before, cs, Ids(cs), m)
<1>1. TypeOK /\ (mode = SEND_IMMEDIATELY => pending = <<>>)
  BY DEF IInv, CallShape
<1>2. /\ Ids(cs) \in Seq(Nat) /\ \A i \in 1 .. Len(Ids(cs)) : Ids(cs)[i] = issued + i
      /\ Ids(cs) = <<>> \o Ids(cs)
  <2>1. /\ Ids(cs) \in Seq(Nat) /\ Len(Ids(cs)) = Len(cs)
        /\ \A i \in 1 .. Len(cs) : Ids(cs)[i] = cs[i].id
    BY IdsOf
  <2> QED
    BY <2>1
<1>3. FlushExchange \in Exchanges /\ FlushExchange.flush /\ FlushExchange.cmd = "applyBatchedChanges"
  BY <1>1, FlushIs
<1>4. CASE before = <<>>
  <2>1. /\ before \in Seq(Exchanges) /\ \A i \in 1 .. Len(before) : FALSE
        /\ Own(before) = <<>>
    BY <1>4 DEF Own
  <2>2. m = SEND_IMMEDIATELY => Goes(before)
    BY <1>1, <1>4, FlushIs DEF Goes
  <2> QED
    BY <1>2, <2>1, <2>2 DEF Good
<1>5. CASE before # <<>>
  <2>1. before = <<FlushExchange>> /\ pending # <<>>
    BY <1>1, <1>5, FlushIs
  <2>2. /\ before \in Seq(Exchanges) /\ Len(before) = 1 /\ before[1] = FlushExchange
    BY <1>3, <2>1
  <2>3. \A i \in 1 .. Len(before) : i = 1 /\ before[i] = FlushExchange
    BY <2>2
  <2>4. Goes(before) /\ Own(before) = <<>>
    BY <1>3, <1>5, <2>2 DEF Goes, Own
  <2>5. "applyBatchedChanges" \notin DOMAIN MetadataCalls
    BY CallNames
  <2>6. "applyBatchedChanges" \notin {"kindAttributes", "kindRelations"}
    OBVIOUS
  <2> QED
    BY <1>2, <1>3, <2>1, <2>2, <2>3, <2>4, <2>5, <2>6 DEF Good, Asks
<1> QED
  BY <1>4, <1>5

\* What makes no change: the request of the scheme, when it is needed and not
\* known, and the request itself.
LEMMA ReadingIsGood ==
    ASSUME IInv, NEW todo \in Seq(Exchanges),
           \A i \in 1 .. Len(todo) : /\ ~todo[i].flush /\ todo[i].ids = <<>>
                                     /\ todo[i].cmd \notin {"kindAttributes", "kindRelations"},
           \/ \A i \in 1 .. Len(todo) : ~Asks(todo[i])
           \/ ~asked /\ todo[1].cmd = "kindNames" /\ \A i \in 2 .. Len(todo) : ~Asks(todo[i])
    PROVE  Good(todo, <<>>, <<>>, mode)
<1>1. mode \in Modes
  BY DEF IInv, TypeOK
<1>2. mode = SEND_IMMEDIATELY => Goes(todo)
  BY DEF IInv, CallShape, Goes
<1>3. Own(todo) = <<>>
  <2>1. todo # <<>> => Len(todo) \in 1 .. Len(todo)
    OBVIOUS
  <2> QED
    BY <2>1 DEF Own
<1>4. Own(todo) \o Ids(<<>>) = <<>>
  BY <1>3, NoIds
<1>5. <<>> \in Seq(Command) /\ <<>> \in Seq(Nat) /\ \A i \in 1 .. Len(<<>>) : FALSE
  BY EmptyIsASeq
<1> QED
  BY <1>1, <1>2, <1>4, <1>5 DEF Good

LEMMA AskIs ==
    ASSUME NEW cmd \in Commands, NEW arg \in KindSet \cup {NoKind}
    PROVE  /\ Ask(cmd, arg) \in Exchanges
           /\ Ask(cmd, arg).cmd = cmd /\ Ask(cmd, arg).ids = <<>>
           /\ ~Ask(cmd, arg).flush
  BY EmptyIsASeq, ExchangeIs DEF Ask

\* The request itself, and the request of the scheme before it.
LEMMA AskingIsGood ==
    ASSUME IInv, NEW cmd \in Commands, cmd \notin DOMAIN MetadataCalls, NEW arg \in KindSet \cup {NoKind}
    PROVE  /\ Good(<<Ask(cmd, arg)>>, <<>>, <<>>, mode)
           /\ Good(AskForMetadata \o <<Ask(cmd, arg)>>, <<>>, <<>>, mode)
           /\ Good(AskForMetadata, <<>>, <<>>, mode)
<1> DEFINE e == Ask(cmd, arg)
           K == Ask("kindNames", NoKind)
<1>1. e \in Exchanges /\ e.cmd = cmd /\ e.ids = <<>> /\ ~e.flush /\ ~Asks(e)
  BY AskIs DEF Asks
<1>2. K \in Exchanges /\ K.cmd = "kindNames" /\ K.ids = <<>> /\ ~K.flush
  BY AskIs, CallNames DEF Commands
<1>3. AskForMetadata = IF asked THEN <<>> ELSE <<K>>
  BY DEF AskForMetadata
<1>4. cmd \notin {"kindAttributes", "kindRelations"}
  BY CallNames
<1> HIDE DEF e, K
<1>5. Good(<<e>>, <<>>, <<>>, mode)
  <2>1. PICK todo : todo = <<e>>
    OBVIOUS
  <2>2. todo \in Seq(Exchanges) /\ \A i \in 1 .. Len(todo) : todo[i] = e
    BY <1>1, <2>1, OneAlone
  <2> QED
    BY <1>1, <1>4, <2>1, <2>2, ReadingIsGood
<1>6. Good(<<>>, <<>>, <<>>, mode)
  <2>1. PICK todo : todo = <<>>
    OBVIOUS
  <2>2. todo \in Seq(Exchanges) /\ \A i \in 1 .. Len(todo) : FALSE
    BY <2>1
  <2> QED
    BY <2>1, <2>2, ReadingIsGood
<1>7. ~asked => Good(<<K>>, <<>>, <<>>, mode)
  <2>1. PICK todo : todo = <<K>>
    OBVIOUS
  <2>2. todo \in Seq(Exchanges) /\ todo[1] = K /\ (\A i \in 1 .. Len(todo) : todo[i] = K) /\ \A i \in 2 .. Len(todo) : FALSE
    <3>1. todo \in Seq(Exchanges) /\ Len(todo) = 1 /\ todo[1] = K
      BY <1>2, <2>1, OneAlone
    <3> QED
      BY <3>1
  <2> QED
    BY <1>2, <2>1, <2>2, ReadingIsGood
<1>8. ~asked => Good(<<K, e>>, <<>>, <<>>, mode)
  <2>1. PICK todo : todo = <<K, e>>
    OBVIOUS
  <2>2. /\ todo \in Seq(Exchanges) /\ todo[1] = K
        /\ \A i \in 1 .. Len(todo) : todo[i] = K \/ todo[i] = e
        /\ \A i \in 2 .. Len(todo) : todo[i] = e
    <3>1. todo \in Seq(Exchanges) /\ Len(todo) = 2 /\ todo[1] = K /\ todo[2] = e
      BY <1>1, <1>2, <2>1, TwoInARow
    <3> QED
      BY <3>1
  <2> QED
    BY <1>1, <1>2, <1>4, <2>1, <2>2, ReadingIsGood
<1>9. Good(AskForMetadata, <<>>, <<>>, mode)
  BY <1>3, <1>6, <1>7
<1>10. Good(AskForMetadata \o <<e>>, <<>>, <<>>, mode)
  <2>1. <<>> \o <<e>> = <<e>> /\ <<K>> \o <<e>> = <<K, e>>
    BY <1>1, <1>2, OneByOne
  <2> QED
    BY <1>3, <1>5, <1>8, <2>1
<1> QED
  BY <1>5, <1>9, <1>10 DEF e

LEMMA ModesAre ==
    SEND_IMMEDIATELY \in Modes /\ CACHE_SAME_OBJECT # SEND_IMMEDIATELY /\ \A m \in Modes : ~(m < SEND_IMMEDIATELY)
  BY DEF SEND_IMMEDIATELY, CACHE_SAME_OBJECT, Modes

\* A call begins as Good says.
Begins == \E todo, queue, ids, m : Good(todo, queue, ids, m) /\ Begin(todo, queue, ids, m)

LEMMA ChangeIs ==
    ASSUME NEW id \in Nat, NEW k \in KindSet, NEW n \in Names, NEW next \in Names
    PROVE  Change(id, k, n, next) \in Command /\ Change(id, k, n, next).id = id
  BY DEF Change, Command

LEMMA OneNumber ==
    ASSUME TypeOK, NEW c \in Command, c.id = issued + 1
    PROVE  /\ <<c.id>> \in Seq(Nat) /\ <<c.id>> # <<>> /\ \A i \in 1 .. Len(<<c.id>>) : <<c.id>>[i] = issued + i
           /\ <<c>> \in Seq(Command) /\ Ids(<<c>>) = <<c.id>> /\ \A i \in 1 .. Len(<<c>>) : <<c>>[i].id = issued + i
<1>1. c.id \in Nat
  BY DEF Command
<1>2. PICK s : s = <<c.id>>
  OBVIOUS
<1>3. PICK t : t = <<c>>
  OBVIOUS
<1>4. s \in Seq(Nat) /\ s # <<>> /\ s[1] = c.id /\ Len(s) = 1 /\ \A i \in 1 .. Len(s) : i = 1 /\ s[i] = c.id
  BY <1>1, <1>2, OneAlone
<1>5. t \in Seq(Command) /\ Len(t) = 1 /\ t[1] = c /\ \A i \in 1 .. Len(t) : i = 1 /\ t[i] = c
  BY <1>3, OneAlone
<1>6. Ids(t) \in Seq(Nat) /\ Len(Ids(t)) = 1 /\ \A i \in 1 .. 1 : Ids(t)[i] = t[i].id
  BY <1>5, IdsOf
<1>7. \A i \in 1 .. Len(Ids(t)) : Ids(t)[i] = s[i]
  BY <1>4, <1>5, <1>6
<1>8. Ids(t) = s
  BY <1>4, <1>6, <1>7, SameSequence
<1>9. \A i \in 1 .. Len(s) : s[i] = issued + i
  BY <1>4
<1>10. \A i \in 1 .. Len(t) : t[i].id = issued + i
  BY <1>5
<1> QED
  BY <1>2, <1>3, <1>4, <1>5, <1>8, <1>9, <1>10

LEMMA SendOrQueueBegins ==
    ASSUME IInv, NEW cmd \in DOMAIN ModifyCalls, NEW c \in Command, c.id = issued + 1, SendOrQueue(cmd, c)
    PROVE  Begins
<1>1. TypeOK /\ mode \in Modes
  BY DEF IInv, TypeOK
<1>2. CASE mode = SEND_IMMEDIATELY
  <2>1. Begin(<<Exchange(cmd, NoKind, <<c.id>>)>>, <<>>, <<c.id>>, mode)
    BY <1>2 DEF SendOrQueue
  <2>2. Good(Append(<<>>, Exchange(cmd, NoKind, <<c.id>>)), <<>>, <<c.id>>, mode)
    BY <1>1, <1>2, OneNumber, AtOnceIsGood
  <2>3. Append(<<>>, Exchange(cmd, NoKind, <<c.id>>)) = <<Exchange(cmd, NoKind, <<c.id>>)>>
    OBVIOUS
  <2> QED
    BY <2>1, <2>2, <2>3 DEF Begins
<1>3. CASE mode # SEND_IMMEDIATELY
  <2>1. Begin(FlushUnlessSame(c.kind, c.name), <<c>>, <<c.id>>, mode)
    BY <1>3 DEF SendOrQueue
  <2>2. PICK before : before = FlushUnlessSame(c.kind, c.name)
    OBVIOUS
  <2>3. before = <<>> \/ before = Flush
    BY <2>2 DEF FlushUnlessSame
  <2>4. Good(before, <<c>>, Ids(<<c>>), mode)
    BY <1>1, <1>3, <2>3, OneNumber, QueuedIsGood
  <2> QED
    BY <1>1, <2>1, <2>2, <2>4, OneNumber DEF Begins
<1> QED
  BY <1>2, <1>3

LEMMA CreateNamedBegins ==
    ASSUME IInv, NEW k \in KindSet, NEW n \in Names, CreateNamedObject(k, n)
    PROVE  Begins
<1>1. TypeOK /\ mode \in Modes /\ issued + 1 \in Nat
  BY ConstantsAssumption DEF IInv, TypeOK
<1>2. PICK c : c = Change(issued + 1, k, n, n)
  OBVIOUS
<1>3. c \in Command /\ c.id = issued + 1
  BY <1>1, <1>2, ChangeIs
<1>4. CASE mode = CACHE_SAME_OBJECT
  <2>1. Begin(Flush, <<c>>, <<c.id>>, mode)
    BY <1>2, <1>4 DEF CreateNamedObject
  <2>2. Good(Flush, <<c>>, Ids(<<c>>), mode)
    BY <1>1, <1>3, <1>4, ModesAre, OneNumber, QueuedIsGood
  <2> QED
    BY <1>1, <1>3, <2>1, <2>2, OneNumber DEF Begins
<1>5. CASE mode # CACHE_SAME_OBJECT
  <2>1. SendOrQueue("createObject", c)
    BY <1>2, <1>5 DEF CreateNamedObject
  <2>2. "createObject" \in DOMAIN ModifyCalls
    BY CallNames
  <2> QED
    BY <1>3, <2>1, <2>2, SendOrQueueBegins
<1> QED
  BY <1>4, <1>5

LEMMA NextNumber ==
    ASSUME TypeOK
    PROVE  /\ <<issued + 1>> \in Seq(Nat) /\ <<issued + 1>> # <<>>
           /\ \A i \in 1 .. Len(<<issued + 1>>) : <<issued + 1>>[i] = issued + i
<1>1. issued + 1 \in Nat
  BY ConstantsAssumption DEF TypeOK
<1>2. PICK s : s = <<issued + 1>>
  OBVIOUS
<1>3. s \in Seq(Nat) /\ s # <<>> /\ \A i \in 1 .. Len(s) : i = 1 /\ s[i] = issued + 1
  BY <1>1, <1>2, OneAlone
<1> QED
  BY <1>2, <1>3

LEMMA UnnamedBegins ==
    ASSUME IInv, CreateUnnamedObject \/ RestoreDeletedObject
    PROVE  Begins
<1>1. TypeOK
  BY DEF IInv
<1>2. "createObject" \in DOMAIN ModifyCalls /\ "restoreDeletedObject" \in DOMAIN ModifyCalls
  BY CallNames
<1>3. CASE CreateUnnamedObject
  <2>1. PICK before : before = IF mode = SEND_IMMEDIATELY THEN <<>> ELSE Flush
    OBVIOUS
  <2>2. before = Flush \/ (before = <<>> /\ mode = SEND_IMMEDIATELY)
    BY <2>1
  <2>3. Good(Append(before, Exchange("createObject", NoKind, <<issued + 1>>)), <<>>, <<issued + 1>>, mode)
    BY <1>1, <1>2, <2>2, NextNumber, AtOnceIsGood
  <2>4. Begin(Append(before, Exchange("createObject", NoKind, <<issued + 1>>)), <<>>, <<issued + 1>>, mode)
    BY <1>3, <2>1 DEF CreateUnnamedObject
  <2> QED
    BY <2>3, <2>4 DEF Begins
<1>4. CASE RestoreDeletedObject
  <2>1. Good(Append(Flush, Exchange("restoreDeletedObject", NoKind, <<issued + 1>>)), <<>>, <<issued + 1>>, mode)
    BY <1>1, <1>2, NextNumber, AtOnceIsGood
  <2> QED
    BY <1>4, <2>1 DEF Begins, RestoreDeletedObject
<1> QED
  BY <1>3, <1>4

LEMMA BatchBegins ==
    ASSUME IInv, NEW ks \in Objects \X Objects, ApplyBatchedChanges(ks)
    PROVE  Begins
<1> DEFINE cs == [i \in 1 .. Len(ks) |-> [Change(issued + i, ks[i][1], ks[i][2], ks[i][2]) EXCEPT !.merged = TRUE]]
<1>1. TypeOK /\ mode \in Modes /\ issued \in Nat
  BY ConstantsAssumption DEF IInv, TypeOK
<1>2. Len(ks) = 2 /\ \A i \in 1 .. 2 : ks[i] \in Objects
  OBVIOUS
<1>3. \A o \in Objects : o[1] \in KindSet /\ o[2] \in Names
  BY ConstantsAssumption DEF Names
<1>4. ASSUME NEW i \in 1 .. 2
      PROVE  cs[i] \in Command /\ cs[i].id = issued + i
  <2>1. cs[i] = [Change(issued + i, ks[i][1], ks[i][2], ks[i][2]) EXCEPT !.merged = TRUE]
    BY <1>2
  <2>2. ks[i][1] \in KindSet /\ ks[i][2] \in Names /\ issued + i \in Nat
    BY <1>1, <1>2, <1>3
  <2>3. PICK c : c = Change(issued + i, ks[i][1], ks[i][2], ks[i][2])
    OBVIOUS
  <2>4. c \in Command /\ c.id = issued + i
    BY <2>2, <2>3, ChangeIs
  <2>5. [c EXCEPT !.merged = TRUE] \in Command /\ [c EXCEPT !.merged = TRUE].id = issued + i
    BY <2>4 DEF Command
  <2> QED
    BY <2>1, <2>3, <2>5
<1>5. cs \in Seq(Command) /\ Len(cs) = 2
  BY <1>2, <1>4
<1>6. \A i \in 1 .. Len(cs) : cs[i].id = issued + i
  BY <1>4, <1>5
<1>7. CASE mode = SEND_IMMEDIATELY
  <2>1. Begin(<<Exchange("applyBatchedChanges", NoKind, Ids(cs))>>, <<>>, Ids(cs), mode)
    BY <1>7 DEF ApplyBatchedChanges
  <2> HIDE DEF cs
  <2>2. Ids(cs) \in Seq(Nat) /\ Len(Ids(cs)) = 2 /\ \A i \in 1 .. Len(cs) : Ids(cs)[i] = cs[i].id
    BY <1>5, IdsOf
  <2>3. Ids(cs) # <<>> /\ \A i \in 1 .. Len(Ids(cs)) : Ids(cs)[i] = issued + i
    <3>1. Ids(cs) # <<>>
      BY <2>2
    <3>2. \A i \in 1 .. Len(cs) : Ids(cs)[i] = issued + i
      BY <1>6, <2>2
    <3>3. Len(Ids(cs)) = Len(cs)
      BY <1>5, <2>2
    <3> QED
      BY <3>1, <3>2, <3>3
  <2>4. Good(Append(<<>>, Exchange("applyBatchedChanges", NoKind, Ids(cs))), <<>>, Ids(cs), mode)
    BY <1>7, <2>2, <2>3, ModifyIsNoMetadata, AtOnceIsGood
  <2>5. Append(<<>>, Exchange("applyBatchedChanges", NoKind, Ids(cs))) = <<Exchange("applyBatchedChanges", NoKind, Ids(cs))>>
    OBVIOUS
  <2> QED
    BY <2>1, <2>4, <2>5 DEF Begins
<1>8. CASE mode # SEND_IMMEDIATELY
  <2>1. Begin(<<>>, cs, Ids(cs), mode)
    BY <1>8 DEF ApplyBatchedChanges
  <2> HIDE DEF cs
  <2>2. Good(<<>>, cs, Ids(cs), mode)
    BY <1>1, <1>5, <1>6, <1>8, QueuedIsGood
  <2> QED
    BY <2>1, <2>2 DEF Begins
<1> QED
  BY <1>7, <1>8

LEMMA BatchingBegins ==
    ASSUME IInv, NEW m \in Modes, SetCommandBatching(m)
    PROVE  Begins
<1>1. PICK before : before = IF m < mode THEN Flush ELSE <<>>
  OBVIOUS
<1>2. before = <<>> \/ before = Flush
  BY <1>1
<1>3. m = SEND_IMMEDIATELY => before = Flush \/ mode = SEND_IMMEDIATELY
  BY <1>1 DEF IInv, TypeOK, Modes, SEND_IMMEDIATELY
<1>4. <<>> \in Seq(Command) /\ \A i \in 1 .. Len(<<>>) : <<>>[i].id = issued + i
  <2>1. Len(<<>>) = 0 /\ 1 .. 0 = {}
    OBVIOUS
  <2> QED
    BY <2>1, EmptyIsASeq
<1>5. Good(before, <<>>, Ids(<<>>), m)
  BY <1>2, <1>3, <1>4, QueuedIsGood
<1>6. Begin(before, <<>>, <<>>, m)
  BY <1>1 DEF SetCommandBatching
<1> QED
  BY <1>5, <1>6, NoIds DEF Begins

LEMMA ChangesBegin ==
    ASSUME IInv, Changes
    PROVE  Begins
<1>1. TypeOK /\ issued + 1 \in Nat
  BY ConstantsAssumption DEF IInv, TypeOK
<1>2. \A o \in Objects : o[1] \in KindSet /\ o[2] \in Names
  BY ConstantsAssumption DEF Names
<1>3. ASSUME NEW o \in Objects, DeleteObject(o[1], o[2]) PROVE Begins
  <2>1. "deleteObject" \in DOMAIN ModifyCalls
    BY CallNames
  <2> QED
    BY <1>1, <1>2, <1>3, <2>1, ChangeIs, SendOrQueueBegins DEF DeleteObject
<1>4. ASSUME NEW o \in Objects, CreateNamedObject(o[1], o[2]) PROVE Begins
  BY <1>2, <1>4, CreateNamedBegins
<1>5. ASSUME NEW o \in Objects, NEW cmd \in SetCommands, SetAttribute(cmd, o[1], o[2]) PROVE Begins
  <2>1. cmd \in DOMAIN ModifyCalls
    BY CallNames, ConstantsAssumption
  <2> QED
    BY <1>1, <1>2, <1>5, <2>1, ChangeIs, SendOrQueueBegins DEF SetAttribute
<1>6. ASSUME NEW o \in Objects, NEW new \in Objects, RenameObject(o[1], o[2], new[2]) PROVE Begins
  <2>1. "renameObject" \in DOMAIN ModifyCalls
    BY CallNames
  <2> QED
    BY <1>1, <1>2, <1>6, <2>1, ChangeIs, SendOrQueueBegins DEF RenameObject
<1>7. ASSUME NEW ks \in Objects \X Objects, ApplyBatchedChanges(ks) PROVE Begins
  BY <1>7, BatchBegins
<1> QED
  BY <1>3, <1>4, <1>5, <1>6, <1>7, UnnamedBegins, BatchingBegins DEF Changes

LEMMA OthersBegin ==
    ASSUME IInv, Others
    PROVE  Begins
<1>1. ASSUME Metadata PROVE Begins
  <2>1. "deleteObject" \in Commands /\ "deleteObject" \notin DOMAIN MetadataCalls /\ NoKind \in KindSet \cup {NoKind}
    BY CallNames, ModifyIsNoMetadata
  <2>2. Good(AskForMetadata, <<>>, <<>>, mode)
    BY <2>1, AskingIsGood
  <2> QED
    BY <1>1, <2>2 DEF Metadata, Begins
<1>2. ASSUME NEW cmd \in Reads, NEW k \in KindSet, Read(cmd, k) PROVE Begins
  <2>1. cmd \in Commands
    BY ConstantsAssumption DEF Commands
  <2>2. DOMAIN ReadCalls \cap DOMAIN MetadataCalls = {}
    BY CallNames
  <2>3. DOMAIN DiffCalls \cap DOMAIN MetadataCalls = {}
    BY CallNames
  <2>4. cmd \notin DOMAIN MetadataCalls
    BY <2>2, <2>3, ConstantsAssumption
  <2>5. /\ Good(<<Ask(cmd, k)>>, <<>>, <<>>, mode)
        /\ Good(AskForMetadata \o <<Ask(cmd, k)>>, <<>>, <<>>, mode)
    BY <2>1, <2>4, AskingIsGood
  <2>6. <<>> \o <<Ask(cmd, k)>> = <<Ask(cmd, k)>>
    <3>1. Ask(cmd, k) \in Exchanges
      BY <2>1, AskIs
    <3> QED
      BY <3>1, OneByOne
  <2> QED
    BY <1>2, <2>5, <2>6 DEF Read, Begins
<1>3. ASSUME NEW cmd \in ChangesetCommands, ChangesetCommand(cmd) PROVE Begins
  <2>1. cmd \in Commands
    BY ConstantsAssumption DEF Commands
  <2>2. DOMAIN ChangesetCalls \cap DOMAIN MetadataCalls = {}
    BY CallNames
  <2>3. cmd \notin DOMAIN MetadataCalls /\ NoKind \in KindSet \cup {NoKind}
    BY <2>2, ConstantsAssumption
  <2>4. Good(<<Ask(cmd, NoKind)>>, <<>>, <<>>, mode)
    BY <2>1, <2>3, AskingIsGood
  <2> QED
    BY <1>3, <2>4 DEF ChangesetCommand, Begins
<1> QED
  BY <1>1, <1>2, <1>3 DEF Others

LEMMA CallsKeep ==
    ASSUME IInv, Changes \/ Others
    PROVE  IInv'
<1>1. PICK todo, queue, ids, m : Good(todo, queue, ids, m) /\ Begin(todo, queue, ids, m)
  BY ChangesBegin, OthersBegin DEF Begins
<1> QED
  BY <1>1, ReturnsAtOnce, StartsExchanges

-----------------------------------------------------------------------------
(* What the server does.  A call that waits is in the middle of the first  *)
(* of its exchanges.                                                       *)
LEMMA InFlight ==
    ASSUME IInv, requests # <<>>
    PROVE  /\ server # "gone" /\ replies = <<>> /\ call.waiting /\ call.busy /\ Len(requests) = 1
           /\ call.todo # <<>> /\ Head(requests) = call.todo[1] /\ call.todo[1] \in Exchanges
           /\ Tail(requests) = <<>> /\ 1 \in 1 .. Len(call.todo)
<1>1. requests \in Seq(Exchanges) /\ call.todo \in Seq(Exchanges) /\ replies \in Seq([cmd : Commands, form : Forms])
  BY DEF IInv, TypeOK, Pipes
<1>2. server # "gone"
  BY DEF IInv, Pipes
<1>3. Len(requests) + Len(replies) = (IF call.waiting THEN 1 ELSE 0) /\ Len(requests) \in Nat /\ Len(requests) # 0
  BY <1>1, <1>2 DEF IInv, Pipes
<1>4. Len(replies) \in Nat /\ (Len(replies) = 0 => replies = <<>>)
  BY <1>1
<1>5. call.waiting /\ Len(requests) = 1 /\ replies = <<>>
  <2>1. call.waiting
    BY <1>3, <1>4
  <2>2. Len(requests) = 1 /\ Len(replies) = 0
    <3>1. Len(requests) + Len(replies) = 1
      BY <1>3, <2>1
    <3>2. \A a, b \in Nat : a + b = 1 /\ a # 0 => a = 1 /\ b = 0
      OBVIOUS
    <3> QED
      BY <1>3, <1>4, <3>1, <3>2
  <2> QED
    BY <1>4, <2>1, <2>2
<1>6. call.busy /\ call.todo # <<>>
  BY <1>5 DEF IInv, CallShape, NoCall
<1>7. Head(requests) = Head(call.todo) /\ Head(call.todo) = call.todo[1]
  BY <1>1, <1>6 DEF IInv, Pipes
<1>8. Tail(requests) = <<>> /\ 1 \in 1 .. Len(call.todo)
  <2>1. 1 \in 1 .. Len(call.todo)
    BY <1>1, <1>6
  <2> QED
    BY <1>1, <1>5, <2>1, TailOfOne
<1> QED
  BY <1>1, <1>2, <1>5, <1>6, <1>7, <1>8

\* What the exchange in the middle of which a call is may do to the database.
LEMMA Serving ==
    ASSUME IInv, requests # <<>>, NEW new, new = applied \o call.todo[1].ids
    PROVE  /\ new \in Seq(1 .. MaxChanges)
           /\ ToSet(new) \subseteq 1 .. issued
           /\ ToSet(new) \cap ToSet(Ids(call.queue)) = {}
           /\ new \o (IF IsFlush(1) THEN <<>> ELSE Ids(pending))
                = accepted \o (IF IsFlush(1) THEN <<>> ELSE call.todo[1].ids)
           /\ IsFlush(1) => /\ call.todo[1].ids = Ids(pending) /\ pending # <<>>
                            /\ ToSet(Ids(pending)) \subseteq ToSet(new)
                            /\ applied \o Ids(pending) = accepted
           /\ ~IsFlush(1) /\ call.todo[1].ids # <<>> => pending = <<>>
<1> DEFINE e == call.todo[1]
           P == Ids(pending)
<1>1. /\ server # "gone" /\ replies = <<>> /\ call.busy /\ e \in Exchanges /\ 1 \in 1 .. Len(call.todo)
      /\ call.todo # <<>>
  BY InFlight
<1>2. /\ pending \in Seq(Command) /\ call.queue \in Seq(Command) /\ call.ids \in Seq(Nat)
      /\ applied \in Seq(1 .. MaxChanges) /\ accepted \in Seq(1 .. MaxChanges)
      /\ issued \in 0 .. MaxChanges /\ call.todo \in Seq(Exchanges)
  BY DEF IInv, TypeOK
<1>3. P \in Seq(Nat) /\ Ids(call.queue) \in Seq(Nat) /\ applied \in Seq(Nat) /\ accepted \in Seq(Nat) /\ e.ids \in Seq(Nat)
  BY SMTT(40), <1>1, <1>2, IdsOf, ConstantsAssumption DEF Exchanges
<1>4. applied \o P = accepted
  BY <1>1, <1>3 DEF IInv, Balance, Served
<1>5. /\ ToSet(accepted) \subseteq 1 .. issued /\ ToSet(call.ids) \subseteq 1 .. issued
      /\ ToSet(accepted) \cap ToSet(call.ids) = {}
  <2>1. accepted \o call.ids \in Seq(Nat) /\ DOMAIN (accepted \o call.ids) = 1 .. Len(accepted \o call.ids)
    BY <1>2, <1>3
  <2>2. ToSet(accepted \o call.ids) \subseteq 1 .. issued
    BY <2>1 DEF IInv, Numbered, ToSet
  <2>3. ToSet(accepted \o call.ids) = ToSet(accepted) \cup ToSet(call.ids)
    BY <1>2, <1>3, Members
  <2>4. ToSet(accepted) \cap ToSet(call.ids) = {}
    BY <1>2, <1>3, Shorter DEF IInv, Numbered
  <2> QED
    BY <2>2, <2>3, <2>4
<1>6. OwnIds \in Seq(Nat) /\ call.ids = OwnIds \o Ids(call.queue)
  <2>1. Len(call.todo) \in 1 .. Len(call.todo)
    BY <1>1, <1>2
  <2>2. call.todo[Len(call.todo)] \in Exchanges
    BY <1>2, <2>1
  <2>3. call.todo[Len(call.todo)].ids \in Seq(Nat)
    BY <2>2 DEF Exchanges
  <2> QED
    BY <1>1, <2>3, EmptyIsASeq DEF IInv, CallShape, OwnIds
<1>7. ToSet(call.ids) = ToSet(OwnIds) \cup ToSet(Ids(call.queue))
  BY <1>3, <1>6, Members
<1>8. ToSet(applied) \subseteq 1 .. issued /\ ToSet(applied) \cap ToSet(Ids(call.queue)) = {} /\ ToSet(P) \subseteq ToSet(accepted)
  BY DEF IInv, Numbered
<1>9. CASE IsFlush(1)
  <2>1. e = FlushExchange /\ pending # <<>> /\ e.ids = P
    BY <1>1, <1>9, FlushIs DEF IInv, CallShape
  <2>2. new = accepted
    BY <1>4, <2>1
  <2>3. accepted \o <<>> = accepted
    BY <1>3
  <2>4. ToSet(accepted) \cap ToSet(Ids(call.queue)) = {}
    BY <1>5, <1>7
  <2> QED
    BY <1>2, <1>4, <1>5, <1>8, <1>9, <2>1, <2>2, <2>3, <2>4
<1>10. CASE ~IsFlush(1) /\ e.ids = <<>>
  <2>1. new = applied /\ new \o P = accepted \o e.ids
    BY <1>3, <1>4, <1>10
  <2> QED
    BY <1>2, <1>8, <1>10, <2>1
<1>11. CASE ~IsFlush(1) /\ e.ids # <<>>
  <2>1. Changing(1) /\ Len(call.todo) = 1 /\ call.queue = <<>> /\ pending = <<>>
    BY <1>1, <1>11 DEF IInv, CallShape, Changing, QueueGoes
  <2>2. P = <<>> /\ Ids(call.queue) = <<>> /\ OwnIds = e.ids
    BY <1>11, <2>1, NoIds DEF OwnIds
  <2>3. applied = accepted /\ new \o P = accepted \o e.ids
    BY <1>3, <1>4, <2>2
  <2>4. ToSet(new) = ToSet(applied) \cup ToSet(e.ids) /\ new \in Seq(Nat)
    BY <1>3, Members
  <2>5. ToSet(new) \subseteq 1 .. issued
    BY <1>5, <1>7, <1>8, <2>2, <2>4
  <2>6. new \in Seq(1 .. MaxChanges)
    <3>1. \A i \in 1 .. Len(new) : new[i] \in ToSet(new)
      <4>1. DOMAIN new = 1 .. Len(new)
        BY <2>4
      <4> QED
        BY <4>1 DEF ToSet
    <3>2. 1 .. issued \subseteq 1 .. MaxChanges
      BY <1>2, ConstantsAssumption
    <3> QED
      BY <2>4, <2>5, <3>1, <3>2, SequenceOver
  <2>7. ToSet(Ids(call.queue)) = {}
    BY <2>2 DEF ToSet
  <2> QED
    BY <1>11, <2>1, <2>3, <2>5, <2>6, <2>7
<1> QED
  BY <1>9, <1>10, <1>11

\* The answer to the request in the pipe.
LEMMA Answering ==
    ASSUME IInv, NEW form \in Forms, requests # <<>>, requests' = Tail(requests),
           replies' = Append(replies, Reply(Head(requests).cmd, form)), UNCHANGED client,
           server' \in {"up", "gone"}, form \in {"fatal", "cut"} => server' = "gone",
           form = "bad" => NeedsMetadata(Head(requests).cmd)
    PROVE  Pipes' /\ requests' = <<>> /\ Served' = (form = "result")
<1>1. /\ replies = <<>> /\ call.waiting /\ call.todo[1] \in Exchanges /\ Head(requests) = call.todo[1]
      /\ Tail(requests) = <<>>
  BY InFlight
<1>2. PICK r : r = Reply(call.todo[1].cmd, form)
  OBVIOUS
<1>3. r \in [cmd : Commands, form : Forms] /\ r.cmd = call.todo[1].cmd /\ r.form = form
  BY <1>1, <1>2 DEF Reply, Exchanges
<1>4. replies' = <<r>> /\ requests' = <<>> /\ call' = call
  BY <1>1, <1>2 DEF client
<1>5. replies' \in Seq([cmd : Commands, form : Forms]) /\ Len(replies') = 1 /\ replies'[1] = r /\ replies' # <<>>
  BY <1>3, <1>4, OneAlone
<1>6. Len(requests') = 0
  BY <1>4
<1>7. Pipes'
  <2>1. \/ server' = "up"
        \/ server' = "gone"
    OBVIOUS
  <2>3. Len(replies') <= 1 /\ Len(requests') + Len(replies') = 1
    <3>1. 0 + 1 = 1 /\ 1 <= 1
      OBVIOUS
    <3> QED
      BY <1>5, <1>6, <3>1
  <2>4. r.form = "bad" => NeedsMetadata(r.cmd)
    BY <1>1, <1>3
  <2> QED
    BY <1>1, <1>3, <1>4, <1>5, <2>1, <2>3, <2>4 DEF Pipes, NeedsMetadata
<1>8. Served' = (form = "result")
  BY <1>1, <1>3, <1>4, <1>5 DEF Served
<1> QED
  BY <1>4, <1>7, <1>8

\* The parts of the invariant that are about the client and its caller.
LEMMA ServerFrame ==
    ASSUME IInv, UNCHANGED client, server' \in {"starting", "up", "gone"}, Pipes',
           requests' \in Seq(Exchanges), applied' \in Seq(1 .. MaxChanges),
           ToSet(applied') \subseteq 1 .. issued, ToSet(applied') \cap ToSet(Ids(call.queue)) = {}
    PROVE  Balance' => IInv'
<1>1. UNCHANGED <<mode, pending, asked, cache, call, issued, accepted>>
  BY DEF client
<1>2. TypeOK'
  BY <1>1 DEF IInv, TypeOK
<1>3. CallShape'
  BY <1>1 DEF IInv, CallShape, IsFlush, Changing, QueueGoes, OwnIds, FlushExchange, Exchange, Ids
<1>4. Numbered'
  BY <1>1 DEF IInv, Numbered, Ids
<1>5. SchemeShape'
  BY <1>1 DEF IInv, SchemeShape, AsksScheme
<1> QED
  BY <1>2, <1>3, <1>4, <1>5 DEF IInv

LEMMA AppliedFacts ==
    ASSUME IInv
    PROVE  /\ applied \in Seq(1 .. MaxChanges) /\ ToSet(applied) \subseteq 1 .. issued
           /\ ToSet(applied) \cap ToSet(Ids(call.queue)) = {}
           /\ requests \in Seq(Exchanges)
  BY DEF IInv, TypeOK, Numbered

LEMMA ServeKeeps ==
    ASSUME IInv, Serve
    PROVE  IInv'
<1>1. requests # <<>> /\ server = "up" /\ applied' = applied \o Head(requests).ids /\ UNCHANGED <<client, server>>
  BY DEF Serve
<1>2. Head(requests) = call.todo[1] /\ call.waiting
  BY <1>1, InFlight
<1>3. Pipes' /\ requests' = <<>> /\ Served'
  BY <1>1, Answering DEF Serve, Answer, Forms
<1>4. applied' = applied \o call.todo[1].ids
  BY <1>1, <1>2
<1>5. call' = call /\ pending' = pending /\ accepted' = accepted
  BY <1>1 DEF client
<1>6. /\ applied' \in Seq(1 .. MaxChanges)
      /\ ToSet(applied') \subseteq 1 .. issued
      /\ ToSet(applied') \cap ToSet(Ids(call.queue)) = {}
      /\ applied' \o (IF IsFlush(1) THEN <<>> ELSE Ids(pending))
            = accepted \o (IF IsFlush(1) THEN <<>> ELSE call.todo[1].ids)
      /\ IsFlush(1) => ToSet(Ids(pending)) \subseteq ToSet(applied')
  BY <1>1, <1>4, Serving
<1>7. Balance'
  <2>1. IsFlush(1)' = IsFlush(1) /\ Ids(pending)' = Ids(pending)
    BY <1>5 DEF IsFlush, Ids
  <2> QED
    BY <1>3, <1>5, <1>6, <2>1 DEF Balance
<1>8. requests' \in Seq(Exchanges)
  BY <1>3, EmptyIsASeq
<1> QED
  BY <1>1, <1>3, <1>6, <1>7, <1>8, ServerFrame

LEMMA ErrorsKeep ==
    ASSUME IInv, ServeOtherScheme \/ Refuse \/ ServeFatal
    PROVE  IInv'
<1>1. PICK form \in {"bad", "refused", "fatal"} :
         /\ requests # <<>> /\ Answer(form) /\ UNCHANGED <<client, applied>>
         /\ server' \in {"up", "gone"} /\ (form = "fatal" => server' = "gone")
         /\ form = "bad" => NeedsMetadata(Head(requests).cmd)
         /\ server = "up"
  BY DEF ServeOtherScheme, Refuse, ServeFatal
<1>2. Pipes' /\ requests' = <<>> /\ ~Served'
  BY <1>1, Answering DEF Answer, Forms
<1>3. call' = call /\ pending' = pending /\ accepted' = accepted /\ applied' = applied
  BY <1>1 DEF client
<1>4. ~Served
  BY <1>1, InFlight DEF Served
<1>5. Balance'
  BY <1>1, <1>2, <1>3, <1>4 DEF IInv, Balance, Ids
<1>6. requests' \in Seq(Exchanges)
  BY <1>2, EmptyIsASeq
<1> QED
  BY <1>1, <1>2, <1>3, <1>5, <1>6, AppliedFacts, ServerFrame

LEMMA StartKeeps ==
    ASSUME IInv, ServerStarts
    PROVE  IInv'
<1>1. server = "starting" /\ server' = "up" /\ UNCHANGED <<client, requests, replies, applied>>
  BY DEF ServerStarts
<1>2. call' = call /\ pending' = pending /\ accepted' = accepted
  BY <1>1 DEF client
<1>3. Pipes'
  BY <1>1, <1>2 DEF IInv, Pipes
<1>4. Balance'
  BY <1>1, <1>2 DEF IInv, Balance, Served, IsFlush, Ids
<1> QED
  BY <1>1, <1>3, <1>4, AppliedFacts, ServerFrame

LEMMA CannotStartKeeps ==
    ASSUME IInv, ServerCannotStart
    PROVE  IInv'
<1>1. /\ server = "starting" /\ server' = "gone" /\ requests' = <<>> /\ UNCHANGED <<client, applied>>
      /\ replies' = Append(replies, Reply("kindNames", "fatal"))
  BY DEF ServerCannotStart
<1>2. call' = call /\ replies = <<>>
  BY <1>1 DEF client, IInv, Pipes
<1>3. PICK r : r = Reply("kindNames", "fatal")
  OBVIOUS
<1>4. r \in [cmd : Commands, form : Forms] /\ r.form = "fatal"
  BY <1>3, CallNames DEF Reply, Commands, Forms
<1>5. replies' = <<r>>
  BY <1>1, <1>2, <1>3
<1>6. replies' \in Seq([cmd : Commands, form : Forms]) /\ Len(replies') = 1 /\ replies'[1] = r
  BY <1>4, <1>5, OneAlone
<1>7. Pipes'
  BY <1>1, <1>4, <1>6 DEF Pipes
<1>8. Balance'
  BY <1>1, <1>4, <1>6 DEF Balance, Served
<1>9. requests' \in Seq(Exchanges)
  BY <1>1, EmptyIsASeq
<1> QED
  BY <1>1, <1>7, <1>8, <1>9, AppliedFacts, ServerFrame

LEMMA DeathKeeps ==
    ASSUME IInv, ServerDies
    PROVE  IInv'
<1>1. server \in {"starting", "up"} /\ server' = "gone" /\ requests' = <<>> /\ UNCHANGED client
  BY DEF ServerDies
<1>2. call' = call /\ pending' = pending
  BY <1>1 DEF client
<1>3. requests' \in Seq(Exchanges)
  BY <1>1, EmptyIsASeq
<1>4. ASSUME replies' = replies PROVE Pipes'
  BY <1>1, <1>2, <1>4 DEF IInv, Pipes, NeedsMetadata
<1>5. CASE UNCHANGED <<replies, applied>>
  <2>1. Balance'
    BY <1>1, <1>2, <1>5 DEF IInv, Balance, Served, IsFlush, Ids
  <2> QED
    BY <1>1, <1>3, <1>4, <1>5, <2>1, AppliedFacts, ServerFrame
<1>6. CASE /\ requests # <<>> /\ applied' = applied \o Head(requests).ids
           /\ \/ UNCHANGED replies
              \/ replies' = Append(replies, Reply(Head(requests).cmd, "cut"))
  <2>1. Head(requests) = call.todo[1] /\ replies = <<>> /\ Tail(requests) = <<>>
    BY <1>6, InFlight
  <2>2. Pipes' /\ ~Served'
    <3>1. CASE replies' = replies
      BY <1>4, <2>1, <3>1 DEF Served
    <3>2. CASE replies' = Append(replies, Reply(Head(requests).cmd, "cut"))
      BY <1>1, <1>6, <2>1, <3>2, Answering DEF Forms
    <3> QED
      BY <1>6, <3>1, <3>2
  <2>3. /\ applied' \in Seq(1 .. MaxChanges)
        /\ ToSet(applied') \subseteq 1 .. issued
        /\ ToSet(applied') \cap ToSet(Ids(call.queue)) = {}
    BY <1>6, <2>1, Serving
  <2>4. Balance'
    BY <1>1, <2>2 DEF Balance
  <2> QED
    BY <1>1, <1>3, <2>2, <2>3, <2>4, ServerFrame
<1> QED
  BY <1>5, <1>6 DEF ServerDies

LEMMA ServerKeeps ==
    ASSUME IInv, Server
    PROVE  IInv'
  BY ServeKeeps, ErrorsKeep, StartKeeps, CannotStartKeeps, DeathKeeps DEF Server

-----------------------------------------------------------------------------
(* What the client does inside a call.                                     *)
LEMMA Sent ==
    ASSUME IInv, ~call.waiting
    PROVE  requests = <<>> /\ (server # "gone" => replies = <<>>) /\ (replies # <<>> => replies[1].form = "fatal")
<1>1. requests \in Seq(Exchanges) /\ replies \in Seq([cmd : Commands, form : Forms])
  BY DEF IInv, TypeOK, Pipes
<1>2. Len(requests) \in Nat /\ Len(replies) \in Nat
  BY <1>1
<1>3. \A a, b \in Nat : a + b = 0 => a = 0 /\ b = 0
  OBVIOUS
<1>4. server # "gone" => Len(requests) = 0 /\ Len(replies) = 0
  BY <1>2, <1>3 DEF IInv, Pipes
<1>5. server # "gone" => requests = <<>> /\ replies = <<>>
  BY <1>1, <1>4, EmptySeq
<1> QED
  BY <1>5 DEF IInv, Pipes

LEMMA SendKeeps ==
    ASSUME IInv, Send
    PROVE  IInv'
<1>1. /\ call.busy /\ ~call.waiting
      /\ requests' = IF server = "gone" THEN requests ELSE Append(requests, Head(call.todo))
      /\ call' = [call EXCEPT !.waiting = TRUE]
      /\ UNCHANGED <<mode, pending, asked, cache, replies, server, issued, accepted, applied>>
  BY DEF Send
<1>2. requests = <<>> /\ (server # "gone" => replies = <<>>) /\ (replies # <<>> => replies[1].form = "fatal")
  BY <1>1, Sent
<1>3. call \in [busy : BOOLEAN, waiting : BOOLEAN, todo : Seq(Exchanges), queue : Seq(Command),
                ids : Seq(Nat), mode : Modes]
  BY DEF IInv, TypeOK
<1>4. /\ call' \in [busy : BOOLEAN, waiting : BOOLEAN, todo : Seq(Exchanges), queue : Seq(Command),
                    ids : Seq(Nat), mode : Modes]
      /\ call'.busy /\ call'.waiting /\ call'.todo = call.todo /\ call'.queue = call.queue
      /\ call'.ids = call.ids /\ call'.mode = call.mode
  BY <1>1, <1>3
<1>5. PICK e : e = Head(call.todo)
  OBVIOUS
<1>6. e \in Exchanges /\ e = call.todo[1]
  BY <1>1, <1>3, <1>5 DEF IInv, CallShape
<1>7. /\ server = "gone" => requests' = <<>>
      /\ server # "gone" => requests' = <<e>>
  BY <1>1, <1>2, <1>5
<1>8. /\ requests' \in Seq(Exchanges)
      /\ server # "gone" => requests' = <<e>> /\ Len(requests') = 1 /\ Head(requests') = e
  <2>1. CASE server = "gone"
    BY <1>7, <2>1, EmptyIsASeq
  <2>2. CASE server # "gone"
    <3>1. requests' = <<e>>
      BY <1>7, <2>2
    <3>2. requests' \in Seq(Exchanges) /\ Len(requests') = 1 /\ requests'[1] = e
      BY <1>6, <3>1, OneAlone
    <3> QED
      BY <3>1, <3>2
  <2> QED
    BY <2>1, <2>2
<1>9. TypeOK'
  BY <1>1, <1>4, <1>8 DEF IInv, TypeOK
<1>10. CallShape'
  BY ZenonT(40), <1>1, <1>4 DEF IInv, CallShape, IsFlush, Changing, QueueGoes, OwnIds, FlushExchange, Exchange, Ids
<1>11. Pipes'
  <2>1. server' # "gone" => Len(requests') + Len(replies') = 1
    <3>1. server # "gone" => Len(requests') = 1 /\ Len(replies) = 0
      BY <1>2, <1>8
    <3>2. 1 + 0 = 1
      OBVIOUS
    <3> QED
      BY <1>1, <3>1, <3>2
  <2>2. requests' # <<>> => Head(requests') = Head(call'.todo)
    BY <1>4, <1>5, <1>7, <1>8
  <2> QED
    BY <1>1, <1>2, <1>4, <1>7, <2>1, <2>2 DEF IInv, Pipes
<1>12. Numbered'
  BY <1>1, <1>4 DEF IInv, Numbered, Ids
<1>13. Balance'
  <2>1. ~Served /\ ~Served'
    BY <1>1, <1>2 DEF Served
  <2> QED
    BY <1>1, <2>1 DEF IInv, Balance, Ids
<1>14. SchemeShape'
  BY <1>1, <1>4 DEF IInv, SchemeShape, AsksScheme
<1> QED
  BY <1>9, <1>10, <1>11, <1>12, <1>13, <1>14 DEF IInv

\* An exception leaves the caller with what was accepted before the call.
LEMMA ThrowKeeps ==
    ASSUME IInv, Throw, UNCHANGED <<requests, server, issued, applied>>,
           replies' = <<>> \/ (replies' = replies /\ ~call.waiting), server = "gone" \/ (requests = <<>> /\ replies' = <<>>),
           server = "gone" \/ ~Served
    PROVE  IInv'
<1>1. /\ call' = NoCall
      /\ UNCHANGED <<mode, pending, asked, cache, accepted, requests, server, issued, applied>>
  BY DEF Throw
<1>2. /\ ~call'.busy /\ ~call'.waiting /\ call'.todo = <<>> /\ call'.queue = <<>> /\ call'.ids = <<>>
  BY <1>1 DEF NoCall
<1>3. /\ accepted \in Seq(Nat) /\ call.ids \in Seq(Nat) /\ replies \in Seq([cmd : Commands, form : Forms])
  BY ConstantsAssumption DEF IInv, TypeOK, Pipes
<1>4. TypeOK'
  <2>1. NoCall \in [busy : BOOLEAN, waiting : BOOLEAN, todo : Seq(Exchanges), queue : Seq(Command),
                    ids : Seq(Nat), mode : Modes]
    BY ModesAre, EmptyIsASeq DEF NoCall, SEND_IMMEDIATELY
  <2> QED
    BY <1>1, <2>1 DEF IInv, TypeOK
<1>5. CallShape'
  BY <1>1, <1>2 DEF IInv, CallShape, NoCall
<1>6. Pipes'
  <2>1. CASE replies' = <<>>
    <3>1. replies' \in Seq([cmd : Commands, form : Forms]) /\ Len(replies') = 0 /\ Len(replies') <= 1
      BY <2>1, EmptyIsASeq
    <3>2. server' # "gone" => Len(requests') + Len(replies') = 0
      BY <1>1, <3>1
    <3> QED
      BY <1>1, <1>2, <2>1, <3>1, <3>2 DEF IInv, Pipes
  <2>2. CASE replies' = replies /\ ~call.waiting /\ server = "gone"
    BY <1>1, <1>2, <2>2, Sent DEF IInv, Pipes
  <2> QED
    BY <2>1, <2>2
<1>7. Numbered'
  <2>1. accepted \o <<>> = accepted /\ ToSet(Ids(<<>>)) = {}
    BY <1>3, NoIds DEF ToSet
  <2>2. Increasing(accepted) /\ \A i \in 1 .. Len(accepted) : accepted[i] \in 1 .. issued
    <3>1. \A i \in 1 .. Len(accepted) : i \in 1 .. Len(accepted \o call.ids) /\ (accepted \o call.ids)[i] = accepted[i]
      BY <1>3
    <3> QED
      BY <1>3, <3>1, Shorter DEF IInv, Numbered
  <2> QED
    BY <1>1, <1>2, <2>1, <2>2 DEF IInv, Numbered, Ids
<1>8. Balance'
  <2>1. ~Served'
    BY <1>2 DEF Served
  <2> QED
    BY <1>1, <2>1 DEF IInv, Balance, Ids
<1>9. SchemeShape'
  <2>1. \A i \in 1 .. Len(call'.todo) : FALSE
    BY <1>2
  <2> QED
    BY <1>1, <2>1 DEF IInv, SchemeShape, AsksScheme, Scheme
<1> QED
  BY <1>4, <1>5, <1>6, <1>7, <1>8, <1>9 DEF IInv

LEMMA FailuresKeep ==
    ASSUME IInv, SendFails \/ ReceiveEof
    PROVE  IInv'
<1>1. CASE SendFails
  BY <1>1, ThrowKeeps DEF SendFails
<1>2. CASE ReceiveEof
  BY <1>2, ThrowKeeps DEF ReceiveEof
<1> QED
  BY <1>1, <1>2

-----------------------------------------------------------------------------
(* The answer to an exchange.                                              *)
LEMMA KindsAreAsked ==
    /\ AskForKinds \in Seq(Exchanges)
    /\ \A i \in 1 .. Len(AskForKinds) :
         /\ AskForKinds[i].cmd \in {"kindAttributes", "kindRelations"} /\ AskForKinds[i].arg \in KindSet
         /\ AskForKinds[i].ids = <<>> /\ ~AskForKinds[i].flush
    /\ \A x \in Scheme : \E i \in 1 .. Len(AskForKinds) : AskForKinds[i].cmd = x[1] /\ AskForKinds[i].arg = x[2]
<1> DEFINE n == Len(Kinds)
<1>1. Kinds \in Seq(STRING) /\ n \in Nat /\ DOMAIN Kinds = 1 .. n /\ KindSet = {Kinds[i] : i \in 1 .. n}
  BY ConstantsAssumption DEF KindSet, ToSet
<1>2. \A i \in 1 .. (2 * n) : i % 2 = 1 => (i + 1) \div 2 \in 1 .. n
  BY <1>1
<1>3. \A i \in 1 .. (2 * n) : i % 2 # 1 => i \div 2 \in 1 .. n
  BY <1>1
<1>4. \A j \in 1 .. n : /\ 2 * j - 1 \in 1 .. (2 * n) /\ (2 * j - 1) % 2 = 1 /\ (2 * j - 1 + 1) \div 2 = j
                        /\ 2 * j \in 1 .. (2 * n) /\ (2 * j) % 2 # 1 /\ (2 * j) \div 2 = j
  BY <1>1
<1>5. {"kindAttributes", "kindRelations"} \subseteq Commands
  BY CallNames DEF Commands
<1>6. \A k \in KindSet : \A cmd \in {"kindAttributes", "kindRelations"} :
         /\ Ask(cmd, k) \in Exchanges /\ Ask(cmd, k).cmd = cmd /\ Ask(cmd, k).arg = k /\ Ask(cmd, k).ids = <<>>
         /\ ~Ask(cmd, k).flush
  BY <1>5, AskIs DEF Ask, Exchange
<1>7. \A i \in 1 .. (2 * n) :
         /\ i % 2 = 1 => AskForKinds[i] = Ask("kindAttributes", Kinds[(i + 1) \div 2])
         /\ i % 2 # 1 => AskForKinds[i] = Ask("kindRelations", Kinds[i \div 2])
  BY DEF AskForKinds
<1>8. DOMAIN AskForKinds = 1 .. (2 * n) /\ 2 * n \in Nat
  BY <1>1 DEF AskForKinds
<1>9. \A i \in 1 .. (2 * n) : \E k \in KindSet, cmd \in {"kindAttributes", "kindRelations"} : AskForKinds[i] = Ask(cmd, k)
  <2> TAKE i \in 1 .. (2 * n)
  <2>1. CASE i % 2 = 1
    BY <1>1, <1>2, <1>7, <2>1
  <2>2. CASE i % 2 # 1
    BY <1>1, <1>3, <1>7, <2>2
  <2> QED
    BY <2>1, <2>2
<1>10. \A i \in 1 .. (2 * n) :
         /\ AskForKinds[i] \in Exchanges
         /\ AskForKinds[i].cmd \in {"kindAttributes", "kindRelations"} /\ AskForKinds[i].arg \in KindSet
         /\ AskForKinds[i].ids = <<>> /\ ~AskForKinds[i].flush
  <2> TAKE i \in 1 .. (2 * n)
  <2>1. PICK k \in KindSet, cmd \in {"kindAttributes", "kindRelations"} : AskForKinds[i] = Ask(cmd, k)
    BY <1>9
  <2> QED
    BY <1>6, <2>1
<1>11. AskForKinds \in Seq(Exchanges) /\ Len(AskForKinds) = 2 * n
  <2>1. AskForKinds \in [1 .. (2 * n) -> Exchanges]
    BY <1>10 DEF AskForKinds
  <2> QED
    BY <1>8, <2>1
<1>12. \A x \in Scheme : \E i \in 1 .. (2 * n) : AskForKinds[i].cmd = x[1] /\ AskForKinds[i].arg = x[2]
  <2> SUFFICES ASSUME NEW x \in Scheme
               PROVE  \E i \in 1 .. (2 * n) : AskForKinds[i].cmd = x[1] /\ AskForKinds[i].arg = x[2]
    OBVIOUS
  <2>1. PICK j \in 1 .. n : x[2] = Kinds[j]
    BY <1>1 DEF Scheme
  <2>2. x[1] \in {"kindAttributes", "kindRelations"} /\ x[2] \in KindSet
    BY DEF Scheme
  <2>3. CASE x[1] = "kindAttributes"
    <3>1. AskForKinds[2 * j - 1] = Ask("kindAttributes", Kinds[j])
      BY <1>4, <1>7
    <3> QED
      BY <1>4, <1>6, <2>1, <2>2, <2>3, <3>1
  <2>4. CASE x[1] = "kindRelations"
    <3>1. AskForKinds[2 * j] = Ask("kindRelations", Kinds[j])
      BY <1>4, <1>7
    <3> QED
      BY <1>4, <1>6, <2>1, <2>2, <2>4, <3>1
  <2> QED
    BY <2>2, <2>3, <2>4
<1> QED
  BY <1>10, <1>11, <1>12

\* What is left of a call behind its first exchange, with what the names of
\* the kinds add to it.
Behind(todo) == (IF todo[1].cmd = "kindNames" THEN AskForKinds ELSE <<>>) \o Tail(todo)
AsksAKind(e) == e.cmd \in {"kindAttributes", "kindRelations"} /\ e.arg \in KindSet /\ e.ids = <<>> /\ ~e.flush
IsBehind(more, todo) ==
    /\ more \in Seq(Exchanges)
    /\ \A i \in 1 .. Len(more) :
         \/ \E j \in 2 .. Len(todo) : more[i] = todo[j] /\ (j = Len(todo) => i = Len(more))
         \/ AsksAKind(more[i]) /\ todo[1].cmd = "kindNames"
    /\ \A j \in 2 .. Len(todo) : \E i \in 1 .. Len(more) : more[i] = todo[j]
    /\ Len(todo) > 1 => more # <<>> /\ more[Len(more)] = todo[Len(todo)]
    /\ todo[1].cmd = "kindNames" =>
         \A x \in Scheme : \E i \in 1 .. Len(more) : more[i].cmd = x[1] /\ more[i].arg = x[2]

LEMMA MoreIs ==
    ASSUME NEW todo \in Seq(Exchanges), todo # <<>>
    PROVE  IsBehind(Behind(todo), todo)
<1> DEFINE n == Len(todo)
           first == todo[1].cmd = "kindNames"
           more == Behind(todo)
<1>1. n \in Nat \ {0}
  BY EmptySeq
<1>2. PICK t : t = Tail(todo)
  OBVIOUS
<1>3. t \in Seq(Exchanges) /\ Len(t) = n - 1 /\ \A j \in 1 .. (n - 1) : t[j] = todo[j + 1]
  BY <1>1, <1>2
<1>4. PICK a : a = (IF first THEN AskForKinds ELSE <<>>)
  OBVIOUS
<1>5. /\ a \in Seq(Exchanges)
      /\ \A i \in 1 .. Len(a) : /\ a[i].cmd \in {"kindAttributes", "kindRelations"} /\ a[i].arg \in KindSet
                                /\ a[i].ids = <<>> /\ ~a[i].flush /\ first
      /\ first => \A x \in Scheme : \E i \in 1 .. Len(a) : a[i].cmd = x[1] /\ a[i].arg = x[2]
  <2>1. CASE first
    BY <1>4, <2>1, KindsAreAsked
  <2>2. CASE ~first
    <3>1. a = <<>>
      BY <1>4, <2>2
    <3>2. a \in Seq(Exchanges) /\ Len(a) = 0
      BY <3>1, EmptyIsASeq
    <3> QED
      BY <2>2, <3>2
  <2> QED
    BY <2>1, <2>2
<1>6. more = a \o t
  BY <1>2, <1>4 DEF Behind
<1> HIDE DEF n, first, more
<1>7. PICK k \in Nat : k = Len(a)
  BY <1>5
<1>8. /\ more \in Seq(Exchanges) /\ Len(more) = k + (n - 1)
      /\ \A i \in 1 .. k : more[i] = a[i]
      /\ \A i \in (k + 1) .. (k + (n - 1)) : more[i] = t[i - k]
  <2>1. /\ more \in Seq(Exchanges) /\ Len(more) = Len(a) + Len(t)
        /\ \A i \in 1 .. Len(a) : more[i] = a[i]
        /\ \A i \in (Len(a) + 1) .. (Len(a) + Len(t)) : more[i] = t[i - Len(a)]
    <3>1. a \in Seq(Exchanges) /\ t \in Seq(Exchanges)
      BY <1>3, <1>5
    <3>2. /\ a \o t \in Seq(Exchanges) /\ Len(a \o t) = Len(a) + Len(t)
          /\ \A i \in 1 .. Len(a) : (a \o t)[i] = a[i]
          /\ \A i \in (Len(a) + 1) .. (Len(a) + Len(t)) : (a \o t)[i] = t[i - Len(a)]
      BY ONLY <3>1, Concat
    <3> QED
      BY <1>6, <3>2, Zenon
  <2> QED
    BY <1>3, <1>7, <2>1
<1>9. \A i \in 1 .. Len(more) : i \in 1 .. k \/ (i \in (k + 1) .. (k + (n - 1)) /\ i - k \in 1 .. (n - 1)
                                                /\ i - k + 1 \in 2 .. n /\ (i - k + 1 = n => i = Len(more)))
  BY <1>1, <1>8
<1>10. \A i \in 1 .. Len(more) :
          \/ \E j \in 2 .. n : more[i] = todo[j] /\ (j = n => i = Len(more))
          \/ /\ more[i].cmd \in {"kindAttributes", "kindRelations"} /\ more[i].arg \in KindSet
             /\ more[i].ids = <<>> /\ ~more[i].flush /\ first
  <2> TAKE i \in 1 .. Len(more)
  <2>1. CASE i \in 1 .. k
    BY <1>5, <1>7, <1>8, <2>1
  <2>2. CASE i \in (k + 1) .. (k + (n - 1)) /\ i - k \in 1 .. (n - 1)
             /\ i - k + 1 \in 2 .. n /\ (i - k + 1 = n => i = Len(more))
    <3>1. more[i] = todo[i - k + 1]
      BY <1>3, <1>8, <2>2
    <3> QED
      BY <2>2, <3>1
  <2> QED
    BY <1>9, <2>1, <2>2
<1>11. \A j \in 2 .. n : j - 1 + k \in 1 .. Len(more) /\ more[j - 1 + k] = todo[j]
  <2> TAKE j \in 2 .. n
  <2>1. j - 1 + k \in (k + 1) .. (k + (n - 1)) /\ (j - 1 + k) - k = j - 1 /\ j - 1 \in 1 .. (n - 1) /\ j - 1 + 1 = j
        /\ j - 1 + k \in 1 .. Len(more)
    BY <1>1, <1>8
  <2>2. more[j - 1 + k] = t[j - 1]
    BY <1>8, <2>1
  <2> QED
    BY <1>3, <2>1, <2>2
<1>12. n > 1 => more # <<>> /\ more[Len(more)] = todo[n]
  <2> SUFFICES ASSUME n > 1 PROVE more # <<>> /\ more[Len(more)] = todo[n]
    OBVIOUS
  <2>1. n \in 2 .. n /\ n - 1 + k = Len(more)
    BY <1>1, <1>8
  <2>2. Len(more) # 0
    BY <1>1, <1>8
  <2> QED
    BY <1>11, <2>1, <2>2
<1>13. first => \A x \in Scheme : \E i \in 1 .. Len(more) : more[i].cmd = x[1] /\ more[i].arg = x[2]
  <2>1. \A i \in 1 .. k : i \in 1 .. Len(more) /\ more[i] = a[i]
    BY <1>1, <1>8
  <2>2. SUFFICES ASSUME first, NEW x \in Scheme
                 PROVE  \E i \in 1 .. Len(more) : more[i].cmd = x[1] /\ more[i].arg = x[2]
    OBVIOUS
  <2>3. PICK i \in 1 .. k : a[i].cmd = x[1] /\ a[i].arg = x[2]
    BY <1>5, <1>7, <2>2
  <2> QED
    BY <2>1, <2>3
<1> QED
  BY <1>8, <1>10, <1>11, <1>12, <1>13 DEF n, first, more, IsBehind, AsksAKind

\* The exchange whose answer is read: everything but the answer itself is
\* known, and what the database made of the exchange.
LEMMA Answered ==
    ASSUME IInv, call.busy, call.waiting, replies # <<>>
    PROVE  /\ Tail(replies) = <<>> /\ Head(replies) = replies[1] /\ (server # "gone" => requests = <<>>)
           /\ replies[1] \in [cmd : Commands, form : Forms]
           /\ call.todo # <<>> /\ call.todo \in Seq(Exchanges) /\ call.todo[1] \in Exchanges
           /\ Head(call.todo) = call.todo[1] /\ 1 \in 1 .. Len(call.todo)
           /\ replies[1].form # "fatal" => replies[1].cmd = call.todo[1].cmd
<1>1. replies \in Seq([cmd : Commands, form : Forms]) /\ Len(replies) <= 1 /\ requests \in Seq(Exchanges)
      /\ call.todo \in Seq(Exchanges) /\ call.todo # <<>>
  BY DEF IInv, TypeOK, CallShape, Pipes
<1>2. Len(replies) = 1
  <2>1. Len(replies) \in Nat /\ Len(replies) # 0
    BY <1>1, EmptySeq
  <2>2. \A a \in Nat : a <= 1 /\ a # 0 => a = 1
    OBVIOUS
  <2> QED
    BY <1>1, <2>1, <2>2
<1>3. replies[1] \in [cmd : Commands, form : Forms] /\ Head(replies) = replies[1]
  <2>1. 1 \in 1 .. Len(replies)
    BY <1>2
  <2>2. replies[1] \in [cmd : Commands, form : Forms]
    BY <1>1, <2>1, ElementOfSeq
  <2>3. \A S : \A s \in Seq(S) : s # <<>> => Head(s) = s[1]
    OBVIOUS
  <2> QED
    BY <1>1, <2>2, <2>3
<1>4. 1 \in 1 .. Len(call.todo) /\ call.todo[1] \in Exchanges /\ Head(call.todo) = call.todo[1]
  BY <1>1, EmptySeq
<1>5. server # "gone" => requests = <<>>
  <2>1. server # "gone" => Len(requests) + 1 = 1 /\ Len(requests) \in Nat
    BY <1>1, <1>2 DEF IInv, Pipes
  <2>2. \A a \in Nat : a + 1 = 1 => a = 0
    OBVIOUS
  <2> QED
    BY <1>1, <2>1, <2>2, EmptySeq
<1> QED
  BY <1>1, <1>2, <1>3, <1>4, <1>5, TailOfOne DEF IInv, Pipes

\* When it ended well, the database holds what the queue and the exchange
\* say it should.
LEMMA Settled ==
    ASSUME IInv, call.busy, call.waiting, replies # <<>>, replies[1] \in Accepts[call.todo[1].cmd],
           NEW queue, queue = (IF IsFlush(1) THEN <<>> ELSE pending),
           NEW own, own = (IF IsFlush(1) THEN <<>> ELSE call.todo[1].ids)
    PROVE  /\ queue \in Seq(Command) /\ own \in Seq(Nat)
           /\ server # "gone" => applied \o Ids(queue) = accepted \o own
           /\ ToSet(Ids(queue)) \subseteq ToSet(accepted)
           /\ IsFlush(1) => Served /\ ToSet(Ids(pending)) \subseteq ToSet(applied)
<1>1. /\ replies[1] \in [cmd : Commands, form : Forms] /\ call.todo[1] \in Exchanges /\ 1 \in 1 .. Len(call.todo)
      /\ replies[1].form # "fatal" => replies[1].cmd = call.todo[1].cmd
  BY Answered
<1>2. replies[1].form \in {"result", "bad"}
  BY <1>1, ErrorsAreThrown DEF Exchanges
<1>3. replies[1].cmd = call.todo[1].cmd
  BY <1>1, <1>2
<1>4. pending \in Seq(Command) /\ accepted \in Seq(Nat) /\ applied \in Seq(Nat) /\ call.todo[1].ids \in Seq(Nat)
  BY SMTT(40), <1>1, ConstantsAssumption DEF IInv, TypeOK, Exchanges
<1>5. queue \in Seq(Command) /\ own \in Seq(Nat)
  BY <1>4, EmptyIsASeq
<1>6. CASE replies[1].form = "result"
  <2>1. Served
    BY <1>6 DEF Served
  <2>2. CASE IsFlush(1)
    <3>1. queue = <<>> /\ own = <<>>
      BY <2>2
    <3>2. server # "gone" => applied \o <<>> = accepted \o <<>>
      BY <2>1, <2>2 DEF IInv, Balance
    <3>3. ToSet(Ids(queue)) = {}
      BY <3>1, NoIds DEF ToSet
    <3> QED
      BY <1>5, <2>1, <2>2, <3>1, <3>2, <3>3, NoIds DEF IInv, Balance
  <2>3. CASE ~IsFlush(1)
    BY <1>5, <2>1, <2>3 DEF IInv, Balance, Numbered
  <2> QED
    BY <2>2, <2>3
<1>7. CASE replies[1].form = "bad"
  <2>1. NeedsMetadata(call.todo[1].cmd)
    BY <1>3, <1>7 DEF IInv, Pipes
  <2>2. call.todo[1].cmd \notin DOMAIN ModifyCalls
    BY <2>1, ModifyIsNoMetadata
  <2>3. ~IsFlush(1)
    <3>1. IsFlush(1) => call.todo[1].cmd = "applyBatchedChanges"
      BY FlushIs DEF IInv, CallShape
    <3> QED
      BY <2>2, <3>1, ModifyIsNoMetadata
  <2>4. call.todo[1].ids = <<>>
    BY <1>1, <2>2, <2>3 DEF IInv, CallShape, Changing
  <2>5. ~Served
    BY <1>7 DEF Served
  <2> QED
    BY <1>5, <2>3, <2>4, <2>5 DEF IInv, Balance, Numbered
<1> QED
  BY <1>2, <1>6, <1>7

\* What is known of the scheme behind it: a scheme that is being asked for is
\* known or still to be asked for, and the names of the kinds are asked once.
LEMMA SchemeGoes ==
    ASSUME IInv, call.busy, NEW e, e = call.todo[1], NEW more,
           more = Behind(call.todo),
           NEW known, known = cache \cup (IF e.cmd \in {"kindAttributes", "kindRelations"} THEN {<<e.cmd, e.arg>>} ELSE {})
    PROVE  /\ known \subseteq Scheme
           /\ \/ /\ e.cmd \notin DOMAIN MetadataCalls /\ known = cache
                 /\ \A i \in 1 .. Len(more) : more[i].cmd \notin DOMAIN MetadataCalls
              \/ /\ ~asked
                 /\ \A i \in 1 .. Len(more) : more[i].cmd # "kindNames"
                 /\ \A x \in Scheme : \/ x \in known
                                      \/ \E i \in 1 .. Len(more) : more[i].cmd = x[1] /\ more[i].arg = x[2]
                 /\ e.cmd \in DOMAIN MetadataCalls \/ \E i \in 1 .. Len(more) : more[i].cmd \in DOMAIN MetadataCalls
<1>1. PICK todo : todo = call.todo
  OBVIOUS
<1>2. PICK n : n = Len(todo)
  OBVIOUS
<1>3. todo \in Seq(Exchanges) /\ todo # <<>> /\ e = todo[1] /\ n \in Nat \ {0}
  <2>1. todo \in Seq(Exchanges) /\ todo # <<>>
    BY <1>1 DEF IInv, TypeOK, CallShape
  <2> QED
    BY <1>1, <1>2, <2>1, EmptySeq
<1>4. IsBehind(more, todo)
  BY <1>1, <1>3, MoreIs
<1>41. \A i \in 1 .. Len(more) : \/ \E j \in 2 .. n : more[i].cmd = todo[j].cmd
                                 \/ more[i].cmd \in {"kindAttributes", "kindRelations"} /\ e.cmd = "kindNames"
  <2> TAKE i \in 1 .. Len(more)
  <2>1. \/ \E j \in 2 .. n : more[i] = todo[j]
        \/ AsksAKind(more[i]) /\ todo[1].cmd = "kindNames"
    BY <1>2, <1>4 DEF IsBehind
  <2> QED
    BY <1>3, <2>1 DEF AsksAKind
<1>42. \A j \in 2 .. n : \E i \in 1 .. Len(more) : more[i].cmd = todo[j].cmd /\ more[i].arg = todo[j].arg
  <2> TAKE j \in 2 .. n
  <2>1. PICK i \in 1 .. Len(more) : more[i] = todo[j]
    BY <1>2, <1>4 DEF IsBehind
  <2> QED
    BY <2>1
<1>43. e.cmd = "kindNames" => \A x \in Scheme : \E i \in 1 .. Len(more) : more[i].cmd = x[1] /\ more[i].arg = x[2]
  BY <1>3, <1>4 DEF IsBehind
<1>5. \A i \in 1 .. n : i = 1 \/ i \in 2 .. n
  BY <1>3
<1>6. 1 \in 1 .. n /\ \A j \in 2 .. n : j \in 1 .. n
  BY <1>3
<1>7. DOMAIN MetadataCalls = {"kindNames", "kindAttributes", "kindRelations"}
  BY CallNames
<1>8. known \subseteq Scheme
  <2>1. cache \subseteq Scheme
    BY DEF IInv, TypeOK, Scheme
  <2>2. e.cmd \in {"kindAttributes", "kindRelations"} => e.arg \in KindSet
    BY <1>1, <1>2, <1>6, <1>3 DEF IInv, CallShape
  <2>3. e.cmd \in {"kindAttributes", "kindRelations"} => <<e.cmd, e.arg>> \in Scheme
    BY <2>2 DEF Scheme
  <2> QED
    BY <2>1, <2>3
<1>9. CASE \A i \in 1 .. n : todo[i].cmd \notin DOMAIN MetadataCalls
  <2>1. e.cmd \notin DOMAIN MetadataCalls
    BY <1>3, <1>6, <1>9
  <2>2. \A i \in 1 .. Len(more) : more[i].cmd \notin DOMAIN MetadataCalls
    <3> TAKE i \in 1 .. Len(more)
    <3>1. PICK j \in 2 .. n : more[i].cmd = todo[j].cmd
      BY <1>7, <1>41, <2>1
    <3> QED
      BY <1>6, <1>9, <3>1
  <2>3. known = cache
    BY <1>7, <2>1
  <2> QED
    BY <1>8, <2>1, <2>2, <2>3
<1>10. CASE /\ ~asked /\ todo[1].cmd = "kindNames"
            /\ \A i \in 2 .. n : todo[i].cmd \notin DOMAIN MetadataCalls
  <2>1. \A i \in 1 .. Len(more) : more[i].cmd # "kindNames"
    <3> TAKE i \in 1 .. Len(more)
    <3>1. CASE \E j \in 2 .. n : more[i].cmd = todo[j].cmd
      BY <1>7, <1>10, <3>1
    <3> QED
      BY <1>41, <3>1
  <2>2. e.cmd = "kindNames" /\ e.cmd \in DOMAIN MetadataCalls
    BY <1>3, <1>7, <1>10
  <2> QED
    BY <1>8, <1>10, <1>43, <2>1, <2>2
<1>11. CASE /\ ~asked
            /\ \A i \in 1 .. n : todo[i].cmd # "kindNames"
            /\ \A x \in Scheme : \/ x \in cache
                                 \/ \E i \in 1 .. n : todo[i].cmd = x[1] /\ todo[i].arg = x[2]
            /\ \E i \in 1 .. n : todo[i].cmd \in DOMAIN MetadataCalls
  <2>1. e.cmd # "kindNames"
    BY <1>3, <1>6, <1>11
  <2>2. \A i \in 1 .. Len(more) : more[i].cmd # "kindNames"
    <3> TAKE i \in 1 .. Len(more)
    <3>1. PICK j \in 2 .. n : more[i].cmd = todo[j].cmd
      BY <1>41, <2>1
    <3> QED
      BY <1>6, <1>11, <3>1
  <2>3. \A x \in Scheme : x \in known \/ \E i \in 1 .. Len(more) : more[i].cmd = x[1] /\ more[i].arg = x[2]
    <3> SUFFICES ASSUME NEW x \in Scheme, x \notin known
                 PROVE  \E i \in 1 .. Len(more) : more[i].cmd = x[1] /\ more[i].arg = x[2]
      OBVIOUS
    <3>1. x[1] \in {"kindAttributes", "kindRelations"} /\ x = <<x[1], x[2]>>
      BY DEF Scheme
    <3>2. PICK i \in 1 .. n : todo[i].cmd = x[1] /\ todo[i].arg = x[2]
      BY <1>11
    <3>3. i # 1
      <4>1. i = 1 => x \in known
        BY <1>3, <3>1, <3>2
      <4> QED
        BY <4>1
    <3>4. i \in 2 .. n
      BY <1>5, <3>2, <3>3
    <3>5. PICK l \in 1 .. Len(more) : more[l].cmd = todo[i].cmd /\ more[l].arg = todo[i].arg
      BY <1>42, <3>4
    <3> QED
      BY <3>2, <3>5
  <2>4. e.cmd \in DOMAIN MetadataCalls \/ \E i \in 1 .. Len(more) : more[i].cmd \in DOMAIN MetadataCalls
    <3>1. PICK i \in 1 .. n : todo[i].cmd \in DOMAIN MetadataCalls
      BY <1>11
    <3>2. CASE i = 1
      BY <1>3, <3>1, <3>2
    <3>3. CASE i \in 2 .. n
      <4>1. PICK l \in 1 .. Len(more) : more[l].cmd = todo[i].cmd
        BY <1>42, <3>3
      <4> QED
        BY <3>1, <4>1, Zenon
    <3> QED
      BY <1>5, <3>2, <3>3
  <2> QED
    BY <1>8, <1>11, <2>2, <2>3, <2>4
<1> QED
  <2>1. \/ \A i \in 1 .. n : todo[i].cmd \notin DOMAIN MetadataCalls
        \/ /\ ~asked /\ todo[1].cmd = "kindNames"
           /\ \A i \in 2 .. n : todo[i].cmd \notin DOMAIN MetadataCalls
        \/ /\ ~asked
           /\ \A i \in 1 .. n : todo[i].cmd # "kindNames"
           /\ \A x \in Scheme : \/ x \in cache
                                \/ \E i \in 1 .. n : todo[i].cmd = x[1] /\ todo[i].arg = x[2]
    BY <1>1, <1>2 DEF IInv, SchemeShape, AsksScheme
  <2> QED
    BY <1>9, <1>10, <1>11, <2>1

\* The exchange has ended and the call goes on.
LEMMA GoesOn ==
    ASSUME IInv, call.busy, call.waiting, replies # <<>>, replies[1] \in Accepts[call.todo[1].cmd],
           NEW more, more = Behind(call.todo), more # <<>>,
           NEW queue, queue = (IF IsFlush(1) THEN <<>> ELSE pending),
           call' = [call EXCEPT !.waiting = FALSE, !.todo = more], pending' = queue,
           replies' = Tail(replies), cache' \subseteq Scheme, asked' \in BOOLEAN,
           UNCHANGED <<accepted, mode, requests, server, issued, applied>>
    PROVE  SchemeShape' => IInv'
<1>1. /\ Tail(replies) = <<>> /\ (server # "gone" => requests = <<>>)
      /\ call.todo \in Seq(Exchanges) /\ call.todo # <<>> /\ call.todo[1] \in Exchanges
      /\ 1 \in 1 .. Len(call.todo)
  BY Answered
<1>2. call \in [busy : BOOLEAN, waiting : BOOLEAN, todo : Seq(Exchanges), queue : Seq(Command),
                ids : Seq(Nat), mode : Modes]
  BY DEF IInv, TypeOK
<1>3. IsBehind(more, call.todo)
  BY <1>1, MoreIs
<1>4. /\ call' \in [busy : BOOLEAN, waiting : BOOLEAN, todo : Seq(Exchanges), queue : Seq(Command),
                    ids : Seq(Nat), mode : Modes]
      /\ call'.busy /\ ~call'.waiting /\ call'.todo = more /\ call'.queue = call.queue
      /\ call'.ids = call.ids /\ call'.mode = call.mode
  <2>1. more \in Seq(Exchanges)
    BY <1>3 DEF IsBehind
  <2> QED
    BY <1>2, <2>1
<1>5. PICK n : n = Len(call.todo)
  OBVIOUS
<1>6. n \in Nat /\ n >= 1 /\ (n > 1 => n \in 2 .. n) /\ (~(n > 1) => n = 1)
  <2>1. n \in Nat \ {0}
    BY <1>1, <1>5, EmptySeq
  <2> QED
    BY <2>1
<1>7. PICK l : l = Len(more)
  OBVIOUS
<1>8. l \in Nat /\ l >= 1 /\ l \in 1 .. l /\ 1 \in 1 .. l
  <2>1. Len(more) \in Nat \ {0}
    BY <1>3, EmptySeq DEF IsBehind
  <2> QED
    BY <1>7, <2>1
<1>9. \A i \in 1 .. l : \/ \E j \in 2 .. n : more[i] = call.todo[j] /\ (j = n => i = l)
                        \/ AsksAKind(more[i]) /\ call.todo[1].cmd = "kindNames"
  BY <1>3, <1>5, <1>7 DEF IsBehind
<1>10. n > 1 => more[l] = call.todo[n]
  BY <1>3, <1>5, <1>7 DEF IsBehind
<1>11. \A j \in 2 .. n : ~call.todo[j].flush
  BY <1>5 DEF IInv, CallShape, IsFlush
<1>12. \A i \in 1 .. l : ~more[i].flush
  <2> TAKE i \in 1 .. l
  <2> QED
    BY <1>9, <1>11 DEF AsksAKind
<1>13. \A j \in 1 .. n :
          /\ ~call.todo[j].flush /\ call.todo[j].ids # <<>>
               => j = n /\ call.queue = <<>> /\ queue = <<>> /\ call.todo[j].cmd \in DOMAIN ModifyCalls
          /\ call.todo[j].cmd \in {"kindAttributes", "kindRelations"} => call.todo[j].arg \in KindSet
  BY <1>5 DEF IInv, CallShape, Changing, QueueGoes, IsFlush
<1>14. call.todo[1].cmd = "kindNames" => ~call.todo[1].flush /\ call.todo[1].ids = <<>>
  <2> SUFFICES ASSUME call.todo[1].cmd = "kindNames" PROVE ~call.todo[1].flush /\ call.todo[1].ids = <<>>
    OBVIOUS
  <2>1. "kindNames" \notin DOMAIN ModifyCalls /\ "kindNames" # "applyBatchedChanges"
    BY CallNames
  <2>2. ~call.todo[1].flush
    BY <2>1, FlushIs DEF IInv, CallShape, IsFlush
  <2> QED
    BY <1>6, <1>13, <2>1, <2>2
<1>15. call'.ids = OwnIds' \o Ids(call'.queue)
  <2>1. call.ids = OwnIds \o Ids(call.queue)
    BY DEF IInv, CallShape
  <2>2. OwnIds' = more[l].ids
    BY <1>4, <1>7, <1>8, <1>12 DEF OwnIds, IsFlush
  <2>3. OwnIds = more[l].ids
    <3>1. CASE n > 1
      BY <1>5, <1>6, <1>10, <1>11, <3>1 DEF OwnIds, IsFlush
    <3>2. CASE n = 1
      <4>1. AsksAKind(more[l]) /\ call.todo[1].cmd = "kindNames"
        <5>1. \A j \in 2 .. n : FALSE
          BY <3>2
        <5> QED
          BY <1>8, <1>9, <5>1
      <4> QED
        BY <1>5, <1>14, <3>2, <4>1 DEF OwnIds, IsFlush, AsksAKind
    <3> QED
      BY <1>6, <3>1, <3>2
  <2>4. Ids(call'.queue) = Ids(call.queue)
    BY <1>4
  <2> QED
    BY <1>4, <2>1, <2>2, <2>3, <2>4
<1>16. CallShape'
  <2>1. \A i \in 1 .. Len(call'.todo) :
           /\ Changing(i)' => i = Len(call'.todo) /\ call'.queue = <<>> /\ pending' = <<>>
                              /\ call'.todo[i].cmd \in DOMAIN ModifyCalls
           /\ call'.todo[i].cmd \in {"kindAttributes", "kindRelations"} => call'.todo[i].arg \in KindSet
    <3> SUFFICES ASSUME NEW i \in 1 .. l
                 PROVE  /\ ~more[i].flush /\ more[i].ids # <<>>
                             => i = l /\ call.queue = <<>> /\ queue = <<>> /\ more[i].cmd \in DOMAIN ModifyCalls
                        /\ more[i].cmd \in {"kindAttributes", "kindRelations"} => more[i].arg \in KindSet
      BY <1>4, <1>7 DEF Changing, IsFlush
    <3>1. CASE \E j \in 2 .. n : more[i] = call.todo[j] /\ (j = n => i = l)
      <4>1. PICK j \in 2 .. n : more[i] = call.todo[j] /\ (j = n => i = l)
        BY <3>1
      <4>2. j \in 1 .. n
        BY <1>6
      <4> QED
        BY <1>13, <4>1, <4>2
    <3>2. CASE AsksAKind(more[i])
      BY <3>2 DEF AsksAKind
    <3> QED
      BY <1>9, <3>1, <3>2
  <2>2. ~IsFlush(1)' /\ \A i \in 2 .. Len(call'.todo) : ~IsFlush(i)'
    <3>1. \A i \in 2 .. l : i \in 1 .. l
      OBVIOUS
    <3> QED
      BY <1>4, <1>7, <1>8, <1>12, <3>1 DEF IsFlush
  <2>3. mode' = SEND_IMMEDIATELY => pending' = <<>>
    BY DEF IInv, CallShape
  <2>4. call'.mode = SEND_IMMEDIATELY => call'.queue = <<>> /\ pending' = <<>>
    BY <1>4 DEF IInv, CallShape, QueueGoes
  <2>5. (pending' = <<>>) => QueueGoes'
    BY DEF QueueGoes
  <2> QED
    BY <1>4, <1>15, <2>1, <2>2, <2>3, <2>4, <2>5 DEF CallShape
<1>17. PICK own : own = (IF IsFlush(1) THEN <<>> ELSE call.todo[1].ids)
  OBVIOUS
<1>18. /\ queue \in Seq(Command) /\ own \in Seq(Nat)
       /\ server # "gone" => applied \o Ids(queue) = accepted \o own
       /\ ToSet(Ids(queue)) \subseteq ToSet(accepted)
  BY <1>17, Settled
<1>19. TypeOK'
  BY <1>1, <1>4, <1>18, EmptyIsASeq DEF IInv, TypeOK, Scheme
<1>20. Pipes'
  <2>1. replies' = <<>> /\ replies' \in Seq([cmd : Commands, form : Forms]) /\ Len(replies') = 0 /\ Len(replies') <= 1
    <3>1. replies' = <<>>
      BY <1>1
    <3>2. Len(replies') = 0 /\ Len(replies') <= 1
      BY <3>1, EmptyIsShort, Zenon
    <3> QED
      BY <3>1, <3>2, EmptyIsASeq
  <2>2. server' # "gone" => Len(requests') + Len(replies') = 0
    BY <1>1, <2>1
  <2>3. server' # "gone" => requests' = <<>>
    BY <1>1
  <2> QED
    BY <1>4, <2>1, <2>2, <2>3 DEF IInv, Pipes
<1>21. Numbered'
  BY <1>4, <1>18 DEF IInv, Numbered, Ids
<1>22. own = <<>>
  <2> SUFFICES ASSUME ~call.todo[1].flush, call.todo[1].ids # <<>> PROVE FALSE
    BY <1>17 DEF IsFlush
  <2>1. n = 1 /\ call.todo[1].cmd \in DOMAIN ModifyCalls
    BY <1>5, <1>1, <1>13
  <2>2. call.todo[1].cmd = "kindNames"
    <3>1. \A j \in 2 .. n : FALSE
      BY <2>1
    <3> QED
      BY <1>8, <1>9, <3>1
  <2> QED
    BY <1>14, <2>2
<1>23. Balance'
  <2>1. ~Served'
    BY <1>4 DEF Served
  <2> QED
    BY <1>18, <1>22, <2>1 DEF Balance, Ids
<1> QED
  BY <1>16, <1>19, <1>20, <1>21, <1>23 DEF IInv

\* The last exchange has ended, and the call returns.
LEMMA Returns ==
    ASSUME IInv, call.busy, call.waiting, replies # <<>>, replies[1] \in Accepts[call.todo[1].cmd],
           Behind(call.todo) = <<>>,
           NEW queue, queue = (IF IsFlush(1) THEN <<>> ELSE pending),
           call' = NoCall, pending' = queue \o call.queue, accepted' = accepted \o call.ids, mode' = call.mode,
           replies' = Tail(replies), cache' \subseteq Scheme, asked' \in BOOLEAN,
           UNCHANGED <<requests, server, issued, applied>>
    PROVE  SchemeShape' => IInv'
<1>1. /\ Tail(replies) = <<>> /\ (server # "gone" => requests = <<>>)
      /\ call.todo \in Seq(Exchanges) /\ call.todo # <<>> /\ call.todo[1] \in Exchanges
      /\ 1 \in 1 .. Len(call.todo)
  BY Answered
<1>2. call \in [busy : BOOLEAN, waiting : BOOLEAN, todo : Seq(Exchanges), queue : Seq(Command),
                ids : Seq(Nat), mode : Modes]
      /\ accepted \in Seq(Nat) /\ applied \in Seq(Nat) /\ issued \in 0 .. MaxChanges
  BY ConstantsAssumption DEF IInv, TypeOK
<1>3. Len(call.todo) = 1
  <2>1. ~(Len(call.todo) > 1)
    BY <1>1, MoreIs DEF IsBehind
  <2>2. Len(call.todo) \in Nat \ {0}
    BY <1>1, EmptySeq
  <2>3. \A a \in Nat \ {0} : ~(a > 1) => a = 1
    OBVIOUS
  <2> QED
    BY <2>1, <2>2, <2>3
<1>4. PICK own : own = (IF IsFlush(1) THEN <<>> ELSE call.todo[1].ids)
  OBVIOUS
<1>5. /\ queue \in Seq(Command) /\ own \in Seq(Nat)
      /\ server # "gone" => applied \o Ids(queue) = accepted \o own
      /\ ToSet(Ids(queue)) \subseteq ToSet(accepted)
  BY <1>4, Settled
<1>6. call.ids = own \o Ids(call.queue)
  BY <1>3, <1>4 DEF IInv, CallShape, OwnIds
<1>7. call.queue \in Seq(Command) /\ call.ids \in Seq(Nat) /\ call.mode \in Modes
  BY <1>2
<1>8. /\ Ids(queue \o call.queue) = Ids(queue) \o Ids(call.queue)
      /\ Ids(queue) \in Seq(Nat) /\ Ids(call.queue) \in Seq(Nat)
      /\ queue \o call.queue \in Seq(Command) /\ Ids(pending') = Ids(queue) \o Ids(call.queue)
  <2>1. queue \in Seq(Command) /\ call.queue \in Seq(Command)
    BY <1>5, <1>7
  <2>2. Ids(queue \o call.queue) = Ids(queue) \o Ids(call.queue)
    BY <2>1, IdsOfConcat
  <2>3. Ids(queue) \in Seq(Nat) /\ Ids(call.queue) \in Seq(Nat)
    BY <2>1, IdsOf
  <2>4. queue \o call.queue \in Seq(Command)
    BY <2>1
  <2>5. Ids(pending') = Ids(queue \o call.queue)
    OBVIOUS
  <2> QED
    BY <2>2, <2>3, <2>4, <2>5
<1>9. accepted' \in Seq(1 .. MaxChanges) /\ accepted' \in Seq(Nat)
      /\ (\A i \in 1 .. Len(accepted') : accepted'[i] \in 1 .. issued) /\ Increasing(accepted')
  <2>1. accepted \o call.ids \in Seq(Nat)
    BY <1>2, <1>7
  <2>2. (\A i \in 1 .. Len(accepted \o call.ids) : (accepted \o call.ids)[i] \in 1 .. issued)
        /\ Increasing(accepted \o call.ids)
    BY DEF IInv, Numbered
  <2>3. \A a \in 1 .. issued : a \in 1 .. MaxChanges
    BY <1>2, ConstantsAssumption
  <2>4. accepted \o call.ids \in Seq(1 .. MaxChanges)
    BY <2>1, <2>2, <2>3, SequenceOver
  <2> QED
    BY <2>1, <2>2, <2>4
<1>10. /\ ~call'.busy /\ ~call'.waiting /\ call'.todo = <<>> /\ call'.queue = <<>> /\ call'.ids = <<>>
  BY DEF NoCall
<1>11. TypeOK'
  <2>1. NoCall \in [busy : BOOLEAN, waiting : BOOLEAN, todo : Seq(Exchanges), queue : Seq(Command),
                    ids : Seq(Nat), mode : Modes]
    BY ModesAre, EmptyIsASeq DEF NoCall, SEND_IMMEDIATELY
  <2> QED
    BY <1>7, <1>8, <1>9, <2>1 DEF IInv, TypeOK, Scheme
<1>12. CallShape'
  <2>1. SUFFICES ASSUME mode' = SEND_IMMEDIATELY PROVE pending' = <<>>
    BY <1>10 DEF CallShape
  <2>2. call.queue = <<>> /\ queue = <<>>
    BY <2>1 DEF IInv, CallShape, QueueGoes
  <2> QED
    BY <2>2
<1>13. Pipes'
  <2>1. replies' = <<>> /\ replies' \in Seq([cmd : Commands, form : Forms]) /\ Len(replies') = 0 /\ Len(replies') <= 1
    <3>1. replies' = <<>>
      BY <1>1
    <3>2. Len(replies') = 0 /\ Len(replies') <= 1
      BY <3>1, EmptyIsShort, Zenon
    <3> QED
      BY <3>1, <3>2, EmptyIsASeq
  <2>2. server' # "gone" => Len(requests') + Len(replies') = 0
    BY <1>1, <2>1
  <2>3. server' # "gone" => requests' = <<>>
    BY <1>1
  <2> QED
    BY <1>10, <2>1, <2>2, <2>3 DEF IInv, Pipes
<1>14. Numbered'
  <2>1. accepted' \o call'.ids = accepted'
    BY <1>9, <1>10
  <2>2. ToSet(Ids(call'.queue)) = {}
    BY <1>10, NoIds DEF ToSet
  <2>3. ToSet(Ids(pending')) \subseteq ToSet(accepted')
    <3>0. ToSet(Ids(queue) \o Ids(call.queue)) = ToSet(Ids(queue)) \cup ToSet(Ids(call.queue))
      BY <1>8, Members
    <3>1. ToSet(Ids(pending')) = ToSet(Ids(queue)) \cup ToSet(Ids(call.queue))
      BY <1>8, <3>0
    <3>2. ToSet(accepted') = ToSet(accepted) \cup ToSet(call.ids)
      BY <1>2, <1>7, Members
    <3>3. ToSet(call.ids) = ToSet(own) \cup ToSet(Ids(call.queue))
      BY <1>5, <1>6, <1>8, Members
    <3> QED
      BY <1>5, <3>1, <3>2, <3>3
  <2>4. Ids(call.queue)' = Ids(call'.queue) /\ Ids(pending)' = Ids(pending')
    BY DEF Ids
  <2> QED
    BY <1>9, <2>1, <2>2, <2>3, <2>4 DEF IInv, Numbered
<1>15. Balance'
  <2>1. ~Served'
    BY <1>10 DEF Served
  <2>2. server # "gone" => applied \o Ids(pending') = accepted'
    <3> SUFFICES ASSUME server # "gone" PROVE applied \o Ids(pending') = accepted'
      OBVIOUS
    <3>1. applied \in Seq(Nat) /\ accepted \in Seq(Nat) /\ own \in Seq(Nat)
          /\ Ids(queue) \in Seq(Nat) /\ Ids(call.queue) \in Seq(Nat)
      BY <1>2, <1>5, <1>8
    <3>2. (applied \o Ids(queue)) \o Ids(call.queue) = applied \o (Ids(queue) \o Ids(call.queue))
      BY ONLY SMTT(40), <3>1, Associative
    <3>3. (accepted \o own) \o Ids(call.queue) = accepted \o (own \o Ids(call.queue))
      BY ONLY SMTT(40), <3>1, Associative
    <3> QED
      BY <1>5, <1>6, <1>8, <3>2, <3>3
  <2>3. accepted' \o <<>> = accepted'
    BY <1>9
  <2>4. Ids(pending)' = Ids(pending')
    BY DEF Ids
  <2> QED
    BY <2>1, <2>2, <2>3, <2>4 DEF Balance
<1> QED
  BY <1>11, <1>12, <1>13, <1>14, <1>15 DEF IInv

LEMMA ReceiveKeeps ==
    ASSUME IInv, Receive
    PROVE  IInv'
<1>1. /\ call.busy /\ call.waiting /\ replies # <<>> /\ replies' = Tail(replies)
      /\ UNCHANGED <<requests, server, issued, applied>>
  BY DEF Receive
<1>2. /\ Tail(replies) = <<>> /\ Head(replies) = replies[1] /\ (server # "gone" => requests = <<>>)
      /\ replies[1] \in [cmd : Commands, form : Forms] /\ call.todo[1] \in Exchanges
      /\ Head(call.todo) = call.todo[1]
      /\ replies[1].form # "fatal" => replies[1].cmd = call.todo[1].cmd
  BY <1>1, Answered
<1>3. CASE replies[1] \notin Accepts[call.todo[1].cmd]
  <2>1. Throw
    BY <1>2, <1>3 DEF Receive
  <2>2. replies[1].form # "result"
    <3> SUFFICES ASSUME replies[1].form = "result" PROVE FALSE
      OBVIOUS
    <3>1. replies[1] = Reply(call.todo[1].cmd, "result")
      BY <1>2 DEF Reply
    <3> QED
      BY <1>2, <1>3, <3>1, ResultsAreAccepted DEF Exchanges
  <2>3. ~Served
    BY <2>2 DEF Served
  <2> QED
    BY <1>1, <1>2, <2>1, <2>3, ThrowKeeps
<1>4. CASE replies[1] \in Accepts[call.todo[1].cmd]
  <2>1. PICK e : e = call.todo[1]
    OBVIOUS
  <2>2. PICK more : more = Behind(call.todo)
    OBVIOUS
  <2>3. PICK queue : queue = (IF IsFlush(1) THEN <<>> ELSE pending)
    OBVIOUS
  <2>4. PICK known : known = cache \cup (IF e.cmd \in {"kindAttributes", "kindRelations"} THEN {<<e.cmd, e.arg>>} ELSE {})
    OBVIOUS
  <2>5. /\ cache' = known
        /\ asked' = (asked \/ (e.cmd \in DOMAIN MetadataCalls
                               /\ \A i \in 1 .. Len(more) : more[i].cmd \notin DOMAIN MetadataCalls))
        /\ IF more # <<>>
           THEN /\ call' = [call EXCEPT !.waiting = FALSE, !.todo = more]
                /\ pending' = queue
                /\ UNCHANGED <<accepted, mode>>
           ELSE /\ call' = NoCall
                /\ pending' = queue \o call.queue
                /\ accepted' = accepted \o call.ids
                /\ mode' = call.mode
    BY <1>2, <1>4, <2>1, <2>2, <2>3, <2>4 DEF Receive, Complete, Behind, IsFlush
  <2>6. /\ known \subseteq Scheme
        /\ \/ /\ e.cmd \notin DOMAIN MetadataCalls /\ known = cache
              /\ \A i \in 1 .. Len(more) : more[i].cmd \notin DOMAIN MetadataCalls
           \/ /\ ~asked
              /\ \A i \in 1 .. Len(more) : more[i].cmd # "kindNames"
              /\ \A x \in Scheme : \/ x \in known
                                   \/ \E i \in 1 .. Len(more) : more[i].cmd = x[1] /\ more[i].arg = x[2]
              /\ e.cmd \in DOMAIN MetadataCalls \/ \E i \in 1 .. Len(more) : more[i].cmd \in DOMAIN MetadataCalls
    BY <1>1, <2>1, <2>2, <2>4, SchemeGoes
  <2>7. cache' \subseteq Scheme /\ asked' \in BOOLEAN
    BY <2>5, <2>6 DEF IInv, TypeOK
  <2>8. call'.todo = more
    <3>1. call \in [busy : BOOLEAN, waiting : BOOLEAN, todo : Seq(Exchanges), queue : Seq(Command),
                    ids : Seq(Nat), mode : Modes]
      BY DEF IInv, TypeOK
    <3>2. CASE more # <<>>
      <4>1. call' = [call EXCEPT !.waiting = FALSE, !.todo = more]
        BY <2>5, <3>2
      <4> QED
        BY <3>1, <4>1
    <3>3. CASE more = <<>>
      <4>1. call' = NoCall
        BY <2>5, <3>3
      <4> QED
        BY <3>3, <4>1 DEF NoCall
    <3> QED
      BY <3>2, <3>3
  <2>9. SchemeShape'
    <3>1. CASE /\ e.cmd \notin DOMAIN MetadataCalls /\ known = cache
               /\ \A i \in 1 .. Len(more) : more[i].cmd \notin DOMAIN MetadataCalls
      <4>1. asked' = asked /\ cache' = cache
        BY <2>5, <3>1 DEF IInv, TypeOK
      <4> QED
        BY <2>8, <3>1, <4>1 DEF IInv, SchemeShape, AsksScheme, Scheme
    <3>2. CASE /\ ~asked
               /\ \A i \in 1 .. Len(more) : more[i].cmd # "kindNames"
               /\ \A x \in Scheme : \/ x \in known
                                    \/ \E i \in 1 .. Len(more) : more[i].cmd = x[1] /\ more[i].arg = x[2]
               /\ e.cmd \in DOMAIN MetadataCalls \/ \E i \in 1 .. Len(more) : more[i].cmd \in DOMAIN MetadataCalls
      <4>1. CASE \A i \in 1 .. Len(more) : more[i].cmd \notin DOMAIN MetadataCalls
        <5>1. \A x \in Scheme : x[1] \in DOMAIN MetadataCalls
          BY CallNames DEF Scheme
        <5>2. known = Scheme
          <6>1. ASSUME NEW x \in Scheme PROVE x \in known
            <7> SUFFICES ASSUME NEW i \in 1 .. Len(more), more[i].cmd = x[1] PROVE FALSE
              BY <3>2
            <7> QED
              BY <4>1, <5>1
          <6> QED
            BY <2>6, <6>1
        <5> QED
          BY <2>5, <2>8, <4>1, <5>2 DEF SchemeShape, AsksScheme, Scheme
      <4>2. CASE \E i \in 1 .. Len(more) : more[i].cmd \in DOMAIN MetadataCalls
        <5>1. ~asked'
          BY <2>5, <3>2, <4>2
        <5> QED
          BY <2>5, <2>8, <3>2, <5>1 DEF SchemeShape, AsksScheme, Scheme
      <4> QED
        BY <4>1, <4>2
    <3> QED
      BY <2>6, <3>1, <3>2
  <2>10. CASE more # <<>>
    BY <1>1, <1>4, <2>2, <2>3, <2>5, <2>7, <2>9, <2>10, GoesOn
  <2>11. CASE more = <<>>
    BY <1>1, <1>4, <2>2, <2>3, <2>5, <2>7, <2>9, <2>11, Returns
  <2> QED
    BY <2>10, <2>11
<1> QED
  BY <1>3, <1>4

-----------------------------------------------------------------------------
(* The theorems.                                                           *)
LEMMA Starts ==
    ASSUME Init
    PROVE  IInv
<1>1. /\ mode = SEND_IMMEDIATELY /\ pending = <<>> /\ asked = FALSE /\ cache = {}
      /\ call = NoCall /\ requests = <<>> /\ replies = <<>> /\ server = "starting"
      /\ issued = 0 /\ accepted = <<>> /\ applied = <<>>
  BY DEF Init
<1>2. /\ ~call.busy /\ ~call.waiting /\ call.todo = <<>> /\ call.queue = <<>> /\ call.ids = <<>>
  BY <1>1 DEF NoCall
<1>3. TypeOK
  <2>1. NoCall \in [busy : BOOLEAN, waiting : BOOLEAN, todo : Seq(Exchanges), queue : Seq(Command),
                    ids : Seq(Nat), mode : Modes]
    BY ModesAre, EmptyIsASeq DEF NoCall, SEND_IMMEDIATELY
  <2>2. 0 \in 0 .. MaxChanges
    BY ConstantsAssumption
  <2> QED
    BY <1>1, <2>1, <2>2, ModesAre, EmptyIsASeq DEF TypeOK
<1>4. CallShape
  BY <1>1, <1>2 DEF CallShape
<1>5. Pipes
  <2>1. replies \in Seq([cmd : Commands, form : Forms]) /\ Len(replies) = 0 /\ Len(replies) <= 1 /\ Len(requests) = 0
    BY <1>1, EmptyIsASeq, EmptyIsShort
  <2> QED
    BY <1>1, <1>2, <2>1 DEF Pipes
<1>6. <<>> \o <<>> = <<>> /\ Ids(<<>>) = <<>> /\ ToSet(<<>>) = {} /\ \A i \in 1 .. Len(<<>>) : FALSE
  BY NoIds DEF ToSet
<1>7. Numbered
  BY <1>1, <1>2, <1>6 DEF Numbered, Increasing
<1>8. Balance
  BY <1>1, <1>2, <1>6 DEF Balance, Served
<1>9. SchemeShape
  BY <1>1, <1>2, <1>6 DEF SchemeShape
<1> QED
  BY <1>3, <1>4, <1>5, <1>7, <1>8, <1>9 DEF IInv

LEMMA StepKeeps ==
    ASSUME IInv, [Next]_vars
    PROVE  IInv'
<1>1. CASE Changes \/ Others
  BY <1>1, CallsKeep
<1>2. CASE Client
  BY <1>2, SendKeeps, FailuresKeep, ReceiveKeeps DEF Client
<1>3. CASE Server
  BY <1>3, ServerKeeps
<1>4. CASE UNCHANGED vars
  <2>1. UNCHANGED client /\ UNCHANGED <<requests, replies, server, applied>>
    BY <1>4 DEF vars, client
  <2>2. Pipes'
    BY <2>1 DEF client, IInv, Pipes
  <2>3. Balance'
    BY <2>1 DEF client, IInv, Balance, Served, IsFlush, Ids
  <2>4. server' \in {"starting", "up", "gone"}
    BY <2>1 DEF IInv, TypeOK
  <2> QED
    BY <2>1, <2>2, <2>3, <2>4, AppliedFacts, ServerFrame
<1> QED
  BY <1>1, <1>2, <1>3, <1>4 DEF Next

\* The inductive invariant: the shape of a call, the one exchange in the two
\* pipes, the numbers of the changes, and the balance between what was
\* accepted, what is queued and what the database stored, in the middle of a
\* call too (CachingJsonApi, JsonApiParser, the connection).
THEOREM IInvariant == Spec => []IInv
  BY Starts, StepKeeps, PTL DEF Spec

\* A caller between two calls accounts for every change it was told is made:
\* stored, or queued behind what is stored, once and in order; whatever was
\* refused, and whichever batch failed (CachingJsonApi's flushes).
THEOREM ChangesAreAccounted == Spec => []Accounted
<1>1. IInv => Accounted
  <2> SUFFICES ASSUME IInv, ~call.busy, server # "gone"
               PROVE  applied \o Ids(pending) = accepted /\ (mode = SEND_IMMEDIATELY => applied = accepted)
    BY DEF Accounted, Idle
  <2>1. ~Served
    BY DEF IInv, CallShape, NoCall, Served
  <2>2. applied \o Ids(pending) = accepted \o <<>>
    BY <2>1 DEF IInv, Balance
  <2>3. applied \in Seq(1 .. MaxChanges) /\ accepted \in Seq(1 .. MaxChanges)
    BY DEF IInv, TypeOK
  <2>4. accepted \o <<>> = accepted /\ applied \o <<>> = applied
    BY <2>3
  <2>5. mode = SEND_IMMEDIATELY => Ids(pending) = <<>>
    BY NoIds DEF IInv, CallShape
  <2> QED
    BY <2>2, <2>4, <2>5
<1> QED
  BY <1>1, IInvariant, PTL

\* Requests and answers stay in step, over every error of a call and of the
\* server: no answer is left in the pipe for the next call (JsonApiParser).
THEOREM PipesStayInStep == Spec => []InStep
<1>1. IInv => InStep
  <2> SUFFICES ASSUME IInv, server = "up"
               PROVE  /\ Len(requests) + Len(replies) = (IF call.waiting THEN 1 ELSE 0)
                      /\ requests # <<>> => Head(requests) = Head(call.todo)
                      /\ replies # <<>> => Head(replies).cmd = Head(call.todo).cmd
    BY DEF InStep
  <2>1. Len(requests) + Len(replies) = (IF call.waiting THEN 1 ELSE 0)
    BY DEF IInv, Pipes
  <2>2. requests # <<>> => Head(requests) = Head(call.todo)
    BY DEF IInv, Pipes
  <2>3. ASSUME replies # <<>> PROVE Head(replies).cmd = Head(call.todo).cmd
    <3>1. replies[1].form # "fatal"
      BY <2>3 DEF IInv, Pipes
    <3>2. call.waiting /\ replies[1].cmd = call.todo[1].cmd
      BY <2>3, <3>1 DEF IInv, Pipes
    <3>3. call.busy
      BY <3>2 DEF IInv, CallShape, NoCall
    <3> QED
      BY <2>3, <3>2, <3>3, Answered
  <2> QED
    BY <2>1, <2>2, <2>3
<1> QED
  BY <1>1, IInvariant, PTL

\* The cached scheme is whole whenever the library believes it is, however
\* often asking for it failed half way (CachingJsonApi::askForMetadata).
THEOREM SchemeIsComplete == Spec => []MetadataComplete
<1>1. IInv => MetadataComplete
  BY DEF IInv, SchemeShape, Scheme, MetadataComplete
<1> QED
  BY <1>1, IInvariant, PTL

-----------------------------------------------------------------------------
(* The user's view of the queue: what of the queued changes the database   *)
(* does not have yet.                                                      *)
DeliveredOf(cs, stored) == {i \in 1 .. Len(cs) : cs[i].id \in stored}
WaitingOf(cs, stored) == SubSeq(Ids(cs), Cardinality(DeliveredOf(cs, stored)) + 1, Len(cs))

LEMMA WaitingIs == Waiting = WaitingOf(pending, ToSet(applied))
  BY DEF Waiting, Delivered, WaitingOf, DeliveredOf

LEMMA Positions ==
    ASSUME NEW cs \in Seq(Command), NEW stored
    PROVE  /\ Cardinality(DeliveredOf(cs, stored)) \in 0 .. Len(cs)
           /\ WaitingOf(cs, stored) \in Seq(Nat)
<1>1. PICK n \in Nat : n = Len(cs)
  OBVIOUS
<1>2. IsFiniteSet(1 .. n) /\ Cardinality(1 .. n) = n
  BY FS_Interval
<1>3. DeliveredOf(cs, stored) \in SUBSET (1 .. n)
  BY <1>1 DEF DeliveredOf
<1>4. IsFiniteSet(DeliveredOf(cs, stored)) /\ Cardinality(DeliveredOf(cs, stored)) <= n
  BY <1>2, <1>3, FS_Subset
<1>5. Cardinality(DeliveredOf(cs, stored)) \in Nat
  BY <1>4, FS_CardinalityType
<1>6. PICK d \in Nat : d = Cardinality(DeliveredOf(cs, stored)) /\ d <= n
  BY <1>4, <1>5
<1>7. Ids(cs) \in Seq(Nat) /\ Len(Ids(cs)) = n
  BY <1>1, IdsOf
<1>8. SubSeq(Ids(cs), d + 1, n) \in Seq(Nat)
  <2>1. \A i \in (d + 1) .. n : i \in 1 .. Len(Ids(cs))
    BY <1>7
  <2>2. \A i \in (d + 1) .. n : Ids(cs)[i] \in Nat
    BY <1>7, <2>1, ElementOfSeq
  <2> QED
    BY <2>2, SubSeqProperties
<1> QED
  BY <1>1, <1>6, <1>8 DEF WaitingOf

BehindSuffix(a, b, d) ==
    SubSeq(a \o b, d + 1, Len(a) + Len(b)) = SubSeq(a, d + 1, Len(a)) \o b

LEMMA SuffixGoes ==
    ASSUME NEW a \in Seq(Nat), NEW b \in Seq(Nat), NEW n \in Nat, n = Len(a), NEW l \in Nat, l = Len(b),
           NEW d \in 0 .. n
    PROVE  BehindSuffix(a, b, d)
<1>1. PICK c \in Seq(Nat) : c = a \o b
  <2>1. a \o b \in Seq(Nat)
    BY Concat
  <2> QED
    BY <2>1
<1>2. /\ Len(c) = n + l
      /\ \A i \in 1 .. n : c[i] = a[i]
      /\ \A i \in (n + 1) .. (n + l) : c[i] = b[i - n]
  <2>1. /\ Len(a \o b) = Len(a) + Len(b)
        /\ \A i \in 1 .. Len(a) : (a \o b)[i] = a[i]
        /\ \A i \in (Len(a) + 1) .. (Len(a) + Len(b)) : (a \o b)[i] = b[i - Len(a)]
    BY Concat
  <2> QED
    BY <1>1, <2>1
<1>3. PICK w : w = SubSeq(a, d + 1, n)
  OBVIOUS
<1>4. w \in Seq(Nat) /\ Len(w) = n - d /\ \A i \in 1 .. (n - d) : w[i] = a[d + i]
  <2>1. \A i \in (d + 1) .. n : i \in 1 .. Len(a)
    OBVIOUS
  <2>2. \A i \in (d + 1) .. n : a[i] \in Nat
    BY <2>1, ElementOfSeq
  <2>3. /\ w \in Seq(Nat)
        /\ Len(w) = IF d + 1 <= n THEN n - (d + 1) + 1 ELSE 0
        /\ \A i \in 1 .. n - (d + 1) + 1 : w[i] = a[(d + 1) + i - 1]
    BY <1>3, <2>2, SubSeqProperties
  <2>4. n - (d + 1) + 1 = n - d /\ (~(d + 1 <= n) => n - d = 0) /\ \A i \in 1 .. (n - d) : (d + 1) + i - 1 = d + i
    OBVIOUS
  <2> QED
    BY <2>3, <2>4
<1>5. PICK v : v = SubSeq(c, d + 1, n + l)
  OBVIOUS
<1>6. v \in Seq(Nat) /\ Len(v) = n + l - d /\ \A i \in 1 .. (n + l - d) : v[i] = c[d + i]
  <2>1. \A i \in (d + 1) .. (n + l) : i \in 1 .. Len(c)
    BY <1>2
  <2>2. \A i \in (d + 1) .. (n + l) : c[i] \in Nat
    BY <2>1, ElementOfSeq
  <2>3. /\ v \in Seq(Nat)
        /\ Len(v) = IF d + 1 <= n + l THEN n + l - (d + 1) + 1 ELSE 0
        /\ \A i \in 1 .. n + l - (d + 1) + 1 : v[i] = c[(d + 1) + i - 1]
    <3>1. PICK m \in Int : m = n + l
      OBVIOUS
    <3>2. PICK k \in Int : k = d + 1
      OBVIOUS
    <3>3. \A i \in k .. m : c[i] \in Nat
      BY <2>2, <3>1, <3>2
    <3>4. /\ SubSeq(c, k, m) \in Seq(Nat)
          /\ Len(SubSeq(c, k, m)) = IF k <= m THEN m - k + 1 ELSE 0
          /\ \A i \in 1 .. m - k + 1 : SubSeq(c, k, m)[i] = c[k + i - 1]
      BY <3>3, SubSeqProperties
    <3> QED
      BY <1>5, <3>1, <3>2, <3>4
  <2>4. n + l - (d + 1) + 1 = n + l - d /\ (~(d + 1 <= n + l) => n + l - d = 0)
        /\ \A i \in 1 .. (n + l - d) : (d + 1) + i - 1 = d + i
    OBVIOUS
  <2> QED
    BY <2>3, <2>4
<1>7. PICK u : u = w \o b
  OBVIOUS
<1>8. /\ u \in Seq(Nat) /\ Len(u) = n - d + l
      /\ \A i \in 1 .. (n - d) : u[i] = w[i]
      /\ \A i \in (n - d + 1) .. (n - d + l) : u[i] = b[i - (n - d)]
  <2>1. w \in Seq(Nat)
    BY <1>4
  <2>2. /\ w \o b \in Seq(Nat) /\ Len(w \o b) = Len(w) + Len(b)
        /\ \A i \in 1 .. Len(w) : (w \o b)[i] = w[i]
        /\ \A i \in (Len(w) + 1) .. (Len(w) + Len(b)) : (w \o b)[i] = b[i - Len(w)]
    BY ONLY <2>1, b \in Seq(Nat), Concat
  <2> QED
    BY <1>4, <1>7, <2>2
<1>9. ASSUME NEW i \in 1 .. Len(v) PROVE v[i] = u[i]
  <2>1. CASE i \in 1 .. (n - d)
    <3>1. d + i \in 1 .. n /\ i \in 1 .. (n + l - d)
      BY <2>1
    <3>2. v[i] = c[d + i]
      BY <1>6, <3>1
    <3>3. c[d + i] = a[d + i]
      BY <1>2, <3>1
    <3>4. u[i] = w[i] /\ w[i] = a[d + i]
      BY <1>4, <1>8, <2>1
    <3> QED
      BY <3>2, <3>3, <3>4
  <2>2. CASE i \in (n - d + 1) .. (n - d + l)
    <3>1. d + i \in (n + 1) .. (n + l) /\ i \in 1 .. (n + l - d) /\ d + i - n = i - (n - d)
      BY <2>2
    <3>2. v[i] = c[d + i]
      BY <1>6, <3>1
    <3>3. c[d + i] = b[d + i - n]
      BY <1>2, <3>1
    <3>4. u[i] = b[i - (n - d)]
      BY <1>8, <2>2
    <3> QED
      BY <3>1, <3>2, <3>3, <3>4
  <2>3. i \in 1 .. (n - d) \/ i \in (n - d + 1) .. (n - d + l)
    BY <1>6
  <2> QED
    BY <2>1, <2>2, <2>3
<1>10. Len(v) = Len(u)
  BY <1>6, <1>8
<1>11. v = u
  BY <1>6, <1>8, <1>9, <1>10, SameSequence
<1> QED
  BY <1>1, <1>3, <1>5, <1>7, <1>11 DEF BehindSuffix

\* What is queued behind waits behind.
LEMMA WaitsBehind ==
    ASSUME NEW cs \in Seq(Command), NEW new \in Seq(Command), NEW stored, ToSet(Ids(new)) \cap stored = {}
    PROVE  WaitingOf(cs \o new, stored) = WaitingOf(cs, stored) \o Ids(new)
<1>1. PICK n \in Nat : n = Len(cs)
  OBVIOUS
<1>2. PICK l \in Nat : l = Len(new)
  OBVIOUS
<1>3. PICK all \in Seq(Command) : all = cs \o new
  <2>1. cs \o new \in Seq(Command)
    BY Concat
  <2> QED
    BY <2>1
<1>4. /\ Len(all) = n + l
      /\ \A i \in 1 .. n : all[i] = cs[i]
      /\ \A i \in (n + 1) .. (n + l) : all[i] = new[i - n]
  BY <1>1, <1>2, <1>3, Concat
<1>5. \A j \in 1 .. l : new[j].id \notin stored
  <2> TAKE j \in 1 .. l
  <2>1. Ids(new)[j] = new[j].id /\ Ids(new) \in Seq(Nat) /\ Len(Ids(new)) = l
    BY <1>2, IdsOf
  <2>2. new[j].id \in ToSet(Ids(new))
    BY <2>1, Members
  <2> QED
    BY <2>2
<1>6. DeliveredOf(all, stored) = DeliveredOf(cs, stored)
  <2>1. ASSUME NEW i \in 1 .. (n + l), i \notin 1 .. n PROVE all[i].id \notin stored
    <3>1. i \in (n + 1) .. (n + l) /\ i - n \in 1 .. l
      BY <2>1
    <3> QED
      BY <1>4, <1>5, <3>1
  <2>2. \A i \in 1 .. n : i \in 1 .. (n + l)
    OBVIOUS
  <2> QED
    BY <1>1, <1>4, <2>1, <2>2 DEF DeliveredOf
<1>7. PICK d \in 0 .. n : d = Cardinality(DeliveredOf(cs, stored))
  BY <1>1, Positions
<1>8. PICK a \in Seq(Nat) : a = Ids(cs) /\ Len(a) = n
  BY <1>1, IdsOf
<1>9. PICK b \in Seq(Nat) : b = Ids(new) /\ Len(b) = l
  BY <1>2, IdsOf
<1>10. Ids(all) = a \o b
  BY <1>3, <1>8, <1>9, IdsOfConcat
<1>11. SubSeq(a \o b, d + 1, n + l) = SubSeq(a, d + 1, n) \o b
  <2>1. BehindSuffix(a, b, d)
    BY <1>8, <1>9, SuffixGoes
  <2> QED
    BY <1>8, <1>9, <2>1 DEF BehindSuffix
<1>12. WaitingOf(all, stored) = SubSeq(a \o b, d + 1, n + l)
  BY <1>4, <1>6, <1>7, <1>10 DEF WaitingOf
<1>13. WaitingOf(cs, stored) = SubSeq(a, d + 1, n)
  BY <1>1, <1>7, <1>8 DEF WaitingOf
<1> QED
  BY <1>3, <1>9, <1>11, <1>12, <1>13

\* Nothing of what is delivered waits, and all of what is not does.
LEMMA NothingWaits ==
    ASSUME NEW cs \in Seq(Command), NEW stored, ToSet(Ids(cs)) \subseteq stored
    PROVE  WaitingOf(cs, stored) = <<>>
<1>1. PICK n \in Nat : n = Len(cs)
  OBVIOUS
<1>2. \A i \in 1 .. n : cs[i].id \in stored
  <2> TAKE i \in 1 .. n
  <2>1. Ids(cs)[i] = cs[i].id /\ Ids(cs) \in Seq(Nat) /\ Len(Ids(cs)) = n
    BY <1>1, IdsOf
  <2>2. cs[i].id \in ToSet(Ids(cs))
    BY <2>1, Members
  <2> QED
    BY <2>2
<1>3. DeliveredOf(cs, stored) = 1 .. n
  BY <1>1, <1>2 DEF DeliveredOf
<1>4. Cardinality(1 .. n) = n
  BY FS_Interval
<1>5. WaitingOf(cs, stored) = SubSeq(Ids(cs), n + 1, n)
  BY <1>1, <1>3, <1>4 DEF WaitingOf
<1> QED
  BY <1>5, SubSeqEmpty

LEMMA NoneWaits == \A stored : WaitingOf(<<>>, stored) = <<>>
<1> TAKE stored
<1>1. <<>> \in Seq(Command) /\ ToSet(Ids(<<>>)) \subseteq stored
  BY EmptyIsASeq, NoIds DEF ToSet
<1> QED
  BY <1>1, NothingWaits

LEMMA AllWait ==
    ASSUME NEW cs \in Seq(Command), NEW stored, ToSet(Ids(cs)) \cap stored = {}
    PROVE  WaitingOf(cs, stored) = Ids(cs)
<1>1. <<>> \in Seq(Command) /\ <<>> \o cs = cs
  BY EmptyIsASeq
<1>2. WaitingOf(<<>> \o cs, stored) = WaitingOf(<<>>, stored) \o Ids(cs)
  BY <1>1, WaitsBehind
<1>3. Ids(cs) \in Seq(Nat)
  BY IdsOf
<1>4. <<>> \o Ids(cs) = Ids(cs)
  BY <1>3
<1> QED
  BY <1>1, <1>2, <1>4, NoneWaits

-----------------------------------------------------------------------------
(* The library implements the queue.                                       *)
LEMMA ExtendsWhenAppended ==
    ASSUME NEW s \in Seq(Nat), NEW q \in Seq(Nat), NEW t, t = s \o q
    PROVE  Queue!Extends(t, s)
<1>1. /\ t \in Seq(Nat) /\ Len(t) = Len(s) + Len(q) /\ Len(s) \in Nat /\ Len(q) \in Nat
      /\ \A i \in 1 .. Len(s) : t[i] = s[i]
  BY Concat
<1>2. Len(s) <= Len(t)
  BY <1>1
<1>3. PICK u : u = SubSeq(t, 1, Len(s))
  OBVIOUS
<1>4. u \in Seq(Nat) /\ Len(u) = Len(s) /\ \A i \in 1 .. Len(s) : u[i] = t[i]
  <2>1. \A i \in 1 .. Len(s) : i \in 1 .. Len(t)
    BY <1>1
  <2>2. \A i \in 1 .. Len(s) : t[i] \in Nat
    BY <1>1, <2>1, ElementOfSeq
  <2>3. PICK n \in Int : n = Len(s) /\ n >= 0
    BY <1>1
  <2>4. /\ SubSeq(t, 1, n) \in Seq(Nat)
        /\ Len(SubSeq(t, 1, n)) = IF 1 <= n THEN n - 1 + 1 ELSE 0
        /\ \A i \in 1 .. n - 1 + 1 : SubSeq(t, 1, n)[i] = t[1 + i - 1]
    BY <2>2, <2>3, SubSeqProperties
  <2>5. n - 1 + 1 = n /\ (~(1 <= n) => n = 0) /\ \A i \in 1 .. n : 1 + i - 1 = i
    BY <2>3
  <2> QED
    BY <1>3, <2>3, <2>4, <2>5
<1>5. u = s
  BY <1>1, <1>4, SameSequence
<1> QED
  BY <1>1, <1>2, <1>3, <1>5 DEF Queue!Extends

\* Changes that go behind the queue wait.
LEMMA QueueGrows ==
    ASSUME IInv, NEW new \in Seq(Command), pending' = pending \o new, applied' = applied,
           ToSet(applied) \cap ToSet(Ids(new)) = {}
    PROVE  Queue!Queue
<1>1. pending \in Seq(Command)
  BY DEF IInv, TypeOK
<1>2. PICK stored : stored = ToSet(applied)
  OBVIOUS
<1>3. PICK p \in Seq(Command) : p = pending
  BY <1>1
<1>4. Waiting = WaitingOf(p, stored)
  BY <1>2, <1>3, WaitingIs
<1>5. Waiting' = WaitingOf(p \o new, stored)
  <2>1. Waiting' = WaitingOf(pending', ToSet(applied'))
    BY DEF Waiting, Delivered, WaitingOf, DeliveredOf, Ids
  <2>2. pending' = p \o new /\ ToSet(applied') = stored
    BY <1>2, <1>3
  <2> QED
    BY <2>1, <2>2
<1>6. WaitingOf(p \o new, stored) = WaitingOf(p, stored) \o Ids(new)
  BY <1>2, WaitsBehind
<1>7. WaitingOf(p, stored) \in Seq(Nat) /\ Ids(new) \in Seq(Nat)
  BY Positions, IdsOf
<1>8. Queue!Extends(Waiting', Waiting)
  BY <1>4, <1>5, <1>6, <1>7, ExtendsWhenAppended
<1> QED
  BY <1>8 DEF Queue!Queue

\* Nothing is queued and nothing is stored.
LEMMA QueueStays ==
    ASSUME pending' = pending, applied' = applied
    PROVE  UNCHANGED <<Waiting, applied>>
  BY DEF Waiting, Delivered, Ids

LEMMA CallsQueue ==
    ASSUME IInv, Changes \/ Others
    PROVE  Queue!Queue \/ UNCHANGED <<Waiting, applied>>
<1>1. PICK todo, queue, ids, m : Good(todo, queue, ids, m) /\ Begin(todo, queue, ids, m)
  BY ChangesBegin, OthersBegin DEF Begins
<1>2. CASE todo = <<>>
  <2>1. /\ queue \in Seq(Command) /\ ids \in Seq(Nat) /\ \A i \in 1 .. Len(ids) : ids[i] = issued + i
        /\ ids = <<>> \o Ids(queue)
    BY <1>1, <1>2 DEF Good, Own
  <2>2. Ids(queue) \in Seq(Nat)
    BY <2>1, IdsOf
  <2>3. ids = Ids(queue)
    BY <2>1, <2>2
  <2>4. Idle /\ issued + Len(ids) <= MaxChanges /\ pending' = pending \o queue /\ applied' = applied
    BY <1>1, <1>2 DEF Begin
  <2>5. ToSet(applied) \cap ToSet(ids) = {}
    BY <2>1, <2>4, NewNumbers
  <2> QED
    BY <2>1, <2>3, <2>4, <2>5, QueueGrows
<1>3. CASE todo # <<>>
  BY <1>1, <1>3, QueueStays DEF Begin
<1> QED
  BY <1>2, <1>3

LEMMA AnswersQueue ==
    ASSUME IInv, Receive
    PROVE  Queue!Queue \/ UNCHANGED <<Waiting, applied>>
<1>1. call.busy /\ call.waiting /\ replies # <<>> /\ applied' = applied
  BY DEF Receive
<1>2. Head(replies) = replies[1] /\ Head(call.todo) = call.todo[1]
  BY <1>1, Answered
<1>3. CASE replies[1] \notin Accepts[call.todo[1].cmd]
  BY <1>1, <1>2, <1>3, QueueStays DEF Receive, Throw
<1>4. CASE replies[1] \in Accepts[call.todo[1].cmd]
  <2>1. PICK queue : queue = (IF IsFlush(1) THEN <<>> ELSE pending)
    OBVIOUS
  <2>2. PICK own : own = (IF IsFlush(1) THEN <<>> ELSE call.todo[1].ids)
    OBVIOUS
  <2>3. queue \in Seq(Command) /\ (IsFlush(1) => ToSet(Ids(pending)) \subseteq ToSet(applied))
    BY <1>1, <1>4, <2>1, <2>2, Settled
  <2>4. call.queue \in Seq(Command) /\ pending \in Seq(Command)
    BY DEF IInv, TypeOK
  <2>5. ToSet(applied) \cap ToSet(Ids(call.queue)) = {} /\ ToSet(applied) \cap ToSet(Ids(<<>>)) = {}
    BY NoIds DEF IInv, Numbered, ToSet
  <2>6. pending' = queue \/ pending' = queue \o call.queue
    BY <1>2, <1>4, <2>1 DEF Receive, Complete, IsFlush
  <2>7. PICK new \in Seq(Command) : pending' = queue \o new /\ ToSet(applied) \cap ToSet(Ids(new)) = {}
    <3>1. queue \o <<>> = queue /\ <<>> \in Seq(Command)
      BY <2>3, EmptyIsASeq
    <3> QED
      BY <2>4, <2>5, <2>6, <3>1
  <2>8. CASE IsFlush(1)
    <3>1. PICK stored : stored = ToSet(applied)
      OBVIOUS
    <3>2. Waiting = <<>>
      BY <2>3, <2>4, <2>8, WaitingIs, NothingWaits
    <3>3. pending' = new
      BY <2>1, <2>7, <2>8
    <3>4. Waiting' = WaitingOf(new, stored)
      <4>1. Waiting' = WaitingOf(pending', ToSet(applied'))
        BY DEF Waiting, Delivered, WaitingOf, DeliveredOf, Ids
      <4> QED
        BY <1>1, <3>1, <3>3, <4>1
    <3>5. WaitingOf(new, stored) = Ids(new)
      BY <2>7, <3>1, AllWait
    <3>6. Ids(new) \in Seq(Nat) /\ <<>> \in Seq(Nat)
      BY IdsOf, EmptyIsASeq
    <3>7. Ids(new) = <<>> \o Ids(new)
      BY <3>6
    <3>8. Queue!Extends(Ids(new), <<>>)
      BY <3>6, <3>7, ExtendsWhenAppended
    <3> QED
      BY <1>1, <3>2, <3>4, <3>5, <3>8 DEF Queue!Queue
  <2>9. CASE ~IsFlush(1)
    BY <1>1, <2>1, <2>7, <2>9, QueueGrows
  <2> QED
    BY <2>8, <2>9
<1> QED
  BY <1>3, <1>4

\* What the database stores of a request: the queue, or changes made while
\* nothing waits.
LEMMA StoringDelivers ==
    ASSUME IInv, requests # <<>>, applied' = applied \o Head(requests).ids, UNCHANGED client
    PROVE  Queue!Deliver \/ Queue!Pass \/ UNCHANGED <<Waiting, applied>>
<1>1. Head(requests) = call.todo[1] /\ call.todo[1] \in Exchanges /\ pending' = pending
  BY InFlight DEF client
<1>2. PICK new : new = applied \o call.todo[1].ids
  OBVIOUS
<1>3. /\ IsFlush(1) => /\ call.todo[1].ids = Ids(pending) /\ pending # <<>>
                       /\ ToSet(Ids(pending)) \subseteq ToSet(new)
                       /\ applied \o Ids(pending) = accepted
      /\ ~IsFlush(1) /\ call.todo[1].ids # <<>> => pending = <<>>
  BY <1>2, Serving
<1>4. /\ pending \in Seq(Command) /\ applied \in Seq(Nat) /\ accepted \in Seq(Nat) /\ call.ids \in Seq(Nat)
      /\ call.todo[1].ids \in Seq(Nat)
  BY SMTT(40), <1>1, ConstantsAssumption DEF IInv, TypeOK, Exchanges
<1>5. applied' = new
  BY <1>1, <1>2
<1>6. Waiting' = WaitingOf(pending, ToSet(new))
  <2>1. Waiting' = WaitingOf(pending', ToSet(applied'))
    BY DEF Waiting, Delivered, WaitingOf, DeliveredOf, Ids
  <2> QED
    BY <1>1, <1>5, <2>1
<1>7. CASE IsFlush(1)
  <2>1. Increasing(applied \o Ids(pending))
    BY <1>3, <1>4, <1>7, Shorter DEF IInv, Numbered
  <2>2. Ids(pending) \in Seq(Nat) /\ Len(Ids(pending)) = Len(pending)
    BY <1>4, IdsOf
  <2>3. ToSet(Ids(pending)) \cap ToSet(applied) = {}
    BY <1>4, <2>1, <2>2, Shorter
  <2>4. Waiting = Ids(pending)
    BY <1>4, <2>3, WaitingIs, AllWait
  <2>5. Waiting' = <<>>
    BY <1>3, <1>4, <1>6, <1>7, NothingWaits
  <2>6. Ids(pending) # <<>>
    <3>1. Len(pending) \in Nat \ {0}
      BY <1>3, <1>4, <1>7, EmptySeq
    <3>2. Len(Ids(pending)) # 0
      BY <2>2, <3>1
    <3> QED
      BY <3>2, EmptyIsShort
  <2>7. applied' = applied \o Ids(pending)
    BY <1>2, <1>3, <1>5, <1>7
  <2> QED
    BY <2>4, <2>5, <2>6, <2>7 DEF Queue!Deliver
<1>8. CASE ~IsFlush(1) /\ call.todo[1].ids = <<>>
  <2>1. applied' = applied
    BY <1>2, <1>4, <1>5, <1>8
  <2> QED
    BY <1>1, <2>1, QueueStays
<1>9. CASE ~IsFlush(1) /\ call.todo[1].ids # <<>>
  <2>1. pending = <<>>
    BY <1>3, <1>9
  <2>2. Waiting = <<>> /\ Waiting' = <<>>
    BY <1>6, <2>1, WaitingIs, NoneWaits
  <2>3. Queue!Extends(new, applied)
    BY <1>2, <1>4, ExtendsWhenAppended
  <2> QED
    BY <1>5, <2>2, <2>3 DEF Queue!Pass
<1> QED
  BY <1>7, <1>8, <1>9

LEMMA ServerDelivers ==
    ASSUME IInv, Server
    PROVE  Queue!Deliver \/ Queue!Pass \/ UNCHANGED <<Waiting, applied>>
<1>1. CASE requests # <<>> /\ applied' = applied \o Head(requests).ids /\ UNCHANGED client
  BY <1>1, StoringDelivers
<1>2. CASE applied' = applied /\ UNCHANGED client
  BY <1>2, QueueStays DEF client
<1> QED
  BY <1>1, <1>2 DEF Server, ServerStarts, ServerCannotStart, Serve, ServeOtherScheme, Refuse, ServeFatal, ServerDies

\* For its user the library is a queue: every change is stored once, in the
\* order in which the changes were made, none overtakes those that wait, and
\* those that wait are stored as a whole; with exchanges, errors, and the
\* death of the server in between.
THEOREM LibraryImplementsQueue == Spec => ImplementsQueue
<1>1. Init => Queue!Init
  BY WaitingIs, NoneWaits DEF Init, Queue!Init
<1>2. IInv /\ [Next]_vars => [Queue!Next]_(Queue!vars)
  <2> SUFFICES ASSUME IInv, [Next]_vars PROVE Queue!Next \/ UNCHANGED <<Waiting, applied>>
    BY DEF Queue!vars
  <2>1. CASE Changes \/ Others
    BY <2>1, CallsQueue DEF Queue!Next
  <2>2. CASE Receive
    BY <2>2, AnswersQueue DEF Queue!Next
  <2>3. CASE Send \/ SendFails \/ ReceiveEof
    BY <2>3, QueueStays DEF Send, SendFails, ReceiveEof, Throw
  <2>4. CASE Server
    BY <2>4, ServerDelivers DEF Queue!Next
  <2>5. CASE UNCHANGED vars
    BY <2>5, QueueStays DEF vars
  <2> QED
    BY <2>1, <2>2, <2>3, <2>4, <2>5 DEF Next, Client
<1> QED
  BY <1>1, <1>2, IInvariant, PTL DEF Spec, ImplementsQueue, Queue!Spec

=============================================================================
