------------------------- MODULE DeskaSessionProofs -------------------------
(***************************************************************************)
(* What holds of DeskaSession for any number of sessions and of answers.   *)
(***************************************************************************)
EXTENDS DeskaSession, TLAPS

\* A commit leaves the stored writes, and what the sessions see, well typed.
LEMMA CommitsTyped ==
    ASSUME TypeOK, NEW p \in Session, NEW ws \in SUBSET Write, NEW v \in Seen,
           Commits(p, ws, v)
    PROVE  /\ stored' \subseteq Write
           /\ open' \in [Session -> SUBSET Write]
           /\ view' \in [Session -> Seen]
           /\ saved' \in [Session -> Seen]
BY DEF TypeOK, Commits

\* So does a rollback.
LEMMA RollsBackTyped ==
    ASSUME TypeOK, NEW p \in Session, RollsBack(p)
    PROVE  /\ stored' \subseteq Write
           /\ open' \in [Session -> SUBSET Write]
           /\ view' \in [Session -> Seen]
           /\ saved' \in [Session -> Seen]
BY DEF TypeOK, RollsBack

\* So does the end of a request, in either mode of the session.
LEMMA EndTransactionTyped ==
    ASSUME TypeOK, NEW p \in Session, NEW ws \in SUBSET Write, NEW v \in Seen,
           EndTransaction(p, ws, v)
    PROVE  /\ stored' \subseteq Write
           /\ open' \in [Session -> SUBSET Write]
           /\ view' \in [Session -> Seen]
           /\ saved' \in [Session -> Seen]
           /\ snap' \in [Session -> (SUBSET Write) \cup {NoSnapshot}]
<1>1. CASE autocommit[p] /\ Commits(p, ws, v) /\ NoTransaction(p)
  BY <1>1, CommitsTyped DEF TypeOK, NoTransaction
<1>2. CASE ~autocommit[p] /\ Holds(p, ws, v)
  BY <1>2 DEF TypeOK, Holds
<1>. QED  BY <1>1, <1>2 DEF EndTransaction

\* A new write is one of the bounded number of answers, and a session sees a
\* record of its changeset.
LEMMA RequestTyped ==
    ASSUME TypeOK, NEW p \in Session
    PROVE  /\ open[p] \in SUBSET Write
           /\ view[p] \in Seen /\ saved[p] \in Seen
           /\ Unattached \in Seen
           /\ AnswersOK => /\ Written(p) \in SUBSET Write
                           /\ answered' \in 0 .. MaxAnswers
BY SessionAssumption DEF TypeOK, Write, Seen, Unattached, AnswersOK, Written

\* Types survive a request that runs one stored procedure.
LEMMA ChangesTyped ==
    ASSUME TypeOK, NEW p \in Session, NEW v \in Seen, Changes(p, v)
    PROVE  TypeOK'
BY RequestTyped, EndTransactionTyped DEF Changes, TypeOK

-----------------------------------------------------------------------------

\* A new session is well typed: no changeset, nothing open.
LEMMA TypeOKInit == Init => TypeOK
BY SessionAssumption DEF Init, TypeOK, Seen, Unattached, Write

\* The variables of DeskaSession keep their types in every step of a session.
LEMMA TypeOKStep == TypeOK /\ [Next]_vars => TypeOK'
<1> SUFFICES ASSUME TypeOK, [Next]_vars PROVE TypeOK'
  OBVIOUS
<1>0. CASE UNCHANGED vars
  BY <1>0 DEF vars, TypeOK
<1>1. ASSUME NEW p \in Session, StartChangeset(p) PROVE TypeOK'
  <2>1. [cs |-> "attached", fresh |-> FALSE] \in Seen
    BY <1>1, RequestTyped DEF Seen
  <2>. QED  BY <1>1, <2>1, ChangesTyped DEF StartChangeset
<1>2. ASSUME NEW p \in Session, ResumeChangeset(p) PROVE TypeOK'
  <2>1. [view[p] EXCEPT !.cs = "attached"] \in Seen
    BY <1>2, RequestTyped DEF Seen
  <2>. QED  BY <1>2, <2>1, ChangesTyped DEF ResumeChangeset
<1>3. ASSUME NEW p \in Session, DetachFromCurrentChangeset(p) PROVE TypeOK'
  <2>1. [view[p] EXCEPT !.cs = "detached"] \in Seen
    BY <1>3, RequestTyped DEF Seen
  <2>. QED  BY <1>3, <2>1, ChangesTyped DEF DetachFromCurrentChangeset
<1>4. ASSUME NEW p \in Session, AbortCurrentChangeset(p) PROVE TypeOK'
  <2>1. Unattached \in Seen
    BY <1>4, RequestTyped DEF Seen
  <2>. QED  BY <1>4, <2>1, ChangesTyped DEF AbortCurrentChangeset
<1>5. ASSUME NEW p \in Session, Modify(p) PROVE TypeOK'
  <2>1. [view[p] EXCEPT !.fresh = FALSE] \in Seen
    BY <1>5, RequestTyped DEF Seen
  <2>. QED  BY <1>5, <2>1, ChangesTyped DEF Modify
<1>6. ASSUME NEW p \in Session, BatchRefused(p) PROVE TypeOK'
  BY <1>6, RollsBackTyped DEF BatchRefused, NoTransaction, TypeOK
<1>7. ASSUME NEW p \in Session, Read(p) PROVE TypeOK'
  BY <1>7, RequestTyped, EndTransactionTyped DEF Read, TypeOK
<1>8. ASSUME NEW p \in Session, FreezeView(p) PROVE TypeOK'
  <2>1. freeze' \in [Session -> 0 .. 2]
    BY <1>8 DEF FreezeView, TypeOK
  <2>2. /\ Commits(p, open[p], view[p])
        /\ open[p] \in SUBSET Write /\ view[p] \in Seen
    BY <1>8, RequestTyped DEF FreezeView
  <2>. QED  BY <1>8, <2>1, <2>2, CommitsTyped DEF FreezeView, NoTransaction,
     Isolate, TypeOK
<1>9. ASSUME NEW p \in Session, UnFreezeView(p) PROVE TypeOK'
  <2>1. freeze' \in [Session -> 0 .. 2]
    BY <1>9 DEF UnFreezeView, TypeOK
  <2>2. /\ Commits(p, open[p], view[p])
        /\ open[p] \in SUBSET Write /\ view[p] \in Seen
    BY <1>9, RequestTyped DEF UnFreezeView
  <2>. QED  BY <1>9, <2>1, <2>2, CommitsTyped DEF UnFreezeView, NoTransaction,
     Shared, TypeOK
<1>10. ASSUME NEW p \in Session, CommitConfig(p) PROVE TypeOK'
  BY <1>10, RequestTyped, CommitsTyped
     DEF CommitConfig, OnChangeset, NoTransaction, Shared, TypeOK
<1>11. ASSUME NEW p \in Session, CommitRefused(p) PROVE TypeOK'
  BY <1>11, RequestTyped, CommitsTyped
     DEF CommitRefused, OnChangeset, NewSnapshot, Isolate, TypeOK
<1>12. ASSUME NEW p \in Session, CommitFails(p) PROVE TypeOK'
  BY <1>12, RequestTyped, CommitsTyped
     DEF CommitFails, OnChangeset, NoTransaction, Isolate, TypeOK
<1>13. ASSUME NEW p \in Session, DiffGenerates(p) PROVE TypeOK'
  <2>1. [view[p] EXCEPT !.fresh = TRUE] \in Seen
    BY <1>13, RequestTyped DEF Seen
  <2>. QED  BY <1>13, <2>1, RequestTyped, CommitsTyped
                DEF DiffGenerates, OnChangeset, NoTransaction, Shared, TypeOK
<1>14. ASSUME NEW p \in Session, DiffGeneratorError(p) PROVE TypeOK'
  BY <1>14, RequestTyped, CommitsTyped
     DEF DiffGeneratorError, OnChangeset, NewSnapshot, Isolate, TypeOK
<1>15. ASSUME NEW p \in Session, DiffIsFresh(p) PROVE TypeOK'
  BY <1>15, RollsBackTyped
     DEF DiffIsFresh, OnChangeset, NoTransaction, NewSnapshot, Shared, TypeOK
<1>16. ASSUME NEW p \in Session, DiffWithoutChangeset(p) PROVE TypeOK'
  BY <1>16, RollsBackTyped
     DEF DiffWithoutChangeset, NoTransaction, NewSnapshot, TypeOK
<1>17. ASSUME NEW p \in Session, Disconnect(p) PROVE TypeOK'
  BY <1>17, RequestTyped DEF Disconnect, NoTransaction, Shared, TypeOK
<1>. QED
  BY <1>0, <1>1, <1>2, <1>3, <1>4, <1>5, <1>6, <1>7, <1>8, <1>9, <1>10, <1>11,
     <1>12, <1>13, <1>14, <1>15, <1>16, <1>17 DEF Next

\* The variables of DeskaSession keep their types, for any number of sessions.
THEOREM TypeCorrect == Spec => []TypeOK
BY TypeOKInit, TypeOKStep, PTL DEF Spec

-----------------------------------------------------------------------------

\* What the modes of a session promise: with their types, the two properties
\* are inductive together.
ModesInv == TypeOK /\ AutocommitStores /\ FrozenIsReadOnly

\* A step of session p does not touch the transactions of the others.
OthersKept(p) ==
    \A q \in Session \ {p} :
        /\ freeze'[q] = freeze[q] /\ autocommit'[q] = autocommit[q]
        /\ view'[q] = view[q] /\ saved'[q] = saved[q] /\ open'[q] = open[q]

\* What the modes demand of session p, after its step.
ModeOf(p) ==
    /\ autocommit'[p] => open'[p] = {} /\ view'[p] = saved'[p]
    /\ freeze'[p] # 0 => /\ ~autocommit'[p]
                         /\ open'[p] = {}
                         /\ view'[p].cs # "attached"
                         /\ saved'[p].cs # "attached"

\* It is enough to look at the session that makes the step.
LEMMA OneSession ==
    ASSUME ModesInv, NEW p \in Session, OthersKept(p), ModeOf(p)
    PROVE  (AutocommitStores /\ FrozenIsReadOnly)'
BY DEF ModesInv, OthersKept, ModeOf, AutocommitStores, FrozenIsReadOnly, Frozen

\* After a commit a session has nothing open, and what it sees is stored.
LEMMA CommitsOne ==
    ASSUME TypeOK, NEW p \in Session, NEW ws, NEW v, Commits(p, ws, v)
    PROVE  /\ open'[p] = {} /\ view'[p] = v /\ saved'[p] = v
           /\ \A q \in Session \ {p} :
                /\ view'[q] = view[q] /\ saved'[q] = saved[q]
                /\ open'[q] = open[q]
BY DEF TypeOK, Commits

\* After a rollback too: it sees what is stored.
LEMMA RollsBackOne ==
    ASSUME TypeOK, NEW p \in Session, RollsBack(p)
    PROVE  /\ open'[p] = {} /\ view'[p] = saved[p] /\ saved'[p] = saved[p]
           /\ \A q \in Session \ {p} :
                /\ view'[q] = view[q] /\ saved'[q] = saved[q]
                /\ open'[q] = open[q]
BY DEF TypeOK, RollsBack

\* A request either commits, in the normal mode, or keeps what is stored.
LEMMA EndTransactionOne ==
    ASSUME TypeOK, NEW p \in Session, NEW ws, NEW v, EndTransaction(p, ws, v)
    PROVE  /\ autocommit[p] => open'[p] = {} /\ view'[p] = v /\ saved'[p] = v
           /\ ~autocommit[p] => /\ open'[p] = ws /\ view'[p] = v
                                /\ saved'[p] = saved[p]
           /\ \A q \in Session \ {p} :
                /\ view'[q] = view[q] /\ saved'[q] = saved[q]
                /\ open'[q] = open[q]
<1>1. CASE autocommit[p] /\ Commits(p, ws, v) /\ NoTransaction(p)
  BY <1>1, CommitsOne
<1>2. CASE ~autocommit[p] /\ Holds(p, ws, v)
  BY <1>2 DEF TypeOK, Holds
<1>. QED  BY <1>1, <1>2 DEF EndTransaction

\* A request that writes is not accepted in a frozen view.
LEMMA ChangesOne ==
    ASSUME ModesInv, NEW p \in Session, NEW v, Changes(p, v)
    PROVE  OthersKept(p) /\ ModeOf(p)
<1>1. EndTransaction(p, Written(p), v)
  BY DEF Changes
<1>. QED  BY <1>1, EndTransactionOne DEF Changes, Frozen, ModesInv,
   OthersKept, ModeOf

\* Every step of a session, whatever its mode, leaves it as the modes demand.
LEMMA ModesInvStep == ModesInv /\ [Next]_vars => ModesInv'
<1> SUFFICES ASSUME ModesInv, [Next]_vars PROVE ModesInv'
  OBVIOUS
<1>0. CASE UNCHANGED vars
  BY <1>0 DEF vars, ModesInv, TypeOK, AutocommitStores, FrozenIsReadOnly,
     Frozen
<1>1. ASSUME NEW p \in Session, StartChangeset(p)
      PROVE  OthersKept(p) /\ ModeOf(p)
  BY <1>1, ChangesOne DEF StartChangeset
<1>2. ASSUME NEW p \in Session, ResumeChangeset(p)
      PROVE  OthersKept(p) /\ ModeOf(p)
  BY <1>2, ChangesOne DEF ResumeChangeset
<1>3. ASSUME NEW p \in Session, DetachFromCurrentChangeset(p)
      PROVE  OthersKept(p) /\ ModeOf(p)
  BY <1>3, ChangesOne DEF DetachFromCurrentChangeset
<1>4. ASSUME NEW p \in Session, AbortCurrentChangeset(p)
      PROVE  OthersKept(p) /\ ModeOf(p)
  BY <1>4, ChangesOne DEF AbortCurrentChangeset
<1>5. ASSUME NEW p \in Session, Modify(p)
      PROVE  OthersKept(p) /\ ModeOf(p)
  BY <1>5, ChangesOne DEF Modify
<1>6. ASSUME NEW p \in Session, BatchRefused(p)
      PROVE  OthersKept(p) /\ ModeOf(p)
  BY <1>6, RollsBackOne DEF BatchRefused, AutocommitStores, FrozenIsReadOnly,
     Frozen,
                           ModesInv, TypeOK, OthersKept, ModeOf
<1>7. ASSUME NEW p \in Session, Read(p)
      PROVE  OthersKept(p) /\ ModeOf(p)
  BY <1>7, EndTransactionOne DEF Read, AutocommitStores, FrozenIsReadOnly,
                                Frozen, ModesInv, TypeOK, OthersKept, ModeOf
<1>8. ASSUME NEW p \in Session, FreezeView(p)
      PROVE  OthersKept(p) /\ ModeOf(p)
  BY <1>8, CommitsOne DEF FreezeView, Isolate, Attached, ModesInv, TypeOK,
     OthersKept, ModeOf
<1>9. ASSUME NEW p \in Session, UnFreezeView(p)
      PROVE  OthersKept(p) /\ ModeOf(p)
  BY <1>9, CommitsOne DEF UnFreezeView, Shared, ModesInv, TypeOK, OthersKept,
     ModeOf
<1>10. ASSUME NEW p \in Session, CommitConfig(p)
      PROVE  OthersKept(p) /\ ModeOf(p)
  BY <1>10, CommitsOne DEF CommitConfig, OnChangeset, Frozen, Shared,
     ModesInv, TypeOK, OthersKept, ModeOf
<1>11. ASSUME NEW p \in Session, CommitRefused(p)
      PROVE  OthersKept(p) /\ ModeOf(p)
  BY <1>11, CommitsOne DEF CommitRefused, OnChangeset, Frozen, Isolate,
     ModesInv, TypeOK, OthersKept, ModeOf
<1>12. ASSUME NEW p \in Session, CommitFails(p)
      PROVE  OthersKept(p) /\ ModeOf(p)
  BY <1>12, CommitsOne DEF CommitFails, OnChangeset, Frozen, Isolate,
     ModesInv, TypeOK, OthersKept, ModeOf
<1>13. ASSUME NEW p \in Session, DiffGenerates(p)
      PROVE  OthersKept(p) /\ ModeOf(p)
  BY <1>13, CommitsOne DEF DiffGenerates, OnChangeset, Frozen, Shared,
     ModesInv, TypeOK, OthersKept, ModeOf
<1>14. ASSUME NEW p \in Session, DiffGeneratorError(p)
      PROVE  OthersKept(p) /\ ModeOf(p)
  BY <1>14, CommitsOne DEF DiffGeneratorError, OnChangeset, Frozen, Isolate,
     ModesInv, TypeOK, OthersKept, ModeOf
<1>15. ASSUME NEW p \in Session, DiffIsFresh(p)
      PROVE  OthersKept(p) /\ ModeOf(p)
  BY <1>15, RollsBackOne DEF DiffIsFresh, OnChangeset, Frozen, Shared,
     ModesInv, TypeOK, OthersKept, ModeOf
<1>16. ASSUME NEW p \in Session, DiffWithoutChangeset(p)
      PROVE  OthersKept(p) /\ ModeOf(p)
  BY <1>16, RollsBackOne DEF DiffWithoutChangeset, Frozen, ModesInv, TypeOK,
     OthersKept, ModeOf
<1>17. ASSUME NEW p \in Session, Disconnect(p)
      PROVE  OthersKept(p) /\ ModeOf(p)
  BY <1>17 DEF Disconnect, Shared, ModesInv, TypeOK, OthersKept, ModeOf
<1>18. ModesInv /\ Next => \E p \in Session : OthersKept(p) /\ ModeOf(p)
  BY <1>1, <1>2, <1>3, <1>4, <1>5, <1>6, <1>7, <1>8, <1>9, <1>10, <1>11,
     <1>12, <1>13, <1>14, <1>15, <1>16, <1>17 DEF Next
<1>. QED  BY <1>0, <1>18, OneSession, TypeOKStep DEF ModesInv

\* The two modes of a session, normal and frozen, keep what they promise.
THEOREM ModesInvariant == Spec => []ModesInv
<1>1. Init => ModesInv
  <2>1. Init => TypeOK
    BY TypeOKInit
  <2>. QED
    BY <2>1 DEF Init, ModesInv, AutocommitStores, FrozenIsReadOnly, Frozen
<1>. QED  BY <1>1, ModesInvStep, PTL DEF Spec

\* Between two requests in the normal mode no answered write waits for a
\* commit: no path of a request comes back to autocommit with one open.
THEOREM AutocommitStoresAlways == Spec => []AutocommitStores
<1>1. ModesInv => AutocommitStores
  BY DEF ModesInv
<1>. QED  BY <1>1, ModesInvariant, PTL

\* A session in a frozen view has no changeset and nothing to write.
THEOREM FrozenIsReadOnlyAlways == Spec => []FrozenIsReadOnly
<1>1. ModesInv => FrozenIsReadOnly
  BY DEF ModesInv
<1>. QED  BY <1>1, ModesInvariant, PTL

=============================================================================
