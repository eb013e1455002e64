-------------------------- MODULE ChangesetsProofs --------------------------
(***************************************************************************)
(* What holds of Changesets for every set of sessions and every bound.     *)
(***************************************************************************)
EXTENDS ChangesetsLog, WellFoundedInduction, TLAPS

LEMMA IdFacts ==
    /\ Id \subseteq Nat
    /\ 0 \in Id
    /\ \A i \in Id : 0 <= i
BY ConstantsAssumption DEF Id

LEMMA TxTyped ==
    ASSUME TypeOK, NEW p \in Session
    PROVE  tx[p].stage \in Stage /\ tx[p].id \in Id /\ tx[p].num \in Nat
BY DEF TypeOK, Tx

\* The step of a call only changes tx, to a well-typed record.
LEMMA SetTxTyped ==
    ASSUME TypeOK, NEW p \in Session, NEW stage \in Stage, NEW r \in BOOLEAN,
           NEW i \in Id, NEW n \in Nat, SetTx(p, stage, r, i, n)
    PROVE  /\ tx' \in [Session -> Tx]
           /\ tx'[p] = [stage |-> stage, restoring |-> r, id |-> i, num |-> n]
           /\ \A q \in Session \ {p} : tx'[q] = tx[q]
BY DEF TypeOK, SetTx, Tx

LEMMA TypeOKInit == Init => TypeOK
BY ConstantsAssumption, IdFacts DEF Init, TypeOK, Status, Tx, Stage, Idle

\* Types are preserved by every action of every session.
LEMMA TypeOKStep == TypeOK /\ [Next]_vars => TypeOK'
<1> SUFFICES ASSUME TypeOK, [Next]_vars PROVE TypeOK'
  OBVIOUS
<1> USE ConstantsAssumption DEF TypeOK, Status, Stage, Tx, Idle
<1>1. CASE UNCHANGED vars
  BY <1>1 DEF vars
<1>2. ASSUME NEW p \in Session, Connect(p) PROVE TypeOK'
  BY <1>2 DEF Connect
<1>3. ASSUME NEW p \in Session, Disconnect(p) PROVE TypeOK'
  BY <1>3, IdFacts DEF Disconnect
<1>4. ASSUME NEW p \in Session, StartRead(p) PROVE TypeOK'
  BY <1>4 DEF StartRead, SetTx
<1>5. ASSUME NEW p \in Session, StartInsert(p) PROVE TypeOK'
  <2>1. tx[p].id \in Id
    BY <1>5
  <2>2. seq + 1 \in Id
    BY <1>5 DEF StartInsert, Id
  <2>3. seq' \in Id /\ tx' \in [Session -> Tx]
    BY <1>5, <2>2, IdFacts DEF StartInsert
  <2>4. /\ status' \in [Id -> Status]
        /\ pid' \in [Id -> Session \cup {Nobody}]
        /\ parentrevision' \in [Id -> Id]
    <3>1. CASE Attached(p) /\ UNCHANGED <<status, pid, parentrevision>>
      BY <3>1
    <3>2. CASE /\ status' = [status EXCEPT ![seq + 1] = "INPROGRESS"]
               /\ pid' = [pid EXCEPT ![seq + 1] = p]
               /\ parentrevision' = [parentrevision EXCEPT ![seq + 1] = tx[p].id]
      BY <1>5, <2>1, <2>2, <3>2
    <3> QED
      BY <1>5, <3>1, <3>2 DEF StartInsert
  <2>5. UNCHANGED <<num, locks, live>>
    BY <1>5 DEF StartInsert
  <2> QED
    BY <2>3, <2>4, <2>5
<1>6. ASSUME NEW p \in Session, NEW c \in Id, NEW r \in Id, ResumeLock(p, c, r)
      PROVE TypeOK'
  BY <1>6 DEF ResumeLock, SetTx
<1>7. ASSUME NEW p \in Session, ResumeAttach(p) PROVE TypeOK'
  <2>1. tx[p].id \in Id
    BY <1>7
  <2>2. locks' \in [Session -> [Id -> 0 .. MaxLock]]
    <3> DEFINE n == locks[p][tx[p].id]
    <3>1. n \in 0 .. MaxLock /\ (IF n > 0 THEN n - 1 ELSE 0) \in 0 .. MaxLock
      BY <1>7, <2>1
    <3> QED
      BY <1>7, <2>1, <3>1 DEF ResumeAttach
  <2>3. tx' \in [Session -> Tx]
    BY <1>7, IdFacts DEF ResumeAttach
  <2>4. status' \in [Id -> Status] /\ pid' \in [Id -> Session \cup {Nobody}]
    BY <1>7, <2>1 DEF ResumeAttach
  <2> QED
    BY <1>7, <2>2, <2>3, <2>4 DEF ResumeAttach
<1>8. ASSUME NEW p \in Session, ResumeNotFound(p) PROVE TypeOK'
  BY <1>8, IdFacts DEF ResumeNotFound
<1>9. ASSUME NEW p \in Session, NEW c \in Id, DetachFromCurrentChangeset(p, c)
      PROVE TypeOK'
  BY <1>9 DEF DetachFromCurrentChangeset
<1>10. ASSUME NEW p \in Session, NEW c \in Id, AbortCurrentChangeset(p, c)
       PROVE TypeOK'
  BY <1>10 DEF AbortCurrentChangeset
<1>11. ASSUME NEW p \in Session, NEW c \in Id, LockCurrentChangeset(p, c)
       PROVE TypeOK'
  BY <1>11 DEF LockCurrentChangeset
<1>12. ASSUME NEW p \in Session, NEW c \in Id, UnlockCurrentChangeset(p, c)
       PROVE TypeOK'
  BY <1>12 DEF UnlockCurrentChangeset
<1>13. ASSUME NEW p \in Session, NEW c \in Id, CommitCheck(p, c)
       PROVE TypeOK'
  BY <1>13 DEF CommitCheck, SetTx
<1>14. ASSUME NEW p \in Session, NEW c \in Id, RestoreCheck(p, c)
       PROVE TypeOK'
  BY <1>14 DEF RestoreCheck, SetTx
<1>15. ASSUME NEW p \in Session, RestoreNumber(p) PROVE TypeOK'
  BY <1>15 DEF RestoreNumber, SetTx
<1>16. ASSUME NEW p \in Session, WriteVersion(p) PROVE TypeOK'
  BY <1>16 DEF WriteVersion
<1>17. ASSUME NEW p \in Session, CommitConflict(p) PROVE TypeOK'
  BY <1>17, IdFacts DEF CommitConflict
<1>18. ASSUME NEW p \in Session, CommitRollback(p) PROVE TypeOK'
  BY <1>18, IdFacts DEF CommitRollback
<1>19. ASSUME NEW p \in Session, CommitTransaction(p) PROVE TypeOK'
  BY <1>19, IdFacts DEF CommitTransaction
<1> QED
  BY <1>1, <1>2, <1>3, <1>4, <1>5, <1>6, <1>7, <1>8, <1>9, <1>10, <1>11,
     <1>12, <1>13, <1>14, <1>15, <1>16, <1>17, <1>18, <1>19 DEF Next

\* Every reachable state has the types the tables and the calls are declared
\* with (create_tables.sql), for any number of sessions and changesets.
THEOREM TypeCorrect == Spec => []TypeOK
BY TypeOKInit, TypeOKStep, PTL DEF Spec

-----------------------------------------------------------------------------
(* The inductive invariant IInv *)

LEMMA IInvInit == Init => IInv
<1> SUFFICES ASSUME Init PROVE IInv
  OBVIOUS
<1>1. TypeOK
  BY TypeOKInit
<1>2. RowsInUse /\ ChangesetRows /\ ParentsAreOlder
  BY IdFacts DEF Init, RowsInUse, ChangesetRows, ParentsAreOlder, Pending, Committed
<1>3. Numbering
  BY IdFacts DEF Init, Numbering, UniqueNumbers, NoGaps, NumTaken, Committed
<1>4. CallsInProgress /\ PromisesDistinct
  BY DEF Init, CallsInProgress, CallInProgress, PromisesDistinct, Idle
<1> QED
  BY <1>1, <1>2, <1>3, <1>4 DEF IInv

\* A step that leaves both tables alone keeps what the tables promise, and
\* what the calls it does not touch rely on.
LEMMA TablesKept ==
    ASSUME IInv, TypeOK', UNCHANGED <<num, status, pid, parentrevision, seq>>
    PROVE  /\ RowsInUse' /\ ChangesetRows' /\ Numbering' /\ ParentsAreOlder'
           /\ \A q \in Session :
                 tx'[q] = tx[q] \/ tx'[q] = Idle => CallInProgress(q)'
<1>1. RowsInUse' /\ ChangesetRows' /\ ParentsAreOlder'
  BY DEF IInv, RowsInUse, ChangesetRows, ParentsAreOlder, Pending, Committed
<1>2. Numbering'
  BY DEF IInv, Numbering, UniqueNumbers, NoGaps, NumTaken, Committed
<1>3. ASSUME NEW q \in Session, tx'[q] = tx[q] PROVE CallInProgress(q)'
  BY <1>3 DEF IInv, CallsInProgress, CallInProgress, Current, Pending,
              Committed, NumTaken
<1>4. ASSUME NEW q \in Session, tx'[q] = Idle PROVE CallInProgress(q)'
  BY <1>4 DEF CallInProgress, Idle
<1> QED
  BY <1>1, <1>2, <1>3, <1>4

\* Calls that end without a trace in the tables, and calls that only lock.
LEMMA QuietStep ==
    ASSUME IInv, TypeOK', UNCHANGED <<num, status, pid, parentrevision, seq>>,
           \A q \in Session : tx'[q] = tx[q] \/ tx'[q] = Idle
    PROVE  IInv'
<1>1. PromisesDistinct'
  BY DEF IInv, PromisesDistinct, Idle
<1> QED
  BY <1>1, TablesKept DEF IInv, CallsInProgress

\* A statement of p that only moves its own call on.
LEMMA CallStep ==
    ASSUME IInv, TypeOK', UNCHANGED <<num, status, pid, parentrevision, seq>>,
           NEW p \in Session,
           \A q \in Session \ {p} : tx'[q] = tx[q],
           CallInProgress(p)',
           tx'[p].stage = "written" => ~NumPromised(p, tx'[p].num)
    PROVE  IInv'
<1>1. PromisesDistinct'
  BY DEF IInv, PromisesDistinct, NumPromised
<1> QED
  BY <1>1, TablesKept DEF IInv, CallsInProgress

\* A session without a changeset appears in no row's pid.
LEMMA NotAttached ==
    ASSUME IInv, NEW p \in Session, ~Attached(p)
    PROVE  \A c \in Id : pid[c] # p
<1> SUFFICES ASSUME NEW c \in Id, pid[c] = p PROVE FALSE
  OBVIOUS
<1>1. status[c] = "INPROGRESS"
  BY ConstantsAssumption DEF IInv, ChangesetRows
<1> QED
  BY <1>1 DEF Attached, Current, Pending

\* startChangeset: the new row takes an unused id and a committed parent.
LEMMA StartInsertStep ==
    ASSUME IInv, TypeOK', NEW p \in Session, StartInsert(p)
    PROVE  IInv'
<1> DEFINE new == seq + 1
<1> USE DEF IInv
<1>1. /\ new \in Id /\ new # 0 /\ seq' = new /\ num' = num
      /\ ~Committed(new) /\ ~Pending(new)
      /\ Committed(tx[p].id) /\ tx[p].id \in Id
  <2>1. new \in Id /\ new # 0 /\ new > seq /\ seq' = new /\ num' = num
    BY ConstantsAssumption DEF StartInsert, Id, TypeOK
  <2>2. ~Committed(new) /\ ~Pending(new)
    BY <2>1 DEF RowsInUse
  <2>3. Committed(tx[p].id) /\ tx[p].id \in Id
    BY TxTyped DEF StartInsert, At, CallsInProgress, CallInProgress
  <2> QED
    BY <2>1, <2>2, <2>3
<1>2. tx'[p] = Idle /\ \A q \in Session \ {p} : tx'[q] = tx[q]
  BY DEF StartInsert, TypeOK
<1>3. \/ UNCHANGED <<status, pid, parentrevision>>
      \/ /\ ~Attached(p)
         /\ status' = [status EXCEPT ![new] = "INPROGRESS"]
         /\ pid' = [pid EXCEPT ![new] = p]
         /\ parentrevision' = [parentrevision EXCEPT ![new] = tx[p].id]
  BY DEF StartInsert
<1>4. \A c \in Id \ {new} : /\ status'[c] = status[c] /\ pid'[c] = pid[c]
                            /\ parentrevision'[c] = parentrevision[c]
  BY <1>1, <1>3 DEF TypeOK
<1>5. RowsInUse'
  <2>1. \A i \in Id : i > new => i > seq /\ i # new
    BY DEF TypeOK, Id
  <2>2. 0 \in Id \ {new}
    BY <1>1, IdFacts
  <2> QED
    BY <1>1, <1>4, <2>1, <2>2 DEF RowsInUse, Pending, Committed
<1>6. ChangesetRows'
  <2>1. ~Attached(p) => \A c \in Id : pid[c] # p
    BY NotAttached
  <2>2. pid[new] = Nobody
    BY <1>1 DEF ChangesetRows, Pending
  <2>3. p # Nobody
    BY ConstantsAssumption
  <2>4. CASE UNCHANGED <<status, pid, parentrevision>>
    BY <1>1, <2>4 DEF ChangesetRows, Pending, Committed, TypeOK, Id
  <2>5. CASE ~Attached(p) /\ status'[new] = "INPROGRESS" /\ pid'[new] = p
    <3>1. \A c, d \in Id : pid'[c] = pid'[d] /\ pid'[c] # Nobody => c = d
      BY <1>4, <2>1, <2>5 DEF ChangesetRows
    <3>2. \A c \in Id : status'[c] = "INPROGRESS" <=> pid'[c] # Nobody
      BY <1>4, <2>3, <2>5 DEF ChangesetRows
    <3>3. \A c \in Id : Pending(c)' => ~Committed(c)' /\ c <= seq'
      BY <1>1, <1>4, <2>5 DEF ChangesetRows, Pending, Committed, TypeOK, Id
    <3> QED
      BY <3>1, <3>2, <3>3 DEF ChangesetRows
  <2> QED
    BY <1>1, <1>3, <2>4, <2>5 DEF TypeOK
<1>7. Numbering'
  BY <1>1 DEF Numbering, UniqueNumbers, NoGaps, NumTaken, Committed
<1>8. ParentsAreOlder'
  BY <1>1, <1>3, <1>4 DEF ParentsAreOlder, Pending, Committed, TypeOK
<1>9. CallsInProgress'
  <2> SUFFICES ASSUME NEW q \in Session PROVE CallInProgress(q)'
    BY DEF CallsInProgress
  <2>1. CASE q = p
    BY <1>2, <2>1 DEF CallInProgress, Idle
  <2>2. CASE q # p
    <3>1. tx'[q] = tx[q] /\ CallInProgress(q)
      BY <1>2, <2>2 DEF CallsInProgress
    <3>2. tx[q].stage \in {"checked", "numbered", "written"} =>
            tx[q].id \in Id \ {new} /\ tx[q].id \in 1 .. new
      <4>1. tx[q].id \in Id /\ seq \in Int
        BY TxTyped, IdFacts DEF TypeOK
      <4> QED
        BY <3>1, <4>1 DEF CallInProgress
    <3>3. tx[q].stage = "resuming" => \A c \in Id : pid'[c] # q
      BY <1>1, <1>3, <1>4, <2>2, <3>1 DEF CallInProgress, TypeOK
    <3> QED
      BY <1>1, <1>4, <3>1, <3>2, <3>3
      DEF CallInProgress, Current, Pending, Committed, NumTaken
  <2> QED
    BY <2>1, <2>2
<1>10. PromisesDistinct'
  BY <1>2 DEF PromisesDistinct, Idle
<1> QED
  BY <1>5, <1>6, <1>7, <1>8, <1>9, <1>10

\* resumeChangeset, detach and abort: one row c changes hands; it is no row
\* that a transaction in its last stage has already deleted.
LEMMA RowStep ==
    ASSUME IInv, TypeOK', NEW p \in Session, NEW c \in Id,
           Pending(c), ~RowLocked(c), pid'[c] \in {p, Nobody}, tx'[p].stage = "idle",
           UNCHANGED <<num, parentrevision, seq>>,
           \A d \in Id \ {c} : status'[d] = status[d] /\ pid'[d] = pid[d],
           pid'[c] = p => \A d \in Id \ {c} : pid[d] # p,
           status'[c] = "INPROGRESS" <=> pid'[c] # Nobody,
           \A q \in Session : tx'[q] = tx[q] \/ tx'[q] = Idle
    PROVE  IInv'
<1> USE DEF IInv
<1>0. \A d \in Id : Pending(d)' => Pending(d)
  BY DEF Pending
<1>1. RowsInUse' /\ ParentsAreOlder'
  <2>1. \A d \in Id : Committed(d)' <=> Committed(d)
    BY DEF Committed
  <2>2. RowsInUse'
    BY <1>0, <2>1, IdFacts DEF RowsInUse
  <2>3. ParentsAreOlder'
    BY <1>0, <2>1 DEF ParentsAreOlder, TypeOK
  <2> QED
    BY <2>2, <2>3
<1>5. ChangesetRows'
  <2>1. \A d, e \in Id : pid'[d] = pid'[e] /\ pid'[d] # Nobody => d = e
    BY DEF ChangesetRows
  <2>2. \A d \in Id : status'[d] = "INPROGRESS" <=> pid'[d] # Nobody
    BY DEF ChangesetRows
  <2>3. \A d \in Id : Pending(d)' => ~Committed(d)' /\ d <= seq'
    BY DEF ChangesetRows, Pending, Committed
  <2> QED
    BY <2>1, <2>2, <2>3 DEF ChangesetRows
<1>2. Numbering'
  BY DEF Numbering, UniqueNumbers, NoGaps, NumTaken, Committed
<1>3. CallsInProgress'
  <2> SUFFICES ASSUME NEW q \in Session PROVE CallInProgress(q)'
    BY DEF CallsInProgress
  <2>1. CASE tx'[q] = Idle
    BY <2>1 DEF CallInProgress, Idle
  <2>2. CASE tx'[q] = tx[q]
    <3>1. tx[q].stage = "written" => tx[q].id \in Id \ {c}
      BY DEF RowLocked, TypeOK, Tx
    <3>2. tx[q].stage = "resuming" => \A d \in Id : pid'[d] # q
      BY <2>2, ConstantsAssumption DEF CallsInProgress, CallInProgress
    <3> QED
      BY <2>2, <3>1, <3>2 DEF CallsInProgress, CallInProgress, Current, Pending,
         Committed, NumTaken
  <2> QED
    BY <2>1, <2>2
<1>4. PromisesDistinct'
  BY DEF PromisesDistinct, Idle
<1> QED
  BY <1>1, <1>2, <1>3, <1>4, <1>5

\* The end of a commit: the changeset's row turns into the newest revision.
LEMMA CommitFacts ==
    ASSUME IInv, NEW p \in Session, CommitTransaction(p)
    PROVE  LET c == tx[p].id
               n == tx[p].num
           IN  /\ c \in Id \ {0} /\ c <= seq /\ n \in Nat
               /\ Pending(c) /\ pid[c] = p /\ ~Committed(c)
               /\ parentrevision[c] \in Id \ {c} /\ Committed(parentrevision[c])
               /\ num[parentrevision[c]] < n
               /\ num' = [num EXCEPT ![c] = n]
               /\ \A i \in Id : num[i] < n
               /\ \A i \in Id \ {c} : num'[i] = num[i]
               /\ num'[c] = n
               /\ NumTaken(n - 1)
<1> DEFINE c == tx[p].id
           n == tx[p].num
<1> USE DEF IInv
<1>1. c \in Id /\ n \in Nat /\ seq \in Nat /\ parentrevision[c] \in Id
  BY TxTyped, IdFacts DEF TypeOK
<1>2. /\ c \in 1 .. seq /\ Current(p, c) /\ ~NumTaken(n) /\ NumTaken(n - 1)
      /\ Committed(parentrevision[c]) /\ num[parentrevision[c]] < n
  BY <1>1 DEF CommitTransaction, At, CallsInProgress, CallInProgress, TypeOK
<1>3. Pending(c) /\ pid[c] = p /\ ~Committed(c) /\ parentrevision[c] # c
  BY <1>1, <1>2 DEF Current, ChangesetRows
<1>4. ASSUME NEW i \in Id PROVE num[i] < n
  <2>1. num[i] \in Nat /\ n \notin 1 .. num[i] /\ n # num[i]
    BY <1>2 DEF Numbering, NoGaps, NumTaken, TypeOK
  <2>2. num[parentrevision[c]] \in Nat /\ num[parentrevision[c]] < n
    BY <1>1, <1>2 DEF TypeOK
  <2> QED
    BY <1>1, <2>1, <2>2
<1>5. /\ num' = [num EXCEPT ![c] = n] /\ num'[c] = n
      /\ \A i \in Id \ {c} : num'[i] = num[i]
  BY <1>1 DEF CommitTransaction, TypeOK
<1> QED
  BY <1>1, <1>2, <1>3, <1>4, <1>5

LEMMA CommitStep ==
    ASSUME IInv, TypeOK', NEW p \in Session, CommitTransaction(p)
    PROVE  IInv'
<1> USE DEF IInv
<1>0. PICK c \in Id, n \in Nat : c = tx[p].id /\ n = tx[p].num
  BY TxTyped
<1>1. /\ c \in Id \ {0} /\ c <= seq /\ n \in Nat
      /\ Pending(c) /\ pid[c] = p /\ ~Committed(c)
      /\ parentrevision[c] \in Id \ {c} /\ Committed(parentrevision[c])
      /\ num[parentrevision[c]] < n
      /\ \A i \in Id : num[i] \in Nat /\ num[i] < n
      /\ \A i \in Id \ {c} : num'[i] = num[i]
      /\ num'[c] = n /\ NumTaken(n - 1)
  BY <1>0, CommitFacts DEF TypeOK
<1>2. /\ status'[c] = "NONE" /\ pid'[c] = Nobody
      /\ \A i \in Id \ {c} : status'[i] = status[i] /\ pid'[i] = pid[i]
      /\ UNCHANGED <<parentrevision, seq>>
      /\ tx'[p] = Idle /\ \A q \in Session \ {p} : tx'[q] = tx[q]
  BY <1>0, <1>1 DEF CommitTransaction, TypeOK
<1>3. /\ \A i \in Id \ {c} : Committed(i)' <=> Committed(i)
      /\ \A i \in Id : Pending(i)' => i # c /\ Pending(i)
      /\ n > 0 /\ Committed(c)'
      /\ \A i \in Id : Committed(i) => i # c
  <2>1. n > 0
    BY <1>1
  <2>2. Committed(c)' /\ \A i \in Id \ {c} : Committed(i)' <=> Committed(i)
    BY <1>1, <2>1 DEF Committed
  <2>3. \A i \in Id : Pending(i)' => i # c /\ Pending(i)
    BY <1>2 DEF Pending
  <2> QED
    BY <1>1, <2>1, <2>2, <2>3
<1>4. RowsInUse'
  BY <1>1, <1>2, <1>3, IdFacts DEF RowsInUse, TypeOK
<1>5. ChangesetRows'
  <2>1. \A d, e \in Id : pid'[d] = pid'[e] /\ pid'[d] # Nobody => d = e
    BY <1>2 DEF ChangesetRows
  <2>2. \A d \in Id : status'[d] = "INPROGRESS" <=> pid'[d] # Nobody
    BY <1>2 DEF ChangesetRows
  <2>3. \A d \in Id : Pending(d)' => ~Committed(d)' /\ d <= seq'
    BY <1>2, <1>3 DEF ChangesetRows
  <2> QED
    BY <2>1, <2>2, <2>3 DEF ChangesetRows
<1>6. Numbering'
  <2>1. UniqueNumbers'
    BY <1>1, <1>3 DEF Numbering, UniqueNumbers
  <2>2. \A m \in Nat \ {0} : NumTaken(m) => NumTaken(m)'
    BY <1>1, <1>3 DEF NumTaken, Committed
  <2>3. NumTaken(n)'
    BY <1>1 DEF NumTaken
  <2>4. \A m \in 1 .. n : NumTaken(m)'
    <3> SUFFICES ASSUME NEW m \in 1 .. n, m # n PROVE NumTaken(m)'
      BY <2>3
    <3>1. PICK i \in Id : num[i] = n - 1
      BY <1>1 DEF NumTaken
    <3>2. m \in 1 .. num[i] /\ m \in Nat \ {0}
      BY <1>1, <3>1
    <3> QED
      BY <2>2, <3>2 DEF Numbering, NoGaps
  <2>5. NoGaps'
    <3> SUFFICES ASSUME NEW i \in Id, NEW m \in 1 .. num'[i] PROVE NumTaken(m)'
      BY DEF NoGaps
    <3>1. CASE i = c
      BY <1>1, <2>4, <3>1
    <3>2. CASE i # c
      <4>1. m \in 1 .. num[i] /\ m \in Nat \ {0}
        BY <1>1, <3>2
      <4> QED
        BY <2>2, <4>1 DEF Numbering, NoGaps
    <3> QED
      BY <3>1, <3>2
  <2> QED
    BY <2>1, <2>5 DEF Numbering
<1>7. ParentsAreOlder'
  BY <1>1, <1>2, <1>3 DEF ParentsAreOlder, TypeOK
<1>8. CallsInProgress'
  <2> SUFFICES ASSUME NEW q \in Session PROVE CallInProgress(q)'
    BY DEF CallsInProgress
  <2>1. CASE q = p
    BY <1>2, <2>1 DEF CallInProgress, Idle
  <2>2. CASE q # p
    <3>0. PICK t \in Tx : t = tx[q]
      BY DEF TypeOK
    <3>1. tx'[q] = t /\ CallInProgress(q) /\ t.id \in Id /\ t.num \in Nat
      BY <1>2, <2>2, <3>0, TxTyped DEF CallsInProgress
    <3>2. \A m \in Nat : NumTaken(m) /\ m # 0 => NumTaken(m)'
      BY <1>1, <1>3 DEF NumTaken, Committed
    <3>3. \A i \in Id : Committed(i) => Committed(i)' /\ num'[i] = num[i]
      BY <1>1, <1>3
    <3>9. t.stage = "resuming" => \A i \in Id : pid'[i] # q
      BY <1>2, <3>0, <3>1, ConstantsAssumption DEF CallInProgress
    <3>4. t.stage = "starting" => Committed(t.id)'
      BY <3>0, <3>1, <3>3 DEF CallInProgress
    <3>5. t.stage \in {"checked", "numbered", "written"} =>
            t.id \in 1 .. seq /\ Committed(parentrevision[t.id])'
            /\ num'[parentrevision[t.id]] = num[parentrevision[t.id]]
      <4> SUFFICES ASSUME t.stage \in {"checked", "numbered", "written"}
                   PROVE  /\ t.id \in 1 .. seq /\ Committed(parentrevision[t.id])'
                          /\ num'[parentrevision[t.id]] = num[parentrevision[t.id]]
        OBVIOUS
      <4>1. /\ t.id \in 1 .. seq /\ Committed(parentrevision[t.id])
            /\ parentrevision[t.id] \in Id
        BY <3>0, <3>1 DEF CallInProgress, TypeOK
      <4> QED
        BY <1>2, <3>3, <4>1 DEF Committed
    <3>6. t.stage \in {"numbered", "written"} =>
            t.num > num[parentrevision[t.id]] /\ NumTaken(t.num - 1)'
      <4> SUFFICES ASSUME t.stage \in {"numbered", "written"}
                   PROVE  t.num > num[parentrevision[t.id]] /\ NumTaken(t.num - 1)'
        OBVIOUS
      <4>1. /\ t.num > num[parentrevision[t.id]] /\ NumTaken(t.num - 1)
            /\ num[parentrevision[t.id]] \in Nat /\ num[parentrevision[t.id]] # 0
        BY <3>0, <3>1 DEF CallInProgress, TypeOK, Committed
      <4>2. t.num - 1 \in Nat /\ t.num - 1 # 0
        BY <3>1, <4>1
      <4> QED
        BY <3>2, <4>1, <4>2
    <3>7. t.stage = "written" => Current(q, t.id)' /\ ~NumTaken(t.num)'
      <4> SUFFICES ASSUME t.stage = "written"
                   PROVE  Current(q, t.id)' /\ ~NumTaken(t.num)'
        OBVIOUS
      <4>1. Current(q, t.id) /\ ~NumTaken(t.num)
        BY <3>0, <3>1 DEF CallInProgress
      <4>2. t.id # c
        BY <1>1, <2>2, <4>1 DEF Current
      <4>3. t.num # n
        BY <1>0, <2>2, <3>0 DEF PromisesDistinct, CommitTransaction, At
      <4> QED
        BY <1>1, <1>2, <3>1, <4>1, <4>2, <4>3 DEF Current, Pending, NumTaken
    <3> QED
      BY <1>2, <3>1, <3>4, <3>5, <3>6, <3>7, <3>9 DEF CallInProgress
  <2> QED
    BY <2>1, <2>2
<1>9. PromisesDistinct'
  BY <1>2 DEF PromisesDistinct, Idle
<1> QED
  BY <1>4, <1>5, <1>6, <1>7, <1>8, <1>9

\* An idle or reading session's own row is not being deleted.
LEMMA OwnRowFree ==
    ASSUME IInv, NEW p \in Session, NEW c \in Id, Current(p, c),
           tx[p].stage # "written"
    PROVE  ~RowLocked(c)
BY DEF IInv, RowLocked, CallsInProgress, CallInProgress, Current

LEMMA CurrentFacts ==
    ASSUME IInv, NEW p \in Session, NEW c \in Id, Current(p, c)
    PROVE  /\ c \in 1 .. seq /\ parentrevision[c] \in Id
           /\ Committed(parentrevision[c]) /\ num[parentrevision[c]] \in Nat
<1>1. Pending(c) /\ c # 0 /\ c \in Nat /\ seq \in Nat /\ c <= seq
  BY IdFacts DEF IInv, RowsInUse, ChangesetRows, Current, TypeOK
<1>2. parentrevision[c] \in Id /\ num[parentrevision[c]] \in Nat
  BY DEF IInv, TypeOK
<1> QED
  BY <1>1, <1>2 DEF IInv, ParentsAreOlder

\* The number max(num) + 1 that a commit takes is above its parent's.
LEMMA NumberStep ==
    ASSUME IInv, TypeOK', UNCHANGED <<num, status, pid, parentrevision, seq>>,
           NEW p \in Session, NEW c \in Id, NEW r \in Id, NEW b \in BOOLEAN,
           Current(p, c), IsNewest(r), SetTx(p, "numbered", b, c, num[r] + 1)
    PROVE  IInv'
<1>1. num[r] \in Nat
  BY DEF IInv, TypeOK
<1>2. PICK n \in Nat : n = num[r] + 1
  BY <1>1
<1>3. /\ tx'[p] = [stage |-> "numbered", restoring |-> b, id |-> c, num |-> n]
      /\ \A q \in Session \ {p} : tx'[q] = tx[q]
  BY <1>2, SetTxTyped DEF IInv, Stage
<1>4. /\ c \in 1 .. seq /\ Committed(parentrevision[c])
      /\ n > num[parentrevision[c]]
  BY <1>1, <1>2, CurrentFacts DEF IsNewest
<1>5. n - 1 = num[r]
  BY <1>1, <1>2
<1>6. CallInProgress(p)'
  BY <1>3, <1>4, <1>5 DEF CallInProgress, Committed, NumTaken
<1> QED
  BY <1>3, <1>6, CallStep

LEMMA IInvStep == IInv /\ [Next]_vars => IInv'
<1> SUFFICES ASSUME IInv, [Next]_vars PROVE IInv'
  OBVIOUS
<1> USE DEF IInv
<1>0. TypeOK'
  BY TypeOKStep
<1>1. CASE UNCHANGED vars
  BY <1>0, <1>1, QuietStep DEF vars
<1>2. ASSUME NEW p \in Session, Connect(p) PROVE IInv'
  BY <1>0, <1>2, QuietStep DEF Connect
<1>3. ASSUME NEW p \in Session, Disconnect(p) PROVE IInv'
  <2>1. \A q \in Session : tx'[q] = tx[q] \/ tx'[q] = Idle
    BY <1>3 DEF Disconnect, TypeOK
  <2> QED
    BY <1>0, <1>3, <2>1, QuietStep DEF Disconnect
<1>4. ASSUME NEW p \in Session, StartRead(p) PROVE IInv'
  <2>1. PICK r \in Id : Committed(r) /\ SetTx(p, "starting", FALSE, r, 0)
    BY <1>4 DEF StartRead, IsNewest
  <2>2. /\ tx'[p] = [stage |-> "starting", restoring |-> FALSE, id |-> r, num |-> 0]
        /\ \A q \in Session \ {p} : tx'[q] = tx[q]
    BY <1>4, <2>1 DEF SetTx, TypeOK
  <2>3. UNCHANGED <<num, status, pid, parentrevision, seq>>
    BY <1>4 DEF StartRead
  <2>4. CallInProgress(p)'
    BY <2>1, <2>2, <2>3 DEF CallInProgress, Committed
  <2> QED
    BY <1>0, <1>4, <2>2, <2>3, <2>4, CallStep
<1>5. ASSUME NEW p \in Session, StartInsert(p) PROVE IInv'
  BY <1>0, <1>5, StartInsertStep
<1>6. ASSUME NEW p \in Session, NEW c \in Id, NEW r \in Id, ResumeLock(p, c, r)
      PROVE IInv'
  <2>1. SetTx(p, "resuming", FALSE, c, 0)
    BY <1>6 DEF ResumeLock
  <2>2. /\ tx'[p] = [stage |-> "resuming", restoring |-> FALSE, id |-> c, num |-> 0]
        /\ \A q \in Session \ {p} : tx'[q] = tx[q]
    BY <1>6, <2>1 DEF SetTx, TypeOK
  <2>3. UNCHANGED <<num, status, pid, parentrevision, seq>>
    BY <1>6 DEF ResumeLock
  <2>4. \A d \in Id : pid[d] # p
    BY <1>6, NotAttached DEF ResumeLock
  <2>5. CallInProgress(p)'
    BY <2>2, <2>3, <2>4 DEF CallInProgress
  <2> QED
    BY <1>0, <1>6, <2>2, <2>3, <2>5, CallStep
<1>7. ASSUME NEW p \in Session, ResumeAttach(p) PROVE IInv'
  <2>0. PICK c \in Id : c = tx[p].id
    BY <1>7, TxTyped
  <2>1. Pending(c) /\ ~RowLocked(c) /\ UNCHANGED <<num, parentrevision, seq>>
    BY <1>7, <2>0 DEF ResumeAttach
  <2>2. /\ status'[c] = "INPROGRESS" /\ pid'[c] = p
        /\ \A d \in Id \ {c} : status'[d] = status[d] /\ pid'[d] = pid[d]
        /\ \A q \in Session : tx'[q] = tx[q] \/ tx'[q] = Idle
    BY <1>7, <2>0 DEF ResumeAttach, TypeOK
  <2>3. p # Nobody
    BY <1>7, ConstantsAssumption
  <2>4. \A d \in Id : pid[d] # p
    BY <1>7 DEF ResumeAttach, At, CallsInProgress, CallInProgress
  <2>5. tx'[p].stage = "idle"
    BY <1>7 DEF ResumeAttach, TypeOK, Idle
  <2> QED
    BY <1>0, <1>7, <2>1, <2>2, <2>3, <2>4, <2>5, RowStep
<1>8. ASSUME NEW p \in Session, ResumeNotFound(p) PROVE IInv'
  <2>1. \A q \in Session : tx'[q] = tx[q] \/ tx'[q] = Idle
    BY <1>8 DEF ResumeNotFound, TypeOK
  <2> QED
    BY <1>0, <1>8, <2>1, QuietStep DEF ResumeNotFound
<1>9. ASSUME NEW p \in Session, NEW c \in Id,
             DetachFromCurrentChangeset(p, c) \/ AbortCurrentChangeset(p, c)
      PROVE  IInv'
  <2>1. /\ Current(p, c) /\ tx[p].stage = "idle"
        /\ UNCHANGED <<num, parentrevision, seq, tx>>
    BY <1>9 DEF DetachFromCurrentChangeset, AbortCurrentChangeset, Ready
  <2>2. /\ status'[c] # "INPROGRESS" /\ pid'[c] = Nobody
        /\ \A d \in Id \ {c} : status'[d] = status[d] /\ pid'[d] = pid[d]
    BY <1>9 DEF DetachFromCurrentChangeset, AbortCurrentChangeset, TypeOK
  <2>3. Pending(c) /\ ~RowLocked(c)
    BY <1>9, <2>1, OwnRowFree DEF Current
  <2> QED
    BY <1>0, <1>9, <2>1, <2>2, <2>3, ConstantsAssumption, RowStep
<1>10. ASSUME NEW p \in Session, NEW c \in Id,
              LockCurrentChangeset(p, c) \/ UnlockCurrentChangeset(p, c)
       PROVE  IInv'
  BY <1>0, <1>10, QuietStep DEF LockCurrentChangeset, UnlockCurrentChangeset
<1>11. ASSUME NEW p \in Session, NEW c \in Id, CommitCheck(p, c) PROVE IInv'
  <2>1. PICK r \in Id : IsNewest(r) /\ SetTx(p, "numbered", FALSE, c, num[r] + 1)
    BY <1>11 DEF CommitCheck
  <2>2. Current(p, c) /\ UNCHANGED <<num, status, pid, parentrevision, seq>>
    BY <1>11 DEF CommitCheck
  <2> QED
    BY <1>0, <1>11, <2>1, <2>2, NumberStep
<1>12. ASSUME NEW p \in Session, NEW c \in Id, RestoreCheck(p, c) PROVE IInv'
  <2>1. SetTx(p, "checked", TRUE, c, 0) /\ Current(p, c)
    BY <1>12 DEF RestoreCheck
  <2>2. /\ tx'[p] = [stage |-> "checked", restoring |-> TRUE, id |-> c, num |-> 0]
        /\ \A q \in Session \ {p} : tx'[q] = tx[q]
    BY <1>12, <2>1 DEF SetTx, TypeOK
  <2>3. UNCHANGED <<num, status, pid, parentrevision, seq>>
    BY <1>12 DEF RestoreCheck
  <2>4. c \in 1 .. seq /\ Committed(parentrevision[c])
    BY <1>12, <2>1, CurrentFacts
  <2>5. CallInProgress(p)'
    BY <2>2, <2>3, <2>4 DEF CallInProgress, Committed
  <2> QED
    BY <1>0, <1>12, <2>2, <2>3, <2>5, CallStep
<1>13. ASSUME NEW p \in Session, RestoreNumber(p) PROVE IInv'
  <2>0. PICK c \in Id : c = tx[p].id
    BY <1>13, TxTyped
  <2>1. PICK r \in Id : IsNewest(r) /\ SetTx(p, "numbered", TRUE, c, num[r] + 1)
    BY <1>13, <2>0 DEF RestoreNumber
  <2>2. Current(p, c) /\ UNCHANGED <<num, status, pid, parentrevision, seq>>
    BY <1>13, <2>0 DEF RestoreNumber
  <2> QED
    BY <1>0, <1>13, <2>1, <2>2, NumberStep
<1>14. ASSUME NEW p \in Session, WriteVersion(p) PROVE IInv'
  <2>1. /\ tx'[p] = [tx[p] EXCEPT !.stage = "written"]
        /\ \A q \in Session \ {p} : tx'[q] = tx[q]
        /\ UNCHANGED <<num, status, pid, parentrevision, seq>>
    BY <1>14 DEF WriteVersion, TypeOK
  <2>2. tx'[p].stage = "written" /\ tx'[p].id = tx[p].id /\ tx'[p].num = tx[p].num
    BY <1>14, <2>1 DEF TypeOK, Tx
  <2>3. /\ tx[p].stage = "numbered" /\ Current(p, tx[p].id)
        /\ ~NumPromised(p, tx[p].num) /\ ~NumTaken(tx[p].num)
    BY <1>14 DEF WriteVersion, At
  <2>4. CallInProgress(p)'
    BY <1>14, <2>1, <2>2, <2>3
    DEF CallsInProgress, CallInProgress, Committed, NumTaken, Current, Pending
  <2> QED
    BY <1>0, <1>14, <2>1, <2>2, <2>3, <2>4, CallStep
<1>15. ASSUME NEW p \in Session, CommitConflict(p) \/ CommitRollback(p) PROVE IInv'
  <2>1. \A q \in Session : tx'[q] = tx[q] \/ tx'[q] = Idle
    BY <1>15 DEF CommitConflict, CommitRollback, TypeOK
  <2> QED
    BY <1>0, <1>15, <2>1, QuietStep DEF CommitConflict, CommitRollback
<1>16. ASSUME NEW p \in Session, CommitTransaction(p) PROVE IInv'
  BY <1>0, <1>16, CommitStep
<1> QED
  BY <1>1, <1>2, <1>3, <1>4, <1>5, <1>6, <1>7, <1>8, <1>9, <1>10, <1>11,
     <1>12, <1>13, <1>14, <1>15, <1>16 DEF Next

\* The invariant that carries the numbering of revisions across the
\* interleavings of the commits, restoringCommit included.
THEOREM IInvariant == Spec => []IInv
BY IInvInit, IInvStep, PTL DEF Spec

\* Revision numbers are 1 .. n, each used once (create_version's max(num) + 1
\* under version_num_unique), however many sessions commit at a time.
THEOREM RevisionNumbering == Spec => []Numbering
<1>1. IInv => Numbering
  BY DEF IInv
<1> QED
  BY <1>1, IInvariant, PTL

\* No changeset has an uncommitted parent and no revision a newer one.
THEOREM ParentsOlder == Spec => []ParentsAreOlder
<1>1. IInv => ParentsAreOlder
  BY DEF IInv
<1> QED
  BY <1>1, IInvariant, PTL

-----------------------------------------------------------------------------
(* Linear history: no session runs restoringCommit *)

LEMMA LinearInvInit == Init => LinearInv
<1> SUFFICES ASSUME Init PROVE LinearInv
  OBVIOUS
<1>1. IInv
  BY IInvInit
<1>2. \A p \in Session : NumberedAfterParent(p)
  BY DEF Init, NumberedAfterParent, Idle
<1>3. IdsInNumOrder /\ LinearHistory
  BY IdFacts DEF Init, IdsInNumOrder, LinearHistory, Committed
<1> QED
  BY <1>1, <1>2, <1>3 DEF LinearInv

\* A step that commits nothing, and gives a parent to unused ids only.
LEMMA NothingCommitted ==
    ASSUME LinearInv, IInv', num' = num,
           \A c \in Id \ {0} : parentrevision'[c] < c,
           \A c \in Id : c <= seq => parentrevision'[c] = parentrevision[c]
    PROVE  /\ IdsInNumOrder' /\ LinearHistory'
           /\ \A q \in Session :
                 tx'[q] = tx[q] \/ tx'[q] = Idle => NumberedAfterParent(q)'
<1> USE DEF LinearInv, IInv
<1>1. IdsInNumOrder'
  BY DEF IdsInNumOrder, Committed
<1>2. \A c \in Id : Committed(c) => c <= seq
  BY IdFacts DEF RowsInUse, TypeOK
<1>3. LinearHistory'
  BY <1>2 DEF LinearHistory, Committed
<1>4. ASSUME NEW q \in Session, tx'[q] = tx[q] PROVE NumberedAfterParent(q)'
  <2>1. tx[q].stage \in {"numbered", "written"} => tx[q].id \in Id /\ tx[q].id <= seq
    BY TxTyped, IdFacts DEF CallsInProgress, CallInProgress, TypeOK
  <2> QED
    BY <1>4, <2>1 DEF NumberedAfterParent
<1>5. ASSUME NEW q \in Session, tx'[q] = Idle PROVE NumberedAfterParent(q)'
  BY <1>5 DEF NumberedAfterParent, Idle
<1> QED
  BY <1>1, <1>3, <1>4, <1>5

\* The parent that passes the check of commit_all carries max(num).
LEMMA ParentIsNewest ==
    ASSUME LinearInv, NEW c \in Id, NEW r \in Id,
           ParentIsCurrent(c), IsNewest(r)
    PROVE  parentrevision[c] = r
<1> DEFINE q == parentrevision[c]
<1>1. q \in Id /\ Committed(q) /\ Committed(r) /\ r <= q /\ num[q] <= num[r]
  BY DEF ParentIsCurrent, IsMaxId, IsNewest, LinearInv, IInv, TypeOK
<1>2. r < q => num[r] < num[q]
  BY <1>1 DEF LinearInv, IdsInNumOrder
<1>3. num[q] \in Nat /\ num[r] \in Nat /\ q \in Nat /\ r \in Nat
  BY <1>1, IdFacts DEF LinearInv, IInv, TypeOK
<1> QED
  BY <1>1, <1>2, <1>3

\* The end of a commit puts the next number on the largest id.
LEMMA LinearCommitStep ==
    ASSUME LinearInv, IInv', NEW p \in Session, CommitTransaction(p)
    PROVE  LinearInv'
<1> USE DEF LinearInv, IInv
<1>0. PICK c \in Id, n \in Nat : c = tx[p].id /\ n = tx[p].num
  BY TxTyped
<1>1. /\ c # 0 /\ ~Committed(c) /\ parentrevision[c] \in Id \ {c}
      /\ Committed(parentrevision[c])
      /\ \A i \in Id : num[i] \in Nat /\ num[i] < n
      /\ \A i \in Id \ {c} : num'[i] = num[i]
      /\ num'[c] = n
  BY <1>0, CommitFacts DEF TypeOK
<1>2. n = num[parentrevision[c]] + 1
  BY <1>0 DEF NumberedAfterParent, CommitTransaction, At
<1>3. parentrevision' = parentrevision /\ \A i \in Id \ {c} : Committed(i)' <=> Committed(i)
  BY <1>1 DEF CommitTransaction, Committed
<1>4. \A i \in Id : Committed(i) => i < c
  <2> SUFFICES ASSUME NEW i \in Id, Committed(i) PROVE i < c
    OBVIOUS
  <2>1. num[i] <= num[parentrevision[c]]
    BY <1>1, <1>2
  <2>2. parentrevision[c] < i => num[parentrevision[c]] < num[i]
    BY <1>1 DEF IdsInNumOrder
  <2>3. parentrevision[c] < c
    BY <1>1 DEF IdsInNumOrder
  <2>4. /\ i \in Nat /\ c \in Nat /\ parentrevision[c] \in Nat
        /\ num[i] \in Nat /\ num[parentrevision[c]] \in Nat
    BY <1>1, IdFacts
  <2> QED
    BY <2>1, <2>2, <2>3, <2>4
<1>5. IdsInNumOrder'
  <2>1. \A i, j \in Id : Committed(i)' /\ Committed(j)' /\ i < j => num'[i] < num'[j]
    <3> SUFFICES ASSUME NEW i \in Id, NEW j \in Id, Committed(i)', Committed(j)', i < j
                 PROVE  num'[i] < num'[j]
      OBVIOUS
    <3>1. CASE i # c /\ j # c
      BY <1>1, <1>3, <3>1 DEF IdsInNumOrder
    <3>2. CASE i = c
      <4>1. j # c /\ Committed(j)
        BY <1>3, <3>2, IdFacts
      <4> QED
        BY <1>4, <3>2, <4>1, IdFacts
    <3>3. CASE i # c /\ j = c
      BY <1>1, <3>3
    <3> QED
      BY <3>1, <3>2, <3>3
  <2> QED
    BY <1>3, <2>1 DEF IdsInNumOrder
<1>6. LinearHistory'
  <2> SUFFICES ASSUME NEW d \in Id \ {0}, Committed(d)'
               PROVE  num'[d] = num'[parentrevision[d]] + 1
    BY <1>3 DEF LinearHistory
  <2>1. CASE d = c
    BY <1>1, <1>2, <2>1
  <2>2. CASE d # c
    <3>1. Committed(d) /\ Committed(parentrevision[d]) /\ parentrevision[d] \in Id
      BY <1>3, <2>2 DEF ParentsAreOlder, TypeOK
    <3> QED
      BY <1>1, <2>2, <3>1 DEF LinearHistory
  <2> QED
    BY <2>1, <2>2
<1>7. \A q \in Session : NumberedAfterParent(q)'
  <2> SUFFICES ASSUME NEW q \in Session PROVE NumberedAfterParent(q)'
    OBVIOUS
  <2>1. CASE q = p
    <3>1. tx'[p] = Idle
      BY DEF CommitTransaction, TypeOK
    <3> QED
      BY <2>1, <3>1 DEF NumberedAfterParent, Idle
  <2>2. CASE q # p
    <3>1. tx'[q] = tx[q] /\ tx[q].id \in Id
      BY <2>2, TxTyped DEF CommitTransaction, TypeOK
    <3>2. tx[q].stage \in {"numbered", "written"} =>
            /\ parentrevision[tx[q].id] \in Id
            /\ Committed(parentrevision[tx[q].id])
      BY <3>1 DEF CallsInProgress, CallInProgress, TypeOK
    <3> QED
      BY <1>1, <1>3, <3>1, <3>2 DEF NumberedAfterParent
  <2> QED
    BY <2>1, <2>2
<1> QED
  BY <1>5, <1>6, <1>7

LEMMA LinearInvStep == Restorer = {} /\ LinearInv /\ [Next]_vars => LinearInv'
<1> SUFFICES ASSUME Restorer = {}, LinearInv, [Next]_vars PROVE LinearInv'
  OBVIOUS
<1> USE DEF LinearInv, IInv
<1>0. IInv' /\ TypeOK'
  BY IInvStep
<1>1. ASSUME UNCHANGED <<num, parentrevision>>,
             \A q \in Session : NumberedAfterParent(q)'
      PROVE  LinearInv'
  BY <1>0, <1>1, NothingCommitted DEF IdsInNumOrder
<1>2. ASSUME UNCHANGED <<num, parentrevision>>,
             \A q \in Session : tx'[q] = tx[q] \/ tx'[q] = Idle
      PROVE  LinearInv'
  BY <1>0, <1>1, <1>2, NothingCommitted DEF IdsInNumOrder
<1>3. CASE UNCHANGED vars
  BY <1>2, <1>3 DEF vars
<1>4. ASSUME NEW p \in Session,
             \/ Connect(p) \/ Disconnect(p) \/ ResumeAttach(p) \/ ResumeNotFound(p)
             \/ CommitConflict(p) \/ CommitRollback(p)
      PROVE  LinearInv'
  <2>1. \A q \in Session : tx'[q] = tx[q] \/ tx'[q] = Idle
    BY <1>4 DEF Connect, Disconnect, ResumeAttach, ResumeNotFound,
       CommitConflict, CommitRollback, TypeOK
  <2>2. UNCHANGED <<num, parentrevision>>
    BY <1>4 DEF Connect, Disconnect, ResumeAttach, ResumeNotFound,
       CommitConflict, CommitRollback
  <2> QED
    BY <1>2, <2>1, <2>2
<1>5. ASSUME NEW p \in Session, NEW c \in Id,
             \/ DetachFromCurrentChangeset(p, c) \/ AbortCurrentChangeset(p, c)
             \/ LockCurrentChangeset(p, c) \/ UnlockCurrentChangeset(p, c)
      PROVE  LinearInv'
  BY <1>2, <1>5 DEF DetachFromCurrentChangeset, AbortCurrentChangeset,
     LockCurrentChangeset, UnlockCurrentChangeset
<1>6. ASSUME NEW p \in Session, NEW stage \in {"starting", "resuming"}, NEW i \in Id,
             SetTx(p, stage, FALSE, i, 0), UNCHANGED <<num, parentrevision>>
      PROVE  LinearInv'
  <2>1. /\ tx'[p] = [stage |-> stage, restoring |-> FALSE, id |-> i, num |-> 0]
        /\ \A q \in Session \ {p} : tx'[q] = tx[q]
    BY <1>6 DEF SetTx, TypeOK
  <2>2. NumberedAfterParent(p)'
    BY <2>1 DEF NumberedAfterParent
  <2>3. \A q \in Session : NumberedAfterParent(q)'
    BY <1>0, <1>6, <2>1, <2>2, NothingCommitted DEF IdsInNumOrder
  <2> QED
    BY <1>1, <1>6, <2>3
<1>7. ASSUME NEW p \in Session, StartRead(p) PROVE LinearInv'
  BY <1>6, <1>7 DEF StartRead
<1>8. ASSUME NEW p \in Session, NEW c \in Id, NEW r \in Id, ResumeLock(p, c, r)
      PROVE  LinearInv'
  BY <1>6, <1>8 DEF ResumeLock
<1>9. ASSUME NEW p \in Session, StartInsert(p) PROVE LinearInv'
  <2>1. tx'[p] = Idle /\ \A q \in Session \ {p} : tx'[q] = tx[q]
    BY <1>9 DEF StartInsert, TypeOK
  <2>2. /\ seq + 1 \in Id /\ Committed(tx[p].id) /\ tx[p].id \in Id /\ num' = num
    <3>1. seq + 1 \in Id /\ num' = num
      BY <1>9, ConstantsAssumption DEF StartInsert, TypeOK, Id
    <3>2. Committed(tx[p].id) /\ tx[p].id \in Id
      BY <1>9, TxTyped DEF StartInsert, At, CallsInProgress, CallInProgress
    <3> QED
      BY <3>1, <3>2
  <2>3. tx[p].id < seq + 1
    <3>1. tx[p].id \in Nat /\ seq \in Nat
      BY <2>2, IdFacts DEF TypeOK
    <3>2. ~(tx[p].id > seq)
      BY <2>2 DEF RowsInUse
    <3> QED
      BY <3>1, <3>2
  <2>4. /\ \A c \in Id : c <= seq => parentrevision'[c] = parentrevision[c]
        /\ \A c \in Id \ {0} : parentrevision'[c] < c
    <3>1. CASE parentrevision' = parentrevision
      BY <3>1 DEF IdsInNumOrder
    <3>2. CASE parentrevision' = [parentrevision EXCEPT ![seq + 1] = tx[p].id]
      <4>1. \A c \in Id : c <= seq => c # seq + 1
        BY IdFacts DEF TypeOK
      <4> QED
        BY <2>2, <2>3, <3>2, <4>1 DEF IdsInNumOrder, TypeOK
    <3> QED
      BY <1>9, <3>1, <3>2 DEF StartInsert
  <2> QED
    <3>1. \A q \in Session : NumberedAfterParent(q)'
      BY <1>0, <2>1, <2>2, <2>4, NothingCommitted
    <3> QED
      BY <1>0, <2>2, <2>4, <3>1, NothingCommitted
<1>10. ASSUME NEW p \in Session, NEW c \in Id, CommitCheck(p, c) PROVE LinearInv'
  <2>1. PICK r \in Id : IsNewest(r) /\ SetTx(p, "numbered", FALSE, c, num[r] + 1)
    BY <1>10 DEF CommitCheck
  <2>2. UNCHANGED <<num, parentrevision>> /\ ParentIsCurrent(c)
    BY <1>10 DEF CommitCheck
  <2>3. /\ tx'[p] = [stage |-> "numbered", restoring |-> FALSE, id |-> c, num |-> num[r] + 1]
        /\ \A q \in Session \ {p} : tx'[q] = tx[q]
    BY <1>10, <2>1 DEF SetTx, TypeOK
  <2>4. NumberedAfterParent(p)'
    BY <2>1, <2>2, <2>3, ParentIsNewest DEF NumberedAfterParent
  <2>5. \A q \in Session : NumberedAfterParent(q)'
    BY <1>0, <2>2, <2>3, <2>4, NothingCommitted DEF IdsInNumOrder
  <2> QED
    BY <1>1, <2>2, <2>5
<1>11. ASSUME NEW p \in Session, WriteVersion(p) PROVE LinearInv'
  <2>1. /\ tx'[p] = [tx[p] EXCEPT !.stage = "written"]
        /\ \A q \in Session \ {p} : tx'[q] = tx[q]
        /\ UNCHANGED <<num, parentrevision>> /\ tx[p].stage = "numbered"
    BY <1>11 DEF WriteVersion, At, TypeOK
  <2>2. /\ tx'[p].stage = "written" /\ tx'[p].restoring = tx[p].restoring
        /\ tx'[p].id = tx[p].id /\ tx'[p].num = tx[p].num
    BY <1>11, <2>1 DEF TypeOK, Tx
  <2>3. NumberedAfterParent(p)'
    BY <1>11, <2>1, <2>2 DEF NumberedAfterParent
  <2>4. \A q \in Session : NumberedAfterParent(q)'
    BY <1>0, <2>1, <2>3, NothingCommitted DEF IdsInNumOrder
  <2> QED
    BY <1>1, <2>1, <2>4
<1>12. ASSUME NEW p \in Session, CommitTransaction(p) PROVE LinearInv'
  BY <1>0, <1>12, LinearCommitStep
<1>13. ASSUME NEW p \in Session, NEW c \in Id, RestoreCheck(p, c) PROVE LinearInv'
  BY <1>13 DEF RestoreCheck
<1>14. ASSUME NEW p \in Session, RestoreNumber(p) PROVE LinearInv'
  BY <1>14 DEF RestoreNumber, At, NumberedAfterParent
<1> QED
  BY <1>3, <1>4, <1>5, <1>7, <1>8, <1>9, <1>10, <1>11, <1>12, <1>13, <1>14 DEF Next

THEOREM LinearInvariant == Restorer = {} => (Spec => []LinearInv)
<1> SUFFICES ASSUME Restorer = {} PROVE Spec => []LinearInv
  OBVIOUS
<1>1. LinearInv /\ [Next]_vars => LinearInv'
  BY LinearInvStep
<1> QED
  BY <1>1, LinearInvInit, PTL DEF Spec

\* As long as everybody commits with commitChangeset, every revision was made
\* on top of the one numbered just before it: no commit is lost from view.
THEOREM HistoryIsLinear == Restorer = {} => (Spec => []LinearHistory)
<1>1. LinearInv => LinearHistory
  BY DEF LinearInv
<1> QED
  BY <1>1, LinearInvariant, PTL

\* ... and create_changeset's max(num) is commit_all's max(id), in whatever order
\* the changesets are committed: one that starts now can be committed, until
\* another is.
THEOREM NewestHasMaxId == Restorer = {} => (Spec => []NewestIsMaxId)
<1>1. LinearInv => NewestIsMaxId
  <2> SUFFICES ASSUME LinearInv, NEW r \in Id, IsNewest(r), NEW i \in Id, Committed(i)
               PROVE  i <= r
    BY DEF NewestIsMaxId, IsMaxId, IsNewest
  <2>1. num[i] <= num[r] /\ num[i] \in Nat /\ num[r] \in Nat /\ i \in Nat /\ r \in Nat
    BY IdFacts DEF IsNewest, LinearInv, IInv, TypeOK
  <2>2. r < i => num[r] < num[i]
    BY DEF LinearInv, IdsInNumOrder, IsNewest
  <2> QED
    BY <2>1, <2>2
<1> QED
  BY <1>1, LinearInvariant, PTL

-----------------------------------------------------------------------------
(* What a step may never do *)

\* Only startChangeset and the end of a commit touch num or parentrevision.
LEMMA HistoryFrame ==
    ASSUME IInv, [Next]_vars
    PROVE  \/ UNCHANGED <<num, parentrevision>>
           \/ \E p \in Session : StartInsert(p) \/ CommitTransaction(p)
BY ZenonT(40) DEF Next, vars, Connect, Disconnect, StartRead, ResumeLock, ResumeAttach,
   ResumeNotFound, DetachFromCurrentChangeset, AbortCurrentChangeset,
   LockCurrentChangeset, UnlockCurrentChangeset, CommitCheck, RestoreCheck,
   RestoreNumber, WriteVersion, CommitConflict, CommitRollback

\* Revisions are never renumbered, re-parented or removed, and a new one is
\* the newest: restoringCommit included.
THEOREM HistoryAppendOnly == Spec => AppendOnly
<1> DEFINE A == \A i \in Id :
                  IF Committed(i) THEN RevisionKept(i)
                  ELSE Committed(i)' => \A j \in Id \ {i} : num'[j] < num'[i]
<1>1. IInv /\ [Next]_vars => [A]_vars
  <2> SUFFICES ASSUME IInv, [Next]_vars PROVE A
    OBVIOUS
  <2>1. CASE UNCHANGED <<num, parentrevision>>
    BY <2>1 DEF RevisionKept, Committed
  <2>2. ASSUME NEW p \in Session, StartInsert(p) PROVE A
    <3>1. num' = num
      BY <2>2 DEF StartInsert
    <3>2. \A i \in Id : Committed(i) => i # seq + 1
      BY IdFacts DEF IInv, RowsInUse, TypeOK
    <3>3. \A i \in Id \ {seq + 1} : parentrevision'[i] = parentrevision[i]
      BY <2>2 DEF StartInsert, IInv, TypeOK
    <3> QED
      BY <3>1, <3>2, <3>3 DEF RevisionKept, Committed
  <2>3. ASSUME NEW p \in Session, CommitTransaction(p) PROVE A
    <3>0. PICK c \in Id, n \in Nat : c = tx[p].id /\ n = tx[p].num
      BY <2>3, TxTyped DEF IInv
    <3>1. /\ ~Committed(c) /\ num'[c] = n
          /\ \A i \in Id \ {c} : num'[i] = num[i]
          /\ \A i \in Id : num[i] < n
      BY <2>3, <3>0, CommitFacts
    <3>2. parentrevision' = parentrevision
      BY <2>3 DEF CommitTransaction
    <3> QED
      BY <3>1, <3>2 DEF RevisionKept, Committed
  <2> QED
    BY <2>1, <2>2, <2>3, HistoryFrame
<1> QED
  BY <1>1, IInvariant, PTL DEF Spec, AppendOnly

\* Only abortCurrentChangeset and the end of a commit delete a row: the row
\* of the session that runs them.
LEMMA OwnerStep ==
    ASSUME IInv, [Next]_vars, NEW c \in Id, Pending(c), ~Pending(c)'
    PROVE  OwnerEnds(c)
<1> USE DEF IInv, TypeOK
<1>1. status'[c] = "NONE" /\ status[c] # "NONE"
  BY DEF Pending
<1>2. ASSUME NEW p \in Session, StartInsert(p) \/ ResumeAttach(p)
      PROVE  status'[c] # "NONE"
  BY <1>1, <1>2 DEF StartInsert, ResumeAttach
<1>3. ASSUME NEW p \in Session, NEW d \in Id, DetachFromCurrentChangeset(p, d)
      PROVE  status'[c] # "NONE"
  BY <1>1, <1>3 DEF DetachFromCurrentChangeset
<1>4. ASSUME NEW p \in Session, NEW d \in Id, AbortCurrentChangeset(p, d)
      PROVE  OwnerEnds(c)
  <2>1. d = c
    BY <1>1, <1>4 DEF AbortCurrentChangeset
  <2>2. ~Committed(c)'
    BY <1>4 DEF AbortCurrentChangeset, ChangesetRows, Committed
  <2> QED
    BY <1>4, <2>1, <2>2 DEF AbortCurrentChangeset, Ready, Current, OwnerEnds
<1>5. ASSUME NEW p \in Session, CommitTransaction(p) PROVE OwnerEnds(c)
  <2>1. tx[p].id = c
    BY <1>1, <1>5, TxTyped DEF CommitTransaction
  <2>2. num'[c] = tx[p].num /\ pid[c] = p /\ \A i \in Id : num[i] < tx[p].num
    BY <1>5, <2>1, CommitFacts
  <2>3. Committed(c)'
    BY <2>2, IdFacts DEF Committed, RowsInUse
  <2> QED
    BY <1>5, <2>1, <2>2, <2>3 DEF CommitTransaction, At, OwnerEnds
<1>6. \/ status' = status
      \/ \E p \in Session :
           \/ StartInsert(p) \/ ResumeAttach(p) \/ CommitTransaction(p)
           \/ \E d \in Id : DetachFromCurrentChangeset(p, d) \/ AbortCurrentChangeset(p, d)
  BY DEF Next, vars, Connect, Disconnect, StartRead, ResumeLock, ResumeNotFound,
     LockCurrentChangeset, UnlockCurrentChangeset, CommitCheck, RestoreCheck,
     RestoreNumber, WriteVersion, CommitConflict, CommitRollback
<1> QED
  BY <1>1, <1>2, <1>3, <1>4, <1>5, <1>6

\* A session that lost its changeset to a resumeChangeset, even in the middle
\* of a commit, can no longer remove or commit it.
THEOREM OnlyTheOwnerEnds == Spec => OnlyOwnerEnds
<1> DEFINE A == \A c \in Id : Pending(c) /\ ~Pending(c)' => OwnerEnds(c)
<1>1. IInv /\ [Next]_vars => [A]_vars
  BY OwnerStep
<1> QED
  BY <1>1, IInvariant, PTL DEF Spec, OnlyOwnerEnds

-----------------------------------------------------------------------------
(* The two tables implement the log of revisions *)

\* Ids in the order of their numbers, for any numbering f.
ByNumber(f) ==
    LET last == CHOOSE n \in {f[i] : i \in Id} : \A i \in Id : f[i] <= n
    IN  [n \in 1 .. last |-> CHOOSE i \in Id : f[i] = n]

LEMMA HistoryByNumber == History = ByNumber(num)
BY DEF History, ByNumber

\* With numbers 1 .. f[r], each used once, position and number are the same.
LEMMA ByNumberShape ==
    ASSUME NEW f \in [Id -> Nat], NEW r \in Id, \A i \in Id : f[i] <= f[r],
           \A i, j \in Id : f[i] # 0 /\ f[i] = f[j] => i = j,
           \A n \in 1 .. f[r] : \E i \in Id : f[i] = n
    PROVE  /\ ByNumber(f) \in Seq(Id) /\ Len(ByNumber(f)) = f[r]
           /\ \A n \in 1 .. f[r] : ByNumber(f)[n] \in Id /\ f[ByNumber(f)[n]] = n
           /\ \A i \in Id : f[i] # 0 => f[i] \in 1 .. f[r] /\ ByNumber(f)[f[i]] = i
<1> DEFINE last == CHOOSE n \in {f[i] : i \in Id} : \A i \in Id : f[i] <= n
           at(n) == CHOOSE i \in Id : f[i] = n
<1>1. last = f[r]
  <2>1. f[r] \in {f[i] : i \in Id} /\ \A i \in Id : f[i] <= f[r]
    OBVIOUS
  <2>2. last \in {f[i] : i \in Id} /\ \A i \in Id : f[i] <= last
    BY <2>1
  <2>3. last <= f[r] /\ f[r] <= last /\ last \in Nat /\ f[r] \in Nat
    BY <2>2
  <2> HIDE DEF last
  <2> QED
    BY <2>3
<1>2. \A n \in 1 .. f[r] : at(n) \in Id /\ f[at(n)] = n
  OBVIOUS
<1>3. ByNumber(f) = [n \in 1 .. f[r] |-> at(n)]
  BY <1>1 DEF ByNumber
<1> HIDE DEF at, last
<1>4. ByNumber(f) \in Seq(Id) /\ Len(ByNumber(f)) = f[r]
  BY <1>2, <1>3
<1>5. ASSUME NEW i \in Id, f[i] # 0
      PROVE  f[i] \in 1 .. f[r] /\ ByNumber(f)[f[i]] = i
  <2>1. f[i] \in 1 .. f[r]
    BY <1>5
  <2>2. at(f[i]) \in Id /\ f[at(f[i])] = f[i]
    BY <1>2, <2>1
  <2> QED
    BY <1>3, <1>5, <2>1, <2>2
<1> QED
  BY <1>2, <1>3, <1>4, <1>5

\* A bounded set of numbers has a greatest element: the nearest one to the bound.
LEMMA GreatestElement ==
    ASSUME NEW N \in Nat, NEW S \in SUBSET (0 .. N), S # {}
    PROVE  \E n \in S : \A m \in S : m <= n
<1>. DEFINE Rest == {k \in Nat : N - k \in S}
<1>1. \A m \in S : m \in Nat /\ N - m \in Nat /\ N - (N - m) = m
  OBVIOUS
<1>2. Rest \subseteq Nat /\ \A m \in S : N - m \in Rest
  BY <1>1
<1>3. PICK d \in Rest : \A e \in Rest : ~(<<e, d>> \in OpToRel(<, Nat))
  <2>. HIDE DEF Rest
  <2>. QED
    BY <1>2, NatLessThanWellFounded, WFMin
<1>4. \A e \in Rest : ~(e < d)
  <2>. HIDE DEF Rest
  <2>. QED
    BY <1>2, <1>3 DEF OpToRel
<1>5. d \in Nat /\ N - d \in S
  BY <1>3
<1>6. \A m \in S : m \in Nat /\ N - m \in Nat /\ ~(N - m < d)
  <2>. HIDE DEF Rest
  <2>. QED
    BY <1>1, <1>2, <1>4
<1>7. \A m \in S : m <= N - d
  <2>. HIDE DEF Rest
  <2>. QED
    BY <1>5, <1>6
<1>. QED
  BY <1>5, <1>7

\* The newest revision has the greatest id.
LEMMA NewestExists ==
    ASSUME LinearInv
    PROVE  \E r \in Id : IsNewest(r) /\ IsMaxId(r)
<1> DEFINE S == {i \in Id : Committed(i)}
<1> USE DEF LinearInv, IInv
<1>1. S \in SUBSET (0 .. MaxId) /\ S # {} /\ MaxId \in Nat
  BY IdFacts, ConstantsAssumption DEF Id, RowsInUse, Committed
<1>2. PICK r \in S : \A i \in S : i <= r
  <2> HIDE DEF S
  <2> QED
    BY <1>1, GreatestElement
<1>3. ASSUME NEW i \in Id PROVE num[i] <= num[r]
  <2>1. i \in Nat /\ r \in Nat /\ r \in Id /\ num[i] \in Nat /\ num[r] \in Nat
    BY <1>2, IdFacts DEF TypeOK
  <2>2. CASE Committed(i)
    <3>1. i < r \/ i = r
      BY <1>2, <2>1, <2>2
    <3> QED
      BY <1>2, <2>1, <2>2, <3>1 DEF IdsInNumOrder
  <2>3. CASE ~Committed(i)
    BY <2>1, <2>3 DEF Committed
  <2> QED
    BY <2>2, <2>3
<1> QED
  BY <1>2, <1>3 DEF IsNewest, IsMaxId

\* The log has the committed ids, in the order of their numbers.
LEMMA LogShape ==
    ASSUME LinearInv, NEW r \in Id, IsNewest(r)
    PROVE  /\ History \in Seq(Id) /\ Len(History) = num[r]
           /\ num[r] \in Nat \ {0} /\ History[num[r]] = r
           /\ \A n \in 1 .. num[r] : History[n] \in Id /\ num[History[n]] = n
           /\ \A i \in Id : Committed(i) <=> i \in {History[n] : n \in 1 .. Len(History)}
<1>1. /\ num \in [Id -> Nat] /\ num[r] \in Nat \ {0}
      /\ \A i \in Id : num[i] <= num[r]
      /\ \A i, j \in Id : num[i] # 0 /\ num[i] = num[j] => i = j
      /\ \A n \in 1 .. num[r] : \E i \in Id : num[i] = n
  BY DEF LinearInv, IInv, TypeOK, Numbering, UniqueNumbers, NoGaps, NumTaken, Committed, IsNewest
<1>2. /\ History \in Seq(Id) /\ Len(History) = num[r]
      /\ \A n \in 1 .. num[r] : History[n] \in Id /\ num[History[n]] = n
      /\ \A i \in Id : num[i] # 0 => num[i] \in 1 .. num[r] /\ History[num[i]] = i
  BY <1>1, ByNumberShape, HistoryByNumber
<1> QED
  BY <1>1, <1>2 DEF Committed

LEMMA LogInitMaps == Init => Log!LogInit
<1> SUFFICES ASSUME Init PROVE Log!LogInit
  OBVIOUS
<1>1. LinearInv
  BY LinearInvInit
<1>2. 0 \in Id /\ num[0] = 1 /\ IsNewest(0)
  BY IdFacts DEF Init, IsNewest, Committed
<1>3. History \in Seq(Id) /\ Len(History) = 1 /\ History[1] = 0
  BY <1>1, <1>2, LogShape
<1>4. History = <<0>>
  BY <1>3
<1>5. Base = [c \in Id |-> NoBase]
  BY DEF Init, Base, Pending
<1> QED
  BY <1>4, <1>5 DEF Log!LogInit

\* What the log of revisions is based on.
LEMMA BaseFacts ==
    ASSUME LinearInv
    PROVE  \A c \in Id : /\ Log!Opened(c) <=> Pending(c)
                         /\ Pending(c) => Base[c] = parentrevision[c] /\ ~Committed(c)
BY IdFacts DEF LinearInv, IInv, TypeOK, ChangesetRows, Base, NoBase, Log!Opened

\* startChangeset opens a change on some revision.
LEMMA OpenMaps ==
    ASSUME LinearInv, NEW p \in Session, StartInsert(p)
    PROVE  [Log!LogNext]_(Log!logVars)
<1>1. /\ TypeOK /\ num' = num /\ seq + 1 \in Id /\ ~Committed(seq + 1) /\ ~Pending(seq + 1)
      /\ tx[p].id \in Id /\ Committed(tx[p].id)
  <2>0. TypeOK /\ At(p, "starting") /\ num' = num /\ seq < MaxId
    BY DEF LinearInv, IInv, StartInsert
  <2>1. seq + 1 \in Id /\ seq + 1 > seq
    BY <2>0, ConstantsAssumption DEF TypeOK, Id
  <2>2. ~Committed(seq + 1) /\ ~Pending(seq + 1)
    BY <2>1 DEF LinearInv, IInv, RowsInUse
  <2>3. tx[p].id \in Id /\ Committed(tx[p].id)
    BY <2>0, TxTyped DEF LinearInv, IInv, CallsInProgress, CallInProgress, At
  <2> QED
    BY <2>0, <2>1, <2>2, <2>3
<1>2. History' = History
  BY <1>1, HistoryByNumber DEF History
<1>3. CASE UNCHANGED <<status, pid, parentrevision>>
  BY <1>2, <1>3 DEF Base, Pending, Log!logVars
<1>4. CASE /\ status' = [status EXCEPT ![seq + 1] = "INPROGRESS"]
           /\ parentrevision' = [parentrevision EXCEPT ![seq + 1] = tx[p].id]
  <2>1. PICK c \in Id, r \in Id : c = seq + 1 /\ r = tx[p].id
    BY <1>1
  <2>2. ~Log!Opened(c)
    BY <1>1, <2>1, BaseFacts
  <2>3. PICK n \in Id : IsNewest(n)
    BY NewestExists
  <2>4. c \notin Log!Revisions /\ r \in Log!Revisions
    BY <1>1, <2>1, <2>3, LogShape DEF Log!Revisions
  <2>5. Base' = [Base EXCEPT ![c] = r]
    <3>1. \A d \in Id : status'[d] = IF d = c THEN "INPROGRESS" ELSE status[d]
      BY <1>1, <1>4, <2>1 DEF TypeOK
    <3>2. \A d \in Id : parentrevision'[d] = IF d = c THEN r ELSE parentrevision[d]
      BY <1>1, <1>4, <2>1 DEF TypeOK
    <3> QED
      BY <3>1, <3>2 DEF Base, Pending
  <2>6. Log!Open(c)
    BY <1>2, <2>2, <2>4, <2>5 DEF Log!Open
  <2> QED
    BY <2>6 DEF Log!LogNext
<1> QED
  BY <1>3, <1>4 DEF StartInsert

\* abortCurrentChangeset drops one.
LEMMA DropMaps ==
    ASSUME LinearInv, NEW p \in Session, NEW c \in Id, AbortCurrentChangeset(p, c)
    PROVE  Log!Drop(c)
<1>1. Log!Opened(c)
  BY BaseFacts DEF AbortCurrentChangeset, Current
<1>2. History' = History
  BY DEF AbortCurrentChangeset, History
<1>3. \A d \in Id : Pending(d)' <=> d # c /\ Pending(d)
  BY DEF LinearInv, IInv, TypeOK, AbortCurrentChangeset, Pending
<1>4. Base' = [Base EXCEPT ![c] = NoBase]
  BY <1>3 DEF AbortCurrentChangeset, Base
<1> QED
  BY <1>1, <1>2, <1>4 DEF Log!Drop

\* A commit adds a change to the end of the log: its base is the last revision.
LEMMA CommitMaps ==
    ASSUME LinearInv, LinearInv', NEW p \in Session, CommitTransaction(p)
    PROVE  [Log!LogNext]_(Log!logVars)
<1>0. PICK c \in Id, n \in Nat : c = tx[p].id /\ n = tx[p].num
  BY TxTyped DEF LinearInv, IInv
<1>1. /\ Pending(c) /\ ~Committed(c) /\ parentrevision[c] \in Id /\ Committed(parentrevision[c])
      /\ \A i \in Id : num[i] < n
      /\ \A i \in Id \ {c} : num'[i] = num[i]
      /\ num'[c] = n /\ parentrevision' = parentrevision
  BY <1>0, CommitFacts DEF LinearInv, CommitTransaction
<1>2. PICK b \in Id : b = parentrevision[c]
  BY <1>1
<1>3. n = num[b] + 1
  BY <1>0, <1>2 DEF LinearInv, NumberedAfterParent, CommitTransaction, At
<1>4. /\ num \in [Id -> Nat] /\ num' \in [Id -> Nat]
      /\ status' = [status EXCEPT ![c] = "NONE"] /\ status \in [Id -> Status]
  BY <1>0 DEF LinearInv, IInv, TypeOK, CommitTransaction
<1>5. IsNewest(b) /\ IsNewest(c)'
  BY <1>1, <1>2, <1>3, <1>4 DEF IsNewest, Committed
<1>6. /\ History \in Seq(Id) /\ Len(History) = num[b] /\ History[num[b]] = b
      /\ \A m \in 1 .. num[b] : History[m] \in Id /\ num[History[m]] = m
  BY <1>5, LogShape
<1>7. /\ History' \in Seq(Id) /\ Len(History') = n /\ History'[n] = c
      /\ \A m \in 1 .. n : History'[m] \in Id /\ num'[History'[m]] = m
  <2>1. /\ num'[c] \in Nat \ {0}
        /\ \A i \in Id : num'[i] <= num'[c]
        /\ \A i, j \in Id : num'[i] # 0 /\ num'[i] = num'[j] => i = j
        /\ \A m \in 1 .. num'[c] : \E i \in Id : num'[i] = m
    BY <1>5 DEF LinearInv, IInv, TypeOK, Numbering, UniqueNumbers, NoGaps, NumTaken,
                Committed, IsNewest
  <2>2. PICK f : f = num'
    OBVIOUS
  <2>3. History' = ByNumber(f)
    BY <2>2 DEF History, ByNumber
  <2>4. /\ f \in [Id -> Nat] /\ f[c] \in Nat \ {0} /\ \A i \in Id : f[i] <= f[c]
        /\ \A i, j \in Id : f[i] # 0 /\ f[i] = f[j] => i = j
        /\ \A m \in 1 .. f[c] : \E i \in Id : f[i] = m
    BY <1>4, <2>1, <2>2
  <2>5. /\ ByNumber(f) \in Seq(Id) /\ Len(ByNumber(f)) = f[c]
        /\ \A m \in 1 .. f[c] : ByNumber(f)[m] \in Id /\ f[ByNumber(f)[m]] = m
        /\ \A i \in Id : f[i] # 0 => f[i] \in 1 .. f[c] /\ ByNumber(f)[f[i]] = i
    BY <2>4, ByNumberShape
  <2> QED
    BY <1>1, <2>2, <2>3, <2>4, <2>5
<1>8. History' = Append(History, c)
  <2>1. Len(History') = Len(History) + 1
    BY <1>3, <1>4, <1>6, <1>7
  <2>2. ASSUME NEW m \in 1 .. Len(History)
        PROVE  History'[m] = History[m]
    <3>1. /\ m \in Nat /\ m < n /\ History[m] \in Id /\ num[History[m]] = m
          /\ History'[m] \in Id /\ num'[History'[m]] = m
      <4>1. num[b] \in Nat /\ m \in 1 .. num[b] /\ m \in 1 .. n /\ m < n
        BY <1>3, <1>4, <1>6, <2>2
      <4> QED
        BY <1>6, <1>7, <4>1
    <3>2. History'[m] # c /\ History[m] # c /\ Committed(History[m])
      BY <1>1, <3>1 DEF Committed
    <3>3. num[History'[m]] = m
      BY <1>1, <3>1, <3>2
    <3> QED
      BY <3>1, <3>2, <3>3 DEF LinearInv, IInv, Numbering, UniqueNumbers
  <2> QED
    BY <1>3, <1>4, <1>6, <1>7, <2>1, <2>2
<1>9. Base' = [Base EXCEPT ![c] = NoBase]
  <2>1. \A d \in Id : Pending(d)' <=> d # c /\ Pending(d)
    BY <1>4 DEF Pending
  <2> QED
    BY <1>1, <2>1 DEF Base
<1>10. Log!Opened(c) /\ Base[c] = Log!Latest
  BY <1>1, <1>2, <1>6, BaseFacts DEF Log!Latest
<1> QED
  BY <1>8, <1>9, <1>10 DEF Log!Commit, Log!LogNext

LEMMA LogStepMaps ==
    ASSUME LinearInv, LinearInv', [Next]_vars
    PROVE  [Log!LogNext]_(Log!logVars)
<1>1. ASSUME UNCHANGED <<num, parentrevision>>, \A c \in Id : Pending(c)' <=> Pending(c)
      PROVE  UNCHANGED Log!logVars
  BY <1>1 DEF History, Base, Log!logVars
<1>2. CASE UNCHANGED vars
  BY <1>1, <1>2 DEF vars, Pending
<1>3. ASSUME NEW p \in Session,
             \/ Connect(p) \/ Disconnect(p) \/ StartRead(p) \/ ResumeNotFound(p)
             \/ RestoreNumber(p) \/ WriteVersion(p) \/ CommitConflict(p) \/ CommitRollback(p)
      PROVE  UNCHANGED Log!logVars
  BY <1>1, <1>3 DEF Connect, Disconnect, StartRead, ResumeNotFound, RestoreNumber,
                    WriteVersion, CommitConflict, CommitRollback, Pending
<1>4. ASSUME NEW p \in Session, NEW c \in Id,
             \/ LockCurrentChangeset(p, c) \/ UnlockCurrentChangeset(p, c)
             \/ CommitCheck(p, c) \/ RestoreCheck(p, c) \/ \E r \in Id : ResumeLock(p, c, r)
      PROVE  UNCHANGED Log!logVars
  BY <1>1, <1>4 DEF LockCurrentChangeset, UnlockCurrentChangeset, CommitCheck, RestoreCheck,
                    ResumeLock, Pending
<1>5. ASSUME NEW p \in Session, NEW c \in Id,
             \/ DetachFromCurrentChangeset(p, c)
             \/ ResumeAttach(p) /\ c = tx[p].id
      PROVE  UNCHANGED Log!logVars
  <2>1. UNCHANGED <<num, parentrevision>> /\ Pending(c) /\ status'[c] # "NONE"
    BY <1>5 DEF LinearInv, IInv, TypeOK, DetachFromCurrentChangeset, ResumeAttach, Current
  <2>2. \A d \in Id \ {c} : status'[d] = status[d]
    BY <1>5 DEF LinearInv, IInv, TypeOK, DetachFromCurrentChangeset, ResumeAttach
  <2> QED
    BY <1>1, <2>1, <2>2 DEF Pending
<1>6. ASSUME NEW p \in Session, ResumeAttach(p)
      PROVE  UNCHANGED Log!logVars
  BY <1>5, <1>6, TxTyped DEF LinearInv, IInv
<1>7. ASSUME NEW p \in Session, NEW c \in Id, AbortCurrentChangeset(p, c)
      PROVE  Log!LogNext
  BY <1>7, DropMaps DEF Log!LogNext
<1> QED
  BY <1>2, <1>3, <1>4, <1>5, <1>6, <1>7, OpenMaps, CommitMaps DEF Next

\* For clients the two tables are a log: a changeset is opened on a revision, is
\* dropped, or goes to the end of the log on top of its base, and nothing else
\* happens, as long as nobody restores a dump.
THEOREM TablesImplementLog == Restorer = {} => (Spec => ImplementsLog)
<1> SUFFICES ASSUME Restorer = {} PROVE Spec => ImplementsLog
  OBVIOUS
<1>1. LinearInv /\ [Next]_vars => LinearInv'
  BY LinearInvStep
<1>2. LinearInv /\ LinearInv' /\ [Next]_vars => [Log!LogNext]_(Log!logVars)
  BY LogStepMaps
<1>3. Init => LinearInv /\ Log!LogInit
  BY LinearInvInit, LogInitMaps
<1> QED
  BY <1>1, <1>2, <1>3, PTL DEF Spec, ImplementsLog, Log!LogSpec

=============================================================================
