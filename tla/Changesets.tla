----------------------------- MODULE Changesets -----------------------------
(***************************************************************************)
(* The version-control core of the Deska database: the tables "version"    *)
(* and "changeset" (install/create_tables.sql) and the stored procedures   *)
(* that start, resume, detach, abort, lock and commit changesets           *)
(* (fn-api-changeset.sql, fn-changeset_locks.sql, commit_all of            *)
(* gen_sql/schema.py), called by any number of concurrent backends.        *)
(*                                                                         *)
(* A call is split wherever another backend's transaction can come between *)
(* two of its statements and matter:                                       *)
(*   - startChangeset reads max(num), then inserts;                        *)
(*   - resumeChangeset takes an advisory lock, then updates the row;       *)
(*   - a commit checks its parent, numbers the revision, writes (which may *)
(*     wait for the unique index or fail on it), and ends the transaction. *)
(* commitChangeset runs SERIALIZABLE (dbapi.py, commitConfig): its check   *)
(* and its number come from one snapshot.  restoringCommit runs READ       *)
(* COMMITTED: every statement sees what is committed by then.              *)
(*                                                                         *)
(* The variables hold committed data only; what a transaction has written  *)
(* stays in its tx record until it ends, so a crash needs no undo.         *)
(***************************************************************************)
EXTENDS Integers

CONSTANTS
    Session,    \* backend pids that can connect
    Restorer,   \* the sessions that run restoringCommit
    Nobody,     \* the NULL of changeset.pid
    MaxId,      \* bound: last value the sequence changeset_id_seq hands out
    MaxLock     \* bound: how many times one session locks one changeset

ASSUME ConstantsAssumption ==
    /\ Restorer \subseteq Session
    /\ Nobody \notin Session
    /\ MaxId \in Nat \ {0}
    /\ MaxLock \in Nat \ {0}

Id == 0 .. MaxId        \* changeset.id and version.id: one sequence

Status == {"NONE", "INPROGRESS", "DETACHED"}    \* "NONE": no such row

Stage == {"idle", "starting", "resuming", "checked", "numbered", "written"}

Tx == [stage : Stage, restoring : BOOLEAN, id : Id, num : Nat]

Idle == [stage |-> "idle", restoring |-> FALSE, id |-> 0, num |-> 0]

\* A definition named ...Wrong is the one after it with a plausible bug in it.
\* No behaviour uses it: it shows that the properties below notice the bug.

VARIABLES
    num,            \* version.num of each id; 0: not in table version
    status,         \* changeset.status of each id
    pid,            \* changeset.pid
    parentrevision, \* changeset.parentrevision, remembered after the commit
    seq,            \* last value of changeset_id_seq
    locks,          \* session-level advisory locks: how often p holds id
    live,           \* connected backends
    tx              \* the call each backend is executing

vars == <<num, status, pid, parentrevision, seq, locks, live, tx>>

TypeOK ==
    /\ num \in [Id -> Nat]
    /\ status \in [Id -> Status]
    /\ pid \in [Id -> Session \cup {Nobody}]
    /\ parentrevision \in [Id -> Id]
    /\ seq \in Id
    /\ locks \in [Session -> [Id -> 0 .. MaxLock]]
    /\ live \subseteq Session
    /\ tx \in [Session -> Tx]

Init ==
    /\ num = [i \in Id |-> IF i = 0 THEN 1 ELSE 0]
    /\ status = [i \in Id |-> "NONE"]
    /\ pid = [i \in Id |-> Nobody]
    /\ parentrevision = [i \in Id |-> 0]
    /\ seq = 0
    /\ locks = [p \in Session |-> [i \in Id |-> 0]]
    /\ live = {}
    /\ tx = [p \in Session |-> Idle]

-----------------------------------------------------------------------------
(* What the procedures look up. *)

Committed(i) == num[i] # 0
Pending(c) == status[c] # "NONE"

\* SELECT max(num) FROM version, then num2id
IsNewest(r) == Committed(r) /\ \A i \in Id : num[i] <= num[r]

\* SELECT max(id) FROM version
IsMaxId(r) == Committed(r) /\ \A i \in Id : Committed(i) => i <= r

\* get_current_changeset: the row whose pid is the calling backend
Current(p, c) == Pending(c) /\ pid[c] = p
Attached(p) == \E c \in Id : Current(p, c)

RowLockedWrong(c) == FALSE      \* resumeChangeset does not wait for the row

\* A deleted but uncommitted row makes every other UPDATE of it wait.
RowLocked(c) == \E q \in Session : tx[q].stage = "written" /\ tx[q].id = c

HeldByOther(p, c) == \E q \in Session \ {p} : locks[q][c] > 0

Ready(p) == p \in live /\ tx[p].stage = "idle"
At(p, stage) == p \in live /\ tx[p].stage = stage

SetTx(p, stage, restoring, i, n) ==
    tx' = [tx EXCEPT ![p] =
             [stage |-> stage, restoring |-> restoring, id |-> i, num |-> n]]

-----------------------------------------------------------------------------
(* Sessions come and go.  A dead backend leaves its changeset row as it    *)
(* is, pid included; a later backend may get the same pid.                 *)

Connect(p) ==
    /\ p \notin live
    /\ live' = live \cup {p}
    /\ UNCHANGED <<num, status, pid, parentrevision, seq, locks, tx>>

Disconnect(p) ==
    /\ p \in live
    /\ live' = live \ {p}
    /\ locks' = [locks EXCEPT ![p] = [i \in Id |-> 0]]
    /\ tx' = [tx EXCEPT ![p] = Idle]
    /\ UNCHANGED <<num, status, pid, parentrevision, seq>>

-----------------------------------------------------------------------------
(* startChangeset *)


StartRead(p) ==
    /\ Ready(p)
    /\ \E r \in Id : IsNewest(r) /\ SetTx(p, "starting", FALSE, r, 0)
    /\ UNCHANGED <<num, status, pid, parentrevision, seq, locks, live>>

\* The INSERT draws an id from the sequence even if changeset_pid_unique
\* then refuses the row, and a sequence is not rolled back.
StartInsert(p) ==
    /\ At(p, "starting")
    /\ seq < MaxId
    /\ seq' = seq + 1
    /\ \/ /\ Attached(p)
          /\ UNCHANGED <<status, pid, parentrevision>>
       \/ /\ ~Attached(p)
          /\ status' = [status EXCEPT ![seq + 1] = "INPROGRESS"]
          /\ pid' = [pid EXCEPT ![seq + 1] = p]
          /\ parentrevision' = [parentrevision EXCEPT ![seq + 1] = tx[p].id]
    /\ tx' = [tx EXCEPT ![p] = Idle]
    /\ UNCHANGED <<num, locks, live>>

-----------------------------------------------------------------------------
(* resumeChangeset.  Its SELECT pg_try_advisory_lock(id) names no row, so  *)
(* it locks whichever row r the scan meets first, also when the client     *)
(* names a changeset c that does not exist.                                *)

ResumeLock(p, c, r) ==
    /\ Ready(p)
    /\ ~Attached(p)
    /\ Pending(r)
    /\ ~HeldByOther(p, r)
    /\ locks[p][r] < MaxLock
    /\ locks' = [locks EXCEPT ![p][r] = @ + 1]
    /\ SetTx(p, "resuming", FALSE, c, 0)
    /\ UNCHANGED <<num, status, pid, parentrevision, seq, live>>

ResumeAttach(p) ==
    LET c == tx[p].id IN
    /\ At(p, "resuming")
    /\ Pending(c)
    /\ ~RowLocked(c)
    /\ status' = [status EXCEPT ![c] = "INPROGRESS"]
    /\ pid' = [pid EXCEPT ![c] = p]
    /\ locks' = [locks EXCEPT ![p][c] = IF @ > 0 THEN @ - 1 ELSE 0]
    /\ tx' = [tx EXCEPT ![p] = Idle]
    /\ UNCHANGED <<num, parentrevision, seq, live>>

\* There is no such row, or it has gone since: the error does not give the
\* lock back.
ResumeNotFound(p) ==
    /\ At(p, "resuming")
    /\ ~Pending(tx[p].id)
    /\ tx' = [tx EXCEPT ![p] = Idle]
    /\ UNCHANGED <<num, status, pid, parentrevision, seq, locks, live>>

-----------------------------------------------------------------------------
(* detachFromCurrentChangeset, abortCurrentChangeset *)

DetachFromCurrentChangeset(p, c) ==
    /\ Ready(p)
    /\ Current(p, c)
    /\ status' = [status EXCEPT ![c] = "DETACHED"]
    /\ pid' = [pid EXCEPT ![c] = Nobody]
    /\ UNCHANGED <<num, parentrevision, seq, locks, live, tx>>

AbortCurrentChangeset(p, c) ==
    /\ Ready(p)
    /\ Current(p, c)
    /\ status' = [status EXCEPT ![c] = "NONE"]
    /\ pid' = [pid EXCEPT ![c] = Nobody]
    /\ UNCHANGED <<num, parentrevision, seq, locks, live, tx>>

-----------------------------------------------------------------------------
(* lockCurrentChangeset, unlockCurrentChangeset *)

LockCurrentChangeset(p, c) ==
    /\ Ready(p)
    /\ Current(p, c)
    /\ ~HeldByOther(p, c)
    /\ locks[p][c] < MaxLock
    /\ locks' = [locks EXCEPT ![p][c] = @ + 1]
    /\ UNCHANGED <<num, status, pid, parentrevision, seq, live, tx>>


UnlockCurrentChangeset(p, c) ==
    /\ Ready(p)
    /\ Current(p, c)
    /\ locks[p][c] > 0
    /\ locks' = [locks EXCEPT ![p][c] = @ - 1]
    /\ UNCHANGED <<num, status, pid, parentrevision, seq, live, tx>>

-----------------------------------------------------------------------------
(* commit_all, inside commitChangeset or restoringCommit *)

ParentIsCurrentWrong(c) == TRUE     \* no check at all

\* The parent must be max(id), or it raises 70007.
ParentIsCurrent(c) == IsMaxId(parentrevision[c])

\* SERIALIZABLE: max(id), max(num) and the changeset come from one snapshot.
CommitCheck(p, c) ==
    /\ Ready(p)
    /\ Current(p, c)
    /\ ParentIsCurrent(c)
    /\ \E r \in Id : IsNewest(r) /\ SetTx(p, "numbered", FALSE, c, num[r] + 1)
    /\ UNCHANGED <<num, status, pid, parentrevision, seq, locks, live>>

\* READ COMMITTED: the check first ...
RestoreCheck(p, c) ==
    /\ p \in Restorer
    /\ Ready(p)
    /\ Current(p, c)
    /\ ParentIsCurrent(c)
    /\ SetTx(p, "checked", TRUE, c, 0)
    /\ UNCHANGED <<num, status, pid, parentrevision, seq, locks, live>>

\* The number comes from the id, which leaves a gap for what was aborted.
RestoreNumberWrong(p) ==
    /\ At(p, "checked")
    /\ Current(p, tx[p].id)
    /\ SetTx(p, "numbered", TRUE, tx[p].id, tx[p].id + 1)
    /\ UNCHANGED <<num, status, pid, parentrevision, seq, locks, live>>

\* ... and max(num) + 1 in a later statement, create_version.
RestoreNumber(p) ==
    /\ At(p, "checked")
    /\ Current(p, tx[p].id)
    /\ \E r \in Id :
          IsNewest(r) /\ SetTx(p, "numbered", TRUE, tx[p].id, num[r] + 1)
    /\ UNCHANGED <<num, status, pid, parentrevision, seq, locks, live>>

\* A number that is only planned blocks as one that is written does.
NumPromisedWrong(p, n) ==
    \E q \in Session \ {p} :
        tx[q].stage \in {"numbered", "written"} /\ tx[q].num = n

\* version_num_unique: wait for an uncommitted twin, fail on a committed one
NumPromised(p, n) ==
    \E q \in Session \ {p} : tx[q].stage = "written" /\ tx[q].num = n
NumTaken(n) == \E i \in Id : num[i] = n

\* Without version_num_unique.
WriteVersionWrong(p) ==
    /\ At(p, "numbered")
    /\ Current(p, tx[p].id)
    /\ tx' = [tx EXCEPT ![p].stage = "written"]
    /\ UNCHANGED <<num, status, pid, parentrevision, seq, locks, live>>

\* INSERT INTO version, UPDATE its num, DELETE FROM changeset
WriteVersion(p) ==
    /\ At(p, "numbered")
    /\ Current(p, tx[p].id)
    /\ ~NumPromised(p, tx[p].num)
    /\ ~NumTaken(tx[p].num)
    /\ tx' = [tx EXCEPT ![p].stage = "written"]
    /\ UNCHANGED <<num, status, pid, parentrevision, seq, locks, live>>

\* The statement fails: the number is taken, or a concurrent session has
\* updated or deleted the changeset's row.
CommitConflict(p) ==
    /\ \/ At(p, "checked") /\ ~Current(p, tx[p].id)
       \/ At(p, "numbered") /\ \/ ~Current(p, tx[p].id)
                               \/ NumTaken(tx[p].num)
    /\ tx' = [tx EXCEPT ![p] = Idle]
    /\ UNCHANGED <<num, status, pid, parentrevision, seq, locks, live>>

\* Anything else that rolls the transaction back: a constraint of the data,
\* a configuration generator, the SCM.
CommitRollback(p) ==
    /\ \/ At(p, "checked") \/ At(p, "numbered") \/ At(p, "written")
    /\ tx' = [tx EXCEPT ![p] = Idle]
    /\ UNCHANGED <<num, status, pid, parentrevision, seq, locks, live>>

CommitTransaction(p) ==
    LET c == tx[p].id IN
    /\ At(p, "written")
    /\ num' = [num EXCEPT ![c] = tx[p].num]
    /\ status' = [status EXCEPT ![c] = "NONE"]
    /\ pid' = [pid EXCEPT ![c] = Nobody]
    /\ tx' = [tx EXCEPT ![p] = Idle]
    /\ UNCHANGED <<parentrevision, seq, locks, live>>

-----------------------------------------------------------------------------

Next ==
    \E p \in Session :
        \/ Connect(p)
        \/ Disconnect(p)
        \/ StartRead(p)
        \/ StartInsert(p)
        \/ \E c, r \in Id : ResumeLock(p, c, r)
        \/ ResumeAttach(p)
        \/ ResumeNotFound(p)
        \/ \E c \in Id : DetachFromCurrentChangeset(p, c)
        \/ \E c \in Id : AbortCurrentChangeset(p, c)
        \/ \E c \in Id : LockCurrentChangeset(p, c)
        \/ \E c \in Id : UnlockCurrentChangeset(p, c)
        \/ \E c \in Id : CommitCheck(p, c)
        \/ \E c \in Id : RestoreCheck(p, c)
        \/ RestoreNumber(p)
        \/ WriteVersion(p)
        \/ CommitConflict(p)
        \/ CommitRollback(p)
        \/ CommitTransaction(p)

Spec == Init /\ [][Next]_vars

\* The statements of a running call follow each other without the client's
\* help; only a step that waits for another transaction can be held up.
Proceed(p) ==
    \/ ResumeAttach(p)
    \/ ResumeNotFound(p)
    \/ RestoreNumber(p)
    \/ WriteVersion(p)
    \/ CommitConflict(p)
    \/ CommitTransaction(p)

\* Strong fairness: a backend that waits for a row or for an index entry is
\* woken when the transaction it waits for ends, and tries again.
FairSpec == Spec /\ \A p \in Session : SF_vars(Proceed(p))

-----------------------------------------------------------------------------
(* Properties *)

\* Revision numbers are 1 .. n without a gap and without a duplicate, however
\* the max(num) + 1 of create_version interleave.
UniqueNumbers ==
    \A i, j \in Id : Committed(i) /\ num[i] = num[j] => i = j
NoGaps ==
    \A i \in Id : \A n \in 1 .. num[i] : NumTaken(n)
Numbering == UniqueNumbers /\ NoGaps

\* A changeset is based on a committed revision (parentrevision REFERENCES
\* version), and a revision is always newer than the one it was based on.
ParentsAreOlder ==
    /\ \A c \in Id : Pending(c) => Committed(parentrevision[c])
    /\ \A c \in Id \ {0} :
          Committed(c) => /\ Committed(parentrevision[c])
                          /\ num[parentrevision[c]] < num[c]

\* commit_all's check, together with the unique index, makes history a line:
\* every revision was made on top of the one numbered just before it.
LinearHistory ==
    \A c \in Id \ {0} : Committed(c) => num[c] = num[parentrevision[c]] + 1

\* commit_all compares the parent with max(id), create_changeset takes it from
\* max(num): the two have to be the same revision, or nothing started from
\* now on can be committed.  (Two restoringCommits may part them for good.)
NewestIsMaxId == \A r \in Id : IsNewest(r) => IsMaxId(r)

\* A session has at most one changeset, a detached changeset has no session,
\* and an id is a pending changeset or a revision, never both.
ChangesetRows ==
    /\ \A c, d \in Id : pid[c] = pid[d] /\ pid[c] # Nobody => c = d
    /\ \A c \in Id : status[c] = "INPROGRESS" <=> pid[c] # Nobody
    /\ \A c \in Id : Pending(c) => ~Committed(c) /\ c <= seq

\* A pending changeset goes away only by the hand of the session it is
\* attached to at that moment: who lost it to a resumeChangeset can neither
\* abort nor commit it.
OwnerEnds(c) ==
    \E p \in live :
        /\ pid[c] = p
        /\ IF Committed(c)' THEN tx[p].stage = "written" /\ tx[p].id = c
                            ELSE tx[p].stage = "idle"
OnlyOwnerEnds ==
    [][\A c \in Id : Pending(c) /\ ~Pending(c)' => OwnerEnds(c)]_vars

\* History is append-only: a step leaves the number and the parent of every
\* revision alone, and a revision it adds is newer than all of them.
RevisionKept(i) == num'[i] = num[i] /\ parentrevision'[i] = parentrevision[i]
AppendOnly ==
    [][\A i \in Id :
         IF Committed(i) THEN RevisionKept(i)
         ELSE Committed(i)' => \A j \in Id \ {i} : num'[j] < num'[i]]_vars

\* A commit or a resume that waits for another transaction gets its answer.
CallsReturn ==
    \A p \in Session :
        tx[p].stage \in {"resuming", "checked", "numbered", "written"}
            ~> tx[p].stage = "idle"

\* dbapi-protocol.tex: a locked changeset cannot be attached by another session.
LockedStaysAttached ==
    [][\A p, q \in Session, c \in Id :
         p # q /\ locks[p][c] > 0 /\ pid[c] # q => pid'[c] # q]_vars

\* dbapi-protocol.tex: the lock lasts until the changeset ceases to exist.
LockEndsWithChangeset ==
    \A p \in Session, c \in Id :
        tx[p].stage = "idle" /\ locks[p][c] > 0 => Pending(c)

-----------------------------------------------------------------------------
(* The inductive invariants behind the theorems of ChangesetsProofs *)

\* What a call in progress has established and still relies on.
CallInProgress(p) ==
    LET t == tx[p]
    IN  /\ t.stage = "starting" => Committed(t.id)
        /\ t.stage = "resuming" => \A c \in Id : pid[c] # p
        /\ t.stage \in {"checked", "numbered", "written"} =>
              t.id \in 1 .. seq /\ Committed(parentrevision[t.id])
        /\ t.stage \in {"numbered", "written"} =>
              t.num > num[parentrevision[t.id]] /\ NumTaken(t.num - 1)
        /\ t.stage = "written" => Current(p, t.id) /\ ~NumTaken(t.num)

CallsInProgress == \A p \in Session : CallInProgress(p)

\* No two uncommitted revisions have one number.
PromisesDistinct ==
    \A p, q \in Session :
        /\ tx[p].stage = "written" /\ tx[q].stage = "written"
        /\ tx[p].num = tx[q].num
        => p = q

RowsInUse ==
    /\ num[0] = 1 /\ ~Pending(0)
    /\ \A i \in Id : i > seq => ~Committed(i) /\ ~Pending(i)

IInv ==
    /\ TypeOK
    /\ RowsInUse
    /\ ChangesetRows
    /\ Numbering
    /\ ParentsAreOlder
    /\ CallsInProgress
    /\ PromisesDistinct

\* Without restoringCommit, ids and numbers of revisions grow together, so
\* max(id) and max(num) are one revision and each number is its parent's plus 1.
NumberedAfterParent(p) ==
    /\ ~tx[p].restoring /\ tx[p].stage # "checked"
    /\ tx[p].stage \in {"numbered", "written"} =>
          tx[p].num = num[parentrevision[tx[p].id]] + 1

IdsInNumOrder ==
    /\ \A c \in Id \ {0} : parentrevision[c] < c
    /\ \A i, j \in Id : Committed(i) /\ Committed(j) /\ i < j => num[i] < num[j]

LinearInv ==
    /\ IInv
    /\ \A p \in Session : NumberedAfterParent(p)
    /\ IdsInNumOrder
    /\ LinearHistory

=============================================================================
