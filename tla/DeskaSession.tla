---------------------------- MODULE DeskaSession ----------------------------
(***************************************************************************)
(* The transactions of a deska-server process (class DB of dbapi.py).  A   *)
(* session normally commits after every request (autocommit); freezeView,  *)
(* commitChangeset and showConfigDiff switch to a SERIALIZABLE transaction *)
(* by transaction_isolate and back by transaction_shared, and not every    *)
(* path that does the former does the latter.                              *)
(*                                                                         *)
(* One request is one step: the sessions share nothing here but what they  *)
(* have stored (Changesets and ConfigCommit interleave the statements).    *)
(* Of the data a session sees only its own changeset is kept.              *)
(***************************************************************************)
EXTENDS Naturals

CONSTANTS
    Session,    \* deska-server processes, each with its client
    NoSnapshot, \* no serializable transaction has read anything
    MaxAnswers  \* bound: requests that change something and are answered OK

ASSUME SessionAssumption == MaxAnswers \in Nat

Write == 1 .. MaxAnswers    \* the effect of one such request

\* The changeset of a session, and whether its configuration is fresh.
Seen == [cs : {"none", "detached", "attached"}, fresh : BOOLEAN]
Unattached == [cs |-> "none", fresh |-> FALSE]

VARIABLES
    freeze,     \* DB.freeze: 0 if FALSE; successive frozen views are 1, 2, 1, ...
    autocommit, \* DB.autocommit; FALSE: the isolation level is SERIALIZABLE
    view,       \* the changeset as the session's transaction sees it
    saved,      \* ... and as it is stored
    open,       \* writes of the session's open transaction
    snap,       \* what a serializable transaction sees of the database
    stored,     \* writes which are committed
    answered    \* how many writes have been answered OK so far

vars == <<freeze, autocommit, view, saved, open, snap, stored, answered>>

TypeOK ==
    /\ freeze \in [Session -> 0 .. 2]
    /\ autocommit \in [Session -> BOOLEAN]
    /\ view \in [Session -> Seen]
    /\ saved \in [Session -> Seen]
    /\ open \in [Session -> SUBSET Write]
    /\ snap \in [Session -> (SUBSET Write) \cup {NoSnapshot}]
    /\ stored \subseteq Write
    /\ answered \in 0 .. MaxAnswers

Init ==
    /\ freeze = [p \in Session |-> 0]
    /\ autocommit = [p \in Session |-> TRUE]
    /\ view = [p \in Session |-> Unattached]
    /\ saved = [p \in Session |-> Unattached]
    /\ open = [p \in Session |-> {}]
    /\ snap = [p \in Session |-> NoSnapshot]
    /\ stored = {}
    /\ answered = 0

-----------------------------------------------------------------------------
(* What a request does to the session's transaction.  A definition named   *)
(* ...Wrong is the one after it with a plausible bug in it; no behaviour   *)
(* uses it, it shows that the properties notice the bug.                   *)

Attached(p) == view[p].cs = "attached"
Frozen(p) == freeze[p] # 0

\* self.db.commit(), after the session has seen v and written ws
Commits(p, ws, v) ==
    /\ stored' = stored \cup ws
    /\ open' = [open EXCEPT ![p] = {}]
    /\ view' = [view EXCEPT ![p] = v]
    /\ saved' = [saved EXCEPT ![p] = v]

\* self.db.rollback()
RollsBack(p) ==
    /\ open' = [open EXCEPT ![p] = {}]
    /\ view' = [view EXCEPT ![p] = saved[p]]
    /\ UNCHANGED <<stored, saved>>

NoTransaction(p) == snap' = [snap EXCEPT ![p] = NoSnapshot]
NewSnapshot(p) == snap' = [snap EXCEPT ![p] = stored']

\* The transaction goes on; its first statement has taken the snapshot.
Holds(p, ws, v) ==
    /\ open' = [open EXCEPT ![p] = ws]
    /\ view' = [view EXCEPT ![p] = v]
    /\ snap' = [snap EXCEPT ![p] = IF @ = NoSnapshot THEN stored ELSE @]
    /\ UNCHANGED <<stored, saved>>

EndTransactionWrong(p, ws, v) == Holds(p, ws, v)    \* never commits

EndTransaction(p, ws, v) ==
    \/ autocommit[p] /\ Commits(p, ws, v) /\ NoTransaction(p)
    \/ ~autocommit[p] /\ Holds(p, ws, v)

Isolate(p) == autocommit' = [autocommit EXCEPT ![p] = FALSE]
Shared(p) == autocommit' = [autocommit EXCEPT ![p] = TRUE]

AnswersOK == answered < MaxAnswers /\ answered' = answered + 1


Written(p) == open[p] \cup {answered + 1}

-----------------------------------------------------------------------------
(* Requests that run one stored procedure (standaloneRunDbFunction) and    *)
(* applyBatchedChanges.  Those that write are refused in a frozen view.    *)

Changes(p, v) ==
    /\ ~Frozen(p)
    /\ AnswersOK
    /\ EndTransaction(p, Written(p), v)
    /\ UNCHANGED <<freeze, autocommit>>

StartChangeset(p) ==
    /\ ~Attached(p)
    /\ Changes(p, [cs |-> "attached", fresh |-> FALSE])

ResumeChangeset(p) ==
    /\ view[p].cs = "detached"
    /\ Changes(p, [view[p] EXCEPT !.cs = "attached"])

DetachFromCurrentChangeset(p) ==
    /\ Attached(p)
    /\ Changes(p, [view[p] EXCEPT !.cs = "detached"])

AbortCurrentChangeset(p) ==
    /\ Attached(p)
    /\ Changes(p, Unattached)

\* setAttribute and its like, or a batch of them that is accepted
Modify(p) ==
    /\ Attached(p)
    /\ Changes(p, [view[p] EXCEPT !.fresh = FALSE])

\* A batch with a change that fails, be it because the view is frozen.
BatchRefused(p) ==
    /\ RollsBack(p)
    /\ NoTransaction(p)
    /\ UNCHANGED <<freeze, autocommit, answered>>

Read(p) ==
    /\ EndTransaction(p, open[p], view[p])
    /\ UNCHANGED <<freeze, autocommit, answered>>

-----------------------------------------------------------------------------
(* freezeView, unFreezeView *)

\* The session's changeset is not looked at.
FreezeViewWrong(p) ==
    /\ freeze' = [freeze EXCEPT ![p] = IF @ = 1 THEN 2 ELSE 1]
    /\ Isolate(p)
    /\ Commits(p, open[p], view[p]) /\ NoTransaction(p)
    /\ UNCHANGED answered

FreezeView(p) ==
    /\ ~Attached(p)
    /\ freeze' = [freeze EXCEPT ![p] = IF @ = 1 THEN 2 ELSE 1]
    /\ Isolate(p)
    /\ Commits(p, open[p], view[p]) /\ NoTransaction(p)
    /\ UNCHANGED answered

UnFreezeView(p) ==
    /\ Frozen(p)
    /\ freeze' = [freeze EXCEPT ![p] = 0]
    /\ Shared(p)
    /\ Commits(p, open[p], view[p]) /\ NoTransaction(p)
    /\ UNCHANGED answered

-----------------------------------------------------------------------------
(* commitConfig and showConfigDiff.  In a frozen view both raise an error  *)
(* that nobody catches: see Disconnect.                                    *)

OnChangeset(p) == Attached(p) /\ ~Frozen(p) /\ UNCHANGED freeze

CommitConfig(p) ==
    /\ OnChangeset(p)
    /\ AnswersOK
    /\ Commits(p, Written(p), Unattached) /\ NoTransaction(p)
    /\ Shared(p)

\* The database refuses: roll back, unlock, and stay isolated.
CommitRefused(p) ==
    /\ OnChangeset(p)
    /\ Commits(p, open[p], view[p]) /\ NewSnapshot(p)
    /\ Isolate(p)
    /\ UNCHANGED answered

\* A generator or the SCM fails: roll back and stay isolated.
CommitFails(p) ==
    /\ OnChangeset(p)
    /\ Commits(p, open[p], view[p]) /\ NoTransaction(p)
    /\ Isolate(p)
    /\ UNCHANGED answered

DiffGenerates(p) ==
    /\ OnChangeset(p)
    /\ Commits(p, open[p], [view[p] EXCEPT !.fresh = TRUE]) /\ NoTransaction(p)
    /\ Shared(p)
    /\ UNCHANGED answered

DiffGeneratorError(p) ==
    /\ OnChangeset(p)
    /\ Commits(p, open[p], view[p]) /\ NewSnapshot(p)
    /\ Isolate(p)
    /\ UNCHANGED answered

\* Nothing to generate, but the rollback in "finally" comes all the same; and
\* if it has detached the session, unlocking fails before transaction_shared.
DiffIsFresh(p) ==
    /\ OnChangeset(p) /\ view[p].fresh
    /\ RollsBack(p)
    /\ IF saved[p].cs = "attached"
       THEN Shared(p) /\ NoTransaction(p)
       ELSE UNCHANGED autocommit /\ NewSnapshot(p)
    /\ UNCHANGED answered

\* "You do not have open any changeset", after the same rollback.
DiffWithoutChangeset(p) ==
    /\ ~Attached(p) /\ ~Frozen(p)
    /\ RollsBack(p)
    /\ IF autocommit[p] THEN NoTransaction(p) ELSE NewSnapshot(p)
    /\ UNCHANGED <<freeze, autocommit, answered>>

\* The client goes away, or the process dies; another takes its place.
Disconnect(p) ==
    /\ freeze' = [freeze EXCEPT ![p] = 0]
    /\ Shared(p)
    /\ view' = [view EXCEPT ![p] = Unattached]
    /\ saved' = [saved EXCEPT ![p] = Unattached]
    /\ open' = [open EXCEPT ![p] = {}]
    /\ NoTransaction(p)
    /\ UNCHANGED <<stored, answered>>

-----------------------------------------------------------------------------

Next ==
    \E p \in Session :
        \/ StartChangeset(p)
        \/ ResumeChangeset(p)
        \/ DetachFromCurrentChangeset(p)
        \/ AbortCurrentChangeset(p)
        \/ Modify(p)
        \/ BatchRefused(p)
        \/ Read(p)
        \/ FreezeView(p)
        \/ UnFreezeView(p)
        \/ CommitConfig(p)
        \/ CommitRefused(p)
        \/ CommitFails(p)
        \/ DiffGenerates(p)
        \/ DiffGeneratorError(p)
        \/ DiffIsFresh(p)
        \/ DiffWithoutChangeset(p)
        \/ Disconnect(p)

Spec == Init /\ [][Next]_vars

-----------------------------------------------------------------------------
(* Properties *)

\* Between two requests of a session in its normal mode, nothing that it has
\* been told is done waits for a commit, on whatever way it came back to it.
AutocommitStores ==
    \A p \in Session : autocommit[p] => open[p] = {} /\ view[p] = saved[p]

\* A frozen view is a serializable transaction of a session that has neither a
\* changeset nor anything to write, whatever happened before the freezeView.
FrozenIsReadOnly ==
    \A p \in Session :
        Frozen(p) => /\ ~autocommit[p]
                     /\ open[p] = {}
                     /\ view[p].cs # "attached" /\ saved[p].cs # "attached"

\* dbapi-protocol.tex: what a session does after startChangeset is stored.
NothingLost ==
    1 .. answered \subseteq stored \cup UNION {open[p] : p \in Session}

\* dbapi-protocol.tex: a frozen view lasts until unFreezeView or the end of the
\* session (or until a new freezeView).
FrozenIsStill ==
    [][\A p \in Session :
         Frozen(p) /\ freeze'[p] = freeze[p] /\ snap[p] # NoSnapshot
             => snap'[p] = snap[p]]_vars

=============================================================================
