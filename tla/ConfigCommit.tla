---------------------------- MODULE ConfigCommit ----------------------------
(***************************************************************************)
(* commitConfig and showConfigDiff of the Deska server (dbapi.py) with the *)
(* git backend of the configuration generators (gitgenerator.py): several  *)
(* server processes, one database, one primary clone of the configuration  *)
(* repository, and a git-new-workdir checkout per changeset, which shares  *)
(* the refs of the primary clone.                                          *)
(*                                                                         *)
(* A process crosses from the database to the SCM and back in many steps,  *)
(* each of which may fail, and may die at any of them.  Version control is *)
(* modelled in Changesets; here a commit of the database is its transaction*)
(* only.  What the generators write is a function of the database state,   *)
(* named by the changeset and the number of changes made in it.            *)
(***************************************************************************)
EXTENDS Naturals, Sequences

CONSTANTS
    Session,    \* deska-server processes
    Changeset,  \* changesets that can be started
    Forcing,    \* the sessions that pass forceRegenerate to showConfigDiff
    None,       \* no session, no changeset, no working directory
    Partial,    \* a working directory the generators have not finished
    Foreign,    \* ... or where they ran in a session without a changeset
    MaxEdits,   \* bound: changes made in one changeset
    MaxLock,    \* bound: how many times one session locks one changeset
    MaxGit      \* bound: git commits

ASSUME ConfigAssumption ==
    /\ Forcing \subseteq Session
    /\ None \notin Session \cup Changeset
    /\ MaxEdits \in Nat /\ MaxLock \in Nat \ {0} /\ MaxGit \in Nat

Output == [of : Changeset, edits : 0 .. MaxEdits]

ASSUME TreeAssumption ==
    /\ {None, Partial, Foreign} \cap Output = {}
    /\ None \notin {Partial, Foreign}

Tree == Output \cup {Partial, Foreign}

Stage == {"idle", "locked", "ready", "generating", "generated",
          "rolledback", "saved", "pushed", "nuked"}

Job == [stage : Stage, commit : BOOLEAN, cs : Changeset \cup {None}, regenerate : BOOLEAN,
        row : BOOLEAN, out : Output \cup {Foreign, None}]

VARIABLES
    started,    \* changesets ever started
    pending,    \* rows of table changeset
    owner,      \* the session a changeset is attached to
    parent,     \* how long the history was when it was started
    edits,      \* the changes committed to it
    fresh,      \* changeset.is_generated
    history,    \* the revisions, each named by its output
    locks,      \* advisory locks: how often a session holds a changeset
    scm,        \* the upstream repository, one output per git commit
    ahead,      \* commits of the clone's master which are not upstream
    workdir,    \* the working directory of a changeset, as the index sees it
    job,        \* what each server process is executing
    dropped     \* history variable: a reset has removed the job's git commit

dbVars == <<started, pending, owner, parent, edits, fresh, history>>
gitVars == <<scm, ahead, workdir>>
vars == <<dbVars, locks, gitVars, job, dropped>>

IdleJob == [stage |-> "idle", commit |-> FALSE, cs |-> None,
            regenerate |-> FALSE, row |-> FALSE, out |-> None]

TypeOK ==
    /\ started \subseteq Changeset /\ pending \subseteq started
    /\ owner \in [Changeset -> Session \cup {None}]
    /\ parent \in [Changeset -> Nat]
    /\ edits \in [Changeset -> 0 .. MaxEdits]
    /\ fresh \in [Changeset -> BOOLEAN]
    /\ history \in Seq(Output)
    /\ locks \in [Session -> [Changeset -> 0 .. MaxLock]]
    /\ scm \in Seq(Tree) /\ ahead \in Seq(Tree)
    /\ workdir \in [Changeset -> Tree \cup {None}]
    /\ job \in [Session -> Job]
    /\ dropped \in [Session -> BOOLEAN]

Init ==
    /\ started = {} /\ pending = {}
    /\ owner = [c \in Changeset |-> None]
    /\ parent = [c \in Changeset |-> 0]
    /\ edits = [c \in Changeset |-> 0]
    /\ fresh = [c \in Changeset |-> FALSE]
    /\ history = <<>>
    /\ locks = [p \in Session |-> [c \in Changeset |-> 0]]
    /\ scm = <<>> /\ ahead = <<>>
    /\ workdir = [c \in Changeset |-> None]
    /\ job = [p \in Session |-> IdleJob]
    /\ dropped = [p \in Session |-> FALSE]

-----------------------------------------------------------------------------

\* A definition named ...Wrong is the one after it with a plausible bug in it.
\* No behaviour uses it: it shows that the properties below notice the bug.

At(p, stage) == job[p].stage = stage
Cs(p) == job[p].cs
Owns(p, c) == c \in pending /\ owner[c] = p
HasCurrent(p) == \E c \in Changeset : Owns(p, c)
HeldByOther(p, c) == \E q \in Session \ {p} : locks[q][c] > 0
RowLocked(c) == \E q \in Session : job[q].row /\ Cs(q) = c
LatestOf(s, default) == IF s = <<>> THEN default ELSE s[Len(s)]
OutputOf(c) == [of |-> c, edits |-> edits[c]]

Goto(p, stage) == job' = [job EXCEPT ![p].stage = stage]
Finish(p) ==
    /\ job' = [job EXCEPT ![p] = IdleJob]
    /\ dropped' = [dropped EXCEPT ![p] = FALSE]
Unlock(p, c) == locks' = [locks EXCEPT ![p][c] = IF @ > 0 THEN @ - 1 ELSE 0]

-----------------------------------------------------------------------------
(* The changesets, as far as commitConfig and showConfigDiff depend on them *)

StartChangeset(p, c) ==
    /\ At(p, "idle") /\ ~HasCurrent(p)
    /\ c \notin started
    /\ started' = started \cup {c} /\ pending' = pending \cup {c}
    /\ owner' = [owner EXCEPT ![c] = p]
    /\ parent' = [parent EXCEPT ![c] = Len(history)]
    /\ UNCHANGED <<edits, fresh, history, locks, gitVars, job, dropped>>

\* Some row that nobody else has locked: not necessarily the row of c.
ResumeChangeset(p, c) ==
    /\ At(p, "idle") /\ ~HasCurrent(p)
    /\ c \in pending
    /\ \E r \in pending : ~HeldByOther(p, r)
    /\ ~RowLocked(c)
    /\ owner' = [owner EXCEPT ![c] = p]
    /\ UNCHANGED <<started, pending, parent, edits, fresh, history, locks,
                   gitVars, job, dropped>>

DetachFromCurrentChangeset(p, c) ==
    /\ At(p, "idle") /\ Owns(p, c)
    /\ owner' = [owner EXCEPT ![c] = None]
    /\ UNCHANGED <<started, pending, parent, edits, fresh, history, locks,
                   gitVars, job, dropped>>

\* The cached output is not voided.
EditWrong(p, c) ==
    /\ At(p, "idle") /\ Owns(p, c)
    /\ edits[c] < MaxEdits
    /\ edits' = [edits EXCEPT ![c] = @ + 1]
    /\ UNCHANGED <<started, pending, owner, parent, fresh, history, locks,
                   gitVars, job, dropped>>

\* Any function that changes an object of the current changeset.
Edit(p, c) ==
    /\ At(p, "idle") /\ Owns(p, c)
    /\ edits[c] < MaxEdits
    /\ edits' = [edits EXCEPT ![c] = @ + 1]
    /\ fresh' = [fresh EXCEPT ![c] = FALSE]
    /\ UNCHANGED <<started, pending, owner, parent, history, locks,
                   gitVars, job, dropped>>

-----------------------------------------------------------------------------
(* Steps common to commitConfig and showConfigDiff *)

LockChangeset(p, c, commit) ==
    /\ At(p, "idle") /\ Owns(p, c)
    /\ ~HeldByOther(p, c)
    /\ locks[p][c] < MaxLock
    /\ locks' = [locks EXCEPT ![p][c] = @ + 1]
    /\ job' = [job EXCEPT ![p] = [IdleJob EXCEPT !.stage = "locked",
                                      !.commit = commit, !.cs = c]]
    /\ UNCHANGED <<dbVars, gitVars, dropped>>

\* initCfgGenerator resets master of the primary clone to origin/master,
\* whoever has committed there; then changesetHasFreshConfig.
InitCfgGenerator(p) ==
    /\ At(p, "locked") /\ Owns(p, Cs(p))
    /\ ahead' = <<>>
    /\ dropped' = [q \in Session |-> dropped[q] \/ (At(q, "saved") /\ ahead # <<>>)]
    /\ \E force \in IF job[p].commit \/ p \notin Forcing THEN {FALSE} ELSE BOOLEAN :
          job' = [job EXCEPT ![p] = [@ EXCEPT !.stage = "ready",
                                              !.regenerate = force \/ ~fresh[Cs(p)]]]
    /\ UNCHANGED <<dbVars, locks, scm, workdir>>

\* The changeset was resumed elsewhere: the error leaves the lock behind,
\* because unlockCurrentChangeset has no current changeset either.  Only a
\* showConfigDiff that regenerates does not notice yet.
LoseChangeset(p) ==
    /\ \/ At(p, "locked")
       \/ At(p, "ready") /\ (job[p].commit \/ ~job[p].regenerate)
       \/ At(p, "rolledback")
    /\ ~Owns(p, Cs(p))
    /\ Finish(p)
    /\ UNCHANGED <<dbVars, locks, gitVars>>

-----------------------------------------------------------------------------
(* commitChangeset inside the server's transaction *)

RowHeldWrong(p) == FALSE        \* no wait for the other's revision

\* version_num_unique: the next number is taken by an uncommitted revision.
RowHeld(p) == \E q \in Session \ {p} : job[q].row

ParentIsLatest(c) == parent[c] = Len(history)

NeedsCommit(p) == At(p, "ready") /\ (job[p].commit \/ job[p].regenerate)

DbCommit(p) ==
    /\ NeedsCommit(p) /\ Owns(p, Cs(p))
    /\ ~RowHeld(p)
    /\ ParentIsLatest(Cs(p))
    /\ job' = [job EXCEPT ![p] = [@ EXCEPT !.row = TRUE, !.out = OutputOf(Cs(p)),
           !.stage = IF job[p].regenerate THEN "generating" ELSE "generated"]]
    /\ UNCHANGED <<dbVars, locks, gitVars, dropped>>

\* A commit that waits for an earlier one is never refused.
DbRefuseWrong(p) ==
    /\ NeedsCommit(p) /\ job[p].commit /\ Owns(p, Cs(p))
    /\ ~RowHeld(p) /\ ParentIsLatest(Cs(p))
    /\ Unlock(p, Cs(p)) /\ Finish(p)
    /\ UNCHANGED <<dbVars, gitVars>>

\* The revision is refused: an obsolete parent, or a constraint of the data.
\* commitConfig gives up and unlocks.
DbRefuse(p) ==
    /\ NeedsCommit(p) /\ job[p].commit /\ Owns(p, Cs(p))
    /\ ~RowHeld(p)
    /\ Unlock(p, Cs(p)) /\ Finish(p)
    /\ UNCHANGED <<dbVars, gitVars>>

\* showConfigDiff ignores the answer, "there is no current changeset" included,
\* and generates whatever its session sees.
DiffRefuse(p) ==
    /\ NeedsCommit(p) /\ ~job[p].commit
    /\ ~RowHeld(p)
    /\ job' = [job EXCEPT ![p] = [@ EXCEPT !.stage = "generating",
           !.out = IF Owns(p, Cs(p)) THEN OutputOf(Cs(p)) ELSE Foreign]]
    /\ UNCHANGED <<dbVars, locks, gitVars, dropped>>

-----------------------------------------------------------------------------
(* cfgRegenerate *)

\* openRepo: a new or a cleaned checkout; then the scripts start to write.
OpenRepo(p) ==
    /\ At(p, "generating") /\ workdir[Cs(p)] # Partial
    /\ workdir' = [workdir EXCEPT ![Cs(p)] = Partial]
    /\ UNCHANGED <<dbVars, locks, scm, ahead, job, dropped>>

Generate(p) ==
    /\ At(p, "generating") /\ workdir[Cs(p)] = Partial
    /\ workdir' = [workdir EXCEPT ![Cs(p)] = job[p].out]
    /\ Goto(p, "generated")
    /\ UNCHANGED <<dbVars, locks, scm, ahead, dropped>>

\* GeneratorError: showConfigDiff unlocks in its finally, commitConfig does not.
GeneratorError(p) ==
    /\ At(p, "generating")
    /\ IF ~job[p].commit /\ Owns(p, Cs(p)) THEN Unlock(p, Cs(p))
                                          ELSE UNCHANGED locks
    /\ Finish(p)
    /\ UNCHANGED <<dbVars, gitVars>>

-----------------------------------------------------------------------------
(* showConfigDiff *)

DiffIsFresh(p) ==
    /\ At(p, "ready") /\ ~job[p].commit /\ ~job[p].regenerate
    /\ Owns(p, Cs(p))
    /\ Unlock(p, Cs(p)) /\ Finish(p)
    /\ UNCHANGED <<dbVars, gitVars>>

RollbackDiff(p) ==
    /\ At(p, "generated") /\ ~job[p].commit
    /\ job' = [job EXCEPT ![p] = [@ EXCEPT !.stage = "rolledback", !.row = FALSE]]
    /\ UNCHANGED <<dbVars, locks, gitVars, dropped>>

MarkChangesetFresh(p) ==
    /\ At(p, "rolledback") /\ Owns(p, Cs(p))
    /\ fresh' = [fresh EXCEPT ![Cs(p)] = TRUE]
    /\ Unlock(p, Cs(p)) /\ Finish(p)
    /\ UNCHANGED <<started, pending, owner, parent, edits, history, gitVars>>

-----------------------------------------------------------------------------
(* commitConfig: apiSave, nukeWorkDir, and the end of the transaction *)

Saving(p) == At(p, "generated") /\ job[p].commit


\* git add, git status, git commit: master of the primary clone moves.
ApiSave(p) ==
    /\ Saving(p) /\ workdir[Cs(p)] # None
    /\ Len(scm \o ahead) < MaxGit
    /\ ahead' = IF workdir[Cs(p)] = LatestOf(scm \o ahead, None)
                THEN ahead ELSE Append(ahead, workdir[Cs(p)])
    /\ Goto(p, "saved")
    /\ UNCHANGED <<dbVars, locks, scm, workdir, dropped>>

\* An error of git push goes unnoticed.
PushWrong(p) ==
    /\ At(p, "saved")
    /\ \/ scm' = scm \o ahead /\ ahead' = <<>>
       \/ UNCHANGED <<scm, ahead>>
    /\ Goto(p, "pushed")
    /\ UNCHANGED <<dbVars, locks, workdir, dropped>>

Push(p) ==
    /\ At(p, "saved")
    /\ scm' = scm \o ahead
    /\ ahead' = <<>>
    /\ Goto(p, "pushed")
    /\ UNCHANGED <<dbVars, locks, workdir, dropped>>

\* Any exception on the way rolls the database back and leaves the lock: no
\* working directory (it was removed before a crash), a failed git command.
ApiSaveFails(p) ==
    /\ Saving(p) \/ At(p, "saved")
    /\ Finish(p)
    /\ UNCHANGED <<dbVars, locks, gitVars>>

NukeWorkDir(p) ==
    /\ At(p, "pushed")
    /\ workdir' = [workdir EXCEPT ![Cs(p)] = None]
    /\ Goto(p, "nuked")
    /\ UNCHANGED <<dbVars, locks, scm, ahead, dropped>>

\* The end of the transaction; the lock is left behind.
DbEnd(p) ==
    /\ At(p, "nuked")
    /\ history' = Append(history, job[p].out)
    /\ pending' = pending \ {Cs(p)}
    /\ owner' = [owner EXCEPT ![Cs(p)] = None]
    /\ fresh' = [fresh EXCEPT ![Cs(p)] = FALSE]
    /\ Finish(p)
    /\ UNCHANGED <<started, parent, edits, locks, gitVars>>

\* The process or its connection dies: its transaction is rolled back and its
\* locks are released; what it did to git stays.  Its changeset is attached
\* to a dead backend, which counts as none.
Crash(p) ==
    /\ owner' = [c \in Changeset |-> IF owner[c] = p THEN None ELSE owner[c]]
    /\ locks' = [locks EXCEPT ![p] = [c \in Changeset |-> 0]]
    /\ Finish(p)
    /\ UNCHANGED <<started, pending, parent, edits, fresh, history, gitVars>>

-----------------------------------------------------------------------------

Proceed(p) ==
    \/ InitCfgGenerator(p)
    \/ LoseChangeset(p)
    \/ DbCommit(p)
    \/ DbRefuse(p)
    \/ DiffRefuse(p)
    \/ OpenRepo(p)
    \/ Generate(p)
    \/ GeneratorError(p)
    \/ DiffIsFresh(p)
    \/ RollbackDiff(p)
    \/ MarkChangesetFresh(p)
    \/ ApiSave(p)
    \/ Push(p)
    \/ ApiSaveFails(p)
    \/ NukeWorkDir(p)
    \/ DbEnd(p)

Next ==
    \E p \in Session :
        \/ \E c \in Changeset :
              \/ StartChangeset(p, c)
              \/ ResumeChangeset(p, c)
              \/ DetachFromCurrentChangeset(p, c)
              \/ Edit(p, c)
              \/ \E commit \in BOOLEAN : LockChangeset(p, c, commit)
        \/ Proceed(p)
        \/ Crash(p)

Spec == Init /\ [][Next]_vars

\* A server runs its call to the end unless it dies.  Only DbCommit waits, and
\* PostgreSQL wakes it whenever the transaction it waits for ends.
FairSpec == Spec /\ \A p \in Session : SF_vars(Proceed(p))

-----------------------------------------------------------------------------
(* Properties *)

\* The flag is_generated never lies: when it is set, the working directory, if
\* it is there, holds the output for the changes made so far, even if another
\* session stole the changeset while the generators ran.
FreshMeansGenerated ==
    \A c \in pending :
        fresh[c] => workdir[c] \in {None, OutputOf(c)}

\* Once no call is at work on it, a changeset said to have fresh configuration
\* has it, whatever happened to the calls that forced a regeneration.
FreshAtRest ==
    \A c \in pending :
        fresh[c] /\ (\A p \in Session : Cs(p) # c)
            => workdir[c] \in {None, OutputOf(c)}

\* Deska commits to the DB *and* pushes to the SCM: when a revision appears, its
\* output is the last commit upstream, whatever failed and was retried before.
EndsPushed(p) == LatestOf(scm, None) = job[p].out
RevisionIsPushed ==
    [][\A p \in Session : history' # history /\ At(p, "nuked") /\ At(p, "idle")'
           => EndsPushed(p)]_vars

\* The only way to commit a revision without its output upstream is a reset
\* of the shared clone by another session between git commit and git push.
OnlyResetLosesOutput ==
    [][\A p \in Session : history' # history /\ At(p, "nuked") /\ At(p, "idle")'
           => EndsPushed(p) \/ dropped[p]]_vars

\* Upstream, outputs of committed revisions come in the order of the revisions.
LastPush(o) == CHOOSE n \in DOMAIN scm :
                   scm[n] = o /\ \A m \in n + 1 .. Len(scm) : scm[m] # o
WasPushed(o) == \E n \in DOMAIN scm : scm[n] = o
ScmInRevisionOrder ==
    \A i, j \in DOMAIN history :
        i < j /\ WasPushed(history[i]) /\ WasPushed(history[j])
            => LastPush(history[i]) < LastPush(history[j])

\* A commit or a diff is answered, whatever the other sessions are doing.
AnswersComeBack ==
    \A p \in Session : ~At(p, "idle") ~> At(p, "idle")

-----------------------------------------------------------------------------
(* The inductive invariants; the proofs are in ConfigCommitProofs *)

Busy(p) == ~At(p, "idle")

\* A call keeps its changeset from other sessions, and nobody ends it.
JobsAreLocked ==
    \A p \in Session : Busy(p) => Cs(p) \in pending /\ locks[p][Cs(p)] > 0

LocksExclude ==
    \A p, q \in Session, c \in Changeset :
        locks[p][c] > 0 /\ locks[q][c] > 0 => p = q

\* What the record of a call says at each of its stages.
JobInOrder(p) ==
    /\ job[p].row =>
          /\ job[p].stage \in {"generating", "generated", "saved", "pushed", "nuked"}
          /\ job[p].out # None
    /\ At(p, "generating") \/ At(p, "generated") =>
          job[p].out # None /\ (job[p].commit => job[p].row)
    /\ At(p, "generating") => job[p].regenerate
    /\ At(p, "generated") => job[p].commit \/ job[p].regenerate
    /\ At(p, "rolledback") => job[p].out # None /\ ~job[p].commit /\ job[p].regenerate
    /\ At(p, "saved") \/ At(p, "pushed") \/ At(p, "nuked") => job[p].row /\ job[p].commit
    /\ job[p].out \in Output => job[p].out.of = Cs(p)

\* A revision that is not committed yet is based on the latest one, its
\* changeset cannot be taken away, and there is one at a time.
RowInOrder(p) ==
    job[p].row =>
        /\ owner[Cs(p)] = p
        /\ parent[Cs(p)] = Len(history)
        /\ \A q \in Session : job[q].row => q = p

\* What is generated for a session that still has its changeset is the output
\* of the changeset.
OutIsCurrent(p) ==
    Busy(p) /\ Owns(p, Cs(p)) /\ job[p].out # None => job[p].out = OutputOf(Cs(p))

\* A working directory has output of its own changeset, and that of the call
\* from the time it was generated until it is removed.
WorkdirInOrder ==
    /\ \A c \in Changeset : workdir[c] \in Output => workdir[c].of = c
    /\ \A p \in Session :
          (At(p, "generated") \/ At(p, "rolledback")) /\ job[p].regenerate
              => workdir[Cs(p)] = job[p].out

\* The revisions are based on one another, ...
HistoryInOrder ==
    /\ \A c \in started : parent[c] <= Len(history)
    /\ \A i \in DOMAIN history :
          history[i].of \in started /\ parent[history[i].of] + 1 = i

\* ... and outputs reach the repository in the order of their bases.
AllCommits == scm \o ahead
ScmInOrder ==
    /\ \A n \in DOMAIN AllCommits : AllCommits[n] \in Output => AllCommits[n].of \in started
    /\ \A m, n \in DOMAIN AllCommits :
          m <= n /\ AllCommits[m] \in Output /\ AllCommits[n] \in Output
              => parent[AllCommits[m].of] <= parent[AllCommits[n].of]

IInv ==
    /\ TypeOK /\ JobsAreLocked /\ LocksExclude
    /\ \A p \in Session : JobInOrder(p) /\ RowInOrder(p) /\ OutIsCurrent(p)
    /\ WorkdirInOrder /\ HistoryInOrder /\ ScmInOrder

\* Without forced regenerations: what a call has read of the flag still holds.
FlagIsCurrent(p) ==
    /\ job[p].regenerate /\ job[p].stage \in {"ready", "generating", "generated", "rolledback"}
          => ~fresh[Cs(p)]
    /\ At(p, "ready") /\ ~job[p].regenerate /\ Owns(p, Cs(p)) => fresh[Cs(p)]
    /\ At(p, "generated") => workdir[Cs(p)] \in {None, job[p].out}

\* The output is where the next step of a commit needs it.
OutIsOnItsWay(p) ==
    /\ At(p, "saved") => LatestOf(AllCommits, None) = job[p].out \/ dropped[p]
    /\ At(p, "pushed") \/ At(p, "nuked") => EndsPushed(p) \/ dropped[p]

FreshInv ==
    /\ IInv
    /\ \A c \in Changeset : fresh[c] => c \in pending
    /\ FreshMeansGenerated
    /\ \A p \in Session : FlagIsCurrent(p) /\ OutIsOnItsWay(p)

=============================================================================
