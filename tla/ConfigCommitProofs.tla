------------------------- MODULE ConfigCommitProofs -------------------------
(***************************************************************************)
(* What holds of ConfigCommit for any number of sessions and changesets,   *)
(* however often they change, lock and commit.  IInv is inductive for all  *)
(* sessions; FreshInv when none of them forces a regeneration (Forcing).   *)
(***************************************************************************)
EXTENDS ConfigCommit, WellFoundedInduction, TLAPS

\* The record of a call has the fields of Job.
LEMMA JobTyped ==
    ASSUME TypeOK, NEW p \in Session
    PROVE  /\ job[p].stage \in Stage /\ job[p].commit \in BOOLEAN
           /\ job[p].cs \in Changeset \cup {None} /\ job[p].regenerate \in BOOLEAN
           /\ job[p].row \in BOOLEAN /\ job[p].out \in Output \cup {Foreign, None}
BY DEF TypeOK, Job

LEMMA IdleJobTyped == IdleJob \in Job
BY DEF IdleJob, Job, Stage

\* What a step that ends a call does to the records of the calls.
LEMMA FinishTyped ==
    ASSUME TypeOK, NEW p \in Session, Finish(p)
    PROVE  job' \in [Session -> Job] /\ dropped' \in [Session -> BOOLEAN]
BY IdleJobTyped DEF TypeOK, Finish

LEMMA UnlockTyped ==
    ASSUME TypeOK, NEW p \in Session, NEW c \in Changeset, Unlock(p, c)
    PROVE  locks' \in [Session -> [Changeset -> 0 .. MaxLock]]
BY ConfigAssumption DEF TypeOK, Unlock

\* A step to another stage.
LEMMA JobUpdated ==
    ASSUME NEW j \in Job, NEW stage \in Stage
    PROVE  /\ [j EXCEPT !.stage = stage] \in Job
           /\ \A row \in BOOLEAN : [j EXCEPT !.stage = stage, !.row = row] \in Job
           /\ \A r \in BOOLEAN : [j EXCEPT !.stage = stage, !.regenerate = r] \in Job
           /\ \A out \in Output \cup {Foreign} :
                 /\ [j EXCEPT !.stage = stage, !.out = out] \in Job
                 /\ [j EXCEPT !.row = TRUE, !.out = out, !.stage = stage] \in Job
BY DEF Job

LEMMA GotoTyped ==
    ASSUME TypeOK, NEW p \in Session, NEW stage \in Stage, Goto(p, stage)
    PROVE  job' \in [Session -> Job]
BY JobUpdated DEF TypeOK, Goto

\* A call past its first step has a changeset.
LEMMA BusyCs ==
    ASSUME TypeOK, JobsAreLocked, NEW p \in Session, Busy(p)
    PROVE  Cs(p) \in Changeset
<1>1. Cs(p) \in pending
  BY DEF JobsAreLocked
<1> QED
  BY <1>1 DEF TypeOK

-----------------------------------------------------------------------------
LEMMA TypeOKInit == Init => TypeOK
BY ConfigAssumption, IdleJobTyped DEF Init, TypeOK, Tree

\* An uncommitted revision has the output of the changeset.
LEMMA RowOut ==
    ASSUME IInv, NEW p \in Session, job[p].row
    PROVE  /\ Busy(p) /\ Cs(p) \in Changeset /\ Owns(p, Cs(p))
           /\ job[p].out = OutputOf(Cs(p)) /\ job[p].out \in Output
           /\ parent[Cs(p)] = Len(history)
<1>1. JobInOrder(p) /\ RowInOrder(p) /\ OutIsCurrent(p) /\ TypeOK /\ JobsAreLocked
  BY DEF IInv
<1>2. Busy(p)
  BY <1>1 DEF JobInOrder, Busy, At
<1>3. Cs(p) \in Changeset /\ Cs(p) \in pending
  BY <1>1, <1>2, BusyCs DEF JobsAreLocked
<1>4. Owns(p, Cs(p)) /\ job[p].out # None /\ parent[Cs(p)] = Len(history)
  BY <1>1, <1>3 DEF Owns, RowInOrder, JobInOrder, At
<1>5. job[p].out = OutputOf(Cs(p))
  BY <1>1, <1>2, <1>4 DEF OutIsCurrent
<1>6. OutputOf(Cs(p)) \in Output
  BY <1>1, <1>3 DEF TypeOK, OutputOf, Output
<1> QED
  BY <1>2, <1>3, <1>4, <1>5, <1>6

\* Types are preserved by every step.
LEMMA TypeOKStep == IInv /\ [Next]_vars => TypeOK'
<1> SUFFICES ASSUME IInv, [Next]_vars PROVE TypeOK'
  OBVIOUS
<1>0. TypeOK /\ JobsAreLocked
  BY DEF IInv
<1> USE ConfigAssumption
<1>1. CASE UNCHANGED vars
  BY <1>0, <1>1 DEF vars, dbVars, gitVars, TypeOK
<1>2. ASSUME NEW p \in Session, NEW c \in Changeset,
             \/ StartChangeset(p, c) \/ ResumeChangeset(p, c)
             \/ DetachFromCurrentChangeset(p, c) \/ Edit(p, c)
      PROVE  TypeOK'
  <2>1. CASE StartChangeset(p, c)
    BY <1>0, <2>1 DEF TypeOK, StartChangeset, gitVars
  <2>2. CASE ResumeChangeset(p, c)
    BY <1>0, <2>2 DEF TypeOK, ResumeChangeset, gitVars
  <2>3. CASE DetachFromCurrentChangeset(p, c)
    BY <1>0, <2>3 DEF TypeOK, DetachFromCurrentChangeset, gitVars
  <2>4. CASE Edit(p, c)
    BY <1>0, <2>4 DEF TypeOK, Edit, gitVars
  <2> QED
    BY <1>2, <2>1, <2>2, <2>3, <2>4
<1>3. ASSUME NEW p \in Session, NEW c \in Changeset, NEW commit \in BOOLEAN,
             LockChangeset(p, c, commit)
      PROVE  TypeOK'
  <2>1. [IdleJob EXCEPT !.stage = "locked", !.commit = commit, !.cs = c] \in Job
    BY DEF IdleJob, Job, Stage
  <2> QED
    BY <1>0, <1>3, <2>1 DEF TypeOK, LockChangeset, dbVars, gitVars
<1>4. ASSUME NEW p \in Session, InitCfgGenerator(p)
      PROVE  TypeOK'
  <2>1. Cs(p) \in Changeset
    BY <1>0, <1>4, BusyCs DEF InitCfgGenerator, Busy, At
  <2>2. job' \in [Session -> Job]
    <3>1. PICK force \in BOOLEAN :
             job' = [job EXCEPT ![p] = [@ EXCEPT !.stage = "ready",
                                                 !.regenerate = force \/ ~fresh[Cs(p)]]]
      BY <1>4 DEF InitCfgGenerator
    <3>2. "ready" \in Stage /\ (force \/ ~fresh[Cs(p)]) \in BOOLEAN
      BY <1>0, <2>1 DEF Stage
    <3> QED
      BY <1>0, <3>1, <3>2, JobUpdated DEF TypeOK
  <2> QED
    BY <1>0, <1>4, <2>2 DEF TypeOK, InitCfgGenerator, dbVars
<1>5. ASSUME NEW p \in Session, LoseChangeset(p)
      PROVE  TypeOK'
  BY <1>0, <1>5, FinishTyped DEF TypeOK, LoseChangeset, dbVars, gitVars
<1>6. ASSUME NEW p \in Session, DbCommit(p) \/ DiffRefuse(p)
      PROVE  TypeOK'
  <2>1. Cs(p) \in Changeset
    BY <1>0, <1>6, BusyCs DEF DbCommit, DiffRefuse, NeedsCommit, Busy, At
  <2>2. OutputOf(Cs(p)) \in Output
    BY <1>0, <2>1 DEF TypeOK, OutputOf, Output
  <2>3. /\ {"generating", "generated"} \subseteq Stage
        /\ Foreign \in Output \cup {Foreign} /\ OutputOf(Cs(p)) \in Output \cup {Foreign}
    BY <2>2 DEF Stage
  <2>4. job' \in [Session -> Job]
    <3>1. CASE DbCommit(p)
      <4>1. [job[p] EXCEPT !.row = TRUE, !.out = OutputOf(Cs(p)),
                !.stage = IF job[p].regenerate THEN "generating" ELSE "generated"] \in Job
        BY <1>0, <2>3, JobUpdated DEF TypeOK
      <4> QED
        BY <1>0, <3>1, <4>1 DEF TypeOK, DbCommit
    <3>2. CASE DiffRefuse(p)
      <4>1. [job[p] EXCEPT !.stage = "generating",
                !.out = IF Owns(p, Cs(p)) THEN OutputOf(Cs(p)) ELSE Foreign] \in Job
        BY <1>0, <2>3, JobUpdated DEF TypeOK
      <4> QED
        BY <1>0, <3>2, <4>1 DEF TypeOK, DiffRefuse
    <3> QED
      BY <1>6, <3>1, <3>2
  <2> QED
    BY <1>0, <1>6, <2>4 DEF TypeOK, DbCommit, DiffRefuse, dbVars, gitVars
<1>7. ASSUME NEW p \in Session, DbRefuse(p) \/ DiffIsFresh(p)
      PROVE  TypeOK'
  <2>1. Cs(p) \in Changeset
    BY <1>0, <1>7, BusyCs DEF DbRefuse, DiffIsFresh, NeedsCommit, Busy, At
  <2> QED
    BY <1>0, <1>7, <2>1, FinishTyped, UnlockTyped
       DEF TypeOK, DbRefuse, DiffIsFresh, dbVars, gitVars
<1>8. ASSUME NEW p \in Session, OpenRepo(p)
      PROVE  TypeOK'
  BY <1>0, <1>8 DEF TypeOK, OpenRepo, Tree, dbVars
<1>9. ASSUME NEW p \in Session, Generate(p)
      PROVE  TypeOK'
  <2>1. Cs(p) \in Changeset /\ At(p, "generating")
    BY <1>0, <1>9, BusyCs DEF Generate, Busy, At
  <2>2. job' \in [Session -> Job]
    BY <1>0, <1>9, GotoTyped DEF Generate, Stage
  <2>3. workdir' \in [Changeset -> Tree \cup {None}]
    BY <1>0, <1>9, JobTyped DEF TypeOK, Generate, Tree
  <2> QED
    BY <1>0, <1>9, <2>2, <2>3 DEF TypeOK, Generate, dbVars
<1>10. ASSUME NEW p \in Session, GeneratorError(p)
       PROVE  TypeOK'
  <2>1. Cs(p) \in Changeset
    BY <1>0, <1>10, BusyCs DEF GeneratorError, Busy, At
  <2>2. locks' \in [Session -> [Changeset -> 0 .. MaxLock]]
    BY <1>0, <1>10, <2>1, UnlockTyped DEF TypeOK, GeneratorError
  <2> QED
    BY <1>0, <1>10, <2>2, FinishTyped DEF TypeOK, GeneratorError, dbVars, gitVars
<1>11. ASSUME NEW p \in Session, RollbackDiff(p)
       PROVE  TypeOK'
  <2>1. job' \in [Session -> Job]
    <3>1. "rolledback" \in Stage
      BY DEF Stage
    <3> QED
      BY <1>0, <1>11, <3>1, JobUpdated DEF TypeOK, RollbackDiff
  <2> QED
    BY <1>0, <1>11, <2>1 DEF TypeOK, RollbackDiff, dbVars, gitVars
<1>12. ASSUME NEW p \in Session, MarkChangesetFresh(p)
       PROVE  TypeOK'
  <2>1. Cs(p) \in Changeset
    BY <1>0, <1>12, BusyCs DEF MarkChangesetFresh, Busy, At
  <2> QED
    BY <1>0, <1>12, <2>1, FinishTyped, UnlockTyped DEF TypeOK, MarkChangesetFresh, gitVars
<1>13. ASSUME NEW p \in Session, ApiSave(p)
       PROVE  TypeOK'
  <2>1. Cs(p) \in Changeset
    BY <1>0, <1>13, BusyCs DEF ApiSave, Saving, Busy, At
  <2>2. job' \in [Session -> Job]
    BY <1>0, <1>13, GotoTyped DEF ApiSave, Stage
  <2>3. workdir[Cs(p)] \in Tree
    BY <1>0, <1>13, <2>1 DEF TypeOK, ApiSave
  <2>4. ahead' \in Seq(Tree)
    BY <1>0, <1>13, <2>3 DEF TypeOK, ApiSave
  <2> QED
    BY <1>0, <1>13, <2>2, <2>4 DEF TypeOK, ApiSave, dbVars
<1>14. ASSUME NEW p \in Session, Push(p)
       PROVE  TypeOK'
  <2>1. job' \in [Session -> Job]
    BY <1>0, <1>14, GotoTyped DEF Push, Stage
  <2> QED
    BY <1>0, <1>14, <2>1 DEF TypeOK, Push, dbVars
<1>15. ASSUME NEW p \in Session, ApiSaveFails(p)
       PROVE  TypeOK'
  BY <1>0, <1>15, FinishTyped DEF TypeOK, ApiSaveFails, dbVars, gitVars
<1>16. ASSUME NEW p \in Session, NukeWorkDir(p)
       PROVE  TypeOK'
  <2>1. job' \in [Session -> Job]
    BY <1>0, <1>16, GotoTyped DEF NukeWorkDir, Stage
  <2> QED
    BY <1>0, <1>16, <2>1 DEF TypeOK, NukeWorkDir, dbVars
<1>17. ASSUME NEW p \in Session, DbEnd(p)
       PROVE  TypeOK'
  <2>1. job[p].out \in Output
    BY <1>17, RowOut DEF IInv, DbEnd, JobInOrder
  <2>2. history' \in Seq(Output)
    BY <1>0, <1>17, <2>1 DEF TypeOK, DbEnd
  <2>3. job' \in [Session -> Job] /\ dropped' \in [Session -> BOOLEAN]
    BY <1>0, <1>17, FinishTyped DEF DbEnd
  <2>4. /\ started' \subseteq Changeset /\ pending' \subseteq started'
        /\ owner' \in [Changeset -> Session \cup {None}]
        /\ fresh' \in [Changeset -> BOOLEAN]
    BY <1>0, <1>17 DEF TypeOK, DbEnd
  <2>5. UNCHANGED <<parent, edits, locks, scm, ahead, workdir>>
    BY <1>17 DEF DbEnd, gitVars
  <2> QED
    BY <1>0, <2>2, <2>3, <2>4, <2>5 DEF TypeOK
<1>18. ASSUME NEW p \in Session, Crash(p)
       PROVE  TypeOK'
  BY <1>0, <1>18, FinishTyped DEF TypeOK, Crash, gitVars
<1> QED
  BY <1>1, <1>2, <1>3, <1>4, <1>5, <1>6, <1>7, <1>8, <1>9, <1>10, <1>11,
     <1>12, <1>13, <1>14, <1>15, <1>16, <1>17, <1>18 DEF Next, Proceed

-----------------------------------------------------------------------------
(* IInv is inductive *)

\* The lock of a changeset admits one call at a time.
LEMMA OneCallPerChangeset ==
    ASSUME IInv, NEW p \in Session, NEW q \in Session, Busy(p), Busy(q), Cs(p) = Cs(q)
    PROVE  p = q
<1>1. locks[p][Cs(p)] > 0 /\ locks[q][Cs(p)] > 0
  BY DEF IInv, JobsAreLocked
<1>2. Cs(p) \in Changeset
  BY BusyCs DEF IInv
<1> QED
  BY <1>1, <1>2 DEF IInv, LocksExclude

\* A record of a call that has ended promises nothing.
LEMMA IdleInOrder ==
    ASSUME NEW p \in Session, job[p] = IdleJob
    PROVE  ~Busy(p) /\ JobInOrder(p) /\ RowInOrder(p) /\ OutIsCurrent(p)
BY TreeAssumption DEF IdleJob, Busy, At, JobInOrder, RowInOrder, OutIsCurrent

\* Calls end, sessions come and go: nothing is added to the tables or to git.
LEMMA QuietStep ==
    ASSUME IInv, TypeOK',
           UNCHANGED <<started, pending, parent, edits, history, scm, ahead, workdir>>,
           \A q \in Session : job'[q] = job[q] \/ job'[q] = IdleJob,
           \A q \in Session : Busy(q)' => locks'[q] = locks[q],
           \A q \in Session, c \in Changeset : locks'[q][c] > 0 => locks[q][c] > 0,
           \A q \in Session : Busy(q)' =>
               /\ owner'[Cs(q)] = q => owner[Cs(q)] = q
               /\ job[q].row => owner'[Cs(q)] = owner[Cs(q)]
    PROVE  IInv'
<1> USE DEF IInv, Cs, At, Busy
<1>1. ASSUME NEW q \in Session, job'[q] # IdleJob
      PROVE  /\ job'[q] = job[q]
             /\ JobInOrder(q)' /\ RowInOrder(q)' /\ OutIsCurrent(q)'
  <2>1. job'[q] = job[q]
    BY <1>1
  <2>2. JobInOrder(q)'
    BY <2>1 DEF JobInOrder, At
  <2>3. Busy(q)' <=> Busy(q)
    BY <2>1 DEF Busy, At
  <2>4. RowInOrder(q)'
    <3>1. CASE ~job[q].row
      BY <2>1, <3>1 DEF RowInOrder
    <3>2. CASE job[q].row
      <4>1. Busy(q)
        BY <3>2, RowOut
      <4>2. \A r \in Session : job'[r].row => job[r].row
        BY DEF IdleJob
      <4>3. owner'[Cs(q)] = q /\ job'[q].cs = Cs(q)
        BY <2>1, <2>3, <3>2, <4>1 DEF RowInOrder
      <4> QED
        BY <3>2, <4>2, <4>3 DEF RowInOrder
    <3> QED
      BY <3>1, <3>2
  <2>5. OutIsCurrent(q)'
    BY <2>1, <2>3 DEF OutIsCurrent, Owns, OutputOf
  <2> QED
    BY <2>1, <2>2, <2>4, <2>5
<1>2. \A q \in Session : JobInOrder(q)' /\ RowInOrder(q)' /\ OutIsCurrent(q)'
  <2> SUFFICES ASSUME NEW q \in Session
               PROVE  JobInOrder(q)' /\ RowInOrder(q)' /\ OutIsCurrent(q)'
    OBVIOUS
  <2>1. CASE job'[q] = IdleJob
    BY <2>1, TreeAssumption DEF IdleJob, Busy, At, JobInOrder, RowInOrder, OutIsCurrent
  <2> QED
    BY <1>1, <2>1
<1>3. \A q \in Session : Busy(q)' => job'[q] = job[q] /\ Busy(q)
  BY DEF IdleJob, Busy, At
<1>4. JobsAreLocked'
  BY <1>3 DEF JobsAreLocked
<1>5. LocksExclude'
  BY DEF LocksExclude
<1>6. WorkdirInOrder'
  BY <1>3 DEF WorkdirInOrder, Busy, At
<1>7. HistoryInOrder' /\ ScmInOrder'
  BY DEF HistoryInOrder, ScmInOrder, AllCommits
<1> QED
  BY <1>2, <1>4, <1>5, <1>6, <1>7

\* A call goes on to its next step.
LEMMA AdvanceStep ==
    ASSUME IInv, TypeOK', NEW p \in Session, Busy(p), Busy(p)', Cs(p)' = Cs(p),
           UNCHANGED <<started, pending, owner, parent, edits, history, locks>>,
           \A q \in Session \ {p} : job'[q] = job[q],
           JobInOrder(p)', RowInOrder(p)', OutIsCurrent(p)',
           job'[p].row => job[p].row \/ \A q \in Session : ~job[q].row,
           WorkdirInOrder', ScmInOrder'
    PROVE  IInv'
<1> USE DEF IInv, Cs, At, Busy
<1>1. ASSUME NEW q \in Session \ {p}
      PROVE  JobInOrder(q)' /\ RowInOrder(q)' /\ OutIsCurrent(q)'
  <2>1. JobInOrder(q)'
    BY DEF JobInOrder, At
  <2>2. RowInOrder(q)'
    BY DEF RowInOrder
  <2>3. OutIsCurrent(q)'
    BY DEF OutIsCurrent, Owns, OutputOf, Busy, At
  <2> QED
    BY <2>1, <2>2, <2>3
<1>2. JobsAreLocked'
  BY DEF JobsAreLocked, Busy, At
<1>3. LocksExclude' /\ HistoryInOrder'
  BY DEF LocksExclude, HistoryInOrder
<1> QED
  BY <1>1, <1>2, <1>3

LEMMA StartStep ==
    ASSUME IInv, TypeOK', NEW p \in Session, NEW c \in Changeset, StartChangeset(p, c)
    PROVE  IInv'
<1>0. TypeOK /\ c \notin started /\ c \notin pending
  BY DEF IInv, StartChangeset, TypeOK
<1>1. /\ UNCHANGED <<job, locks, edits, history, scm, ahead, workdir>>
      /\ started' = started \cup {c} /\ pending' = pending \cup {c}
      /\ owner' = [owner EXCEPT ![c] = p]
      /\ parent' = [parent EXCEPT ![c] = Len(history)]
  BY DEF StartChangeset, gitVars
<1>2. \A d \in Changeset : d # c => owner'[d] = owner[d] /\ parent'[d] = parent[d]
  BY <1>0, <1>1 DEF TypeOK
<1>3. JobsAreLocked' /\ LocksExclude' /\ WorkdirInOrder'
  BY <1>1 DEF IInv, JobsAreLocked, LocksExclude, WorkdirInOrder, Busy, At, Cs
<1>4. ASSUME NEW q \in Session
      PROVE  JobInOrder(q)' /\ RowInOrder(q)' /\ OutIsCurrent(q)'
  <2>1. JobInOrder(q)'
    BY <1>1 DEF IInv, JobInOrder, At, Cs
  <2>2. RowInOrder(q)'
    <3>1. CASE job[q].row
      <4>1. Cs(q) \in Changeset /\ Cs(q) # c
        BY <1>0, <3>1, RowOut DEF Owns
      <4> QED
        BY <1>1, <1>2, <4>1 DEF IInv, RowInOrder, Cs
    <3> QED
      BY <1>1, <3>1 DEF RowInOrder
  <2>3. OutIsCurrent(q)'
    <3>1. CASE Busy(q)
      <4>1. Cs(q) \in pending /\ Cs(q) \in Changeset /\ Cs(q) # c
        BY <1>0, <3>1, BusyCs DEF IInv, JobsAreLocked
      <4> QED
        BY <1>1, <1>2, <4>1 DEF IInv, OutIsCurrent, Owns, OutputOf, Cs, Busy, At
    <3> QED
      BY <1>1, <3>1 DEF OutIsCurrent, Busy, At
  <2> QED
    BY <2>1, <2>2, <2>3
<1>5. HistoryInOrder'
  <2>1. \A d \in started' : parent'[d] <= Len(history')
    BY <1>0, <1>1, <1>2 DEF IInv, HistoryInOrder, TypeOK
  <2>2. \A i \in DOMAIN history' : history'[i].of \in started' /\ parent'[history'[i].of] + 1 = i
    BY <1>0, <1>1, <1>2 DEF IInv, HistoryInOrder, TypeOK
  <2> QED
    BY <2>1, <2>2 DEF HistoryInOrder
<1>6. ScmInOrder'
  <2>1. AllCommits' = AllCommits
    BY <1>1 DEF AllCommits
  <2>2. \A n \in DOMAIN AllCommits : AllCommits[n] \in Output =>
           /\ AllCommits[n].of \in started'
           /\ parent'[AllCommits[n].of] = parent[AllCommits[n].of]
    BY <1>0, <1>1, <1>2 DEF IInv, ScmInOrder, TypeOK
  <2> QED
    BY <2>1, <2>2 DEF IInv, ScmInOrder
<1> QED
  BY <1>3, <1>4, <1>5, <1>6 DEF IInv

LEMMA EditStep ==
    ASSUME IInv, TypeOK', NEW p \in Session, NEW c \in Changeset, Edit(p, c)
    PROVE  IInv'
<1>0. TypeOK /\ At(p, "idle") /\ Owns(p, c)
  BY DEF IInv, Edit
<1>1. UNCHANGED <<started, pending, owner, parent, history, job, locks, scm, ahead, workdir>>
  BY DEF Edit, gitVars
<1>2. JobsAreLocked' /\ LocksExclude' /\ WorkdirInOrder' /\ HistoryInOrder' /\ ScmInOrder'
  BY <1>1 DEF IInv, JobsAreLocked, LocksExclude, WorkdirInOrder, HistoryInOrder, ScmInOrder,
              AllCommits, Busy, At, Cs
<1>3. ASSUME NEW q \in Session
      PROVE  JobInOrder(q)' /\ RowInOrder(q)' /\ OutIsCurrent(q)'
  <2>1. JobInOrder(q)' /\ RowInOrder(q)'
    BY <1>1 DEF IInv, JobInOrder, RowInOrder, At, Cs
  <2>2. OutIsCurrent(q)'
    <3>1. CASE Busy(q) /\ Owns(q, Cs(q))
      <4>1. Cs(q) \in Changeset /\ Cs(q) # c
        BY <1>0, <3>1, BusyCs DEF IInv, Owns, Busy
      <4>2. edits'[Cs(q)] = edits[Cs(q)]
        BY <1>0, <4>1 DEF Edit, TypeOK
      <4> QED
        BY <1>1, <4>2 DEF IInv, OutIsCurrent, Owns, OutputOf, Cs, Busy, At
    <3> QED
      BY <1>1, <3>1 DEF OutIsCurrent, Owns, Cs, Busy, At
  <2> QED
    BY <2>1, <2>2
<1> QED
  BY <1>2, <1>3 DEF IInv

LEMMA LockStep ==
    ASSUME IInv, TypeOK', NEW p \in Session, NEW c \in Changeset, NEW commit \in BOOLEAN,
           LockChangeset(p, c, commit)
    PROVE  IInv'
<1>0. TypeOK /\ c \in pending /\ ~HeldByOther(p, c)
  BY DEF IInv, LockChangeset, Owns
<1>1. UNCHANGED <<started, pending, owner, parent, edits, history, scm, ahead, workdir>>
  BY DEF LockChangeset, dbVars, gitVars
<1>2. /\ \A q \in Session \ {p} : job'[q] = job[q] /\ locks'[q] = locks[q]
      /\ job'[p].stage = "locked" /\ job'[p].cs = c
      /\ job'[p].row = FALSE /\ job'[p].out = None
      /\ locks'[p][c] > 0
      /\ \A d \in Changeset \ {c} : locks'[p][d] = locks[p][d]
      /\ \A d \in Changeset : locks[p][d] > 0 => locks'[p][d] > 0
  BY SMTT(40), <1>0, ConfigAssumption DEF TypeOK, LockChangeset, IdleJob
<1>3. JobsAreLocked'
  BY <1>0, <1>1, <1>2 DEF IInv, JobsAreLocked, Busy, At, Cs
<1>4. LocksExclude'
  BY <1>0, <1>2 DEF IInv, LocksExclude, HeldByOther
<1>5. ASSUME NEW q \in Session
      PROVE  JobInOrder(q)' /\ RowInOrder(q)' /\ OutIsCurrent(q)'
  <2>1. CASE q = p
    BY <1>2, <2>1, TreeAssumption DEF JobInOrder, RowInOrder, OutIsCurrent, At
  <2>2. CASE q # p
    BY <1>1, <1>2, <2>2 DEF IInv, JobInOrder, RowInOrder, OutIsCurrent, Owns, OutputOf, At, Cs, Busy
  <2> QED
    BY <2>1, <2>2
<1>6. WorkdirInOrder'
  BY <1>1, <1>2 DEF IInv, WorkdirInOrder, At, Cs
<1>7. HistoryInOrder' /\ ScmInOrder'
  BY <1>1 DEF IInv, HistoryInOrder, ScmInOrder, AllCommits
<1> QED
  BY <1>3, <1>4, <1>5, <1>6, <1>7 DEF IInv

\* The revision joins the history whose end is its parent.
LEMMA EndStep ==
    ASSUME IInv, TypeOK', NEW p \in Session, DbEnd(p)
    PROVE  IInv'
<1>0. TypeOK /\ At(p, "nuked") /\ job[p].row
  BY DEF IInv, DbEnd, JobInOrder
<1>1. /\ Busy(p) /\ Cs(p) \in Changeset /\ Cs(p) \in pending
      /\ job[p].out \in Output /\ job[p].out.of = Cs(p)
      /\ parent[Cs(p)] = Len(history)
      /\ \A q \in Session : job[q].row => q = p
  BY <1>0, RowOut DEF IInv, JobInOrder, RowInOrder, Owns
<1>2. UNCHANGED <<started, parent, edits, locks, scm, ahead, workdir>>
  BY DEF DbEnd, gitVars
<1>3. job'[p] = IdleJob /\ \A q \in Session \ {p} : job'[q] = job[q]
  BY <1>0 DEF DbEnd, Finish, TypeOK
<1>4. ASSUME NEW q \in Session, Busy(q)'
      PROVE  q # p /\ job'[q] = job[q] /\ Cs(q) \in Changeset /\ Cs(q) # Cs(p) /\ Cs(q) \in pending'
  <2>1. q # p /\ job'[q] = job[q] /\ Busy(q)
    BY <1>3, <1>4 DEF Busy, At, IdleJob
  <2>2. Cs(q) \in pending /\ Cs(q) # Cs(p) /\ Cs(q) \in Changeset
    BY <1>1, <2>1, OneCallPerChangeset, BusyCs DEF IInv, JobsAreLocked
  <2> QED
    BY <2>1, <2>2 DEF DbEnd
<1>5. JobsAreLocked'
  BY <1>2, <1>4 DEF IInv, JobsAreLocked, Busy, At, Cs
<1>6. ASSUME NEW q \in Session
      PROVE  JobInOrder(q)' /\ RowInOrder(q)' /\ OutIsCurrent(q)'
  <2>1. CASE ~Busy(q)'
    <3>1. job'[q] = IdleJob \/ (q # p /\ job'[q] = job[q] /\ ~Busy(q))
      BY <1>3, <2>1 DEF Busy, At
    <3>2. CASE job'[q] = IdleJob
      BY <3>2, TreeAssumption DEF IdleJob, Busy, At, JobInOrder, RowInOrder, OutIsCurrent
    <3>3. CASE q # p /\ job'[q] = job[q] /\ ~Busy(q)
      <4>1. ~job[q].row
        BY <3>3, RowOut
      <4> QED
        BY <2>1, <3>3, <4>1 DEF IInv, JobInOrder, RowInOrder, OutIsCurrent, At, Cs
    <3> QED
      BY <3>1, <3>2, <3>3
  <2>2. CASE Busy(q)'
    <3>1. q # p /\ job'[q] = job[q] /\ ~job'[q].row
      BY <1>1, <1>4, <2>2
    <3>2. JobInOrder(q)' /\ RowInOrder(q)'
      BY <3>1 DEF IInv, JobInOrder, RowInOrder, At, Cs
    <3>3. owner'[Cs(q)] = owner[Cs(q)]
      BY <1>0, <1>4, <2>2 DEF DbEnd, TypeOK
    <3>4. OutIsCurrent(q)'
      BY <1>2, <1>4, <2>2, <3>1, <3>3
         DEF IInv, OutIsCurrent, Owns, OutputOf, Cs, Busy, At, JobsAreLocked
    <3> QED
      BY <3>2, <3>4
  <2> QED
    BY <2>1, <2>2
<1>7. LocksExclude'
  BY <1>2 DEF IInv, LocksExclude
<1>8. WorkdirInOrder'
  BY <1>2, <1>3 DEF IInv, WorkdirInOrder, At, Cs, IdleJob
<1>9. HistoryInOrder'
  <2>1. history \in Seq(Output) /\ history' = Append(history, job[p].out)
    BY <1>0 DEF TypeOK, DbEnd
  <2>2. Cs(p) \in started /\ \A d \in started : parent[d] \in Nat
    BY <1>0, <1>1 DEF TypeOK
  <2>3. \A d \in started : parent[d] <= Len(history')
    BY <2>1, <2>2 DEF IInv, HistoryInOrder
  <2>4. \A i \in DOMAIN history' : history'[i].of \in started /\ parent[history'[i].of] + 1 = i
    BY <1>1, <2>1, <2>2 DEF IInv, HistoryInOrder
  <2> QED
    BY <1>2, <2>3, <2>4 DEF HistoryInOrder
<1>10. ScmInOrder'
  BY <1>2 DEF IInv, ScmInOrder, AllCommits
<1> QED
  BY <1>5, <1>6, <1>7, <1>8, <1>9, <1>10 DEF IInv

\* What Goto leaves alone.
LEMMA GotoFrame ==
    ASSUME TypeOK, NEW p \in Session, NEW stage, Goto(p, stage)
    PROVE  /\ \A q \in Session \ {p} : job'[q] = job[q]
           /\ At(p, stage)' /\ Cs(p)' = Cs(p)
           /\ job'[p].commit = job[p].commit /\ job'[p].regenerate = job[p].regenerate
           /\ job'[p].row = job[p].row /\ job'[p].out = job[p].out
<1>1. job' = [job EXCEPT ![p] = [@ EXCEPT !.stage = stage]]
  BY DEF Goto
<1>2. job[p] \in Job /\ job'[p] = [job[p] EXCEPT !.stage = stage]
  BY <1>1 DEF TypeOK
<1> QED
  BY <1>1, <1>2 DEF TypeOK, Job, At, Cs

\* The reset of the clone takes commits from the end.
LEMMA ResetStep ==
    ASSUME TypeOK, ScmInOrder, UNCHANGED <<scm, started, parent>>, ahead' = <<>>
    PROVE  ScmInOrder'
<1>1. scm \in Seq(Tree) /\ ahead \in Seq(Tree)
  BY DEF TypeOK
<1>2. AllCommits' = scm
  BY <1>1 DEF AllCommits
<1>3. DOMAIN scm \subseteq DOMAIN AllCommits /\ \A n \in DOMAIN scm : AllCommits[n] = scm[n]
  BY <1>1 DEF AllCommits
<1> QED
  BY <1>2, <1>3 DEF ScmInOrder

\* A commit based on the newest revision comes last.
LEMMA AppendStep ==
    ASSUME TypeOK, HistoryInOrder, ScmInOrder, UNCHANGED <<started, parent>>,
           NEW w \in Tree, w \in Output => w.of \in started /\ parent[w.of] = Len(history),
           AllCommits' = Append(AllCommits, w)
    PROVE  ScmInOrder'
<1>1. AllCommits \in Seq(Tree) /\ started \subseteq Changeset /\ Len(history) \in Nat
  BY DEF AllCommits, TypeOK
<1>2. /\ DOMAIN AllCommits' = 1 .. Len(AllCommits) + 1
      /\ AllCommits'[Len(AllCommits) + 1] = w
      /\ \A n \in DOMAIN AllCommits : AllCommits'[n] = AllCommits[n]
  BY <1>1
<1>3. \A n \in DOMAIN AllCommits' : AllCommits'[n] \in Output =>
         /\ AllCommits'[n].of \in started
         /\ parent[AllCommits'[n].of] \in Nat
         /\ parent[AllCommits'[n].of] <= Len(history)
  BY <1>1, <1>2 DEF ScmInOrder, HistoryInOrder, TypeOK
<1>4. \A m, n \in DOMAIN AllCommits' :
         m <= n /\ AllCommits'[m] \in Output /\ AllCommits'[n] \in Output
             => parent[AllCommits'[m].of] <= parent[AllCommits'[n].of]
  BY <1>1, <1>2, <1>3 DEF ScmInOrder
<1> QED
  BY <1>3, <1>4 DEF ScmInOrder

\* Nobody else's working directory is the one a call works in.
LEMMA WorkdirStep ==
    ASSUME IInv, NEW p \in Session, Busy(p), NEW w,
           workdir' = [workdir EXCEPT ![Cs(p)] = w],
           w \in Output => w.of = Cs(p),
           \A q \in Session \ {p} : job'[q] = job[q],
           (At(p, "generated") \/ At(p, "rolledback"))' /\ job'[p].regenerate
               => Cs(p)' = Cs(p) /\ job'[p].out = w
    PROVE  WorkdirInOrder'
<1>0. TypeOK /\ Cs(p) \in Changeset
  BY BusyCs DEF IInv
<1>1. \A c \in Changeset : workdir'[c] = IF c = Cs(p) THEN w ELSE workdir[c]
  BY <1>0 DEF TypeOK
<1>2. ASSUME NEW q \in Session \ {p}, Busy(q)
      PROVE  workdir'[Cs(q)] = workdir[Cs(q)]
  BY <1>0, <1>1, <1>2, BusyCs, OneCallPerChangeset DEF IInv
<1>3. ASSUME NEW q \in Session, (At(q, "generated") \/ At(q, "rolledback"))', job'[q].regenerate
      PROVE  workdir'[Cs(q)'] = job'[q].out
  <2>1. CASE q = p
    BY <1>0, <1>1, <1>3, <2>1
  <2>2. CASE q # p
    BY <1>2, <1>3, <2>2 DEF IInv, WorkdirInOrder, Busy, At, Cs
  <2> QED
    BY <2>1, <2>2
<1>4. \A c \in Changeset : workdir'[c] \in Output => workdir'[c].of = c
  BY <1>1 DEF IInv, WorkdirInOrder
<1> QED
  BY <1>3, <1>4 DEF WorkdirInOrder, Cs

LEMMA ReadyStep ==
    ASSUME IInv, TypeOK', NEW p \in Session, InitCfgGenerator(p) PROVE IInv'
<1>0. TypeOK /\ At(p, "locked") /\ job[p] \in Job
  BY DEF IInv, InitCfgGenerator, TypeOK
<1>1. UNCHANGED <<started, pending, owner, parent, edits, history, locks, scm, workdir>>
  BY DEF InitCfgGenerator, dbVars
<1>2. /\ \A q \in Session \ {p} : job'[q] = job[q]
      /\ At(p, "ready")' /\ Cs(p)' = Cs(p) /\ job'[p].out = job[p].out
      /\ job'[p].row = job[p].row /\ ~job[p].row
  <2>1. PICK r : job' = [job EXCEPT ![p] = [@ EXCEPT !.stage = "ready", !.regenerate = r]]
    BY DEF InitCfgGenerator
  <2>2. job'[p] = [job[p] EXCEPT !.stage = "ready", !.regenerate = r]
    BY <1>0, <2>1 DEF TypeOK
  <2>3. ~job[p].row
    BY <1>0 DEF IInv, JobInOrder, At
  <2> QED
    BY <1>0, <2>1, <2>2, <2>3 DEF TypeOK, Job, At, Cs
<1>3. JobInOrder(p)' /\ RowInOrder(p)' /\ OutIsCurrent(p)'
  BY <1>0, <1>1, <1>2
     DEF IInv, JobInOrder, RowInOrder, OutIsCurrent, Owns, OutputOf, Busy, At, Cs
<1>4. WorkdirInOrder'
  BY <1>1, <1>2 DEF IInv, WorkdirInOrder, At, Cs
<1>5. ScmInOrder'
  BY <1>0, <1>1, ResetStep DEF IInv, InitCfgGenerator
<1> QED
  BY <1>0, <1>1, <1>2, <1>3, <1>4, <1>5, AdvanceStep DEF Busy, At

LEMMA CommitStep ==
    ASSUME IInv, TypeOK', NEW p \in Session, DbCommit(p) \/ DiffRefuse(p) PROVE IInv'
<1>0. TypeOK /\ At(p, "ready") /\ job[p] \in Job /\ ~RowHeld(p)
  BY DEF IInv, DbCommit, DiffRefuse, NeedsCommit, TypeOK
<1>1. UNCHANGED <<started, pending, owner, parent, edits, history, locks, scm, ahead, workdir>>
  BY DEF DbCommit, DiffRefuse, dbVars, gitVars
<1>2. /\ \A q \in Session \ {p} : job'[q] = job[q]
      /\ Cs(p)' = Cs(p) /\ job'[p].commit = job[p].commit
      /\ job'[p].regenerate = job[p].regenerate
      /\ ~job[p].row /\ \A q \in Session : ~job[q].row
      /\ \/ At(p, "generating")' /\ job[p].regenerate
         \/ At(p, "generated")' /\ ~job[p].regenerate
  <2>1. ~job[p].row
    BY <1>0 DEF IInv, JobInOrder, At
  <2>2. \A q \in Session : ~job[q].row
    BY <1>0, <2>1 DEF RowHeld
  <2>3. CASE DbCommit(p)
    <3>1. job'[p] = [job[p] EXCEPT !.row = TRUE, !.out = OutputOf(Cs(p)),
                        !.stage = IF job[p].regenerate THEN "generating" ELSE "generated"]
      BY <1>0, <2>3 DEF TypeOK, DbCommit
    <3> QED
      BY <1>0, <2>1, <2>2, <2>3, <3>1 DEF TypeOK, Job, DbCommit, At, Cs
  <2>4. CASE DiffRefuse(p)
    <3>1. job'[p] = [job[p] EXCEPT !.stage = "generating",
                        !.out = IF Owns(p, Cs(p)) THEN OutputOf(Cs(p)) ELSE Foreign]
      BY <1>0, <2>4 DEF TypeOK, DiffRefuse
    <3> QED
      BY <1>0, <2>1, <2>2, <2>4, <3>1 DEF TypeOK, Job, DiffRefuse, NeedsCommit, At, Cs
  <2> QED
    BY <2>3, <2>4
<1>3. /\ Busy(p) /\ Busy(p)' /\ Cs(p) \in Changeset
      /\ OutputOf(Cs(p)) \in Output /\ OutputOf(Cs(p)).of = Cs(p)
  <2>1. Busy(p) /\ Busy(p)'
    BY <1>0, <1>2 DEF Busy, At
  <2>2. Cs(p) \in Changeset
    BY <2>1, BusyCs DEF IInv
  <2> QED
    BY <1>0, <2>1, <2>2 DEF TypeOK, OutputOf, Output
<1>4. \/ /\ DbCommit(p)
         /\ job'[p].row = TRUE /\ job'[p].out = OutputOf(Cs(p))
      \/ /\ DiffRefuse(p) /\ ~job[p].commit
         /\ ~job'[p].row /\ job'[p].out = IF Owns(p, Cs(p)) THEN OutputOf(Cs(p)) ELSE Foreign
  <2>1. CASE DbCommit(p)
    BY <1>0, <2>1 DEF TypeOK, Job, DbCommit
  <2>2. CASE DiffRefuse(p)
    BY <1>0, <1>2, <2>2 DEF TypeOK, Job, DiffRefuse, NeedsCommit
  <2> QED
    BY <2>1, <2>2
<1>5. JobInOrder(p)'
  <2>1. job'[p].out # None /\ (job'[p].out \in Output => job'[p].out.of = Cs(p))
    BY <1>3, <1>4, TreeAssumption
  <2>2. job'[p].commit => job'[p].row
    BY <1>2, <1>4
  <2>3. At(p, "generated")' => job'[p].commit
    <3>1. job[p].commit \/ job[p].regenerate
      BY <1>4 DEF DbCommit, DiffRefuse, NeedsCommit
    <3> QED
      BY <1>2, <3>1 DEF At
  <2>4. /\ job'[p].stage \in {"generating", "generated"}
        /\ At(p, "generating")' => job'[p].regenerate
    BY <1>2 DEF At
  <2>5. job'[p].cs = Cs(p)
    BY <1>2 DEF Cs
  <2> QED
    BY <2>1, <2>2, <2>3, <2>4, <2>5 DEF JobInOrder, At, Cs
<1>6. RowInOrder(p)'
  <2>1. CASE DbCommit(p)
    <3>1. owner[Cs(p)] = p /\ parent[Cs(p)] = Len(history)
      BY <2>1 DEF DbCommit, Owns, ParentIsLatest
    <3> QED
      BY <1>1, <1>2, <3>1 DEF RowInOrder, Cs
  <2>2. CASE ~job'[p].row
    BY <2>2 DEF RowInOrder
  <2> QED
    BY <1>4, <2>1, <2>2
<1>7. OutIsCurrent(p)'
  BY <1>1, <1>2, <1>4 DEF OutIsCurrent, Owns, OutputOf, Cs
<1>8. WorkdirInOrder'
  BY <1>1, <1>2 DEF IInv, WorkdirInOrder, At, Cs
<1>9. ScmInOrder'
  BY <1>1 DEF IInv, ScmInOrder, AllCommits
<1> QED
  BY <1>1, <1>2, <1>3, <1>5, <1>6, <1>7, <1>8, <1>9, AdvanceStep

LEMMA GenerateStep ==
    ASSUME IInv, TypeOK', NEW p \in Session, OpenRepo(p) \/ Generate(p) PROVE IInv'
<1>0. TypeOK /\ At(p, "generating") /\ Busy(p) /\ Cs(p) \in Changeset
  BY BusyCs DEF IInv, OpenRepo, Generate, Busy, At
<1>1. UNCHANGED <<started, pending, owner, parent, edits, history, locks, scm, ahead>>
  BY DEF OpenRepo, Generate, dbVars
<1>2. /\ \A q \in Session \ {p} : job'[q] = job[q]
      /\ At(p, "generating")' \/ At(p, "generated")'
      /\ Cs(p)' = Cs(p)
      /\ job'[p].commit = job[p].commit /\ job'[p].regenerate = job[p].regenerate
      /\ job'[p].row = job[p].row /\ job'[p].out = job[p].out
  <2>1. CASE OpenRepo(p)
    BY <1>0, <2>1 DEF OpenRepo, At, Cs
  <2>2. CASE Generate(p)
    BY <1>0, <2>2, GotoFrame DEF Generate
  <2> QED
    BY <2>1, <2>2
<1>3. JobInOrder(p)' /\ RowInOrder(p)' /\ OutIsCurrent(p)'
  <2>1. JobInOrder(p)'
    BY <1>0, <1>2 DEF IInv, JobInOrder, At, Cs
  <2>2. RowInOrder(p)'
    BY <1>1, <1>2 DEF IInv, RowInOrder, Cs
  <2>3. OutIsCurrent(p)'
    BY <1>0, <1>1, <1>2 DEF IInv, OutIsCurrent, Owns, OutputOf, Cs
  <2> QED
    BY <2>1, <2>2, <2>3
<1>4. WorkdirInOrder'
  <2>1. CASE OpenRepo(p)
    BY <1>0, <1>2, <2>1, WorkdirStep, TreeAssumption DEF OpenRepo, At
  <2>2. CASE Generate(p)
    BY <1>0, <1>2, <2>2, WorkdirStep DEF IInv, Generate, JobInOrder
  <2> QED
    BY <2>1, <2>2
<1>5. ScmInOrder'
  BY <1>1 DEF IInv, ScmInOrder, AllCommits
<1> QED
  BY <1>0, <1>1, <1>2, <1>3, <1>4, <1>5, AdvanceStep DEF Busy, At

LEMMA RollbackStep ==
    ASSUME IInv, TypeOK', NEW p \in Session, RollbackDiff(p) PROVE IInv'
<1>0. TypeOK /\ At(p, "generated") /\ ~job[p].commit /\ Busy(p) /\ job[p] \in Job
  BY DEF IInv, RollbackDiff, Busy, At, TypeOK
<1>1. UNCHANGED <<started, pending, owner, parent, edits, history, locks, scm, ahead, workdir>>
  BY DEF RollbackDiff, dbVars, gitVars
<1>2. /\ \A q \in Session \ {p} : job'[q] = job[q]
      /\ At(p, "rolledback")' /\ Cs(p)' = Cs(p) /\ job'[p].commit = job[p].commit
      /\ job'[p].regenerate = job[p].regenerate
      /\ ~job'[p].row /\ job'[p].out = job[p].out
  <2>1. job'[p] = [job[p] EXCEPT !.stage = "rolledback", !.row = FALSE]
    BY <1>0 DEF TypeOK, RollbackDiff
  <2> QED
    BY <1>0, <2>1 DEF TypeOK, Job, RollbackDiff, At, Cs
<1>3. JobInOrder(p)' /\ RowInOrder(p)' /\ OutIsCurrent(p)'
  <2>1. JobInOrder(p)'
    BY <1>0, <1>2 DEF IInv, JobInOrder, At, Cs
  <2>2. RowInOrder(p)'
    BY <1>2 DEF RowInOrder
  <2>3. OutIsCurrent(p)'
    BY <1>0, <1>1, <1>2 DEF IInv, OutIsCurrent, Owns, OutputOf, Cs
  <2> QED
    BY <2>1, <2>2, <2>3
<1>4. WorkdirInOrder'
  BY <1>0, <1>1, <1>2 DEF IInv, WorkdirInOrder, At, Cs
<1>5. ScmInOrder'
  BY <1>1 DEF IInv, ScmInOrder, AllCommits
<1> QED
  BY <1>0, <1>1, <1>2, <1>3, <1>4, <1>5, AdvanceStep DEF Busy, At

\* apiSave, git push and the removal of the working directory.
LEMMA SaveStep ==
    ASSUME IInv, TypeOK', NEW p \in Session, ApiSave(p) \/ Push(p) \/ NukeWorkDir(p)
    PROVE  IInv'
<1>0. /\ TypeOK /\ Busy(p) /\ job[p].row /\ job[p].commit
      /\ At(p, "generated") \/ At(p, "saved") \/ At(p, "pushed")
  BY DEF IInv, ApiSave, Saving, Push, NukeWorkDir, JobInOrder, Busy, At
<1>1. UNCHANGED <<started, pending, owner, parent, edits, history, locks>>
  BY DEF ApiSave, Push, NukeWorkDir, dbVars
<1>2. /\ \A q \in Session \ {p} : job'[q] = job[q]
      /\ At(p, "saved")' \/ At(p, "pushed")' \/ At(p, "nuked")'
      /\ Cs(p)' = Cs(p)
      /\ job'[p].commit = job[p].commit /\ job'[p].regenerate = job[p].regenerate
      /\ job'[p].row = job[p].row /\ job'[p].out = job[p].out
  <2>1. CASE ApiSave(p)
    BY <1>0, <2>1, GotoFrame DEF ApiSave
  <2>2. CASE Push(p)
    BY <1>0, <2>2, GotoFrame DEF Push
  <2>3. CASE NukeWorkDir(p)
    BY <1>0, <2>3, GotoFrame DEF NukeWorkDir
  <2> QED
    BY <2>1, <2>2, <2>3
<1>3. JobInOrder(p)' /\ RowInOrder(p)' /\ OutIsCurrent(p)'
  <2>1. JobInOrder(p)'
    BY <1>0, <1>2 DEF IInv, JobInOrder, At, Cs
  <2>2. RowInOrder(p)'
    BY <1>1, <1>2 DEF IInv, RowInOrder, Cs
  <2>3. OutIsCurrent(p)'
    BY <1>0, <1>1, <1>2 DEF IInv, OutIsCurrent, Owns, OutputOf, Cs
  <2> QED
    BY <2>1, <2>2, <2>3
<1>4. WorkdirInOrder'
  <2>1. CASE NukeWorkDir(p)
    BY <1>0, <1>2, <2>1, WorkdirStep, TreeAssumption DEF NukeWorkDir, At
  <2>2. CASE ApiSave(p) \/ Push(p)
    BY <1>2, <2>2 DEF IInv, WorkdirInOrder, ApiSave, Push, At, Cs
  <2> QED
    BY <2>1, <2>2
<1>5. ScmInOrder'
  <2>0. scm \in Seq(Tree) /\ ahead \in Seq(Tree)
    BY <1>0 DEF TypeOK
  <2>1. CASE ApiSave(p) /\ ahead' # ahead
    <3>1. /\ Cs(p) \in Changeset /\ Cs(p) \in pending /\ parent[Cs(p)] = Len(history)
          /\ workdir[Cs(p)] \in Tree
      BY <1>0, <2>1, RowOut DEF ApiSave, TypeOK, Owns
    <3>2. AllCommits' = Append(AllCommits, workdir[Cs(p)])
      BY <2>0, <2>1, <3>1 DEF ApiSave, AllCommits
    <3>3. workdir[Cs(p)] \in Output =>
             workdir[Cs(p)].of \in started /\ parent[workdir[Cs(p)].of] = Len(history)
      BY <1>0, <3>1 DEF IInv, WorkdirInOrder, TypeOK
    <3> QED
      BY <1>0, <1>1, <3>1, <3>2, <3>3, AppendStep DEF IInv
  <2>2. CASE UNCHANGED <<scm, ahead>>
    BY <1>1, <2>2 DEF IInv, ScmInOrder, AllCommits
  <2>3. CASE Push(p)
    <3>1. AllCommits' = AllCommits
      BY <2>0, <2>3 DEF Push, AllCommits
    <3> QED
      BY <1>1, <3>1 DEF IInv, ScmInOrder
  <2> QED
    BY <2>1, <2>2, <2>3 DEF ApiSave, NukeWorkDir
<1> QED
  BY <1>0, <1>1, <1>2, <1>3, <1>4, <1>5, AdvanceStep DEF Busy, At

-----------------------------------------------------------------------------
LEMMA IInvInit == Init => IInv
<1> SUFFICES ASSUME Init PROVE IInv
  OBVIOUS
<1>1. TypeOK
  BY TypeOKInit
<1>2. \A p \in Session : job[p] = IdleJob
  BY DEF Init
<1>3. JobsAreLocked /\ \A p \in Session : JobInOrder(p) /\ RowInOrder(p) /\ OutIsCurrent(p)
  BY <1>2, IdleInOrder DEF JobsAreLocked
<1>4. LocksExclude
  BY DEF Init, LocksExclude
<1>5. WorkdirInOrder
  BY <1>2, TreeAssumption DEF Init, WorkdirInOrder, At, IdleJob
<1>6. HistoryInOrder /\ ScmInOrder
  BY DEF Init, HistoryInOrder, ScmInOrder, AllCommits
<1> QED
  BY <1>1, <1>3, <1>4, <1>5, <1>6 DEF IInv

\* What the end of a call does, with or without its lock.
LEMMA EndedStep ==
    ASSUME IInv, TypeOK', NEW p \in Session, Busy(p), Finish(p),
           UNCHANGED <<started, pending, owner, parent, edits, history, scm, ahead, workdir>>,
           Unlock(p, Cs(p)) \/ UNCHANGED locks
    PROVE  IInv'
<1>0. TypeOK /\ Cs(p) \in Changeset
  BY BusyCs DEF IInv
<1>1. job'[p] = IdleJob /\ \A q \in Session \ {p} : job'[q] = job[q]
  BY <1>0 DEF Finish, TypeOK
<1>2. /\ \A q \in Session \ {p} : locks'[q] = locks[q]
      /\ \A q \in Session, c \in Changeset : locks'[q][c] > 0 => locks[q][c] > 0
  <2>1. CASE UNCHANGED locks
    BY <2>1
  <2>2. CASE Unlock(p, Cs(p))
    <3>1. ASSUME NEW q \in Session, NEW c \in Changeset
          PROVE  /\ q # p => locks'[q] = locks[q]
                 /\ locks'[q][c] \in {locks[q][c], locks[q][c] - 1, 0}
                 /\ locks[q][c] \in Nat
      BY <1>0, <2>2, ConfigAssumption DEF Unlock, TypeOK
    <3>2. \A q \in Session \ {p} : locks'[q] = locks[q]
      BY <1>0, <2>2 DEF Unlock, TypeOK
    <3> QED
      BY <3>1, <3>2
  <2> QED
    BY <2>1, <2>2
<1>3. ~Busy(p)'
  BY <1>1 DEF Busy, At, IdleJob
<1>4. \A q \in Session : Busy(q)' => locks'[q] = locks[q]
  BY <1>2, <1>3
<1> QED
  BY <1>1, <1>2, <1>4, QuietStep

LEMMA IInvStep == IInv /\ [Next]_vars => IInv'
<1> SUFFICES ASSUME IInv, [Next]_vars PROVE IInv'
  OBVIOUS
<1>0. TypeOK /\ TypeOK'
  BY TypeOKStep DEF IInv
<1>1. CASE UNCHANGED vars
  BY <1>0, <1>1, QuietStep DEF vars, dbVars, gitVars
<1>2. ASSUME NEW p \in Session, NEW c \in Changeset, ResumeChangeset(p, c)
      PROVE  IInv'
  <2>1. UNCHANGED <<started, pending, parent, edits, history, scm, ahead, workdir, job, locks>>
    BY <1>2 DEF ResumeChangeset, gitVars
  <2>2. ASSUME NEW q \in Session, Busy(q)
        PROVE  /\ owner'[Cs(q)] = q => owner[Cs(q)] = q
               /\ job[q].row => owner'[Cs(q)] = owner[Cs(q)]
    <3>1. p # q /\ Cs(q) \in Changeset
      BY <1>2, <2>2, BusyCs DEF IInv, ResumeChangeset, Busy, At
    <3>2. \A d \in Changeset : owner'[d] = IF d = c THEN p ELSE owner[d]
      BY <1>0, <1>2 DEF ResumeChangeset, TypeOK
    <3>3. job[q].row => Cs(q) # c
      BY <1>2 DEF ResumeChangeset, RowLocked
    <3> QED
      BY <3>1, <3>2, <3>3
  <2>3. \A q \in Session : Busy(q)' => Busy(q)
    BY <2>1 DEF Busy, At
  <2> QED
    BY <1>0, <2>1, <2>2, <2>3, QuietStep
<1>3. ASSUME NEW p \in Session, NEW c \in Changeset, DetachFromCurrentChangeset(p, c)
      PROVE  IInv'
  <2>1. /\ UNCHANGED <<started, pending, parent, edits, history, scm, ahead, workdir, job, locks>>
        /\ ~Busy(p) /\ owner[c] = p
    BY <1>3 DEF DetachFromCurrentChangeset, gitVars, Owns, Busy, At
  <2>2. ASSUME NEW q \in Session, Busy(q)
        PROVE  /\ owner'[Cs(q)] = q => owner[Cs(q)] = q
               /\ job[q].row => owner'[Cs(q)] = owner[Cs(q)]
    <3>1. p # q /\ Cs(q) \in Changeset
      BY <2>1, <2>2, BusyCs DEF IInv
    <3>2. \A d \in Changeset : owner'[d] = IF d = c THEN None ELSE owner[d]
      BY <1>0, <1>3 DEF DetachFromCurrentChangeset, TypeOK
    <3>3. job[q].row => owner[Cs(q)] = q
      BY DEF IInv, RowInOrder
    <3> QED
      BY <2>1, <3>1, <3>2, <3>3, ConfigAssumption
  <2>3. \A q \in Session : Busy(q)' => Busy(q)
    BY <2>1 DEF Busy, At
  <2> QED
    BY <1>0, <2>1, <2>2, <2>3, QuietStep
<1>4. ASSUME NEW p \in Session,
             \/ LoseChangeset(p) \/ DbRefuse(p) \/ GeneratorError(p)
             \/ DiffIsFresh(p) \/ MarkChangesetFresh(p) \/ ApiSaveFails(p)
      PROVE  IInv'
  <2>1. Busy(p) /\ Finish(p)
    BY <1>4 DEF LoseChangeset, DbRefuse, GeneratorError, DiffIsFresh, MarkChangesetFresh,
                ApiSaveFails, NeedsCommit, Saving, Busy, At
  <2>2. UNCHANGED <<started, pending, owner, parent, edits, history, scm, ahead, workdir>>
    BY <1>4 DEF LoseChangeset, DbRefuse, GeneratorError, DiffIsFresh, MarkChangesetFresh,
                ApiSaveFails, dbVars, gitVars
  <2>3. Unlock(p, Cs(p)) \/ UNCHANGED locks
    BY <1>4 DEF LoseChangeset, DbRefuse, GeneratorError, DiffIsFresh, MarkChangesetFresh,
                ApiSaveFails
  <2> QED
    BY <1>0, <2>1, <2>2, <2>3, EndedStep
<1>5. ASSUME NEW p \in Session, Crash(p)
      PROVE  IInv'
  <2>1. UNCHANGED <<started, pending, parent, edits, history, scm, ahead, workdir>>
    BY <1>5 DEF Crash, gitVars
  <2>2. /\ job'[p] = IdleJob /\ \A q \in Session \ {p} : job'[q] = job[q]
        /\ \A q \in Session \ {p} : locks'[q] = locks[q]
        /\ \A d \in Changeset : locks'[p][d] = 0
        /\ \A d \in Changeset : owner'[d] = IF owner[d] = p THEN None ELSE owner[d]
    BY <1>0, <1>5 DEF Crash, Finish, TypeOK
  <2>3. \A q \in Session : Busy(q)' => q # p /\ Busy(q)
    BY <2>2 DEF Busy, At, IdleJob
  <2>4. ASSUME NEW q \in Session, Busy(q)'
        PROVE  /\ owner'[Cs(q)] = q => owner[Cs(q)] = q
               /\ job[q].row => owner'[Cs(q)] = owner[Cs(q)]
    <3>1. q # p /\ Cs(q) \in Changeset
      BY <2>3, <2>4, BusyCs DEF IInv
    <3>2. job[q].row => owner[Cs(q)] = q
      BY DEF IInv, RowInOrder
    <3> QED
      BY <2>2, <3>1, <3>2, ConfigAssumption
  <2> QED
    BY <1>0, <2>1, <2>2, <2>3, <2>4, QuietStep
<1> QED
  BY <1>0, <1>1, <1>2, <1>3, <1>4, <1>5, StartStep, EditStep, LockStep, EndStep, ReadyStep,
     CommitStep, GenerateStep, RollbackStep, SaveStep DEF Next, Proceed

\* A call keeps its changeset to itself to the end, whatever the other sessions
\* do: commitConfig and showConfigDiff rely on it between the database and git.
THEOREM IInvariant == Spec => []IInv
<1> QED
  BY IInvInit, IInvStep, PTL DEF Spec

-----------------------------------------------------------------------------
(* The order of the revisions upstream *)

\* A bounded set of numbers has a greatest element: the nearest one to the bound.
LEMMA GreatestElement ==
    ASSUME NEW N \in Nat, NEW S \in SUBSET (0 .. N), S # {}
    PROVE  \E n \in S : \A m \in S : m <= n
<1>. DEFINE Rest == {k \in Nat : N - k \in S}
<1>1. \A m \in S : m \in Nat /\ N - m \in Nat /\ N - (N - m) = m
  OBVIOUS
<1>2. Rest \subseteq Nat /\ \A m \in S : N - m \in Rest
  BY <1>1
<1>3. PICK d \in Rest : \A e \in Rest : ~(<<e, d>> \in OpToRel(<, Nat))
  <2>. HIDE DEF Rest
  <2>. QED
    BY <1>2, NatLessThanWellFounded, WFMin
<1>4. \A e \in Rest : ~(e < d)
  <2>. HIDE DEF Rest
  <2>. QED
    BY <1>2, <1>3 DEF OpToRel
<1>5. d \in Nat /\ N - d \in S
  BY <1>3
<1>6. \A m \in S : m \in Nat /\ N - m \in Nat /\ ~(N - m < d)
  <2>. HIDE DEF Rest
  <2>. QED
    BY <1>1, <1>2, <1>4
<1>7. \A m \in S : m <= N - d
  <2>. HIDE DEF Rest
  <2>. QED
    BY <1>5, <1>6
<1>. QED
  BY <1>5, <1>7

\* LastPush is a position where the output was pushed.
LEMMA LastPushFact ==
    ASSUME TypeOK, NEW o, WasPushed(o)
    PROVE  LastPush(o) \in DOMAIN scm /\ scm[LastPush(o)] = o
<1>1. DOMAIN scm = 1 .. Len(scm) /\ Len(scm) \in Nat
  BY DEF TypeOK
<1> DEFINE S == {n \in DOMAIN scm : scm[n] = o}
<1>2. S # {} /\ S \in SUBSET (0 .. Len(scm))
  BY <1>1 DEF WasPushed
<1>3. PICK n \in S : \A m \in S : m <= n
  <2> HIDE DEF S
  <2> QED
    BY <1>1, <1>2, GreatestElement
<1>4. n \in DOMAIN scm /\ scm[n] = o /\ \A m \in n + 1 .. Len(scm) : scm[m] # o
  BY <1>1, <1>3
<1> QED
  BY <1>4 DEF LastPush

LEMMA IInvOrder == IInv => ScmInRevisionOrder
<1> SUFFICES ASSUME IInv, NEW i \in DOMAIN history, NEW j \in DOMAIN history, i < j,
                    WasPushed(history[i]), WasPushed(history[j])
             PROVE  LastPush(history[i]) < LastPush(history[j])
  BY DEF ScmInRevisionOrder
<1> DEFINE m == LastPush(history[i])
           n == LastPush(history[j])
<1>0. TypeOK
  BY DEF IInv
<1>1. /\ m \in DOMAIN scm /\ scm[m] = history[i]
      /\ n \in DOMAIN scm /\ scm[n] = history[j]
  BY <1>0, LastPushFact
<1> HIDE DEF m, n
<1>2. /\ DOMAIN scm = 1 .. Len(scm) /\ Len(scm) \in Nat
      /\ scm \in Seq(Tree) /\ ahead \in Seq(Tree) /\ history \in Seq(Output)
  BY <1>0 DEF TypeOK
<1>3. /\ m \in DOMAIN AllCommits /\ AllCommits[m] = history[i]
      /\ n \in DOMAIN AllCommits /\ AllCommits[n] = history[j]
  BY <1>1, <1>2 DEF AllCommits
<1>4. /\ history[i] \in Output /\ history[j] \in Output
      /\ history[i].of \in started /\ history[j].of \in started
      /\ parent[history[i].of] + 1 = i /\ parent[history[j].of] + 1 = j
  BY <1>2 DEF IInv, HistoryInOrder
<1>5. /\ i \in Nat /\ j \in Nat /\ m \in Nat /\ n \in Nat
      /\ parent[history[i].of] \in Nat /\ parent[history[j].of] \in Nat
  BY SMTT(40), <1>0, <1>1, <1>2, <1>4 DEF TypeOK
<1>6. ~(n <= m)
  <2> SUFFICES ASSUME n <= m PROVE FALSE
    OBVIOUS
  <2>1. parent[history[j].of] <= parent[history[i].of]
    BY <1>3, <1>4 DEF IInv, ScmInOrder
  <2> QED
    BY <1>4, <1>5, <2>1
<1> QED
  BY <1>5, <1>6 DEF m, n

\* The configuration repository gets the outputs of the revisions in the order of
\* the revisions: the transaction spans the push, and the next one waits for it.
THEOREM PushedInOrder == Spec => []ScmInRevisionOrder
<1> QED
  BY IInvariant, IInvOrder, PTL

-----------------------------------------------------------------------------
(* FreshInv is inductive when nobody forces a regeneration *)

\* What a call has read stays true when its changeset is left alone.
LEMMA FlagFrame ==
    ASSUME FreshInv, NEW q \in Session, job'[q] = job[q], NEW c, c = Cs(q),
           Busy(q) => /\ workdir'[c] = workdir[c] /\ fresh'[c] = fresh[c]
                      /\ c \in pending' /\ owner'[c] = q => c \in pending /\ owner[c] = q
    PROVE  FlagIsCurrent(q)'
<1>1. Cs(q)' = c /\ (\A stage : At(q, stage)' <=> At(q, stage))
  BY DEF Cs, At
<1>2. CASE Busy(q)
  <2>1. FlagIsCurrent(q)
    BY DEF FreshInv
  <2> QED
    BY <1>1, <1>2, <2>1 DEF FlagIsCurrent, Owns
<1>3. CASE ~Busy(q)
  BY <1>3 DEF FlagIsCurrent, Busy, At
<1> QED
  BY <1>2, <1>3

\* ... and its output stays where it is unless a reset removes it.
LEMMA WayFrame ==
    ASSUME FreshInv, NEW q \in Session, job'[q] = job[q], UNCHANGED scm,
           dropped[q] => dropped'[q], At(q, "saved") => ahead' = ahead \/ dropped'[q]
    PROVE  OutIsOnItsWay(q)'
BY DEF FreshInv, OutIsOnItsWay, EndsPushed, LatestOf, AllCommits, At

LEMMA EarlyStage ==
    ASSUME NEW p \in Session, job'[p].stage \in {"idle", "locked"}
    PROVE  FlagIsCurrent(p)' /\ OutIsOnItsWay(p)'
BY DEF FlagIsCurrent, OutIsOnItsWay, At

LEMMA NotSaved ==
    ASSUME NEW p \in Session, job'[p].stage \notin {"saved", "pushed", "nuked"}
    PROVE  OutIsOnItsWay(p)'
BY DEF OutIsOnItsWay, At

\* Only one call at a time is past its commit to git.
LEMMA OneRow ==
    ASSUME IInv, NEW p \in Session, job[p].row, NEW q \in Session \ {p}
    PROVE  ~(At(q, "saved") \/ At(q, "pushed") \/ At(q, "nuked"))
BY DEF IInv, JobInOrder, RowInOrder

\* Steps that leave the flags and git alone.
LEMMA FreshFrame ==
    ASSUME FreshInv, IInv', NEW p \in Session,
           UNCHANGED <<fresh, workdir, edits, scm, ahead>>, pending \subseteq pending',
           \A q \in Session \ {p} : job'[q] = job[q] /\ dropped'[q] = dropped[q],
           \A q \in Session \ {p}, c \in pending : Owns(q, c)' => Owns(q, c),
           FlagIsCurrent(p)', OutIsOnItsWay(p)'
    PROVE  FreshInv'
<1>1. \A c \in Changeset : fresh'[c] => c \in pending'
  BY DEF FreshInv
<1>2. FreshMeansGenerated'
  BY DEF FreshInv, IInv, TypeOK, FreshMeansGenerated, OutputOf
<1>3. ASSUME NEW q \in Session \ {p}
      PROVE  FlagIsCurrent(q)' /\ OutIsOnItsWay(q)'
  <2>1. PICK c : c = Cs(q)
    OBVIOUS
  <2>2. Busy(q) => c \in pending
    BY <2>1 DEF FreshInv, IInv, JobsAreLocked
  <2>3. FlagIsCurrent(q)'
    BY <2>1, <2>2, FlagFrame DEF Owns
  <2> QED
    BY <2>3, WayFrame
<1> QED
  BY <1>1, <1>2, <1>3 DEF FreshInv

LEMMA FreshInvInit == Init => FreshInv
<1> SUFFICES ASSUME Init PROVE FreshInv
  OBVIOUS
<1>1. IInv
  BY IInvInit
<1>2. \A p \in Session : FlagIsCurrent(p) /\ OutIsOnItsWay(p)
  BY DEF Init, FlagIsCurrent, OutIsOnItsWay, At, IdleJob
<1> QED
  BY <1>1, <1>2 DEF Init, FreshInv, FreshMeansGenerated

\* Edit, markChangesetFresh and the end of a commit change the flag.
LEMMA FlagStep ==
    ASSUME FreshInv, IInv', NEW p \in Session, NEW c \in Changeset,
           \/ Edit(p, c)
           \/ MarkChangesetFresh(p) /\ c = Cs(p)
           \/ DbEnd(p) /\ c = Cs(p)
    PROVE  FreshInv'
<1>0. IInv /\ TypeOK
  BY DEF FreshInv, IInv
<1>1. /\ UNCHANGED <<scm, ahead, workdir>> /\ pending \ {c} \subseteq pending'
      /\ pending' \subseteq pending
      /\ \A d \in Changeset \ {c} : fresh'[d] = fresh[d] /\ edits'[d] = edits[d] /\ owner'[d] = owner[d]
      /\ fresh'[c] => MarkChangesetFresh(p)
      /\ \A q \in Session \ {p} : job'[q] = job[q] /\ dropped'[q] = dropped[q]
      /\ job'[p].stage = "idle"
  BY <1>0 DEF TypeOK, Edit, MarkChangesetFresh, DbEnd, Finish, At, IdleJob, gitVars
<1>2. ASSUME NEW q \in Session \ {p}
      PROVE  FlagIsCurrent(q)' /\ OutIsOnItsWay(q)'
  <2>0. PICK d : d = Cs(q)
    OBVIOUS
  <2>1. OutIsOnItsWay(q)'
    BY <1>1, WayFrame
  <2>2. CASE Edit(p, c)
    <3>1. /\ owner[c] = p /\ fresh'[c] = FALSE /\ owner' = owner /\ pending' = pending
      BY <1>0, <2>2 DEF Edit, Owns, TypeOK
    <3>2. Busy(q) => d \in Changeset /\ d \in pending
      BY <1>0, <2>0, BusyCs DEF IInv, JobsAreLocked
    <3>3. CASE Busy(q) /\ d = c
      <4>1. Cs(q)' = c /\ workdir'[c] = workdir[c] /\ owner'[c] # q /\ job'[q] = job[q]
        BY <1>1, <2>0, <3>1, <3>3 DEF Cs
      <4>2. FlagIsCurrent(q) /\ Cs(q) = c
        BY <2>0, <3>3 DEF FreshInv
      <4> QED
        BY <2>1, <3>1, <4>1, <4>2 DEF FlagIsCurrent, At, Owns
    <3>4. CASE Busy(q) => d # c
      BY <1>1, <2>0, <2>1, <3>1, <3>2, <3>4, FlagFrame
    <3> QED
      BY <2>1, <3>3, <3>4
  <2>3. CASE Busy(p) /\ c = Cs(p)
    <3>1. Busy(q) => d \in Changeset /\ d # c
      BY <1>0, <2>0, <2>3, BusyCs, OneCallPerChangeset DEF IInv
    <3> QED
      BY <1>1, <2>0, <2>1, <3>1, FlagFrame
  <2> QED
    BY <2>2, <2>3 DEF MarkChangesetFresh, DbEnd, Busy, At
<1>3. FlagIsCurrent(p)' /\ OutIsOnItsWay(p)'
  BY <1>1, EarlyStage
<1>4. fresh'[c] => c \in pending' /\ workdir'[c] = OutputOf(c)'
  <2> SUFFICES ASSUME fresh'[c] PROVE c \in pending' /\ workdir'[c] = OutputOf(c)'
    OBVIOUS
  <2>1. /\ MarkChangesetFresh(p) /\ At(p, "rolledback") /\ Owns(p, Cs(p))
        /\ pending' = pending /\ edits' = edits
    BY <1>1 DEF MarkChangesetFresh
  <2>2. c = Cs(p)
    BY <2>1 DEF Edit, DbEnd, At
  <2>3. job[p].out # None /\ job[p].regenerate /\ Busy(p)
    BY <1>0, <2>1 DEF IInv, JobInOrder, Busy, At
  <2>4. workdir[Cs(p)] = job[p].out /\ job[p].out = OutputOf(Cs(p))
    BY <1>0, <2>1, <2>3 DEF IInv, WorkdirInOrder, OutIsCurrent
  <2> QED
    BY <1>1, <2>1, <2>2, <2>4 DEF Owns, OutputOf
<1>5. \A d \in Changeset : fresh'[d] => d \in pending'
  BY <1>1, <1>4 DEF FreshInv
<1>6. FreshMeansGenerated'
  <2> SUFFICES ASSUME NEW d \in pending', fresh'[d]
               PROVE  workdir'[d] \in {None, OutputOf(d)'}
    BY DEF FreshMeansGenerated
  <2>1. d \in pending /\ d \in Changeset
    BY <1>0, <1>1 DEF TypeOK
  <2> QED
    BY <1>1, <1>4, <2>1 DEF FreshInv, FreshMeansGenerated, OutputOf
<1> QED
  BY <1>2, <1>3, <1>5, <1>6 DEF FreshInv

\* The working directory changes only under a call that has it to itself.
LEMMA TreeStep ==
    ASSUME FreshInv, IInv', NEW p \in Session, OpenRepo(p) \/ Generate(p) \/ NukeWorkDir(p)
    PROVE  FreshInv'
<1>0. /\ IInv /\ TypeOK /\ Busy(p)
      /\ UNCHANGED <<pending, owner, edits, fresh, scm, ahead, dropped>>
  BY DEF FreshInv, IInv, OpenRepo, Generate, NukeWorkDir, Busy, At, dbVars
<1>1. PICK c : c = Cs(p)
  OBVIOUS
<1>2. /\ c \in Changeset
      /\ \A d \in Changeset \ {c} : workdir'[d] = workdir[d]
      /\ \A q \in Session \ {p} : job'[q] = job[q]
      /\ Cs(p)' = c /\ job'[p].regenerate = job[p].regenerate /\ job'[p].out = job[p].out
  <2>1. c \in Changeset
    BY <1>0, <1>1, BusyCs DEF IInv
  <2>2. CASE OpenRepo(p)
    BY <1>0, <1>1, <2>1, <2>2 DEF OpenRepo, TypeOK, Cs
  <2>3. CASE Generate(p)
    BY <1>0, <1>1, <2>1, <2>3, GotoFrame DEF Generate, TypeOK
  <2>4. CASE NukeWorkDir(p)
    BY <1>0, <1>1, <2>1, <2>4, GotoFrame DEF NukeWorkDir, TypeOK
  <2> QED
    BY <2>1, <2>2, <2>3, <2>4
<1>3. \/ ~fresh[c] /\ job[p].regenerate /\ At(p, "generating")
      \/ NukeWorkDir(p) /\ workdir'[c] = None
  <2>1. CASE OpenRepo(p) \/ Generate(p)
    <3>1. At(p, "generating") /\ job[p].regenerate /\ FlagIsCurrent(p)
      BY <1>0, <2>1 DEF OpenRepo, Generate, FreshInv, IInv, JobInOrder, At
    <3> QED
      BY <1>1, <3>1 DEF FlagIsCurrent, At
  <2>2. CASE NukeWorkDir(p)
    BY <1>0, <1>1, <1>2, <2>2 DEF NukeWorkDir, TypeOK
  <2> QED
    BY <2>1, <2>2
<1>4. ASSUME NEW q \in Session \ {p}
      PROVE  FlagIsCurrent(q)' /\ OutIsOnItsWay(q)'
  <2>1. PICK d : d = Cs(q)
    OBVIOUS
  <2>2. Busy(q) => d \in Changeset /\ d # c
    BY <1>0, <1>1, <2>1, BusyCs, OneCallPerChangeset DEF IInv
  <2> QED
    BY <1>0, <1>2, <2>1, <2>2, FlagFrame, WayFrame
<1>5. FlagIsCurrent(p)' /\ OutIsOnItsWay(p)'
  <2>1. CASE OpenRepo(p)
    <3>1. job' = job /\ At(p, "generating")
      BY <2>1 DEF OpenRepo
    <3> QED
      BY <1>0, <1>1, <1>3, <3>1, NotSaved
         DEF FlagIsCurrent, NukeWorkDir, At, Cs
  <2>2. CASE Generate(p)
    <3>1. At(p, "generated")' /\ workdir'[c] = job'[p].out /\ ~fresh'[c]
      BY <1>0, <1>1, <1>2, <1>3, <2>2, GotoFrame DEF Generate, NukeWorkDir, TypeOK, At
    <3> QED
      BY <1>2, <3>1, NotSaved DEF FlagIsCurrent, At
  <2>3. CASE NukeWorkDir(p)
    <3>1. At(p, "nuked")' /\ At(p, "pushed") /\ OutIsOnItsWay(p)
      BY <1>0, <2>3, GotoFrame DEF NukeWorkDir, FreshInv
    <3> QED
      BY <1>0, <1>2, <3>1 DEF FlagIsCurrent, OutIsOnItsWay, EndsPushed, LatestOf, At
  <2> QED
    BY <2>1, <2>2, <2>3
<1>6. FreshMeansGenerated'
  <2> SUFFICES ASSUME NEW d \in pending, fresh[d]
               PROVE  workdir'[d] \in {None, OutputOf(d)}
    BY <1>0 DEF FreshMeansGenerated, OutputOf
  <2>1. d \in Changeset /\ workdir[d] \in {None, OutputOf(d)}
    BY <1>0 DEF FreshInv, FreshMeansGenerated, TypeOK
  <2> QED
    BY <1>2, <1>3, <2>1
<1> QED
  BY <1>0, <1>4, <1>5, <1>6 DEF FreshInv

\* Only one call at a time has moved the clone, and a reset is remembered.
LEMMA GitStep ==
    ASSUME FreshInv, IInv', Forcing = {},
           NEW p \in Session, InitCfgGenerator(p) \/ ApiSave(p) \/ Push(p)
    PROVE  FreshInv'
<1>0. /\ IInv /\ TypeOK /\ Busy(p)
      /\ scm \in Seq(Tree) /\ ahead \in Seq(Tree)
      /\ UNCHANGED <<pending, owner, edits, fresh, workdir>>
  BY DEF FreshInv, IInv, InitCfgGenerator, ApiSave, Saving, Push, Busy, At, dbVars, TypeOK
<1>1. \A q \in Session \ {p} : job'[q] = job[q]
  <2>1. CASE InitCfgGenerator(p)
    BY <1>0, <2>1 DEF InitCfgGenerator, TypeOK
  <2>2. CASE ApiSave(p)
    BY <1>0, <2>2, GotoFrame DEF ApiSave
  <2>3. CASE Push(p)
    BY <1>0, <2>3, GotoFrame DEF Push
  <2> QED
    BY <2>1, <2>2, <2>3
<1>2. ASSUME NEW q \in Session \ {p}
      PROVE  FlagIsCurrent(q)' /\ OutIsOnItsWay(q)'
  <2>1. FlagIsCurrent(q)'
    <3>1. PICK d : d = Cs(q)
      OBVIOUS
    <3> QED
      BY <1>0, <1>1, <3>1, FlagFrame
  <2>2. OutIsOnItsWay(q)'
    <3>1. CASE InitCfgGenerator(p)
      <4>1. UNCHANGED scm /\ dropped'[q] = (dropped[q] \/ (At(q, "saved") /\ ahead # <<>>))
        BY <3>1 DEF InitCfgGenerator
      <4>2. At(q, "saved") => ahead' = ahead \/ dropped'[q]
        BY <3>1, <4>1 DEF InitCfgGenerator
      <4>3. dropped[q] => dropped'[q]
        BY <4>1
      <4> QED
        BY <1>1, <4>1, <4>2, <4>3, WayFrame
    <3>2. CASE ApiSave(p) \/ Push(p)
      <4>1. job[p].row
        BY <1>0, <3>2 DEF IInv, ApiSave, Saving, Push, JobInOrder
      <4>2. ~(At(q, "saved") \/ At(q, "pushed") \/ At(q, "nuked"))
        BY <1>0, <4>1, OneRow
      <4> QED
        BY <1>1, <4>2 DEF OutIsOnItsWay, At
    <3> QED
      BY <3>1, <3>2
  <2> QED
    BY <2>1, <2>2
<1>3. FlagIsCurrent(p)' /\ OutIsOnItsWay(p)'
  <2>1. CASE InitCfgGenerator(p)
    <3>1. PICK c : c = Cs(p)
      OBVIOUS
    <3>2. c \in Changeset /\ c \in pending /\ fresh[c] \in BOOLEAN
      BY <1>0, <3>1, BusyCs DEF IInv, JobsAreLocked, TypeOK
    <3>3. job' = [job EXCEPT ![p] = [@ EXCEPT !.stage = "ready", !.regenerate = FALSE \/ ~fresh[c]]]
      BY <2>1, <3>1 DEF InitCfgGenerator
    <3>4. job'[p] = [job[p] EXCEPT !.stage = "ready", !.regenerate = FALSE \/ ~fresh[c]]
          /\ job[p] \in Job
      BY <1>0, <3>3 DEF TypeOK
    <3>5. At(p, "ready")' /\ job'[p].regenerate = ~fresh[c] /\ Cs(p)' = c
      BY <3>1, <3>2, <3>4 DEF Job, At, Cs
    <3>6. OutIsOnItsWay(p)'
      BY <3>5, NotSaved DEF At
    <3> QED
      BY <1>0, <3>2, <3>5, <3>6 DEF FlagIsCurrent, At
  <2>2. CASE ApiSave(p)
    <3>1. PICK c : c = Cs(p)
      OBVIOUS
    <3>2. /\ c \in Changeset /\ workdir[c] = job[p].out /\ workdir[c] \in Tree
      <4>1. c \in Changeset
        BY <1>0, <3>1, BusyCs DEF IInv
      <4>2. FlagIsCurrent(p) /\ At(p, "generated") /\ workdir[c] # None
        BY <2>2, <3>1 DEF FreshInv, ApiSave, Saving
      <4> QED
        BY <1>0, <3>1, <4>1, <4>2 DEF FlagIsCurrent, TypeOK
    <3>3. At(p, "saved")' /\ job'[p].out = job[p].out
      BY <1>0, <2>2, GotoFrame DEF ApiSave
    <3>4. LatestOf(AllCommits, None)' = workdir[c]
      <4>1. CASE workdir[c] = LatestOf(AllCommits, None)
        BY <2>2, <3>1, <4>1 DEF ApiSave, LatestOf, AllCommits
      <4>2. CASE workdir[c] # LatestOf(AllCommits, None)
        <5>1. AllCommits' = Append(AllCommits, workdir[c]) /\ AllCommits \in Seq(Tree)
          BY <1>0, <2>2, <3>1, <3>2, <4>2 DEF ApiSave, AllCommits
        <5> QED
          BY <3>2, <5>1 DEF LatestOf
      <4> QED
        BY <4>1, <4>2
    <3> QED
      BY <3>2, <3>3, <3>4 DEF FlagIsCurrent, OutIsOnItsWay, At
  <2>3. CASE Push(p)
    <3>1. At(p, "pushed")' /\ job'[p].out = job[p].out /\ At(p, "saved") /\ OutIsOnItsWay(p)
      BY <1>0, <2>3, GotoFrame DEF Push, FreshInv
    <3>2. scm' = AllCommits /\ dropped' = dropped
      BY <2>3 DEF Push, AllCommits
    <3> QED
      BY <3>1, <3>2 DEF FlagIsCurrent, OutIsOnItsWay, EndsPushed, LatestOf, At
  <2> QED
    BY <2>1, <2>2, <2>3
<1> QED
  BY <1>0, <1>2, <1>3 DEF FreshInv, FreshMeansGenerated, OutputOf

\* The transaction opens: what was read of the flag decides whether to generate.
LEMMA OpenStep ==
    ASSUME FreshInv, IInv', NEW p \in Session, DbCommit(p) \/ DiffRefuse(p)
    PROVE  FreshInv'
<1>0. /\ IInv /\ TypeOK /\ At(p, "ready") /\ FlagIsCurrent(p) /\ job[p] \in Job
      /\ UNCHANGED <<pending, owner, edits, fresh, workdir, scm, ahead, dropped>>
  BY DEF FreshInv, IInv, DbCommit, DiffRefuse, NeedsCommit, dbVars, gitVars, TypeOK
<1>1. PICK c : c = Cs(p)
  OBVIOUS
<1>2. c \in Changeset /\ c \in pending
  BY <1>0, <1>1, BusyCs DEF IInv, JobsAreLocked, Busy, At
<1>3. \A q \in Session \ {p} : job'[q] = job[q]
  BY <1>0 DEF DbCommit, DiffRefuse, TypeOK
<1>4. FlagIsCurrent(p)' /\ OutIsOnItsWay(p)'
  <2>1. CASE DbCommit(p)
    <3>1. job'[p] = [job[p] EXCEPT !.row = TRUE, !.out = OutputOf(Cs(p)),
                        !.stage = IF job[p].regenerate THEN "generating" ELSE "generated"]
      BY <1>0, <2>1 DEF TypeOK, DbCommit
    <3>2. /\ job'[p].stage = IF job[p].regenerate THEN "generating" ELSE "generated"
          /\ job'[p].regenerate = job[p].regenerate /\ Cs(p)' = c
          /\ job'[p].out = OutputOf(c)
      BY <1>0, <1>1, <3>1 DEF Job, Cs
    <3>3. job[p].regenerate => ~fresh[c]
      BY <1>0, <1>1 DEF FlagIsCurrent, At
    <3>4. ~job[p].regenerate => workdir[c] \in {None, OutputOf(c)}
      BY <1>0, <1>1, <1>2, <2>1 DEF FlagIsCurrent, DbCommit, FreshInv, FreshMeansGenerated
    <3>5. OutIsOnItsWay(p)'
      BY <3>2, NotSaved
    <3> QED
      BY <1>0, <3>2, <3>3, <3>4, <3>5 DEF FlagIsCurrent, At
  <2>2. CASE DiffRefuse(p)
    <3>1. job'[p] = [job[p] EXCEPT !.stage = "generating",
                        !.out = IF Owns(p, Cs(p)) THEN OutputOf(Cs(p)) ELSE Foreign]
      BY <1>0, <2>2 DEF TypeOK, DiffRefuse
    <3>2. /\ job'[p].stage = "generating" /\ Cs(p)' = c
          /\ job'[p].regenerate = job[p].regenerate
      BY <1>0, <1>1, <3>1 DEF Job, Cs
    <3>3. job[p].regenerate => ~fresh[c]
      BY <1>0, <1>1 DEF FlagIsCurrent, At
    <3>4. OutIsOnItsWay(p)'
      BY <3>2, NotSaved
    <3> QED
      BY <1>0, <3>2, <3>3, <3>4 DEF FlagIsCurrent, At
  <2> QED
    BY <2>1, <2>2
<1> QED
  BY <1>0, <1>3, <1>4, FreshFrame DEF Owns

LEMMA FreshInvStep ==
    ASSUME Forcing = {}, FreshInv, [Next]_vars PROVE FreshInv'
<1>0. IInv /\ TypeOK /\ IInv'
  BY IInvStep DEF FreshInv, IInv
<1>1. CASE UNCHANGED vars
  <2>1. UNCHANGED <<pending, owner, edits, fresh, scm, ahead, workdir, job, dropped>>
    BY <1>1 DEF vars, dbVars, gitVars
  <2>2. \A q \in Session : FlagIsCurrent(q)' /\ OutIsOnItsWay(q)'
    BY <2>1 DEF FreshInv, FlagIsCurrent, OutIsOnItsWay, EndsPushed, AllCommits, At, Cs, Owns
  <2> QED
    BY <1>0, <2>1, <2>2 DEF FreshInv, FreshMeansGenerated, OutputOf
<1>2. ASSUME NEW p \in Session, NEW c \in Changeset,
             \/ StartChangeset(p, c) \/ ResumeChangeset(p, c)
             \/ DetachFromCurrentChangeset(p, c)
             \/ \E commit \in BOOLEAN : LockChangeset(p, c, commit)
      PROVE  FreshInv'
  <2>1. /\ UNCHANGED <<fresh, workdir, edits, scm, ahead, dropped>> /\ pending \subseteq pending'
        /\ \A q \in Session \ {p} : job'[q] = job[q]
        /\ job'[p].stage \in {"idle", "locked"}
    <3>1. CASE StartChangeset(p, c) \/ ResumeChangeset(p, c) \/ DetachFromCurrentChangeset(p, c)
      BY <1>0, <3>1 DEF StartChangeset, ResumeChangeset, DetachFromCurrentChangeset, gitVars, At
    <3>2. ASSUME NEW commit \in BOOLEAN, LockChangeset(p, c, commit)
          PROVE  /\ UNCHANGED <<pending, fresh, workdir, edits, scm, ahead, dropped>>
                 /\ \A q \in Session \ {p} : job'[q] = job[q]
                 /\ job'[p].stage = "locked"
      BY <1>0, <3>2 DEF LockChangeset, dbVars, gitVars, TypeOK, IdleJob
    <3> QED
      BY <1>2, <3>1, <3>2
  <2>2. \A q \in Session \ {p}, d \in pending : Owns(q, d)' => Owns(q, d)
    <3>1. \A d \in Changeset : owner'[d] = owner[d] \/ owner'[d] \in {p, None}
      BY <1>0, <1>2 DEF StartChangeset, ResumeChangeset, DetachFromCurrentChangeset,
                        LockChangeset, dbVars, TypeOK
    <3> QED
      BY <1>0, <3>1, ConfigAssumption DEF Owns, TypeOK
  <2> QED
    BY <1>0, <2>1, <2>2, EarlyStage, FreshFrame
<1>3. ASSUME NEW p \in Session,
             \/ LoseChangeset(p) \/ DbRefuse(p) \/ GeneratorError(p)
             \/ DiffIsFresh(p) \/ ApiSaveFails(p) \/ Crash(p)
      PROVE  FreshInv'
  <2>1. /\ UNCHANGED <<pending, fresh, workdir, edits, scm, ahead>> /\ Finish(p)
    BY <1>3 DEF LoseChangeset, DbRefuse, GeneratorError, DiffIsFresh, ApiSaveFails, Crash,
                dbVars, gitVars
  <2>2. /\ \A q \in Session \ {p} : job'[q] = job[q] /\ dropped'[q] = dropped[q]
        /\ job'[p].stage = "idle"
    BY <1>0, <2>1 DEF Finish, TypeOK, IdleJob
  <2>3. \A q \in Session \ {p}, d \in pending : Owns(q, d)' => Owns(q, d)
    <3>1. \A d \in Changeset : owner'[d] = owner[d] \/ owner'[d] = None
      BY <1>0, <1>3 DEF LoseChangeset, DbRefuse, GeneratorError, DiffIsFresh, ApiSaveFails,
                        Crash, dbVars, TypeOK
    <3> QED
      BY <1>0, <3>1, ConfigAssumption DEF Owns, TypeOK
  <2> QED
    BY <1>0, <2>1, <2>2, <2>3, EarlyStage, FreshFrame
<1>4. ASSUME NEW p \in Session, RollbackDiff(p)
      PROVE  FreshInv'
  <2>1. /\ UNCHANGED <<pending, owner, fresh, workdir, edits, scm, ahead, dropped>>
        /\ job[p] \in Job /\ At(p, "generated")
    BY <1>0, <1>4 DEF RollbackDiff, dbVars, gitVars, TypeOK
  <2>2. job'[p] = [job[p] EXCEPT !.stage = "rolledback", !.row = FALSE]
    BY <1>0, <1>4 DEF RollbackDiff, TypeOK
  <2>3. /\ \A q \in Session \ {p} : job'[q] = job[q]
        /\ job'[p].stage = "rolledback" /\ Cs(p)' = Cs(p)
        /\ job'[p].regenerate = job[p].regenerate
    BY <1>0, <1>4, <2>1, <2>2 DEF RollbackDiff, TypeOK, Job, Cs
  <2>4. FlagIsCurrent(p)'
    BY <2>1, <2>3 DEF FreshInv, FlagIsCurrent, At
  <2> QED
    BY <1>0, <2>1, <2>3, <2>4, NotSaved, FreshFrame DEF Owns
<1>5. ASSUME NEW p \in Session, MarkChangesetFresh(p) \/ DbEnd(p)
      PROVE  FreshInv'
  <2>1. Cs(p) \in Changeset
    BY <1>0, <1>5, BusyCs DEF IInv, MarkChangesetFresh, DbEnd, Busy, At
  <2> QED
    BY <1>0, <1>5, <2>1, FlagStep
<1> QED
  BY <1>0, <1>1, <1>2, <1>3, <1>4, <1>5, OpenStep, FlagStep, TreeStep, GitStep
     DEF Next, Proceed

\* The flag is_generated never lies unless somebody forces a regeneration: what is
\* in the working directory was generated from the changeset as it is.
THEOREM FlagNeverLies ==
    ASSUME Forcing = {} PROVE Spec => []FreshMeansGenerated
<1>1. FreshInv /\ [Next]_vars => FreshInv'
  BY FreshInvStep
<1>2. FreshInv => FreshMeansGenerated
  BY DEF FreshInv
<1> QED
  BY <1>1, <1>2, FreshInvInit, PTL DEF Spec

\* A revision appears in the database with its output at the end of the upstream
\* repository, or else another session has reset the clone in between.
THEOREM RevisionsArePushed ==
    ASSUME Forcing = {} PROVE Spec => OnlyResetLosesOutput
<1>1. FreshInv /\ [Next]_vars => FreshInv'
  BY FreshInvStep
<1>2. FreshInv => [\A p \in Session : history' # history /\ At(p, "nuked") /\ At(p, "idle")'
                       => EndsPushed(p) \/ dropped[p]]_vars
  BY DEF FreshInv, OutIsOnItsWay
<1> QED
  BY <1>1, <1>2, FreshInvInit, PTL DEF Spec, OnlyResetLosesOutput

=============================================================================
