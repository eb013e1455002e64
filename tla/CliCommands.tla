------------------------------ MODULE CliCommands ------------------------------
(***************************************************************************)
(* The long commands of deska-cli: rebase, backup and restore, one step    *)
(* for each call of the server, while other sessions commit revisions and  *)
(* take changesets nobody is attached to, calls fail and the client dies.  *)
(***************************************************************************)
EXTENDS ChangeScripts

CONSTANTS
  Base,           \* the data of the second revision, the first one is empty
  OurLines,       \* the lines a user may type in a changeset
  TheirScripts,   \* the lines of a changeset another session commits
  MaxRevisions,   \* bound: revisions
  MaxEdits,       \* bound: lines the user types
  MaxChangesets,  \* bound: changesets when a rebase starts
  MaxMishaps      \* bound: failed calls, thefts and deaths of the client

VARIABLES
  revs,     \* the data of each revision
  chs,      \* the changesets: [parent, data, gone, state]
  cli,      \* the client
  file,     \* the backup: [mods, rev] of each revision
  saved,    \* the revisions the backup was made of
  edits,    \* lines typed
  mishaps
vars == <<revs, chs, cli, file, saved, edits, mishaps>>

None == 0
Nothing == "nothing"   \* what the user was told last, when that was nothing
Used == UNION {DOMAIN revs[i] : i \in DOMAIN revs}
HeadRevision == Len(revs)
Attached == {c \in DOMAIN chs : chs[c].state = "cli"}
Open == {c \in DOMAIN chs : chs[c].state \in {"cli", "free", "other"}}
NewChangeset(parent) == [parent |-> parent, data |-> revs[parent], gone |-> <<>>, state |-> "cli"]

(* pc: the call that comes next.  current: currentChangeset of the client, *)
(* none when 0.  script, todo: the lines of the file of rebase and those   *)
(* not performed yet; edited: the user changed it.  back: what is left of  *)
(* the backup.  bad: a queued command was refused and nobody knows yet.    *)
(* listed: the pending changesets the user was shown.                      *)
Idle == [pc |-> "prompt", current |-> None, old |-> None, new |-> None, script |-> <<>>, todo |-> <<>>,
         edited |-> FALSE, back |-> <<>>, ctx |-> <<>>, bad |-> FALSE, quiet |-> FALSE, report |-> Nothing, listed |-> {}]
At(pc) == [cli EXCEPT !.pc = pc]
Told(c, report) == [c EXCEPT !.pc = "prompt", !.ctx = <<>>, !.report = report, !.listed = {}]

Init ==
  /\ revs = <<<<>>, Base>> /\ chs = <<>> /\ cli = Idle
  /\ file = <<>> /\ saved = <<>> /\ edits = 0 /\ mishaps = 0

(* What the lines did to the changeset.                                    *)
Work(c) == [data |-> chs[c].data, gone |-> chs[c].gone, used |-> Used, ctx |-> cli.ctx, ok |-> TRUE]
Keeping(c, p) == [chs EXCEPT ![c].data = p.data, ![c].gone = p.gone]

(* An exception that is not caught ends the command in UserInterface::run; *)
(* the current changeset and the non-interactive mode stay.                *)
Mishap == mishaps < MaxMishaps /\ mishaps' = mishaps + 1
Thrown == cli' = Told(cli, "error") /\ UNCHANGED <<revs, chs, file, saved, edits>>
CallPoints == {"lockOld", "detachOld", "createNew", "lockNew", "writeFile", "giveUp", "backToOld",
               "detachNew", "takeOld", "abortOld", "takeNew", "unlock", "restoreCreate", "restore"}
CallFails == cli.pc \in CallPoints /\ Mishap /\ Thrown

-----------------------------------------------------------------------------
(* The user and the other sessions.                                        *)
Quiet == UNCHANGED <<file, saved, mishaps>>
SetState(c, s) == chs' = [chs EXCEPT ![c].state = s]
Taking(c, then) ==
  IF chs[c].state = "free" THEN SetState(c, "cli") /\ cli' = then ELSE cli' = Told(cli, "error") /\ UNCHANGED chs
Start ==
  /\ cli.pc = "prompt" /\ cli.current = None /\ Attached = {} /\ edits < MaxEdits
  /\ chs' = Append(chs, NewChangeset(HeadRevision))
  /\ cli' = [Told(cli, Nothing) EXCEPT !.current = Len(chs')]
  /\ Quiet /\ UNCHANGED <<revs, edits>>
Resume(c) ==
  /\ cli.pc = "prompt" /\ cli.current = None /\ Attached = {} /\ chs[c].state = "free"
  /\ chs' = [chs EXCEPT ![c].state = "cli"]
  /\ cli' = [Told(cli, Nothing) EXCEPT !.current = c]
  /\ Quiet /\ UNCHANGED <<revs, edits>>
(* Without a parameter resume shows the pending changesets, waits until    *)
(* one of them is chosen, or none, and takes it if it can still be taken;  *)
(* otherwise there is an exception.                                        *)
ResumeLists ==
  /\ cli.pc = "prompt" /\ cli.current = None /\ ~cli.quiet
  /\ cli' = IF Open = {} THEN Told(cli, Nothing) ELSE [At("choose") EXCEPT !.listed = Open, !.report = Nothing]
  /\ Quiet /\ UNCHANGED <<revs, chs, edits>>
NoneChosen == cli.pc = "choose" /\ cli' = Told(cli, Nothing) /\ Quiet /\ UNCHANGED <<revs, chs, edits>>
Choose(c) ==
  /\ cli.pc = "choose"
  /\ IF Attached = {} THEN Taking(c, [Told(cli, Nothing) EXCEPT !.current = c])
     ELSE cli' = Told(cli, "error") /\ UNCHANGED chs
  /\ Quiet /\ UNCHANGED <<revs, edits>>
Type(line) ==
  /\ cli.pc = "prompt" /\ edits < MaxEdits /\ file = <<>>
  /\ \E c \in Attached :
       LET p == Perform(Work(c), line)
       IN  p.ok /\ chs' = Keeping(c, p)
  /\ cli' = Told(cli, Nothing) /\ edits' = edits + 1
  /\ Quiet /\ UNCHANGED revs
OthersCommit(script) ==
  /\ Len(revs) < MaxRevisions
  /\ LET p == PerformAll(Opened(revs[HeadRevision], Used), script)
     IN  p.ok /\ p.data # revs[HeadRevision] /\ revs' = Append(revs, p.data)
  /\ cli' = IF cli.pc = "prompt" THEN [cli EXCEPT !.report = Nothing] ELSE cli
  /\ Quiet /\ UNCHANGED <<chs, edits>>
OthersTake(c) ==
  /\ chs[c].state = "free" /\ Mishap
  /\ chs' = [chs EXCEPT ![c].state = "other"]
  /\ UNCHANGED <<revs, cli, file, saved, edits>>
\* The session of the server ends with the client and detaches its changeset.
Died ==
  /\ cli' = Idle
  /\ chs' = [c \in DOMAIN chs |-> IF c \in Attached THEN [chs[c] EXCEPT !.state = "free"] ELSE chs[c]]
ClientDies == cli # Idle /\ Mishap /\ Died /\ UNCHANGED <<revs, file, saved, edits>>

-----------------------------------------------------------------------------
(* rebase.                                                                 *)
Step == UNCHANGED <<revs, file, saved, edits, mishaps>>
Goes(pc) == cli' = At(pc)

(* changesetParent finds nothing for a changeset that is closed: nobody    *)
(* catches the exception, and the program ends.                            *)
ChangesetParent(c) == IF c \in Open THEN chs[c].parent ELSE None
Rebase ==
  /\ cli.pc = "prompt" /\ cli.current # None
  /\ IF ChangesetParent(cli.current) = None THEN Died
     ELSE /\ \/ ChangesetParent(cli.current) = HeadRevision /\ cli' = Told(cli, "upToDate")
             \/ ChangesetParent(cli.current) # HeadRevision /\ cli.quiet /\ cli' = Told(cli, "notInteractive")
             \/ /\ ChangesetParent(cli.current) # HeadRevision /\ ~cli.quiet /\ Len(chs) <= MaxChangesets
                /\ cli' = [At("lockOld") EXCEPT !.report = Nothing]
          /\ UNCHANGED chs
  /\ Step
\* A changeset that is not attached cannot be locked: an exception.
LockOld ==
  /\ cli.pc = "lockOld"
  /\ cli' = IF Attached = {} THEN Told(cli, "error") ELSE [At("detachOld") EXCEPT !.old = cli.current]
  /\ Step /\ UNCHANGED chs
LockRefused ==
  /\ cli.pc \in {"lockOld", "lockNew"} /\ Attached # {} /\ Mishap
  /\ cli' = IF cli.pc = "lockOld" THEN Told(cli, "failed") ELSE At("giveUp")
  /\ UNCHANGED <<revs, chs, file, saved, edits>>
DetachOld ==
  /\ cli.pc = "detachOld"
  /\ \E c \in Attached : SetState(c, "free")
  /\ Goes("createNew") /\ Step
CreateNew ==
  /\ cli.pc = "createNew"
  /\ chs' = Append(chs, NewChangeset(HeadRevision))
  /\ cli' = [At("lockNew") EXCEPT !.new = Len(chs')]
  /\ Step
LockNew == cli.pc = "lockNew" /\ Goes("writeFile") /\ Step /\ UNCHANGED chs

(* The user saves the file as it is, or without one of its lines.          *)
WriteFile ==
  /\ cli.pc = "writeFile"
  /\ LET old    == chs[cli.old]
         ours   == Diff(revs[old.parent], old.data, TRUE)
         theirs == Diff(revs[old.parent], revs[chs[cli.new].parent], FALSE)
     IN  \E f \in FirstReported(ours) : \E g \in FirstReported(theirs) :
           LET lines == RebaseFile(f, ours, g, theirs)
           IN  \/ cli' = [At("lines") EXCEPT !.script = lines, !.todo = lines, !.quiet = TRUE, !.edited = FALSE]
               \/ \E i \in DOMAIN lines :
                    LET saving == RemoveAt(lines, i)
                    IN  cli' = [At("lines") EXCEPT !.script = saving, !.todo = saving, !.quiet = TRUE, !.edited = TRUE]
  /\ Step /\ UNCHANGED chs
ParsingFailed(c) == [c EXCEPT !.pc = "giveUp", !.ctx = <<>>, !.quiet = FALSE]
\* The editor has left no file that can be opened.
FileIsGone ==
  /\ cli.pc = "writeFile" /\ Mishap
  /\ cli' = ParsingFailed(cli)
  /\ UNCHANGED <<revs, chs, file, saved, edits>>
\* Line with a plausible bug in it: parsingFailed is not looked at.
LineGoesOn ==
  /\ cli.pc = "lines" /\ cli.todo # <<>>
  /\ LET p == Perform(Work(cli.new), Head(cli.todo).line)
     IN  chs' = Keeping(cli.new, p) /\ cli' = [cli EXCEPT !.todo = Tail(@), !.ctx = p.ctx]
  /\ Step
Line ==
  /\ cli.pc = "lines" /\ cli.todo # <<>>
  /\ LET p == Perform(Work(cli.new), Head(cli.todo).line)
     IN  /\ chs' = Keeping(cli.new, p)
         /\ cli' = IF p.ok THEN [cli EXCEPT !.todo = Tail(@), !.ctx = p.ctx] ELSE ParsingFailed(cli)
  /\ Step
LineFails ==
  /\ cli.pc = "lines" /\ cli.todo # <<>> /\ Mishap
  /\ cli' = ParsingFailed(cli)
  /\ UNCHANGED <<revs, chs, file, saved, edits>>
AllPerformed ==
  /\ cli.pc = "lines" /\ cli.todo = <<>>
  /\ cli' = [At("detachNew") EXCEPT !.ctx = <<>>, !.quiet = FALSE]
  /\ Step /\ UNCHANGED chs

GiveUp == cli.pc = "giveUp" /\ SetState(cli.new, "aborted") /\ Goes("backToOld") /\ Step
BackToOld == cli.pc = "backToOld" /\ Taking(cli.old, Told(cli, "failed")) /\ Step

DetachNew == cli.pc = "detachNew" /\ SetState(cli.new, "free") /\ Goes("takeOld") /\ Step
TakeOld   == cli.pc = "takeOld" /\ Taking(cli.old, At("abortOld")) /\ Step
AbortOld  == cli.pc = "abortOld" /\ SetState(cli.old, "aborted") /\ Goes("takeNew") /\ Step
\* TakeNew with a plausible bug in it: the client keeps the changeset it had.
TakeNewSilently == cli.pc = "takeNew" /\ Taking(cli.new, At("unlock")) /\ Step
TakeNew   == cli.pc = "takeNew" /\ Taking(cli.new, [At("unlock") EXCEPT !.current = cli.new]) /\ Step
Unlock    == cli.pc = "unlock" /\ cli' = Told(cli, "rebased") /\ Step /\ UNCHANGED chs
UnlockRefused ==
  /\ cli.pc = "unlock" /\ Mishap
  /\ cli' = Told(cli, "failed")
  /\ UNCHANGED <<revs, chs, file, saved, edits>>

RebaseStep ==
  \/ Rebase \/ LockOld \/ LockRefused \/ DetachOld \/ CreateNew \/ LockNew \/ WriteFile \/ FileIsGone
  \/ Line \/ LineFails \/ AllPerformed \/ GiveUp \/ BackToOld
  \/ DetachNew \/ TakeOld \/ AbortOld \/ TakeNew \/ Unlock \/ UnlockRefused

-----------------------------------------------------------------------------
(* backup, of the revisions there are, which never change.  Bound: there   *)
(* is one backup, made before any changeset, and nothing is typed then.    *)
Backup ==
  /\ cli.pc = "prompt" /\ Len(revs) >= 2 /\ file = <<>> /\ chs = <<>>
  /\ file' = [i \in 1..(Len(revs) - 1) |->
                [mods |-> {m \in Diff(revs[i], revs[i + 1], FALSE) : Writable(m)}, rev |-> i + 1]]
  /\ saved' = revs
  /\ cli' = Told(cli, Nothing)
  /\ UNCHANGED <<revs, chs, edits, mishaps>>
(* The database is installed anew, and the client started.                 *)
Reinstall ==
  /\ file # <<>> /\ cli.pc = "prompt" /\ Open = {} /\ Len(revs) > 1
  /\ revs' = <<<<>>>> /\ chs' = <<>> /\ cli' = Idle
  /\ UNCHANGED <<file, saved, edits, mishaps>>

(* restore.                                                                *)
Restore ==
  /\ cli.pc = "prompt" /\ cli.current = None /\ file # <<>>
  /\ cli' = IF Open = {} /\ Len(revs) = 1
            THEN [At("restoreCreate") EXCEPT !.quiet = TRUE, !.back = file, !.bad = FALSE, !.report = Nothing]
            ELSE Told(cli, "failed")
  /\ Step /\ UNCHANGED chs
Ended(c, report) == [Told(c, report) EXCEPT !.quiet = FALSE]
\* createNewChangeset and lockCurrentChangeset, at the start and with the
\* first line after a commit.
RestoreCreate ==
  /\ cli.pc = "restoreCreate"
  /\ chs' = Append(chs, NewChangeset(HeadRevision))
  /\ cli' = [At("restore") EXCEPT !.current = Len(chs')]
  /\ Step
RestoreLockRefused ==
  /\ cli.pc = "restoreCreate" /\ Mishap
  /\ chs' = Append(chs, NewChangeset(HeadRevision))
  /\ cli' = [Ended(cli, "failed") EXCEPT !.current = Len(chs')]
  /\ UNCHANGED <<revs, file, saved, edits>>
(* std::sort by type only: the order of the rest is not specified.         *)
(* Commands are queued: a refusal shows with a later one, or with the      *)
(* flush before the commit.                                                *)
FirstOnes(ms) == {m \in ms : \A n \in ms : TypeOf(m) <= TypeOf(n)}
RestoreLine ==
  /\ cli.pc = "restore" /\ cli.current # None /\ cli.back[1].mods # {}
  /\ \E m \in FirstOnes(cli.back[1].mods) :
       LET p    == Perform(Work(cli.current), Backed(m))
           next == [cli EXCEPT !.back[1].mods = @ \ {m}, !.ctx = p.ctx]
       IN  /\ chs' = Keeping(cli.current, p)
           /\ \/ p.ok /\ ~cli.bad /\ cli' = next
              \/ (~p.ok \/ cli.bad) /\ cli' = [next EXCEPT !.bad = TRUE, !.ctx = <<>>]
              \/ (~p.ok \/ cli.bad) /\ cli' = Ended(cli, "failed")
  /\ Step
(* restoringCommit, and the number the backup tells.  Any refusal here is  *)
(* an exception nobody catches; so is that of unlocking the changeset just *)
(* committed when the numbers differ.                                      *)
\* NumberTold with a plausible bug in it: the number is not compared.
AnyNumber(rev) == rev \in Nat
NumberTold(rev) == rev = cli.back[1].rev
RestoreCommit ==
  /\ cli.pc = "restore" /\ cli.back[1].mods = {}
  /\ IF cli.current = None \/ cli.bad \/ chs[cli.current].parent # HeadRevision
     THEN cli' = Told(cli, "error") /\ UNCHANGED <<revs, chs>>
     ELSE /\ revs' = Append(revs, chs[cli.current].data)
          /\ SetState(cli.current, "committed")
          /\ cli' = IF ~NumberTold(Len(revs')) THEN Told(cli, "error")
                    ELSE IF Len(cli.back) = 1 THEN [Ended(cli, "restored") EXCEPT !.current = None, !.back = <<>>]
                    ELSE [At(IF cli.back[2].mods = {} THEN "restore" ELSE "restoreCreate")
                            EXCEPT !.current = None, !.back = Tail(@)]
  /\ UNCHANGED <<file, saved, edits, mishaps>>
RestoreStep == Restore \/ RestoreCreate \/ RestoreLockRefused \/ RestoreLine \/ RestoreCommit

Next ==
  \/ Start \/ \E c \in DOMAIN chs : Resume(c) \/ OthersTake(c)
  \/ ResumeLists \/ NoneChosen \/ \E c \in cli.listed : Choose(c)
  \/ \E line \in OurLines : Type(line)
  \/ \E script \in TheirScripts : OthersCommit(script)
  \/ ClientDies \/ CallFails \/ RebaseStep \/ Backup \/ Reinstall \/ RestoreStep
Spec == Init /\ [][Next]_vars

-----------------------------------------------------------------------------
(* What the commands promise.                                              *)

(* rebase gives up a changeset only when another one, still open, holds    *)
(* what it was replaced by: the user's changeset when every line of the    *)
(* saved file has been performed in the new one, the new one when the      *)
(* user's changeset is still there.                                        *)
Gone(c) == chs[c].state # "aborted" /\ c \in DOMAIN chs' /\ chs'[c].state = "aborted"
Lines(items) == [i \in DOMAIN items |-> items[i].line]
Replaces(n) ==
  LET p == PerformAll(Opened(revs[chs[n].parent], Used), Lines(cli.script))
  IN  chs[n].state \in {"free", "other"} /\ p.ok /\ Shown(chs[n].data) = Shown(p.data)
WorkSurvives ==
  [][\A c \in DOMAIN chs : Gone(c) =>
       IF c = cli.new THEN chs[cli.old].state \in {"free", "other"} ELSE Replaces(cli.new)]_vars

(* When we and the others have changed different objects of the top level, *)
(* a rebase whose file was not edited gives our state of those we have     *)
(* changed and theirs of all the others.                                   *)
ChangedTops(a, b) == {s[2][1] : s \in (Shown(a) \cup Shown(b)) \ (Shown(a) \cap Shown(b))}
Rebased == cli.report = "rebased" /\ ~cli.edited
MergeRight ==
  Rebased =>
    LET base   == revs[chs[cli.old].parent]
        mine   == chs[cli.old].data
        theirs == revs[chs[cli.new].parent]
        ours   == ChangedTops(base, mine)
    IN  ours \cap ChangedTops(base, theirs) = {} =>
          Shown(chs[cli.new].data) =
            {s \in Shown(mine) : s[2][1] \in ours} \cup {s \in Shown(theirs) : s[2][1] \notin ours}

(* What rebase is said to do: nothing we have changed is lost.             *)
Holds(m, d) ==
  CASE m[1] = "delete" -> ~Has(d, m[2], m[3])
    [] m[1] = "create" -> Has(d, m[2], m[3])
    [] m[1] = "rename" -> Has(d, m[2], m[4]) /\ ~Has(d, m[2], m[3])
    [] m[1] = "set" -> Has(d, m[2], m[3]) /\ d[IdOf(d, m[2], m[3])].val[m[4]] = m[6]
OursHold ==
  Rebased => \A m \in Diff(revs[chs[cli.old].parent], chs[cli.old].data, FALSE) : Holds(m, chs[cli.new].data)

(* Of our creations and our values it is true.                             *)
OursPrevail ==
  Rebased => \A m \in Diff(revs[chs[cli.old].parent], chs[cli.old].data, FALSE) :
               m[1] \in {"create", "set"} => Holds(m, chs[cli.new].data)

(* The patch that diff writes of a changeset does to the parent of the     *)
(* changeset what the user has done, unless one of its lines is refused.   *)
PatchRight ==
  cli.pc = "prompt" => \A c \in Attached :
    LET base == revs[chs[c].parent]
        p    == PerformAll(Opened(base, Used), Patch(Diff(base, chs[c].data, TRUE)))
    IN  p.ok => Shown(p.data) = Shown(chs[c].data)

(* A rebase or a restore that ends without an exception leaves the user in *)
(* the changeset the prompt shows, whatever single thing went wrong; and   *)
(* when nothing did, no other changeset is left behind.                    *)
PromptTells ==
  /\ cli.report \in {"rebased", "failed"} /\ mishaps <= 1 =>
       Attached = IF cli.current = None THEN {} ELSE {cli.current}
  /\ cli.pc = "prompt" /\ mishaps = 0 => Cardinality(Open) <= 1

(* After a restore that says it succeeded the database has the revisions   *)
(* the backup was made of, under the same numbers, whoever else has been   *)
(* committing.                                                             *)
RestoreRight ==
  cli.report = "restored" =>
    /\ Len(saved) <= Len(revs)
    /\ \A i \in DOMAIN saved : Shown(revs[i]) = Shown(saved[i])
=============================================================================
