--------------------------- MODULE CliCommandsProofs ---------------------------
(***************************************************************************)
(* Proofs about CliCommands: that the prompt shows the changeset the user  *)
(* is in after a rebase or a restore, and that rebase gives up a changeset *)
(* only when another one holds its work.                                   *)
(*                                                                         *)
(* Neither depends on what one line does to the data, so that Perform is   *)
(* never expanded, and the data have no type: what is said of the          *)
(* variables is only what shape they have.                                 *)
(***************************************************************************)
EXTENDS CliCommands, CliParserProofs, FiniteSetTheorems

CallStages ==
    {"lockOld", "detachOld", "createNew", "lockNew", "writeFile", "lines", "giveUp",
     "backToOld", "detachNew", "takeOld", "abortOld", "takeNew", "unlock"}
Pc == {"prompt", "choose", "restoreCreate", "restore"} \cup CallStages
OpenStates == {"cli", "free", "other"}
States == OpenStates \cup {"aborted", "committed"}
ClientFields ==
    {"pc", "current", "old", "new", "script", "todo", "edited", "back", "ctx", "bad", "quiet",
     "report", "listed"}
ChangesetFields == {"parent", "data", "gone", "state"}

IsChangeset(x) ==
    DOMAIN x = ChangesetFields /\ x.parent \in Nat \ {0} /\ x.state \in States
ChangesetsShape == IsSequence(chs) /\ \A c \in DOMAIN chs : IsChangeset(chs[c])
Shape ==
    /\ IsSequence(revs) /\ Len(revs) # 0
    /\ ChangesetsShape
    /\ DOMAIN cli = ClientFields /\ cli.pc \in Pc
    /\ cli.current \in {None} \cup DOMAIN chs
    /\ mishaps \in Nat

\* The session is attached to one changeset at most, and to none when the
\* client believes that it is in none.
OneAttached ==
    /\ \A c, d \in Attached : c = d
    /\ cli.current = None => Attached = {}

\* What is known of the changesets at each call of a command.  A changeset
\* that is open but not attached waits for the client, or has been taken.
Current == IF cli.current = None THEN {} ELSE {cli.current}
Waits(c) == c \in Open \ Attached
OldIsCurrent ==
    cli.pc \in CallStages \ {"lockOld", "unlock"} => cli.old = cli.current
OldIsKept ==
    /\ cli.pc = "lockOld" => cli.current \in Open
    /\ cli.pc = "detachOld" => cli.old \in Open
    /\ cli.pc \in {"createNew", "lockNew", "writeFile", "lines", "giveUp", "backToOld",
                   "detachNew", "takeOld"} => Waits(cli.old)
NewIsKept ==
    /\ cli.pc \in {"lockNew", "writeFile", "lines", "giveUp", "detachNew"} =>
          Attached = {cli.new}
    /\ cli.pc \in {"takeOld", "abortOld", "takeNew"} => Waits(cli.new)
    /\ cli.pc = "takeOld" => cli.new # cli.old
Stages ==
    /\ cli.pc \in {"createNew", "backToOld", "takeOld", "takeNew", "restoreCreate"} =>
          Attached = {}
    /\ cli.pc = "abortOld" => Attached = {cli.old}
    /\ cli.pc = "unlock" => Attached = {cli.current} /\ cli.current # None
    /\ cli.pc = "restore" => Attached = Current
    /\ cli.pc \in {"choose", "restoreCreate"} => cli.current = None
    /\ cli.pc = "choose" => cli.listed \subseteq DOMAIN chs
    /\ OldIsCurrent /\ OldIsKept /\ NewIsKept

Told1 == cli.report \in {"rebased", "failed"}
Reports ==
    /\ cli.pc # "prompt" => cli.report = Nothing
    /\ Told1 /\ mishaps <= 1 => Attached = Current

\* As long as nothing has gone wrong: nobody else takes a changeset, and the
\* only ones open are those the command is working on.
InUse ==
    CASE cli.pc \in {"lockNew", "writeFile", "lines", "giveUp", "detachNew", "takeOld",
                     "abortOld"} -> {cli.old, cli.new}
      [] cli.pc = "takeNew" -> {cli.new}
      [] OTHER -> Current
Others == {c \in DOMAIN chs : chs[c].state = "other"}
Undisturbed ==
    mishaps = 0 =>
        /\ Open \subseteq InUse
        /\ Others = {}
        /\ cli.pc \in {"prompt", "lockOld", "detachOld"} => Open = Attached

IInv == Shape /\ OneAttached /\ Stages /\ Reports /\ Undisturbed

-----------------------------------------------------------------------------
(***************************************************************************)
(* What the operations of the server do to the changesets.                 *)
(***************************************************************************)

LEMMA Changed ==
    ASSUME NEW s, IsSequence(s), NEW t, DOMAIN t = DOMAIN s, t = [i \in DOMAIN s |-> t[i]]
    PROVE  IsSequence(t) /\ Len(t) = Len(s)
BY SequenceShape, SequenceOf

\* SetState: nothing else of the changeset changes, and no other one does.
LEMMA StateIsSet ==
    ASSUME ChangesetsShape, NEW c \in DOMAIN chs, NEW s \in States, SetState(c, s)
    PROVE  /\ ChangesetsShape'
           /\ Len(chs') = Len(chs) /\ DOMAIN chs' = DOMAIN chs
           /\ \A d \in DOMAIN chs :
                 /\ chs'[d].state = IF d = c THEN s ELSE chs[d].state
                 /\ chs'[d].parent = chs[d].parent
                 /\ chs'[d].data = chs[d].data /\ chs'[d].gone = chs[d].gone
<1>1. /\ DOMAIN chs' = DOMAIN chs
      /\ \A d \in DOMAIN chs : chs'[d] = IF d = c THEN [chs[d] EXCEPT !.state = s] ELSE chs[d]
      /\ chs' = [d \in DOMAIN chs |-> chs'[d]]
  BY DEF SetState
<1>2. \A d \in DOMAIN chs :
         /\ IsChangeset(chs'[d])
         /\ chs'[d].state = IF d = c THEN s ELSE chs[d].state
         /\ chs'[d].parent = chs[d].parent
         /\ chs'[d].data = chs[d].data /\ chs'[d].gone = chs[d].gone
  BY <1>1 DEF ChangesetsShape, IsChangeset, ChangesetFields
<1>3. IsSequence(chs') /\ Len(chs') = Len(chs)
  BY <1>1, Changed DEF ChangesetsShape
<1>. QED
  BY <1>1, <1>2, <1>3 DEF ChangesetsShape

\* Keeping: a line does not change the state of any changeset.
LEMMA WorkIsKept ==
    ASSUME ChangesetsShape, NEW c \in DOMAIN chs, NEW p, chs' = Keeping(c, p)
    PROVE  /\ ChangesetsShape'
           /\ Len(chs') = Len(chs) /\ DOMAIN chs' = DOMAIN chs
           /\ \A d \in DOMAIN chs :
                 /\ chs'[d].state = chs[d].state /\ chs'[d].parent = chs[d].parent
                 /\ d # c => chs'[d] = chs[d]
           /\ chs'[c].data = p.data /\ chs'[c].gone = p.gone
<1>1. /\ DOMAIN chs' = DOMAIN chs
      /\ \A d \in DOMAIN chs :
            chs'[d] = IF d = c THEN [[chs[d] EXCEPT !.data = p.data] EXCEPT !.gone = p.gone] ELSE chs[d]
      /\ chs' = [d \in DOMAIN chs |-> chs'[d]]
  BY DEF Keeping
<1>2. /\ \A d \in DOMAIN chs :
            /\ IsChangeset(chs'[d])
            /\ chs'[d].state = chs[d].state /\ chs'[d].parent = chs[d].parent
            /\ d # c => chs'[d] = chs[d]
      /\ chs'[c].data = p.data /\ chs'[c].gone = p.gone
  BY <1>1 DEF ChangesetsShape, IsChangeset, ChangesetFields
<1>3. IsSequence(chs') /\ Len(chs') = Len(chs)
  BY <1>1, Changed DEF ChangesetsShape
<1>. QED
  BY <1>1, <1>2, <1>3 DEF ChangesetsShape

\* A new changeset is attached; the others stay as they are.
LEMMA ChangesetIsNew ==
    ASSUME Shape, chs' = Append(chs, NewChangeset(HeadRevision))
    PROVE  /\ ChangesetsShape'
           /\ Len(chs') \in Nat \ {0} /\ Len(chs') \notin DOMAIN chs
           /\ DOMAIN chs' = DOMAIN chs \cup {Len(chs')}
           /\ \A d \in DOMAIN chs : chs'[d] = chs[d]
           /\ chs'[Len(chs')] = NewChangeset(HeadRevision)
           /\ chs'[Len(chs')].state = "cli"
<1>1. /\ IsSequence(chs') /\ Len(chs') = Len(chs) + 1
      /\ DOMAIN chs' = DOMAIN chs \cup {Len(chs) + 1}
      /\ \A d \in DOMAIN chs : chs'[d] = chs[d]
      /\ chs'[Len(chs) + 1] = NewChangeset(HeadRevision)
  BY AppendedSequence DEF Shape, ChangesetsShape
<1>2. Len(chs) \in Nat /\ DOMAIN chs = 1 .. Len(chs) /\ Len(revs) \in Nat \ {0}
  BY SequenceShape DEF Shape, ChangesetsShape
<1>3. IsChangeset(NewChangeset(HeadRevision)) /\ NewChangeset(HeadRevision).state = "cli"
  BY <1>2 DEF NewChangeset, IsChangeset, ChangesetFields, HeadRevision, States, OpenStates
<1>4. \A d \in DOMAIN chs' : IsChangeset(chs'[d])
  BY <1>1, <1>3 DEF Shape, ChangesetsShape
<1>. QED
  BY <1>1, <1>2, <1>3, <1>4 DEF ChangesetsShape

LEMMA ClientIsGone ==
    ASSUME ChangesetsShape, Died
    PROVE  /\ ChangesetsShape'
           /\ Len(chs') = Len(chs) /\ DOMAIN chs' = DOMAIN chs
           /\ \A d \in DOMAIN chs :
                 chs'[d].state = IF d \in Attached THEN "free" ELSE chs[d].state
<1>1. /\ DOMAIN chs' = DOMAIN chs
      /\ \A d \in DOMAIN chs :
            chs'[d] = IF d \in Attached THEN [chs[d] EXCEPT !.state = "free"] ELSE chs[d]
      /\ chs' = [d \in DOMAIN chs |-> chs'[d]]
  BY DEF Died
<1>2. \A d \in DOMAIN chs :
         /\ IsChangeset(chs'[d])
         /\ chs'[d].state = IF d \in Attached THEN "free" ELSE chs[d].state
  BY <1>1 DEF ChangesetsShape, IsChangeset, ChangesetFields, States, OpenStates
<1>3. IsSequence(chs') /\ Len(chs') = Len(chs)
  BY <1>1, Changed DEF ChangesetsShape
<1>. QED
  BY <1>1, <1>2, <1>3 DEF ChangesetsShape


\* The same, seen from the three sets which the invariant is about.
LEMMA SetsAfterSetState ==
    ASSUME IInv, NEW c \in DOMAIN chs, NEW s \in States, SetState(c, s)
    PROVE  /\ ChangesetsShape' /\ DOMAIN chs' = DOMAIN chs
           /\ Attached' = IF s = "cli" THEN Attached \cup {c} ELSE Attached \ {c}
           /\ Open' = IF s \in OpenStates THEN Open \cup {c} ELSE Open \ {c}
           /\ Others' = IF s = "other" THEN Others \cup {c} ELSE Others \ {c}
<1>1. ChangesetsShape
  BY DEF IInv, Shape
<1>2. /\ ChangesetsShape' /\ DOMAIN chs' = DOMAIN chs
      /\ \A d \in DOMAIN chs : chs'[d].state = IF d = c THEN s ELSE chs[d].state
  BY <1>1, StateIsSet
<1>. QED
  BY <1>2 DEF Attached, Open, Others, OpenStates

LEMMA SetsAfterKeeping ==
    ASSUME IInv, NEW c \in DOMAIN chs, NEW p, chs' = Keeping(c, p)
    PROVE  /\ ChangesetsShape' /\ DOMAIN chs' = DOMAIN chs
           /\ Attached' = Attached /\ Open' = Open /\ Others' = Others
<1>1. ChangesetsShape
  BY DEF IInv, Shape
<1>2. /\ ChangesetsShape' /\ DOMAIN chs' = DOMAIN chs
      /\ \A d \in DOMAIN chs : chs'[d].state = chs[d].state
  BY <1>1, WorkIsKept
<1>. QED
  BY <1>2 DEF Attached, Open, Others

LEMMA SetsAfterAppend ==
    ASSUME IInv, chs' = Append(chs, NewChangeset(HeadRevision))
    PROVE  /\ ChangesetsShape' /\ DOMAIN chs' = DOMAIN chs \cup {Len(chs')}
           /\ Len(chs') # None /\ Len(chs') \notin DOMAIN chs
           /\ Attached' = Attached \cup {Len(chs')} /\ Open' = Open \cup {Len(chs')}
           /\ Others' = Others
<1>1. Shape
  BY DEF IInv
<1>2. /\ ChangesetsShape' /\ DOMAIN chs' = DOMAIN chs \cup {Len(chs')}
      /\ Len(chs') \in Nat \ {0} /\ Len(chs') \notin DOMAIN chs
      /\ \A d \in DOMAIN chs : chs'[d] = chs[d]
      /\ chs'[Len(chs')].state = "cli"
  BY <1>1, ChangesetIsNew
<1>. QED
  BY <1>2 DEF Attached, Open, Others, None

LEMMA SetsAfterDeath ==
    ASSUME IInv, Died
    PROVE  /\ ChangesetsShape' /\ DOMAIN chs' = DOMAIN chs
           /\ Attached' = {} /\ Open' = Open /\ Others' = Others
<1>1. ChangesetsShape
  BY DEF IInv, Shape
<1>2. /\ ChangesetsShape' /\ DOMAIN chs' = DOMAIN chs
      /\ \A d \in DOMAIN chs : chs'[d].state = IF d \in Attached THEN "free" ELSE chs[d].state
  BY <1>1, ClientIsGone
<1>. QED
  BY <1>2 DEF Attached, Open, Others

\* 0 is no changeset.
LEMMA SetsOfChangesets ==
    ASSUME IInv
    PROVE  /\ None \notin DOMAIN chs
           /\ Attached \subseteq Open /\ Others \subseteq Open /\ Open \subseteq DOMAIN chs
           /\ Attached \cap Others = {}
           /\ \A c \in Open : c \notin Attached => chs[c].state = "free" \/ c \in Others
           /\ \A c \in DOMAIN chs : chs[c].state = "free" => c \in Open \ (Attached \cup Others)
<1>1. DOMAIN chs = 1 .. Len(chs) /\ Len(chs) \in Nat
  BY SequenceShape DEF IInv, Shape, ChangesetsShape
<1>. QED
  BY <1>1 DEF Attached, Open, Others, None

-----------------------------------------------------------------------------
(***************************************************************************)
(* Every action keeps the invariant.                                       *)
(***************************************************************************)

LEMMA MishapCounts ==
    ASSUME IInv, mishaps' = mishaps + 1
    PROVE  mishaps' \in Nat /\ mishaps' # 0 /\ (mishaps' <= 1 => mishaps = 0 /\ mishaps <= 1)
BY DEF IInv, Shape

CommitRefused ==
    cli.current = None \/ cli.bad \/ chs[cli.current].parent # HeadRevision

LEMMA StartKeepsIInv == ASSUME IInv, Start PROVE IInv'
<1>1. /\ DOMAIN cli' = ClientFields /\ cli'.pc = "prompt" /\ cli'.report = Nothing
      /\ cli'.current = Len(chs')
  BY DEF IInv, Shape, Start, Told, ClientFields
<1>2. /\ chs' = Append(chs, NewChangeset(HeadRevision))
      /\ Attached = {} /\ cli.pc = "prompt" /\ cli.current = None
      /\ mishaps' = mishaps /\ revs' = revs
  BY DEF Start, Quiet
<1>3. /\ ChangesetsShape' /\ DOMAIN chs' = DOMAIN chs \cup {Len(chs')}
      /\ Len(chs') # None /\ Len(chs') \notin DOMAIN chs
      /\ Attached' = Attached \cup {Len(chs')} /\ Open' = Open \cup {Len(chs')}
      /\ Others' = Others
  BY <1>2, SetsAfterAppend
<1>4. Shape' /\ OneAttached' /\ Reports'
  BY <1>1, <1>2, <1>3 DEF IInv, Shape, OneAttached, Reports, Told1, Current, Pc, IsSequence, Nothing
<1>5. Stages'
  BY <1>1 DEF Stages, OldIsCurrent, OldIsKept, NewIsKept, CallStages
<1>6. Undisturbed'
  BY <1>1, <1>2, <1>3 DEF IInv, Undisturbed, InUse, Current
<1>. QED
  BY <1>4, <1>5, <1>6 DEF IInv

LEMMA ResumeKeepsIInv == ASSUME IInv, NEW c \in DOMAIN chs, Resume(c) PROVE IInv'
<1>1. /\ DOMAIN cli' = ClientFields
      /\ cli'.pc = "prompt" /\ cli'.report = Nothing /\ cli'.current = c
  BY SetsOfChangesets DEF IInv, Shape, Stages, ClientFields, Resume, Told
<1>2. /\ c \in DOMAIN chs /\ chs[c].state = "free"
      /\ SetState(c, "cli") /\ Attached = {}
      /\ cli.pc = "prompt" /\ cli.current = None
      /\ revs' = revs /\ mishaps' = mishaps
  BY <1>1, SetsOfChangesets DEF IInv, Shape, Stages, Resume, SetState, Quiet
<1>3. /\ ChangesetsShape' /\ DOMAIN chs' = DOMAIN chs
      /\ Attached' = Attached \cup {c}
      /\ Open' = Open \cup {c} /\ Others' = Others \ {c}
  BY <1>1, <1>2, SetsAfterSetState DEF States, OpenStates
<1>4. Shape'
  BY <1>1, <1>2, <1>3, SetsOfChangesets
    DEF IInv, Shape, OneAttached, Pc, CallStages, None
<1>5. OneAttached'
  BY <1>1, <1>2, <1>3, SetsOfChangesets
    DEF IInv, Shape, OneAttached, Stages, OldIsCurrent, OldIsKept, NewIsKept, Waits, Current, CallStages, None
<1>6. Reports'
  BY <1>1, <1>2, <1>3, SetsOfChangesets
    DEF IInv, Shape, Stages, Reports, Told1, OneAttached, OldIsCurrent, OldIsKept, Waits, CallStages, Current, Nothing, None
<1>7. Stages'
  BY <1>1, <1>2, <1>3, SetsOfChangesets
    DEF IInv, Shape, Stages, OldIsCurrent, OldIsKept, NewIsKept, Waits, Current, CallStages, None
<1>8. Undisturbed'
  BY <1>1, <1>2, <1>3, SetsOfChangesets
    DEF IInv, Shape, Stages, OldIsCurrent, OldIsKept, NewIsKept, Waits, Undisturbed, InUse, Current, CallStages, None
<1>. QED
  BY <1>4, <1>5, <1>6, <1>7, <1>8 DEF IInv

LEMMA OthersTakeKeepsIInv == ASSUME IInv, NEW c \in DOMAIN chs, OthersTake(c) PROVE IInv'
<1>1. /\ DOMAIN cli' = ClientFields
      /\ cli' = cli
  BY SetsOfChangesets DEF IInv, Shape, Stages, ClientFields, OthersTake
<1>2. /\ c \in DOMAIN chs /\ chs[c].state = "free"
      /\ SetState(c, "other")
      /\ revs' = revs /\ mishaps' \in Nat /\ mishaps' # 0 /\ (mishaps' <= 1 => mishaps = 0 /\ mishaps <= 1)
  BY <1>1, MishapCounts, SetsOfChangesets DEF IInv, Shape, Stages, OthersTake, SetState, Mishap
<1>3. /\ ChangesetsShape' /\ DOMAIN chs' = DOMAIN chs
      /\ Attached' = Attached \ {c}
      /\ Open' = Open \cup {c} /\ Others' = Others \cup {c}
  BY <1>1, <1>2, SetsAfterSetState DEF States, OpenStates
<1>4. Shape'
  BY <1>1, <1>2, <1>3, SetsOfChangesets
    DEF IInv, Shape, OneAttached, Pc, CallStages, None
<1>5. OneAttached'
  BY <1>1, <1>2, <1>3, SetsOfChangesets
    DEF IInv, Shape, OneAttached, Stages, OldIsCurrent, OldIsKept, NewIsKept, Waits, Current, CallStages, None
<1>6. Reports'
  BY <1>1, <1>2, <1>3, SetsOfChangesets
    DEF IInv, Shape, Stages, Reports, Told1, OneAttached, OldIsCurrent, OldIsKept, Waits, CallStages, Current, Nothing, None
<1>7. Stages'
  BY <1>1, <1>2, <1>3, SetsOfChangesets
    DEF IInv, Shape, Stages, OldIsCurrent, OldIsKept, NewIsKept, Waits, Current, CallStages, None
<1>8. Undisturbed'
  BY <1>1, <1>2, <1>3, SetsOfChangesets
    DEF IInv, Shape, Stages, OldIsCurrent, OldIsKept, NewIsKept, Waits, Undisturbed, InUse, Current, CallStages, None
<1>. QED
  BY <1>4, <1>5, <1>6, <1>7, <1>8 DEF IInv

LEMMA ResumeListsKeepsIInv == ASSUME IInv, ResumeLists PROVE IInv'
<1>1. /\ DOMAIN cli' = ClientFields
      /\ cli'.pc \in {"prompt", "choose"} /\ cli'.report = Nothing
      /\ cli'.current = cli.current /\ (cli'.pc = "choose" => cli'.listed = Open /\ Open # {})
  BY SetsOfChangesets DEF IInv, Shape, Stages, ClientFields, ResumeLists, Told, At
<1>2. /\ chs' = chs /\ cli.pc = "prompt" /\ cli.current = None
      /\ revs' = revs /\ mishaps' = mishaps
  BY <1>1, SetsOfChangesets DEF IInv, Shape, Stages, ResumeLists, Quiet
<1>3. /\ ChangesetsShape' /\ DOMAIN chs' = DOMAIN chs
      /\ Attached' = Attached /\ Open' = Open /\ Others' = Others
  BY <1>1, <1>2, SetsOfChangesets DEF ChangesetsShape, IsChangeset, Attached, Open, Others, IInv, Shape
<1>4. Shape'
  BY <1>1, <1>2, <1>3, SetsOfChangesets
    DEF IInv, Shape, OneAttached, Pc, CallStages, None
<1>5. OneAttached'
  BY <1>1, <1>2, <1>3, SetsOfChangesets
    DEF IInv, Shape, OneAttached, Stages, OldIsCurrent, OldIsKept, NewIsKept, Waits, Current, CallStages, None
<1>6. Reports'
  BY <1>1, <1>2, <1>3, SetsOfChangesets
    DEF IInv, Shape, Stages, Reports, Told1, OneAttached, OldIsCurrent, OldIsKept, Waits, CallStages, Current, Nothing, None
<1>7. Stages'
  BY <1>1, <1>2, <1>3, SetsOfChangesets
    DEF IInv, Shape, Stages, OldIsCurrent, OldIsKept, NewIsKept, Waits, Current, CallStages, None
<1>8. Undisturbed'
  BY <1>1, <1>2, <1>3, SetsOfChangesets
    DEF IInv, Shape, Stages, OldIsCurrent, OldIsKept, NewIsKept, Waits, Undisturbed, InUse, Current, CallStages, None
<1>. QED
  BY <1>4, <1>5, <1>6, <1>7, <1>8 DEF IInv

LEMMA NoneChosenKeepsIInv == ASSUME IInv, NoneChosen PROVE IInv'
<1>1. /\ DOMAIN cli' = ClientFields
      /\ cli'.pc = "prompt" /\ cli'.report = Nothing /\ cli'.current = cli.current
  BY SetsOfChangesets DEF IInv, Shape, Stages, ClientFields, NoneChosen, Told
<1>2. /\ chs' = chs /\ cli.pc = "choose" /\ cli.current = None
      /\ revs' = revs /\ mishaps' = mishaps
  BY <1>1, SetsOfChangesets DEF IInv, Shape, Stages, NoneChosen, Quiet
<1>3. /\ ChangesetsShape' /\ DOMAIN chs' = DOMAIN chs
      /\ Attached' = Attached /\ Open' = Open /\ Others' = Others
  BY <1>1, <1>2, SetsOfChangesets DEF ChangesetsShape, IsChangeset, Attached, Open, Others, IInv, Shape
<1>4. Shape'
  BY <1>1, <1>2, <1>3, SetsOfChangesets
    DEF IInv, Shape, OneAttached, Pc, CallStages, None
<1>5. OneAttached'
  BY <1>1, <1>2, <1>3, SetsOfChangesets
    DEF IInv, Shape, OneAttached, Stages, OldIsCurrent, OldIsKept, NewIsKept, Waits, Current, CallStages, None
<1>6. Reports'
  BY <1>1, <1>2, <1>3, SetsOfChangesets
    DEF IInv, Shape, Stages, Reports, Told1, OneAttached, OldIsCurrent, OldIsKept, Waits, CallStages, Current, Nothing, None
<1>7. Stages'
  BY <1>1, <1>2, <1>3, SetsOfChangesets
    DEF IInv, Shape, Stages, OldIsCurrent, OldIsKept, NewIsKept, Waits, Current, CallStages, None
<1>8. Undisturbed'
  BY <1>1, <1>2, <1>3, SetsOfChangesets
    DEF IInv, Shape, Stages, OldIsCurrent, OldIsKept, NewIsKept, Waits, Undisturbed, InUse, Current, CallStages, None
<1>. QED
  BY <1>4, <1>5, <1>6, <1>7, <1>8 DEF IInv

LEMMA TypeKeepsIInv == ASSUME IInv, NEW line \in OurLines, Type(line) PROVE IInv'
<1>1. /\ DOMAIN cli' = ClientFields
      /\ cli'.pc = "prompt" /\ cli'.report = Nothing /\ cli'.current = cli.current
  BY SetsOfChangesets DEF IInv, Shape, Stages, ClientFields, Type, Told
<1>2. /\ \E c \in DOMAIN chs : \E p : chs' = Keeping(c, p)
      /\ cli.pc = "prompt"
      /\ revs' = revs /\ mishaps' = mishaps
  BY <1>1, SetsOfChangesets DEF IInv, Shape, Stages, Type, Quiet, Attached
<1>3. /\ ChangesetsShape' /\ DOMAIN chs' = DOMAIN chs
      /\ Attached' = Attached /\ Open' = Open /\ Others' = Others
  BY <1>1, <1>2, SetsAfterKeeping
<1>4. Shape'
  BY <1>1, <1>2, <1>3, SetsOfChangesets
    DEF IInv, Shape, OneAttached, Pc, CallStages, None
<1>5. OneAttached'
  BY <1>1, <1>2, <1>3, SetsOfChangesets
    DEF IInv, Shape, OneAttached, Stages, OldIsCurrent, OldIsKept, NewIsKept, Waits, Current, CallStages, None
<1>6. Reports'
  BY <1>1, <1>2, <1>3, SetsOfChangesets
    DEF IInv, Shape, Stages, Reports, Told1, OneAttached, OldIsCurrent, OldIsKept, Waits, CallStages, Current, Nothing, None
<1>7. Stages'
  BY <1>1, <1>2, <1>3, SetsOfChangesets
    DEF IInv, Shape, Stages, OldIsCurrent, OldIsKept, NewIsKept, Waits, Current, CallStages, None
<1>8. Undisturbed'
  BY <1>1, <1>2, <1>3, SetsOfChangesets
    DEF IInv, Shape, Stages, OldIsCurrent, OldIsKept, NewIsKept, Waits, Undisturbed, InUse, Current, CallStages, None
<1>. QED
  BY <1>4, <1>5, <1>6, <1>7, <1>8 DEF IInv

LEMMA CallFailsKeepsIInv == ASSUME IInv, CallFails PROVE IInv'
<1>1. /\ DOMAIN cli' = ClientFields
      /\ cli'.pc = "prompt" /\ cli'.report = "error" /\ cli'.current = cli.current
  BY SetsOfChangesets DEF IInv, Shape, Stages, ClientFields, CallFails, Thrown, Told
<1>2. /\ chs' = chs
      /\ revs' = revs /\ mishaps' \in Nat /\ mishaps' # 0 /\ (mishaps' <= 1 => mishaps = 0 /\ mishaps <= 1)
  BY <1>1, MishapCounts, SetsOfChangesets DEF IInv, Shape, Stages, CallFails, Thrown, Mishap
<1>3. /\ ChangesetsShape' /\ DOMAIN chs' = DOMAIN chs
      /\ Attached' = Attached /\ Open' = Open /\ Others' = Others
  BY <1>1, <1>2, SetsOfChangesets DEF ChangesetsShape, IsChangeset, Attached, Open, Others, IInv, Shape
<1>4. Shape'
  BY <1>1, <1>2, <1>3, SetsOfChangesets
    DEF IInv, Shape, OneAttached, Pc, CallStages, None
<1>5. OneAttached'
  BY <1>1, <1>2, <1>3, SetsOfChangesets
    DEF IInv, Shape, OneAttached, Stages, OldIsCurrent, OldIsKept, NewIsKept, Waits, Current, CallStages, None
<1>6. Reports'
  BY <1>1, <1>2, <1>3, SetsOfChangesets
    DEF IInv, Shape, Stages, Reports, Told1, OneAttached, OldIsCurrent, OldIsKept, Waits, CallStages, Current, Nothing, None
<1>7. Stages'
  BY <1>1, <1>2, <1>3, SetsOfChangesets
    DEF IInv, Shape, Stages, OldIsCurrent, OldIsKept, NewIsKept, Waits, Current, CallStages, None
<1>8. Undisturbed'
  BY <1>1, <1>2, <1>3, SetsOfChangesets
    DEF IInv, Shape, Stages, OldIsCurrent, OldIsKept, NewIsKept, Waits, Undisturbed, InUse, Current, CallStages, None
<1>. QED
  BY <1>4, <1>5, <1>6, <1>7, <1>8 DEF IInv

LEMMA ClientDiesKeepsIInv == ASSUME IInv, ClientDies PROVE IInv'
<1>1. /\ DOMAIN cli' = ClientFields
      /\ cli'.pc = "prompt" /\ cli'.report = Nothing /\ cli'.current = None
  BY SetsOfChangesets DEF IInv, Shape, Stages, ClientFields, ClientDies, Died, Idle
<1>2. /\ Died
      /\ revs' = revs /\ mishaps' \in Nat /\ mishaps' # 0 /\ (mishaps' <= 1 => mishaps = 0 /\ mishaps <= 1)
  BY <1>1, MishapCounts, SetsOfChangesets DEF IInv, Shape, Stages, ClientDies, Mishap
<1>3. /\ ChangesetsShape' /\ DOMAIN chs' = DOMAIN chs
      /\ Attached' = {} /\ Open' = Open /\ Others' = Others
  BY <1>1, <1>2, SetsAfterDeath
<1>4. Shape'
  BY <1>1, <1>2, <1>3, SetsOfChangesets
    DEF IInv, Shape, OneAttached, Pc, CallStages, None
<1>5. OneAttached'
  BY <1>1, <1>2, <1>3, SetsOfChangesets
    DEF IInv, Shape, OneAttached, Stages, OldIsCurrent, OldIsKept, NewIsKept, Waits, Current, CallStages, None
<1>6. Reports'
  BY <1>1, <1>2, <1>3, SetsOfChangesets
    DEF IInv, Shape, Stages, Reports, Told1, OneAttached, OldIsCurrent, OldIsKept, Waits, CallStages, Current, Nothing, None
<1>7. Stages'
  BY <1>1, <1>2, <1>3, SetsOfChangesets
    DEF IInv, Shape, Stages, OldIsCurrent, OldIsKept, NewIsKept, Waits, Current, CallStages, None
<1>8. Undisturbed'
  BY <1>1, <1>2, <1>3, SetsOfChangesets
    DEF IInv, Shape, Stages, OldIsCurrent, OldIsKept, NewIsKept, Waits, Undisturbed, InUse, Current, CallStages, None
<1>. QED
  BY <1>4, <1>5, <1>6, <1>7, <1>8 DEF IInv

LEMMA LockOldKeepsIInv == ASSUME IInv, LockOld PROVE IInv'
<1>1. /\ DOMAIN cli' = ClientFields
      /\ cli'.pc \in {"prompt", "detachOld"} /\ cli'.current = cli.current
      /\ cli'.pc = "prompt" => cli'.report = "error" /\ Attached = {}
      /\ cli'.pc = "detachOld" => cli'.report = Nothing /\ cli'.old = cli.current /\ Attached # {}
  BY SetsOfChangesets DEF IInv, Shape, Stages, ClientFields, LockOld, Told, At, Reports
<1>2. /\ chs' = chs /\ cli.pc = "lockOld"
      /\ revs' = revs /\ mishaps' = mishaps
  BY <1>1, SetsOfChangesets DEF IInv, Shape, Stages, LockOld, Step
<1>3. /\ ChangesetsShape' /\ DOMAIN chs' = DOMAIN chs
      /\ Attached' = Attached /\ Open' = Open /\ Others' = Others
  BY <1>1, <1>2, SetsOfChangesets DEF ChangesetsShape, IsChangeset, Attached, Open, Others, IInv, Shape
<1>4. Shape'
  BY <1>1, <1>2, <1>3, SetsOfChangesets
    DEF IInv, Shape, OneAttached, Pc, CallStages, None
<1>5. OneAttached'
  BY <1>1, <1>2, <1>3, SetsOfChangesets
    DEF IInv, Shape, OneAttached, Stages, OldIsCurrent, OldIsKept, NewIsKept, Waits, Current, CallStages, None
<1>6. Reports'
  BY <1>1, <1>2, <1>3, SetsOfChangesets
    DEF IInv, Shape, Stages, Reports, Told1, OneAttached, OldIsCurrent, OldIsKept, Waits, CallStages, Current, Nothing, None
<1>7. Stages'
  BY <1>1, <1>2, <1>3, SetsOfChangesets
    DEF IInv, Shape, Stages, OldIsCurrent, OldIsKept, NewIsKept, Waits, Current, CallStages, None
<1>8. Undisturbed'
  BY <1>1, <1>2, <1>3, SetsOfChangesets
    DEF IInv, Shape, Stages, OldIsCurrent, OldIsKept, NewIsKept, Waits, Undisturbed, InUse, Current, CallStages, None
<1>. QED
  BY <1>4, <1>5, <1>6, <1>7, <1>8 DEF IInv

LEMMA LockRefusedKeepsIInv == ASSUME IInv, LockRefused PROVE IInv'
<1>1. /\ DOMAIN cli' = ClientFields
      /\ cli'.pc \in {"prompt", "giveUp"} /\ cli'.current = cli.current /\ cli'.old = cli.old /\ cli'.new = cli.new
      /\ cli'.pc = "prompt" => cli'.report = "failed" /\ cli.pc = "lockOld"
      /\ cli'.pc = "giveUp" => cli'.report = Nothing /\ cli.pc = "lockNew"
  BY SetsOfChangesets DEF IInv, Shape, Stages, ClientFields, LockRefused, Told, At, Reports
<1>2. /\ chs' = chs /\ Attached # {}
      /\ revs' = revs /\ mishaps' \in Nat /\ mishaps' # 0 /\ (mishaps' <= 1 => mishaps = 0 /\ mishaps <= 1)
  BY <1>1, MishapCounts, SetsOfChangesets DEF IInv, Shape, Stages, LockRefused, Mishap
<1>3. /\ ChangesetsShape' /\ DOMAIN chs' = DOMAIN chs
      /\ Attached' = Attached /\ Open' = Open /\ Others' = Others
  BY <1>1, <1>2, SetsOfChangesets DEF ChangesetsShape, IsChangeset, Attached, Open, Others, IInv, Shape
<1>4. Shape'
  BY <1>1, <1>2, <1>3, SetsOfChangesets
    DEF IInv, Shape, OneAttached, Pc, CallStages, None
<1>5. OneAttached'
  BY <1>1, <1>2, <1>3, SetsOfChangesets
    DEF IInv, Shape, OneAttached, Stages, OldIsCurrent, OldIsKept, NewIsKept, Waits, Current, CallStages, None
<1>6. Reports'
  BY <1>1, <1>2, <1>3, SetsOfChangesets
    DEF IInv, Shape, Stages, Reports, Told1, OneAttached, OldIsCurrent, OldIsKept, Waits, CallStages, Current, Nothing, None, Undisturbed, InUse, OldIsKept, CallStages
<1>7. Stages'
  BY <1>1, <1>2, <1>3, SetsOfChangesets
    DEF IInv, Shape, Stages, OldIsCurrent, OldIsKept, NewIsKept, Waits, Current, CallStages, None
<1>8. Undisturbed'
  BY <1>1, <1>2, <1>3, SetsOfChangesets
    DEF IInv, Shape, Stages, OldIsCurrent, OldIsKept, NewIsKept, Waits, Undisturbed, InUse, Current, CallStages, None
<1>. QED
  BY <1>4, <1>5, <1>6, <1>7, <1>8 DEF IInv

LEMMA DetachOldKeepsIInv == ASSUME IInv, DetachOld PROVE IInv'
<1>1. /\ DOMAIN cli' = ClientFields
      /\ cli'.pc = "createNew" /\ cli'.report = Nothing /\ cli'.current = cli.current /\ cli'.old = cli.old /\ cli'.new = cli.new
  BY SetsOfChangesets DEF IInv, Shape, Stages, ClientFields, DetachOld, Goes, At, Reports
<1>2. PICK c \in DOMAIN chs :
        /\ c \in DOMAIN chs /\ SetState(c, "free") /\ Attached = {c}
        /\ cli.pc = "detachOld"
        /\ revs' = revs /\ mishaps' = mishaps
  BY <1>1, SetsOfChangesets DEF IInv, Shape, Stages, DetachOld, Step, OneAttached
<1>3. /\ ChangesetsShape' /\ DOMAIN chs' = DOMAIN chs
      /\ Attached' = Attached \ {c}
      /\ Open' = Open \cup {c} /\ Others' = Others \ {c}
  BY <1>1, <1>2, SetsAfterSetState DEF States, OpenStates
<1>4. Shape'
  BY <1>1, <1>2, <1>3, SetsOfChangesets
    DEF IInv, Shape, OneAttached, Pc, CallStages, None
<1>5. OneAttached'
  BY <1>1, <1>2, <1>3, SetsOfChangesets
    DEF IInv, Shape, OneAttached, Stages, OldIsCurrent, OldIsKept, NewIsKept, Waits, Current, CallStages, None
<1>6. Reports'
  BY <1>1, <1>2, <1>3, SetsOfChangesets
    DEF IInv, Shape, Stages, Reports, Told1, OneAttached, OldIsCurrent, OldIsKept, Waits, CallStages, Current, Nothing, None
<1>7. Stages'
  BY <1>1, <1>2, <1>3, SetsOfChangesets
    DEF IInv, Shape, Stages, OldIsCurrent, OldIsKept, NewIsKept, Waits, Current, CallStages, None
<1>8. Undisturbed'
  BY <1>1, <1>2, <1>3, SetsOfChangesets
    DEF IInv, Shape, Stages, OldIsCurrent, OldIsKept, NewIsKept, Waits, Undisturbed, InUse, Current, CallStages, None
<1>. QED
  BY <1>4, <1>5, <1>6, <1>7, <1>8 DEF IInv

LEMMA CreateNewKeepsIInv == ASSUME IInv, CreateNew PROVE IInv'
<1>1. /\ DOMAIN cli' = ClientFields
      /\ cli'.pc = "lockNew" /\ cli'.report = Nothing /\ cli'.current = cli.current /\ cli'.old = cli.old /\ cli'.new = Len(chs')
  BY SetsOfChangesets DEF IInv, Shape, Stages, ClientFields, CreateNew, At, Reports
<1>2. /\ chs' = Append(chs, NewChangeset(HeadRevision))
      /\ cli.pc = "createNew"
      /\ revs' = revs /\ mishaps' = mishaps
  BY <1>1, SetsOfChangesets DEF IInv, Shape, Stages, CreateNew, Step
<1>3. /\ ChangesetsShape' /\ DOMAIN chs' = DOMAIN chs \cup {Len(chs')}
      /\ Len(chs') # None /\ Len(chs') \notin DOMAIN chs
      /\ Attached' = Attached \cup {Len(chs')} /\ Open' = Open \cup {Len(chs')}
      /\ Others' = Others
  BY <1>1, <1>2, SetsAfterAppend
<1>4. Shape'
  BY <1>1, <1>2, <1>3, SetsOfChangesets
    DEF IInv, Shape, OneAttached, Pc, CallStages, None
<1>5. OneAttached'
  BY <1>1, <1>2, <1>3, SetsOfChangesets
    DEF IInv, Shape, OneAttached, Stages, OldIsCurrent, OldIsKept, NewIsKept, Waits, Current, CallStages, None
<1>6. Reports'
  BY <1>1, <1>2, <1>3, SetsOfChangesets
    DEF IInv, Shape, Stages, Reports, Told1, OneAttached, OldIsCurrent, OldIsKept, Waits, CallStages, Current, Nothing, None
<1>7. Stages'
  BY <1>1, <1>2, <1>3, SetsOfChangesets
    DEF IInv, Shape, Stages, OldIsCurrent, OldIsKept, NewIsKept, Waits, Current, CallStages, None
<1>8. Undisturbed'
  BY <1>1, <1>2, <1>3, SetsOfChangesets
    DEF IInv, Shape, Stages, OldIsCurrent, OldIsKept, NewIsKept, Waits, Undisturbed, InUse, Current, CallStages, None
<1>. QED
  BY <1>4, <1>5, <1>6, <1>7, <1>8 DEF IInv

LEMMA LockNewKeepsIInv == ASSUME IInv, LockNew PROVE IInv'
<1>1. /\ DOMAIN cli' = ClientFields
      /\ cli'.pc = "writeFile" /\ cli'.report = Nothing /\ cli'.current = cli.current /\ cli'.old = cli.old /\ cli'.new = cli.new
  BY SetsOfChangesets DEF IInv, Shape, Stages, ClientFields, LockNew, Goes, At, Reports
<1>2. /\ chs' = chs /\ cli.pc = "lockNew"
      /\ revs' = revs /\ mishaps' = mishaps
  BY <1>1, SetsOfChangesets DEF IInv, Shape, Stages, LockNew, Step
<1>3. /\ ChangesetsShape' /\ DOMAIN chs' = DOMAIN chs
      /\ Attached' = Attached /\ Open' = Open /\ Others' = Others
  BY <1>1, <1>2, SetsOfChangesets DEF ChangesetsShape, IsChangeset, Attached, Open, Others, IInv, Shape
<1>4. Shape'
  BY <1>1, <1>2, <1>3, SetsOfChangesets
    DEF IInv, Shape, OneAttached, Pc, CallStages, None
<1>5. OneAttached'
  BY <1>1, <1>2, <1>3, SetsOfChangesets
    DEF IInv, Shape, OneAttached, Stages, OldIsCurrent, OldIsKept, NewIsKept, Waits, Current, CallStages, None
<1>6. Reports'
  BY <1>1, <1>2, <1>3, SetsOfChangesets
    DEF IInv, Shape, Stages, Reports, Told1, OneAttached, OldIsCurrent, OldIsKept, Waits, CallStages, Current, Nothing, None
<1>7. Stages'
  BY <1>1, <1>2, <1>3, SetsOfChangesets
    DEF IInv, Shape, Stages, OldIsCurrent, OldIsKept, NewIsKept, Waits, Current, CallStages, None
<1>8. Undisturbed'
  BY <1>1, <1>2, <1>3, SetsOfChangesets
    DEF IInv, Shape, Stages, OldIsCurrent, OldIsKept, NewIsKept, Waits, Undisturbed, InUse, Current, CallStages, None
<1>. QED
  BY <1>4, <1>5, <1>6, <1>7, <1>8 DEF IInv

LEMMA WriteFileKeepsIInv == ASSUME IInv, WriteFile PROVE IInv'
<1>1. /\ DOMAIN cli' = ClientFields
      /\ cli'.pc = "lines" /\ cli'.report = Nothing /\ cli'.current = cli.current /\ cli'.old = cli.old /\ cli'.new = cli.new
  <2>1. PICK lines, edited :
           cli' = [At("lines") EXCEPT !.script = lines, !.todo = lines, !.quiet = TRUE, !.edited = edited]
    BY DEF WriteFile
  <2>2. cli.pc = "writeFile"
    BY DEF WriteFile
  <2>. QED
    BY <2>1, <2>2 DEF IInv, Shape, ClientFields, At, Reports
<1>2. /\ chs' = chs /\ cli.pc = "writeFile"
      /\ revs' = revs /\ mishaps' = mishaps
  BY <1>1, SetsOfChangesets DEF IInv, Shape, Stages, WriteFile, Step
<1>3. /\ ChangesetsShape' /\ DOMAIN chs' = DOMAIN chs
      /\ Attached' = Attached /\ Open' = Open /\ Others' = Others
  BY <1>1, <1>2, SetsOfChangesets DEF ChangesetsShape, IsChangeset, Attached, Open, Others, IInv, Shape
<1>4. Shape'
  BY <1>1, <1>2, <1>3, SetsOfChangesets
    DEF IInv, Shape, OneAttached, Pc, CallStages, None
<1>5. OneAttached'
  BY <1>1, <1>2, <1>3, SetsOfChangesets
    DEF IInv, Shape, OneAttached, Stages, OldIsCurrent, OldIsKept, NewIsKept, Waits, Current, CallStages, None
<1>6. Reports'
  BY <1>1, <1>2, <1>3, SetsOfChangesets
    DEF IInv, Shape, Stages, Reports, Told1, OneAttached, OldIsCurrent, OldIsKept, Waits, CallStages, Current, Nothing, None
<1>7. Stages'
  BY <1>1, <1>2, <1>3, SetsOfChangesets
    DEF IInv, Shape, Stages, OldIsCurrent, OldIsKept, NewIsKept, Waits, Current, CallStages, None
<1>8. Undisturbed'
  BY <1>1, <1>2, <1>3, SetsOfChangesets
    DEF IInv, Shape, Stages, OldIsCurrent, OldIsKept, NewIsKept, Waits, Undisturbed, InUse, Current, CallStages, None
<1>. QED
  BY <1>4, <1>5, <1>6, <1>7, <1>8 DEF IInv

LEMMA FileIsGoneKeepsIInv == ASSUME IInv, FileIsGone PROVE IInv'
<1>1. /\ DOMAIN cli' = ClientFields
      /\ cli'.pc = "giveUp" /\ cli'.report = Nothing /\ cli'.current = cli.current /\ cli'.old = cli.old /\ cli'.new = cli.new
  BY SetsOfChangesets DEF IInv, Shape, Stages, ClientFields, FileIsGone, ParsingFailed, Reports
<1>2. /\ chs' = chs /\ cli.pc = "writeFile"
      /\ revs' = revs /\ mishaps' \in Nat /\ mishaps' # 0 /\ (mishaps' <= 1 => mishaps = 0 /\ mishaps <= 1)
  BY <1>1, MishapCounts, SetsOfChangesets DEF IInv, Shape, Stages, FileIsGone, Mishap
<1>3. /\ ChangesetsShape' /\ DOMAIN chs' = DOMAIN chs
      /\ Attached' = Attached /\ Open' = Open /\ Others' = Others
  BY <1>1, <1>2, SetsOfChangesets DEF ChangesetsShape, IsChangeset, Attached, Open, Others, IInv, Shape
<1>4. Shape'
  BY <1>1, <1>2, <1>3, SetsOfChangesets
    DEF IInv, Shape, OneAttached, Pc, CallStages, None
<1>5. OneAttached'
  BY <1>1, <1>2, <1>3, SetsOfChangesets
    DEF IInv, Shape, OneAttached, Stages, OldIsCurrent, OldIsKept, NewIsKept, Waits, Current, CallStages, None
<1>6. Reports'
  BY <1>1, <1>2, <1>3, SetsOfChangesets
    DEF IInv, Shape, Stages, Reports, Told1, OneAttached, OldIsCurrent, OldIsKept, Waits, CallStages, Current, Nothing, None
<1>7. Stages'
  BY <1>1, <1>2, <1>3, SetsOfChangesets
    DEF IInv, Shape, Stages, OldIsCurrent, OldIsKept, NewIsKept, Waits, Current, CallStages, None
<1>8. Undisturbed'
  BY <1>1, <1>2, <1>3, SetsOfChangesets
    DEF IInv, Shape, Stages, OldIsCurrent, OldIsKept, NewIsKept, Waits, Undisturbed, InUse, Current, CallStages, None
<1>. QED
  BY <1>4, <1>5, <1>6, <1>7, <1>8 DEF IInv

LEMMA LineKeepsIInv == ASSUME IInv, Line PROVE IInv'
<1>1. /\ DOMAIN cli' = ClientFields
      /\ cli'.pc \in {"lines", "giveUp"} /\ cli'.report = Nothing /\ cli'.current = cli.current /\ cli'.old = cli.old /\ cli'.new = cli.new
  BY SetsOfChangesets DEF IInv, Shape, Stages, ClientFields, Line, ParsingFailed, Reports
<1>2. PICK c \in DOMAIN chs, p \in {Perform(Work(cli.new), Head(cli.todo).line)} :
        /\ chs' = Keeping(c, p)
        /\ cli.pc = "lines"
        /\ revs' = revs /\ mishaps' = mishaps
  BY <1>1, SetsOfChangesets DEF IInv, Shape, Stages, Line, Step, NewIsKept, Attached
<1>3. /\ ChangesetsShape' /\ DOMAIN chs' = DOMAIN chs
      /\ Attached' = Attached /\ Open' = Open /\ Others' = Others
  BY <1>1, <1>2, SetsAfterKeeping
<1>4. Shape'
  BY <1>1, <1>2, <1>3, SetsOfChangesets
    DEF IInv, Shape, OneAttached, Pc, CallStages, None
<1>5. OneAttached'
  BY <1>1, <1>2, <1>3, SetsOfChangesets
    DEF IInv, Shape, OneAttached, Stages, OldIsCurrent, OldIsKept, NewIsKept, Waits, Current, CallStages, None
<1>6. Reports'
  BY <1>1, <1>2, <1>3, SetsOfChangesets
    DEF IInv, Shape, Stages, Reports, Told1, OneAttached, OldIsCurrent, OldIsKept, Waits, CallStages, Current, Nothing, None
<1>7. Stages'
  BY <1>1, <1>2, <1>3, SetsOfChangesets
    DEF IInv, Shape, Stages, OldIsCurrent, OldIsKept, NewIsKept, Waits, Current, CallStages, None
<1>8. Undisturbed'
  BY <1>1, <1>2, <1>3, SetsOfChangesets
    DEF IInv, Shape, Stages, OldIsCurrent, OldIsKept, NewIsKept, Waits, Undisturbed, InUse, Current, CallStages, None
<1>. QED
  BY <1>4, <1>5, <1>6, <1>7, <1>8 DEF IInv

LEMMA LineFailsKeepsIInv == ASSUME IInv, LineFails PROVE IInv'
<1>1. /\ DOMAIN cli' = ClientFields
      /\ cli'.pc = "giveUp" /\ cli'.report = Nothing /\ cli'.current = cli.current /\ cli'.old = cli.old /\ cli'.new = cli.new
  BY SetsOfChangesets DEF IInv, Shape, Stages, ClientFields, LineFails, ParsingFailed, Reports
<1>2. /\ chs' = chs /\ cli.pc = "lines"
      /\ revs' = revs /\ mishaps' \in Nat /\ mishaps' # 0 /\ (mishaps' <= 1 => mishaps = 0 /\ mishaps <= 1)
  BY <1>1, MishapCounts, SetsOfChangesets DEF IInv, Shape, Stages, LineFails, Mishap
<1>3. /\ ChangesetsShape' /\ DOMAIN chs' = DOMAIN chs
      /\ Attached' = Attached /\ Open' = Open /\ Others' = Others
  BY <1>1, <1>2, SetsOfChangesets DEF ChangesetsShape, IsChangeset, Attached, Open, Others, IInv, Shape
<1>4. Shape'
  BY <1>1, <1>2, <1>3, SetsOfChangesets
    DEF IInv, Shape, OneAttached, Pc, CallStages, None
<1>5. OneAttached'
  BY <1>1, <1>2, <1>3, SetsOfChangesets
    DEF IInv, Shape, OneAttached, Stages, OldIsCurrent, OldIsKept, NewIsKept, Waits, Current, CallStages, None
<1>6. Reports'
  BY <1>1, <1>2, <1>3, SetsOfChangesets
    DEF IInv, Shape, Stages, Reports, Told1, OneAttached, OldIsCurrent, OldIsKept, Waits, CallStages, Current, Nothing, None
<1>7. Stages'
  BY <1>1, <1>2, <1>3, SetsOfChangesets
    DEF IInv, Shape, Stages, OldIsCurrent, OldIsKept, NewIsKept, Waits, Current, CallStages, None
<1>8. Undisturbed'
  BY <1>1, <1>2, <1>3, SetsOfChangesets
    DEF IInv, Shape, Stages, OldIsCurrent, OldIsKept, NewIsKept, Waits, Undisturbed, InUse, Current, CallStages, None
<1>. QED
  BY <1>4, <1>5, <1>6, <1>7, <1>8 DEF IInv

LEMMA AllPerformedKeepsIInv == ASSUME IInv, AllPerformed PROVE IInv'
<1>1. /\ DOMAIN cli' = ClientFields
      /\ cli'.pc = "detachNew" /\ cli'.report = Nothing /\ cli'.current = cli.current /\ cli'.old = cli.old /\ cli'.new = cli.new
  BY SetsOfChangesets DEF IInv, Shape, Stages, ClientFields, AllPerformed, At, Reports
<1>2. /\ chs' = chs /\ cli.pc = "lines"
      /\ revs' = revs /\ mishaps' = mishaps
  BY <1>1, SetsOfChangesets DEF IInv, Shape, Stages, AllPerformed, Step
<1>3. /\ ChangesetsShape' /\ DOMAIN chs' = DOMAIN chs
      /\ Attached' = Attached /\ Open' = Open /\ Others' = Others
  BY <1>1, <1>2, SetsOfChangesets DEF ChangesetsShape, IsChangeset, Attached, Open, Others, IInv, Shape
<1>4. Shape'
  BY <1>1, <1>2, <1>3, SetsOfChangesets
    DEF IInv, Shape, OneAttached, Pc, CallStages, None
<1>5. OneAttached'
  BY <1>1, <1>2, <1>3, SetsOfChangesets
    DEF IInv, Shape, OneAttached, Stages, OldIsCurrent, OldIsKept, NewIsKept, Waits, Current, CallStages, None
<1>6. Reports'
  BY <1>1, <1>2, <1>3, SetsOfChangesets
    DEF IInv, Shape, Stages, Reports, Told1, OneAttached, OldIsCurrent, OldIsKept, Waits, CallStages, Current, Nothing, None
<1>7. Stages'
  BY <1>1, <1>2, <1>3, SetsOfChangesets
    DEF IInv, Shape, Stages, OldIsCurrent, OldIsKept, NewIsKept, Waits, Current, CallStages, None
<1>8. Undisturbed'
  BY <1>1, <1>2, <1>3, SetsOfChangesets
    DEF IInv, Shape, Stages, OldIsCurrent, OldIsKept, NewIsKept, Waits, Undisturbed, InUse, Current, CallStages, None
<1>. QED
  BY <1>4, <1>5, <1>6, <1>7, <1>8 DEF IInv

LEMMA GiveUpKeepsIInv == ASSUME IInv, GiveUp PROVE IInv'
<1>1. /\ DOMAIN cli' = ClientFields
      /\ cli'.pc = "backToOld" /\ cli'.report = Nothing /\ cli'.current = cli.current /\ cli'.old = cli.old /\ cli'.new = cli.new
  BY SetsOfChangesets DEF IInv, Shape, Stages, ClientFields, GiveUp, Goes, At, Reports
<1>2. PICK c \in DOMAIN chs :
        /\ c \in DOMAIN chs /\ c = cli.new /\ SetState(c, "aborted")
        /\ cli.pc = "giveUp"
        /\ revs' = revs /\ mishaps' = mishaps
  BY <1>1, SetsOfChangesets DEF IInv, Shape, Stages, GiveUp, SetState, Step, NewIsKept, Attached
<1>3. /\ ChangesetsShape' /\ DOMAIN chs' = DOMAIN chs
      /\ Attached' = Attached \ {c}
      /\ Open' = Open \ {c} /\ Others' = Others \ {c}
  BY <1>1, <1>2, SetsAfterSetState DEF States, OpenStates
<1>4. Shape'
  BY <1>1, <1>2, <1>3, SetsOfChangesets
    DEF IInv, Shape, OneAttached, Pc, CallStages, None
<1>5. OneAttached'
  BY <1>1, <1>2, <1>3, SetsOfChangesets
    DEF IInv, Shape, OneAttached, Stages, OldIsCurrent, OldIsKept, NewIsKept, Waits, Current, CallStages, None
<1>6. Reports'
  BY <1>1, <1>2, <1>3, SetsOfChangesets
    DEF IInv, Shape, Stages, Reports, Told1, OneAttached, OldIsCurrent, OldIsKept, Waits, CallStages, Current, Nothing, None
<1>7. Stages'
  BY <1>1, <1>2, <1>3, SetsOfChangesets
    DEF IInv, Shape, Stages, OldIsCurrent, OldIsKept, NewIsKept, Waits, Current, CallStages, None
<1>8. Undisturbed'
  BY <1>1, <1>2, <1>3, SetsOfChangesets
    DEF IInv, Shape, Stages, OldIsCurrent, OldIsKept, NewIsKept, Waits, Undisturbed, InUse, Current, CallStages, None
<1>. QED
  BY <1>4, <1>5, <1>6, <1>7, <1>8 DEF IInv

LEMMA DetachNewKeepsIInv == ASSUME IInv, DetachNew PROVE IInv'
<1>1. /\ DOMAIN cli' = ClientFields
      /\ cli'.pc = "takeOld" /\ cli'.report = Nothing /\ cli'.current = cli.current /\ cli'.old = cli.old /\ cli'.new = cli.new
  BY SetsOfChangesets DEF IInv, Shape, Stages, ClientFields, DetachNew, Goes, At, Reports
<1>2. PICK c \in DOMAIN chs :
        /\ c \in DOMAIN chs /\ c = cli.new /\ SetState(c, "free")
        /\ cli.pc = "detachNew"
        /\ revs' = revs /\ mishaps' = mishaps
  BY <1>1, SetsOfChangesets DEF IInv, Shape, Stages, DetachNew, SetState, Step, NewIsKept, Attached
<1>3. /\ ChangesetsShape' /\ DOMAIN chs' = DOMAIN chs
      /\ Attached' = Attached \ {c}
      /\ Open' = Open \cup {c} /\ Others' = Others \ {c}
  BY <1>1, <1>2, SetsAfterSetState DEF States, OpenStates
<1>4. Shape'
  BY <1>1, <1>2, <1>3, SetsOfChangesets
    DEF IInv, Shape, OneAttached, Pc, CallStages, None
<1>5. OneAttached'
  BY <1>1, <1>2, <1>3, SetsOfChangesets
    DEF IInv, Shape, OneAttached, Stages, OldIsCurrent, OldIsKept, NewIsKept, Waits, Current, CallStages, None
<1>6. Reports'
  BY <1>1, <1>2, <1>3, SetsOfChangesets
    DEF IInv, Shape, Stages, Reports, Told1, OneAttached, OldIsCurrent, OldIsKept, Waits, CallStages, Current, Nothing, None
<1>7. Stages'
  BY <1>1, <1>2, <1>3, SetsOfChangesets
    DEF IInv, Shape, Stages, OldIsCurrent, OldIsKept, NewIsKept, Waits, Current, CallStages, None
<1>8. Undisturbed'
  BY <1>1, <1>2, <1>3, SetsOfChangesets
    DEF IInv, Shape, Stages, OldIsCurrent, OldIsKept, NewIsKept, Waits, Undisturbed, InUse, Current, CallStages, None
<1>. QED
  BY <1>4, <1>5, <1>6, <1>7, <1>8 DEF IInv

LEMMA AbortOldKeepsIInv == ASSUME IInv, AbortOld PROVE IInv'
<1>1. /\ DOMAIN cli' = ClientFields
      /\ cli'.pc = "takeNew" /\ cli'.report = Nothing /\ cli'.current = cli.current /\ cli'.old = cli.old /\ cli'.new = cli.new
  BY SetsOfChangesets DEF IInv, Shape, Stages, ClientFields, AbortOld, Goes, At, Reports
<1>2. PICK c \in DOMAIN chs :
        /\ c \in DOMAIN chs /\ c = cli.old /\ SetState(c, "aborted")
        /\ cli.pc = "abortOld"
        /\ revs' = revs /\ mishaps' = mishaps
  BY <1>1, SetsOfChangesets DEF IInv, Shape, Stages, AbortOld, SetState, Step, Attached
<1>3. /\ ChangesetsShape' /\ DOMAIN chs' = DOMAIN chs
      /\ Attached' = Attached \ {c}
      /\ Open' = Open \ {c} /\ Others' = Others \ {c}
  BY <1>1, <1>2, SetsAfterSetState DEF States, OpenStates
<1>4. Shape'
  BY <1>1, <1>2, <1>3, SetsOfChangesets
    DEF IInv, Shape, OneAttached, Pc, CallStages, None
<1>5. OneAttached'
  BY <1>1, <1>2, <1>3, SetsOfChangesets
    DEF IInv, Shape, OneAttached, Stages, OldIsCurrent, OldIsKept, NewIsKept, Waits, Current, CallStages, None
<1>6. Reports'
  BY <1>1, <1>2, <1>3, SetsOfChangesets
    DEF IInv, Shape, Stages, Reports, Told1, OneAttached, OldIsCurrent, OldIsKept, Waits, CallStages, Current, Nothing, None
<1>7. Stages'
  BY <1>1, <1>2, <1>3, SetsOfChangesets
    DEF IInv, Shape, Stages, OldIsCurrent, OldIsKept, NewIsKept, Waits, Current, CallStages, None
<1>8. Undisturbed'
  BY <1>1, <1>2, <1>3, SetsOfChangesets
    DEF IInv, Shape, Stages, OldIsCurrent, OldIsKept, NewIsKept, Waits, Undisturbed, InUse, Current, CallStages, None
<1>. QED
  BY <1>4, <1>5, <1>6, <1>7, <1>8 DEF IInv

LEMMA UnlockKeepsIInv == ASSUME IInv, Unlock PROVE IInv'
<1>1. /\ DOMAIN cli' = ClientFields
      /\ cli'.pc = "prompt" /\ cli'.report = "rebased" /\ cli'.current = cli.current
  BY SetsOfChangesets DEF IInv, Shape, Stages, ClientFields, Unlock, Told
<1>2. /\ chs' = chs /\ cli.pc = "unlock"
      /\ revs' = revs /\ mishaps' = mishaps
  BY <1>1, SetsOfChangesets DEF IInv, Shape, Stages, Unlock, Step
<1>3. /\ ChangesetsShape' /\ DOMAIN chs' = DOMAIN chs
      /\ Attached' = Attached /\ Open' = Open /\ Others' = Others
  BY <1>1, <1>2, SetsOfChangesets DEF ChangesetsShape, IsChangeset, Attached, Open, Others, IInv, Shape
<1>4. Shape'
  BY <1>1, <1>2, <1>3, SetsOfChangesets
    DEF IInv, Shape, OneAttached, Pc, CallStages, None
<1>5. OneAttached'
  BY <1>1, <1>2, <1>3, SetsOfChangesets
    DEF IInv, Shape, OneAttached, Stages, OldIsCurrent, OldIsKept, NewIsKept, Waits, Current, CallStages, None
<1>6. Reports'
  BY <1>1, <1>2, <1>3, SetsOfChangesets
    DEF IInv, Shape, Stages, Reports, Told1, OneAttached, OldIsCurrent, OldIsKept, Waits, CallStages, Current, Nothing, None
<1>7. Stages'
  BY <1>1, <1>2, <1>3, SetsOfChangesets
    DEF IInv, Shape, Stages, OldIsCurrent, OldIsKept, NewIsKept, Waits, Current, CallStages, None
<1>8. Undisturbed'
  BY <1>1, <1>2, <1>3, SetsOfChangesets
    DEF IInv, Shape, Stages, OldIsCurrent, OldIsKept, NewIsKept, Waits, Undisturbed, InUse, Current, CallStages, None
<1>. QED
  BY <1>4, <1>5, <1>6, <1>7, <1>8 DEF IInv

LEMMA UnlockRefusedKeepsIInv == ASSUME IInv, UnlockRefused PROVE IInv'
<1>1. /\ DOMAIN cli' = ClientFields
      /\ cli'.pc = "prompt" /\ cli'.report = "failed" /\ cli'.current = cli.current
  BY SetsOfChangesets DEF IInv, Shape, Stages, ClientFields, UnlockRefused, Told
<1>2. /\ chs' = chs /\ cli.pc = "unlock"
      /\ revs' = revs /\ mishaps' \in Nat /\ mishaps' # 0 /\ (mishaps' <= 1 => mishaps = 0 /\ mishaps <= 1)
  BY <1>1, MishapCounts, SetsOfChangesets DEF IInv, Shape, Stages, UnlockRefused, Mishap
<1>3. /\ ChangesetsShape' /\ DOMAIN chs' = DOMAIN chs
      /\ Attached' = Attached /\ Open' = Open /\ Others' = Others
  BY <1>1, <1>2, SetsOfChangesets DEF ChangesetsShape, IsChangeset, Attached, Open, Others, IInv, Shape
<1>4. Shape'
  BY <1>1, <1>2, <1>3, SetsOfChangesets
    DEF IInv, Shape, OneAttached, Pc, CallStages, None
<1>5. OneAttached'
  BY <1>1, <1>2, <1>3, SetsOfChangesets
    DEF IInv, Shape, OneAttached, Stages, OldIsCurrent, OldIsKept, NewIsKept, Waits, Current, CallStages, None
<1>6. Reports'
  BY <1>1, <1>2, <1>3, SetsOfChangesets
    DEF IInv, Shape, Stages, Reports, Told1, OneAttached, OldIsCurrent, OldIsKept, Waits, CallStages, Current, Nothing, None
<1>7. Stages'
  BY <1>1, <1>2, <1>3, SetsOfChangesets
    DEF IInv, Shape, Stages, OldIsCurrent, OldIsKept, NewIsKept, Waits, Current, CallStages, None
<1>8. Undisturbed'
  BY <1>1, <1>2, <1>3, SetsOfChangesets
    DEF IInv, Shape, Stages, OldIsCurrent, OldIsKept, NewIsKept, Waits, Undisturbed, InUse, Current, CallStages, None
<1>. QED
  BY <1>4, <1>5, <1>6, <1>7, <1>8 DEF IInv

LEMMA BackToOldSucceedsKeepsIInv == ASSUME IInv, BackToOld, chs[cli.old].state = "free" PROVE IInv'
<1>1. /\ DOMAIN cli' = ClientFields
      /\ cli'.pc = "prompt" /\ cli'.report = "failed" /\ cli'.current = cli.current
  <2>1. cli' = Told(cli, "failed")
    BY DEF BackToOld, Taking
  <2>. QED
    BY <2>1 DEF IInv, Shape, ClientFields, Told
<1>2. PICK c \in DOMAIN chs :
        /\ c \in DOMAIN chs /\ c = cli.old /\ chs[c].state = "free" /\ SetState(c, "cli")
        /\ cli.pc = "backToOld"
        /\ revs' = revs /\ mishaps' = mishaps
  BY <1>1, SetsOfChangesets DEF IInv, Shape, Stages, BackToOld, Taking, SetState, Step, OldIsKept, NewIsKept, Waits
<1>3. /\ ChangesetsShape' /\ DOMAIN chs' = DOMAIN chs
      /\ Attached' = Attached \cup {c}
      /\ Open' = Open \cup {c} /\ Others' = Others \ {c}
  BY <1>1, <1>2, SetsAfterSetState DEF States, OpenStates
<1>4. Shape'
  BY <1>1, <1>2, <1>3, SetsOfChangesets
    DEF IInv, Shape, OneAttached, Pc, CallStages, None
<1>5. OneAttached'
  BY <1>1, <1>2, <1>3, SetsOfChangesets
    DEF IInv, Shape, OneAttached, Stages, OldIsCurrent, OldIsKept, NewIsKept, Waits, Current, CallStages, None
<1>6. Reports'
  BY <1>1, <1>2, <1>3, SetsOfChangesets
    DEF IInv, Shape, Stages, Reports, Told1, OneAttached, OldIsCurrent, OldIsKept, Waits, CallStages, Current, Nothing, None
<1>7. Stages'
  BY <1>1, <1>2, <1>3, SetsOfChangesets
    DEF IInv, Shape, Stages, OldIsCurrent, OldIsKept, NewIsKept, Waits, Current, CallStages, None
<1>8. Undisturbed'
  BY <1>1, <1>2, <1>3, SetsOfChangesets
    DEF IInv, Shape, Stages, OldIsCurrent, OldIsKept, NewIsKept, Waits, Undisturbed, InUse, Current, CallStages, None
<1>. QED
  BY <1>4, <1>5, <1>6, <1>7, <1>8 DEF IInv

LEMMA BackToOldFailsKeepsIInv == ASSUME IInv, BackToOld, chs[cli.old].state # "free" PROVE IInv'
<1>1. /\ DOMAIN cli' = ClientFields
      /\ cli'.pc = "prompt" /\ cli'.report = "error" /\ cli'.current = cli.current
  BY SetsOfChangesets DEF IInv, Shape, Stages, ClientFields, BackToOld, Taking, Told
<1>2. /\ chs' = chs /\ cli.pc = "backToOld"
      /\ mishaps # 0
      /\ revs' = revs /\ mishaps' = mishaps
  BY <1>1, SetsOfChangesets DEF IInv, Shape, Stages, BackToOld, Taking, Step, OldIsKept, NewIsKept, Waits, Undisturbed
<1>3. /\ ChangesetsShape' /\ DOMAIN chs' = DOMAIN chs
      /\ Attached' = Attached /\ Open' = Open /\ Others' = Others
  BY <1>1, <1>2, SetsOfChangesets DEF ChangesetsShape, IsChangeset, Attached, Open, Others, IInv, Shape
<1>4. Shape'
  BY <1>1, <1>2, <1>3, SetsOfChangesets
    DEF IInv, Shape, OneAttached, Pc, CallStages, None
<1>5. OneAttached'
  BY <1>1, <1>2, <1>3, SetsOfChangesets
    DEF IInv, Shape, OneAttached, Stages, OldIsCurrent, OldIsKept, NewIsKept, Waits, Current, CallStages, None
<1>6. Reports'
  BY <1>1, <1>2, <1>3, SetsOfChangesets
    DEF IInv, Shape, Stages, Reports, Told1, OneAttached, OldIsCurrent, OldIsKept, Waits, CallStages, Current, Nothing, None
<1>7. Stages'
  BY <1>1, <1>2, <1>3, SetsOfChangesets
    DEF IInv, Shape, Stages, OldIsCurrent, OldIsKept, NewIsKept, Waits, Current, CallStages, None
<1>8. Undisturbed'
  BY <1>1, <1>2, <1>3, SetsOfChangesets
    DEF IInv, Shape, Stages, OldIsCurrent, OldIsKept, NewIsKept, Waits, Undisturbed, InUse, Current, CallStages, None
<1>. QED
  BY <1>4, <1>5, <1>6, <1>7, <1>8 DEF IInv

LEMMA BackToOldKeepsIInv == ASSUME IInv, BackToOld PROVE IInv'
BY BackToOldSucceedsKeepsIInv, BackToOldFailsKeepsIInv

LEMMA TakeOldSucceedsKeepsIInv == ASSUME IInv, TakeOld, chs[cli.old].state = "free" PROVE IInv'
<1>1. /\ DOMAIN cli' = ClientFields
      /\ cli'.pc = "abortOld" /\ cli'.report = Nothing /\ cli'.current = cli.current /\ cli'.old = cli.old /\ cli'.new = cli.new
  BY SetsOfChangesets DEF IInv, Shape, Stages, ClientFields, TakeOld, Taking, Told, At, Reports
<1>2. PICK c \in DOMAIN chs :
        /\ c \in DOMAIN chs /\ c = cli.old /\ chs[c].state = "free" /\ SetState(c, "cli")
        /\ cli.pc = "takeOld"
        /\ revs' = revs /\ mishaps' = mishaps
  BY <1>1, SetsOfChangesets DEF IInv, Shape, Stages, TakeOld, Taking, SetState, Step, OldIsKept, NewIsKept, Waits
<1>3. /\ ChangesetsShape' /\ DOMAIN chs' = DOMAIN chs
      /\ Attached' = Attached \cup {c}
      /\ Open' = Open \cup {c} /\ Others' = Others \ {c}
  BY <1>1, <1>2, SetsAfterSetState DEF States, OpenStates
<1>4. Shape'
  BY <1>1, <1>2, <1>3, SetsOfChangesets
    DEF IInv, Shape, OneAttached, Pc, CallStages, None
<1>5. OneAttached'
  BY <1>1, <1>2, <1>3, SetsOfChangesets
    DEF IInv, Shape, OneAttached, Stages, OldIsCurrent, OldIsKept, NewIsKept, Waits, Current, CallStages, None
<1>6. Reports'
  BY <1>1, <1>2, <1>3, SetsOfChangesets
    DEF IInv, Shape, Stages, Reports, Told1, OneAttached, OldIsCurrent, OldIsKept, Waits, CallStages, Current, Nothing, None
<1>7. Stages'
  BY <1>1, <1>2, <1>3, SetsOfChangesets
    DEF IInv, Shape, Stages, OldIsCurrent, OldIsKept, NewIsKept, Waits, Current, CallStages, None
<1>8. Undisturbed'
  BY <1>1, <1>2, <1>3, SetsOfChangesets
    DEF IInv, Shape, Stages, OldIsCurrent, OldIsKept, NewIsKept, Waits, Undisturbed, InUse, Current, CallStages, None
<1>. QED
  BY <1>4, <1>5, <1>6, <1>7, <1>8 DEF IInv

LEMMA TakeOldFailsKeepsIInv == ASSUME IInv, TakeOld, chs[cli.old].state # "free" PROVE IInv'
<1>1. /\ DOMAIN cli' = ClientFields
      /\ cli'.pc = "prompt" /\ cli'.report = "error" /\ cli'.current = cli.current
  <2>1. cli' = Told(cli, "error")
    BY DEF TakeOld, Taking
  <2>. QED
    BY <2>1 DEF IInv, Shape, ClientFields, Told
<1>2. /\ chs' = chs /\ cli.pc = "takeOld"
      /\ mishaps # 0
      /\ revs' = revs /\ mishaps' = mishaps
  BY <1>1, SetsOfChangesets DEF IInv, Shape, Stages, TakeOld, Taking, Step, OldIsKept, NewIsKept, Waits, Undisturbed
<1>3. /\ ChangesetsShape' /\ DOMAIN chs' = DOMAIN chs
      /\ Attached' = Attached /\ Open' = Open /\ Others' = Others
  BY <1>1, <1>2, SetsOfChangesets DEF ChangesetsShape, IsChangeset, Attached, Open, Others, IInv, Shape
<1>4. Shape'
  BY <1>1, <1>2, <1>3, SetsOfChangesets
    DEF IInv, Shape, OneAttached, Pc, CallStages, None
<1>5. OneAttached'
  BY <1>1, <1>2, <1>3, SetsOfChangesets
    DEF IInv, Shape, OneAttached, Stages, OldIsCurrent, OldIsKept, NewIsKept, Waits, Current, CallStages, None
<1>6. Reports'
  BY <1>1, <1>2, <1>3, SetsOfChangesets
    DEF IInv, Shape, Stages, Reports, Told1, OneAttached, OldIsCurrent, OldIsKept, Waits, CallStages, Current, Nothing, None
<1>7. Stages'
  BY <1>1, <1>2, <1>3, SetsOfChangesets
    DEF IInv, Shape, Stages, OldIsCurrent, OldIsKept, NewIsKept, Waits, Current, CallStages, None
<1>8. Undisturbed'
  BY <1>1, <1>2, <1>3, SetsOfChangesets
    DEF IInv, Shape, Stages, OldIsCurrent, OldIsKept, NewIsKept, Waits, Undisturbed, InUse, Current, CallStages, None
<1>. QED
  BY <1>4, <1>5, <1>6, <1>7, <1>8 DEF IInv

LEMMA TakeOldKeepsIInv == ASSUME IInv, TakeOld PROVE IInv'
BY TakeOldSucceedsKeepsIInv, TakeOldFailsKeepsIInv

LEMMA TakeNewSucceedsKeepsIInv == ASSUME IInv, TakeNew, chs[cli.new].state = "free" PROVE IInv'
<1>1. /\ DOMAIN cli' = ClientFields
      /\ cli'.pc = "unlock" /\ cli'.report = Nothing /\ cli'.current = cli.new
  BY SetsOfChangesets DEF IInv, Shape, Stages, ClientFields, TakeNew, Taking, Told, At, Reports
<1>2. PICK c \in DOMAIN chs :
        /\ c \in DOMAIN chs /\ c = cli.new /\ chs[c].state = "free" /\ SetState(c, "cli")
        /\ cli.pc = "takeNew"
        /\ revs' = revs /\ mishaps' = mishaps
  BY <1>1, SetsOfChangesets DEF IInv, Shape, Stages, TakeNew, Taking, SetState, Step, OldIsKept, NewIsKept, Waits
<1>3. /\ ChangesetsShape' /\ DOMAIN chs' = DOMAIN chs
      /\ Attached' = Attached \cup {c}
      /\ Open' = Open \cup {c} /\ Others' = Others \ {c}
  BY <1>1, <1>2, SetsAfterSetState DEF States, OpenStates
<1>4. Shape'
  BY <1>1, <1>2, <1>3, SetsOfChangesets
    DEF IInv, Shape, OneAttached, Pc, CallStages, None
<1>5. OneAttached'
  BY <1>1, <1>2, <1>3, SetsOfChangesets
    DEF IInv, Shape, OneAttached, Stages, OldIsCurrent, OldIsKept, NewIsKept, Waits, Current, CallStages, None
<1>6. Reports'
  BY <1>1, <1>2, <1>3, SetsOfChangesets
    DEF IInv, Shape, Stages, Reports, Told1, OneAttached, OldIsCurrent, OldIsKept, Waits, CallStages, Current, Nothing, None
<1>7. Stages'
  BY <1>1, <1>2, <1>3, SetsOfChangesets
    DEF IInv, Shape, Stages, OldIsCurrent, OldIsKept, NewIsKept, Waits, Current, CallStages, None
<1>8. Undisturbed'
  BY <1>1, <1>2, <1>3, SetsOfChangesets
    DEF IInv, Shape, Stages, OldIsCurrent, OldIsKept, NewIsKept, Waits, Undisturbed, InUse, Current, CallStages, None
<1>. QED
  BY <1>4, <1>5, <1>6, <1>7, <1>8 DEF IInv

LEMMA TakeNewFailsKeepsIInv == ASSUME IInv, TakeNew, chs[cli.new].state # "free" PROVE IInv'
<1>1. /\ DOMAIN cli' = ClientFields
      /\ cli'.pc = "prompt" /\ cli'.report = "error" /\ cli'.current = cli.current
  <2>1. cli' = Told(cli, "error")
    BY DEF TakeNew, Taking
  <2>. QED
    BY <2>1 DEF IInv, Shape, ClientFields, Told
<1>2. /\ chs' = chs /\ cli.pc = "takeNew"
      /\ mishaps # 0
      /\ revs' = revs /\ mishaps' = mishaps
  BY <1>1, SetsOfChangesets DEF IInv, Shape, Stages, TakeNew, Taking, Step, OldIsKept, NewIsKept, Waits, Undisturbed
<1>3. /\ ChangesetsShape' /\ DOMAIN chs' = DOMAIN chs
      /\ Attached' = Attached /\ Open' = Open /\ Others' = Others
  BY <1>1, <1>2, SetsOfChangesets DEF ChangesetsShape, IsChangeset, Attached, Open, Others, IInv, Shape
<1>4. Shape'
  BY <1>1, <1>2, <1>3, SetsOfChangesets
    DEF IInv, Shape, OneAttached, Pc, CallStages, None
<1>5. OneAttached'
  BY <1>1, <1>2, <1>3, SetsOfChangesets
    DEF IInv, Shape, OneAttached, Stages, OldIsCurrent, OldIsKept, NewIsKept, Waits, Current, CallStages, None
<1>6. Reports'
  BY <1>1, <1>2, <1>3, SetsOfChangesets
    DEF IInv, Shape, Stages, Reports, Told1, OneAttached, OldIsCurrent, OldIsKept, Waits, CallStages, Current, Nothing, None
<1>7. Stages'
  BY <1>1, <1>2, <1>3, SetsOfChangesets
    DEF IInv, Shape, Stages, OldIsCurrent, OldIsKept, NewIsKept, Waits, Current, CallStages, None
<1>8. Undisturbed'
  BY <1>1, <1>2, <1>3, SetsOfChangesets
    DEF IInv, Shape, Stages, OldIsCurrent, OldIsKept, NewIsKept, Waits, Undisturbed, InUse, Current, CallStages, None
<1>. QED
  BY <1>4, <1>5, <1>6, <1>7, <1>8 DEF IInv

LEMMA TakeNewKeepsIInv == ASSUME IInv, TakeNew PROVE IInv'
BY TakeNewSucceedsKeepsIInv, TakeNewFailsKeepsIInv

LEMMA ChooseSucceedsKeepsIInv == ASSUME IInv, NEW c \in cli.listed, Choose(c), Attached = {}, chs[c].state = "free" PROVE IInv'
<1>1. /\ DOMAIN cli' = ClientFields
      /\ cli'.pc = "prompt" /\ cli'.report = Nothing /\ cli'.current = c
  BY SetsOfChangesets DEF IInv, Shape, Stages, ClientFields, Choose, Taking, Told
<1>2. /\ c \in DOMAIN chs /\ chs[c].state = "free" /\ SetState(c, "cli")
      /\ cli.pc = "choose" /\ Attached = {} /\ cli.current = None
      /\ revs' = revs /\ mishaps' = mishaps
  BY <1>1, SetsOfChangesets DEF IInv, Shape, Stages, Choose, Taking, SetState, Quiet
<1>3. /\ ChangesetsShape' /\ DOMAIN chs' = DOMAIN chs
      /\ Attached' = Attached \cup {c}
      /\ Open' = Open \cup {c} /\ Others' = Others \ {c}
  BY <1>1, <1>2, SetsAfterSetState DEF States, OpenStates
<1>4. Shape'
  BY <1>1, <1>2, <1>3, SetsOfChangesets
    DEF IInv, Shape, OneAttached, Pc, CallStages, None
<1>5. OneAttached'
  BY <1>1, <1>2, <1>3, SetsOfChangesets
    DEF IInv, Shape, OneAttached, Stages, OldIsCurrent, OldIsKept, NewIsKept, Waits, Current, CallStages, None
<1>6. Reports'
  BY <1>1, <1>2, <1>3, SetsOfChangesets
    DEF IInv, Shape, Stages, Reports, Told1, OneAttached, OldIsCurrent, OldIsKept, Waits, CallStages, Current, Nothing, None
<1>7. Stages'
  BY <1>1, <1>2, <1>3, SetsOfChangesets
    DEF IInv, Shape, Stages, OldIsCurrent, OldIsKept, NewIsKept, Waits, Current, CallStages, None
<1>8. Undisturbed'
  BY <1>1, <1>2, <1>3, SetsOfChangesets
    DEF IInv, Shape, Stages, OldIsCurrent, OldIsKept, NewIsKept, Waits, Undisturbed, InUse, Current, CallStages, None
<1>. QED
  BY <1>4, <1>5, <1>6, <1>7, <1>8 DEF IInv

LEMMA ChooseFailsKeepsIInv == ASSUME IInv, NEW c \in cli.listed, Choose(c), Attached # {} \/ chs[c].state # "free" PROVE IInv'
<1>1. /\ DOMAIN cli' = ClientFields
      /\ cli'.pc = "prompt" /\ cli'.report = "error" /\ cli'.current = cli.current
  BY SetsOfChangesets DEF IInv, Shape, Stages, ClientFields, Choose, Taking, Told
<1>2. /\ chs' = chs /\ cli.pc = "choose"
      /\ revs' = revs /\ mishaps' = mishaps
  BY <1>1, SetsOfChangesets DEF IInv, Shape, Stages, Choose, Taking, Quiet
<1>3. /\ ChangesetsShape' /\ DOMAIN chs' = DOMAIN chs
      /\ Attached' = Attached /\ Open' = Open /\ Others' = Others
  BY <1>1, <1>2, SetsOfChangesets DEF ChangesetsShape, IsChangeset, Attached, Open, Others, IInv, Shape
<1>4. Shape'
  BY <1>1, <1>2, <1>3, SetsOfChangesets
    DEF IInv, Shape, OneAttached, Pc, CallStages, None
<1>5. OneAttached'
  BY <1>1, <1>2, <1>3, SetsOfChangesets
    DEF IInv, Shape, OneAttached, Stages, OldIsCurrent, OldIsKept, NewIsKept, Waits, Current, CallStages, None
<1>6. Reports'
  BY <1>1, <1>2, <1>3, SetsOfChangesets
    DEF IInv, Shape, Stages, Reports, Told1, OneAttached, OldIsCurrent, OldIsKept, Waits, CallStages, Current, Nothing, None
<1>7. Stages'
  BY <1>1, <1>2, <1>3, SetsOfChangesets
    DEF IInv, Shape, Stages, OldIsCurrent, OldIsKept, NewIsKept, Waits, Current, CallStages, None
<1>8. Undisturbed'
  BY <1>1, <1>2, <1>3, SetsOfChangesets
    DEF IInv, Shape, Stages, OldIsCurrent, OldIsKept, NewIsKept, Waits, Undisturbed, InUse, Current, CallStages, None
<1>. QED
  BY <1>4, <1>5, <1>6, <1>7, <1>8 DEF IInv

LEMMA ChooseKeepsIInv == ASSUME IInv, NEW c \in cli.listed, Choose(c) PROVE IInv'
BY ChooseSucceedsKeepsIInv, ChooseFailsKeepsIInv

LEMMA RebaseDiesKeepsIInv == ASSUME IInv, Rebase, ChangesetParent(cli.current) = None PROVE IInv'
<1>1. /\ DOMAIN cli' = ClientFields
      /\ cli'.pc = "prompt" /\ cli'.report = Nothing /\ cli'.current = None
  BY SetsOfChangesets DEF IInv, Shape, Stages, ClientFields, Rebase, Died, Idle
<1>2. /\ Died /\ cli.current \notin Open
      /\ cli.pc = "prompt"
      /\ revs' = revs /\ mishaps' = mishaps
  BY <1>1, SetsOfChangesets DEF IInv, Shape, Stages, ChangesetsShape, IsChangeset, Rebase, ChangesetParent, Step, None
<1>3. /\ ChangesetsShape' /\ DOMAIN chs' = DOMAIN chs
      /\ Attached' = {} /\ Open' = Open /\ Others' = Others
  BY <1>1, <1>2, SetsAfterDeath
<1>4. Shape'
  BY <1>1, <1>2, <1>3, SetsOfChangesets
    DEF IInv, Shape, OneAttached, Pc, CallStages, None
<1>5. OneAttached'
  BY <1>1, <1>2, <1>3, SetsOfChangesets
    DEF IInv, Shape, OneAttached, Stages, OldIsCurrent, OldIsKept, NewIsKept, Waits, Current, CallStages, None
<1>6. Reports'
  BY <1>1, <1>2, <1>3, SetsOfChangesets
    DEF IInv, Shape, Stages, Reports, Told1, OneAttached, OldIsCurrent, OldIsKept, Waits, CallStages, Current, Nothing, None
<1>7. Stages'
  BY <1>1, <1>2, <1>3, SetsOfChangesets
    DEF IInv, Shape, Stages, OldIsCurrent, OldIsKept, NewIsKept, Waits, Current, CallStages, None
<1>8. Undisturbed'
  BY <1>1, <1>2, <1>3, SetsOfChangesets
    DEF IInv, Shape, Stages, OldIsCurrent, OldIsKept, NewIsKept, Waits, Undisturbed, InUse, Current, CallStages, None
<1>. QED
  BY <1>4, <1>5, <1>6, <1>7, <1>8 DEF IInv

LEMMA RebaseStartsKeepsIInv == ASSUME IInv, Rebase, ChangesetParent(cli.current) # None PROVE IInv'
<1>0. /\ cli.current \in Open
      /\ \/ cli' = Told(cli, "upToDate")
         \/ cli' = Told(cli, "notInteractive")
         \/ cli' = [At("lockOld") EXCEPT !.report = Nothing]
  BY DEF Rebase, ChangesetParent, None
<1>1. /\ DOMAIN cli' = ClientFields
      /\ cli'.pc \in {"prompt", "lockOld"} /\ cli'.report \notin {"rebased", "failed"} /\ cli'.current = cli.current
      /\ cli'.pc = "lockOld" => cli'.report = Nothing /\ cli.current \in Open
  BY <1>0, SetsOfChangesets DEF IInv, Shape, Stages, ClientFields, Told, At, Nothing
<1>2. /\ chs' = chs /\ cli.pc = "prompt"
      /\ revs' = revs /\ mishaps' = mishaps
  BY <1>0, <1>1, SetsOfChangesets DEF IInv, Shape, Stages, Rebase, Step
<1>3. /\ ChangesetsShape' /\ DOMAIN chs' = DOMAIN chs
      /\ Attached' = Attached /\ Open' = Open /\ Others' = Others
  BY <1>1, <1>2, SetsOfChangesets DEF ChangesetsShape, IsChangeset, Attached, Open, Others, IInv, Shape
<1>4. Shape'
  BY <1>1, <1>2, <1>3, SetsOfChangesets
    DEF IInv, Shape, OneAttached, Pc, CallStages, None
<1>5. OneAttached'
  BY <1>1, <1>2, <1>3, SetsOfChangesets
    DEF IInv, Shape, OneAttached, Stages, OldIsCurrent, OldIsKept, NewIsKept, Waits, Current, CallStages, None
<1>6. Reports'
  BY <1>1, <1>2, <1>3, SetsOfChangesets
    DEF IInv, Shape, Stages, Reports, Told1, OneAttached, OldIsCurrent, OldIsKept, Waits, CallStages, Current, Nothing, None
<1>7. Stages'
  BY <1>1, <1>2, <1>3, SetsOfChangesets
    DEF IInv, Shape, Stages, OldIsCurrent, OldIsKept, NewIsKept, Waits, Current, CallStages, None
<1>8. Undisturbed'
  BY <1>1, <1>2, <1>3, SetsOfChangesets
    DEF IInv, Shape, Stages, OldIsCurrent, OldIsKept, NewIsKept, Waits, Undisturbed, InUse, Current, CallStages, None
<1>. QED
  BY <1>4, <1>5, <1>6, <1>7, <1>8 DEF IInv

LEMMA RebaseKeepsIInv == ASSUME IInv, Rebase PROVE IInv'
BY RebaseDiesKeepsIInv, RebaseStartsKeepsIInv

LEMMA BackupKeepsIInv == ASSUME IInv, Backup PROVE IInv'
<1>1. /\ DOMAIN cli' = ClientFields
      /\ cli'.pc = "prompt" /\ cli'.report = Nothing /\ cli'.current = cli.current
  BY SetsOfChangesets DEF IInv, Shape, Stages, ClientFields, Backup, Told
<1>2. /\ chs' = chs /\ cli.pc = "prompt"
      /\ revs' = revs /\ mishaps' = mishaps
  BY <1>1, SetsOfChangesets DEF IInv, Shape, Stages, Backup
<1>3. /\ ChangesetsShape' /\ DOMAIN chs' = DOMAIN chs
      /\ Attached' = Attached /\ Open' = Open /\ Others' = Others
  BY <1>1, <1>2, SetsOfChangesets DEF ChangesetsShape, IsChangeset, Attached, Open, Others, IInv, Shape
<1>4. Shape'
  BY <1>1, <1>2, <1>3, SetsOfChangesets
    DEF IInv, Shape, OneAttached, Pc, CallStages, None
<1>5. OneAttached'
  BY <1>1, <1>2, <1>3, SetsOfChangesets
    DEF IInv, Shape, OneAttached, Stages, OldIsCurrent, OldIsKept, NewIsKept, Waits, Current, CallStages, None
<1>6. Reports'
  BY <1>1, <1>2, <1>3, SetsOfChangesets
    DEF IInv, Shape, Stages, Reports, Told1, OneAttached, OldIsCurrent, OldIsKept, Waits, CallStages, Current, Nothing, None
<1>7. Stages'
  BY <1>1, <1>2, <1>3, SetsOfChangesets
    DEF IInv, Shape, Stages, OldIsCurrent, OldIsKept, NewIsKept, Waits, Current, CallStages, None
<1>8. Undisturbed'
  BY <1>1, <1>2, <1>3, SetsOfChangesets
    DEF IInv, Shape, Stages, OldIsCurrent, OldIsKept, NewIsKept, Waits, Undisturbed, InUse, Current, CallStages, None
<1>. QED
  BY <1>4, <1>5, <1>6, <1>7, <1>8 DEF IInv

LEMMA RestoreKeepsIInv == ASSUME IInv, Restore PROVE IInv'
<1>1. /\ DOMAIN cli' = ClientFields
      /\ cli'.pc \in {"prompt", "restoreCreate"} /\ cli'.current = cli.current
      /\ cli'.pc = "prompt" => cli'.report = "failed"
      /\ cli'.pc = "restoreCreate" => cli'.report = Nothing /\ Open = {}
  BY SetsOfChangesets DEF IInv, Shape, Stages, ClientFields, Restore, Told, At
<1>2. /\ chs' = chs /\ cli.pc = "prompt" /\ cli.current = None
      /\ revs' = revs /\ mishaps' = mishaps
  BY <1>1, SetsOfChangesets DEF IInv, Shape, Stages, Restore, Step
<1>3. /\ ChangesetsShape' /\ DOMAIN chs' = DOMAIN chs
      /\ Attached' = Attached /\ Open' = Open /\ Others' = Others
  BY <1>1, <1>2, SetsOfChangesets DEF ChangesetsShape, IsChangeset, Attached, Open, Others, IInv, Shape
<1>4. Shape'
  BY <1>1, <1>2, <1>3, SetsOfChangesets
    DEF IInv, Shape, OneAttached, Pc, CallStages, None
<1>5. OneAttached'
  BY <1>1, <1>2, <1>3, SetsOfChangesets
    DEF IInv, Shape, OneAttached, Stages, OldIsCurrent, OldIsKept, NewIsKept, Waits, Current, CallStages, None
<1>6. Reports'
  BY <1>1, <1>2, <1>3, SetsOfChangesets
    DEF IInv, Shape, Stages, Reports, Told1, OneAttached, OldIsCurrent, OldIsKept, Waits, CallStages, Current, Nothing, None
<1>7. Stages'
  BY <1>1, <1>2, <1>3, SetsOfChangesets
    DEF IInv, Shape, Stages, OldIsCurrent, OldIsKept, NewIsKept, Waits, Current, CallStages, None
<1>8. Undisturbed'
  BY <1>1, <1>2, <1>3, SetsOfChangesets
    DEF IInv, Shape, Stages, OldIsCurrent, OldIsKept, NewIsKept, Waits, Undisturbed, InUse, Current, CallStages, None
<1>. QED
  BY <1>4, <1>5, <1>6, <1>7, <1>8 DEF IInv

LEMMA RestoreCreateKeepsIInv == ASSUME IInv, RestoreCreate PROVE IInv'
<1>1. /\ DOMAIN cli' = ClientFields
      /\ cli'.pc = "restore" /\ cli'.report = Nothing /\ cli'.current = Len(chs')
  BY SetsOfChangesets DEF IInv, Shape, Stages, ClientFields, RestoreCreate, At, Reports
<1>2. /\ chs' = Append(chs, NewChangeset(HeadRevision))
      /\ cli.pc = "restoreCreate"
      /\ revs' = revs /\ mishaps' = mishaps
  BY <1>1, SetsOfChangesets DEF IInv, Shape, Stages, RestoreCreate, Step
<1>3. /\ ChangesetsShape' /\ DOMAIN chs' = DOMAIN chs \cup {Len(chs')}
      /\ Len(chs') # None /\ Len(chs') \notin DOMAIN chs
      /\ Attached' = Attached \cup {Len(chs')} /\ Open' = Open \cup {Len(chs')}
      /\ Others' = Others
  BY <1>1, <1>2, SetsAfterAppend
<1>4. Shape'
  BY <1>1, <1>2, <1>3, SetsOfChangesets
    DEF IInv, Shape, OneAttached, Pc, CallStages, None
<1>5. OneAttached'
  BY <1>1, <1>2, <1>3, SetsOfChangesets
    DEF IInv, Shape, OneAttached, Stages, OldIsCurrent, OldIsKept, NewIsKept, Waits, Current, CallStages, None
<1>6. Reports'
  BY <1>1, <1>2, <1>3, SetsOfChangesets
    DEF IInv, Shape, Stages, Reports, Told1, OneAttached, OldIsCurrent, OldIsKept, Waits, CallStages, Current, Nothing, None
<1>7. Stages'
  BY <1>1, <1>2, <1>3, SetsOfChangesets
    DEF IInv, Shape, Stages, OldIsCurrent, OldIsKept, NewIsKept, Waits, Current, CallStages, None
<1>8. Undisturbed'
  BY <1>1, <1>2, <1>3, SetsOfChangesets
    DEF IInv, Shape, Stages, OldIsCurrent, OldIsKept, NewIsKept, Waits, Undisturbed, InUse, Current, CallStages, None
<1>. QED
  BY <1>4, <1>5, <1>6, <1>7, <1>8 DEF IInv

LEMMA RestoreLockRefusedKeepsIInv == ASSUME IInv, RestoreLockRefused PROVE IInv'
<1>1. /\ DOMAIN cli' = ClientFields
      /\ cli'.pc = "prompt" /\ cli'.report = "failed" /\ cli'.current = Len(chs')
  BY SetsOfChangesets DEF IInv, Shape, Stages, ClientFields, RestoreLockRefused, Ended, Told
<1>2. /\ chs' = Append(chs, NewChangeset(HeadRevision))
      /\ cli.pc = "restoreCreate"
      /\ revs' = revs /\ mishaps' \in Nat /\ mishaps' # 0 /\ (mishaps' <= 1 => mishaps = 0 /\ mishaps <= 1)
  BY <1>1, MishapCounts, SetsOfChangesets DEF IInv, Shape, Stages, RestoreLockRefused, Mishap
<1>3. /\ ChangesetsShape' /\ DOMAIN chs' = DOMAIN chs \cup {Len(chs')}
      /\ Len(chs') # None /\ Len(chs') \notin DOMAIN chs
      /\ Attached' = Attached \cup {Len(chs')} /\ Open' = Open \cup {Len(chs')}
      /\ Others' = Others
  BY <1>1, <1>2, SetsAfterAppend
<1>4. Shape'
  BY <1>1, <1>2, <1>3, SetsOfChangesets
    DEF IInv, Shape, OneAttached, Pc, CallStages, None
<1>5. OneAttached'
  BY <1>1, <1>2, <1>3, SetsOfChangesets
    DEF IInv, Shape, OneAttached, Stages, OldIsCurrent, OldIsKept, NewIsKept, Waits, Current, CallStages, None
<1>6. Reports'
  BY <1>1, <1>2, <1>3, SetsOfChangesets
    DEF IInv, Shape, Stages, Reports, Told1, OneAttached, OldIsCurrent, OldIsKept, Waits, CallStages, Current, Nothing, None
<1>7. Stages'
  BY <1>1, <1>2, <1>3, SetsOfChangesets
    DEF IInv, Shape, Stages, OldIsCurrent, OldIsKept, NewIsKept, Waits, Current, CallStages, None
<1>8. Undisturbed'
  BY <1>1, <1>2, <1>3, SetsOfChangesets
    DEF IInv, Shape, Stages, OldIsCurrent, OldIsKept, NewIsKept, Waits, Undisturbed, InUse, Current, CallStages, None
<1>. QED
  BY <1>4, <1>5, <1>6, <1>7, <1>8 DEF IInv

LEMMA OthersCommitKeepsIInv == ASSUME IInv, NEW script \in TheirScripts, OthersCommit(script) PROVE IInv'
<1>0. IsSequence(revs') /\ Len(revs') # 0
  <2>1. PICK d : revs' = Append(revs, d)
    BY DEF OthersCommit
  <2>2. IsSequence(revs) /\ Len(revs) \in Nat
    BY SequenceShape DEF IInv, Shape
  <2>3. IsSequence(Append(revs, d)) /\ Len(Append(revs, d)) = Len(revs) + 1
    BY <2>2, AppendedSequence
  <2>4. Len(revs') # 0
    BY <2>1, <2>2, <2>3
  <2>. QED
    BY <2>1, <2>3, <2>4
<1>1. /\ DOMAIN cli' = ClientFields
      /\ cli'.pc = cli.pc /\ cli'.current = cli.current /\ cli'.old = cli.old /\ cli'.new = cli.new /\ cli'.listed = cli.listed
      /\ cli'.report = (IF cli.pc = "prompt" THEN Nothing ELSE cli.report)
  BY <1>0, SetsOfChangesets DEF IInv, Shape, Stages, ClientFields, OthersCommit
<1>2. /\ chs' = chs
      /\ IsSequence(revs') /\ Len(revs') # 0 /\ mishaps' = mishaps
  BY <1>0, <1>1, SetsOfChangesets DEF IInv, Shape, Stages, OthersCommit, Quiet
<1>3. /\ ChangesetsShape' /\ DOMAIN chs' = DOMAIN chs
      /\ Attached' = Attached /\ Open' = Open /\ Others' = Others
  BY <1>1, <1>2, SetsOfChangesets DEF ChangesetsShape, IsChangeset, Attached, Open, Others, IInv, Shape
<1>4. Shape'
  BY <1>1, <1>2, <1>3, SetsOfChangesets
    DEF IInv, Shape, OneAttached, Pc, CallStages, None
<1>5. OneAttached'
  BY <1>1, <1>2, <1>3, SetsOfChangesets
    DEF IInv, Shape, OneAttached, Stages, OldIsCurrent, OldIsKept, NewIsKept, Waits, Current, CallStages, None
<1>6. Reports'
  BY <1>1, <1>2, <1>3, SetsOfChangesets
    DEF IInv, Shape, Stages, Reports, Told1, OneAttached, OldIsCurrent, OldIsKept, Waits, CallStages, Current, Nothing, None
<1>7. Stages'
  BY <1>1, <1>2, <1>3, SetsOfChangesets
    DEF IInv, Shape, Stages, OldIsCurrent, OldIsKept, NewIsKept, Waits, Current, CallStages, None
<1>8. Undisturbed'
  BY <1>1, <1>2, <1>3, SetsOfChangesets
    DEF IInv, Shape, Stages, OldIsCurrent, OldIsKept, NewIsKept, Waits, Undisturbed, InUse, Current, CallStages, None
<1>. QED
  BY <1>4, <1>5, <1>6, <1>7, <1>8 DEF IInv

LEMMA RestoreLineKeepsIInv == ASSUME IInv, RestoreLine PROVE IInv'
<1>1. /\ DOMAIN cli' = ClientFields
      /\ cli'.pc \in {"prompt", "restore"} /\ cli'.current = cli.current
      /\ cli'.report = (IF cli'.pc = "prompt" THEN "failed" ELSE Nothing)
  <2>1. /\ DOMAIN cli = ClientFields /\ cli.pc = "restore" /\ cli.report = Nothing
    BY DEF IInv, Shape, Reports, RestoreLine
  <2>2. PICK next :
           /\ \E mods, ctx : next = [cli EXCEPT !.back[1].mods = mods, !.ctx = ctx]
           /\ \/ cli' = next
              \/ cli' = [next EXCEPT !.bad = TRUE, !.ctx = <<>>]
              \/ cli' = Ended(cli, "failed")
    BY DEF RestoreLine
  <2>3. /\ DOMAIN next = ClientFields /\ next.pc = "restore"
        /\ next.current = cli.current /\ next.report = Nothing
    BY <2>1, <2>2 DEF ClientFields
  <2>4. CASE cli' = next \/ cli' = [next EXCEPT !.bad = TRUE, !.ctx = <<>>]
    BY <2>3, <2>4 DEF ClientFields
  <2>5. CASE cli' = Ended(cli, "failed")
    BY <2>1, <2>5 DEF ClientFields, Ended, Told
  <2>. QED
    BY <2>2, <2>4, <2>5
<1>2. /\ \E c \in DOMAIN chs : \E p : chs' = Keeping(c, p)
      /\ cli.pc = "restore"
      /\ revs' = revs /\ mishaps' = mishaps
  BY <1>1, SetsOfChangesets DEF IInv, Shape, Stages, RestoreLine, Step
<1>3. /\ ChangesetsShape' /\ DOMAIN chs' = DOMAIN chs
      /\ Attached' = Attached /\ Open' = Open /\ Others' = Others
  BY <1>1, <1>2, SetsAfterKeeping
<1>4. Shape'
  BY <1>1, <1>2, <1>3, SetsOfChangesets
    DEF IInv, Shape, OneAttached, Pc, CallStages, None
<1>5. OneAttached'
  BY <1>1, <1>2, <1>3, SetsOfChangesets
    DEF IInv, Shape, OneAttached, Stages, OldIsCurrent, OldIsKept, NewIsKept, Waits, Current, CallStages, None
<1>6. Reports'
  BY <1>1, <1>2, <1>3, SetsOfChangesets
    DEF IInv, Shape, Stages, Reports, Told1, OneAttached, OldIsCurrent, OldIsKept, Waits, CallStages, Current, Nothing, None
<1>7. Stages'
  BY <1>1, <1>2, <1>3, SetsOfChangesets
    DEF IInv, Shape, Stages, OldIsCurrent, OldIsKept, NewIsKept, Waits, Current, CallStages, None
<1>8. Undisturbed'
  BY <1>1, <1>2, <1>3, SetsOfChangesets
    DEF IInv, Shape, Stages, OldIsCurrent, OldIsKept, NewIsKept, Waits, Undisturbed, InUse, Current, CallStages, None
<1>. QED
  BY <1>4, <1>5, <1>6, <1>7, <1>8 DEF IInv

LEMMA RestoreCommitFailsKeepsIInv == ASSUME IInv, RestoreCommit, CommitRefused PROVE IInv'
<1>0. cli' = Told(cli, "error") /\ chs' = chs /\ revs' = revs
  BY DEF RestoreCommit, CommitRefused
<1>1. /\ DOMAIN cli' = ClientFields
      /\ cli'.pc = "prompt" /\ cli'.report = "error" /\ cli'.current = cli.current
  BY <1>0, SetsOfChangesets DEF IInv, Shape, Stages, ClientFields, RestoreCommit, Told
<1>2. /\ chs' = chs /\ cli.pc = "restore"
      /\ revs' = revs /\ mishaps' = mishaps
  BY <1>0, <1>1, SetsOfChangesets DEF IInv, Shape, Stages, RestoreCommit
<1>3. /\ ChangesetsShape' /\ DOMAIN chs' = DOMAIN chs
      /\ Attached' = Attached /\ Open' = Open /\ Others' = Others
  BY <1>1, <1>2, SetsOfChangesets DEF ChangesetsShape, IsChangeset, Attached, Open, Others, IInv, Shape
<1>4. Shape'
  BY <1>1, <1>2, <1>3, SetsOfChangesets
    DEF IInv, Shape, OneAttached, Pc, CallStages, None
<1>5. OneAttached'
  BY <1>1, <1>2, <1>3, SetsOfChangesets
    DEF IInv, Shape, OneAttached, Stages, OldIsCurrent, OldIsKept, NewIsKept, Waits, Current, CallStages, None
<1>6. Reports'
  BY <1>1, <1>2, <1>3, SetsOfChangesets
    DEF IInv, Shape, Stages, Reports, Told1, OneAttached, OldIsCurrent, OldIsKept, Waits, CallStages, Current, Nothing, None
<1>7. Stages'
  BY <1>1, <1>2, <1>3, SetsOfChangesets
    DEF IInv, Shape, Stages, OldIsCurrent, OldIsKept, NewIsKept, Waits, Current, CallStages, None
<1>8. Undisturbed'
  BY <1>1, <1>2, <1>3, SetsOfChangesets
    DEF IInv, Shape, Stages, OldIsCurrent, OldIsKept, NewIsKept, Waits, Undisturbed, InUse, Current, CallStages, None
<1>. QED
  BY <1>4, <1>5, <1>6, <1>7, <1>8 DEF IInv

LEMMA RestoreCommitSucceedsKeepsIInv == ASSUME IInv, RestoreCommit, ~CommitRefused PROVE IInv'
<1>a. IsSequence(revs') /\ Len(revs') # 0
  <2>1. PICK d : revs' = Append(revs, d)
    BY DEF RestoreCommit, CommitRefused
  <2>2. IsSequence(revs) /\ Len(revs) \in Nat
    BY SequenceShape DEF IInv, Shape
  <2>3. IsSequence(Append(revs, d)) /\ Len(Append(revs, d)) = Len(revs) + 1
    BY <2>2, AppendedSequence
  <2>4. Len(revs') # 0
    BY <2>1, <2>2, <2>3
  <2>. QED
    BY <2>1, <2>3, <2>4
<1>b. \/ cli' = Told(cli, "error")
      \/ cli' = [Ended(cli, "restored") EXCEPT !.current = None, !.back = <<>>]
      \/ \E pc \in {"restore", "restoreCreate"} : cli' = [At(pc) EXCEPT !.current = None, !.back = Tail(@)]
  BY DEF RestoreCommit, CommitRefused
<1>0. /\ IsSequence(revs') /\ Len(revs') # 0
      /\ cli.pc = "restore" /\ SetState(cli.current, "committed") /\ mishaps' = mishaps
      /\ cli.current # None
      /\ \/ cli' = Told(cli, "error")
         \/ cli' = [Ended(cli, "restored") EXCEPT !.current = None, !.back = <<>>]
         \/ \E pc \in {"restore", "restoreCreate"} : cli' = [At(pc) EXCEPT !.current = None, !.back = Tail(@)]
  BY <1>a, <1>b DEF RestoreCommit, CommitRefused
<1>1. /\ DOMAIN cli' = ClientFields
      /\ cli'.pc \in {"prompt", "restore", "restoreCreate"} /\ cli'.report \notin {"rebased", "failed"}
      /\ cli'.current \in {None, cli.current} /\ (cli'.pc # "prompt" => cli'.current = None /\ cli'.report = Nothing)
  BY <1>0, SetsOfChangesets DEF IInv, Shape, Stages, ClientFields, Ended, Told, At, Reports, Nothing, None
<1>2. PICK c \in DOMAIN chs :
        /\ c \in DOMAIN chs /\ c = cli.current /\ SetState(c, "committed")
        /\ cli.pc = "restore" /\ Attached = {c}
        /\ IsSequence(revs') /\ Len(revs') # 0 /\ mishaps' = mishaps
  BY <1>0, <1>1, SetsOfChangesets DEF IInv, Shape, Stages, SetState, Current
<1>3. /\ ChangesetsShape' /\ DOMAIN chs' = DOMAIN chs
      /\ Attached' = Attached \ {c}
      /\ Open' = Open \ {c} /\ Others' = Others \ {c}
  BY <1>1, <1>2, SetsAfterSetState DEF States, OpenStates
<1>4. Shape'
  BY <1>1, <1>2, <1>3, SetsOfChangesets
    DEF IInv, Shape, OneAttached, Pc, CallStages, None
<1>5. OneAttached'
  BY <1>1, <1>2, <1>3, SetsOfChangesets
    DEF IInv, Shape, OneAttached, Stages, OldIsCurrent, OldIsKept, NewIsKept, Waits, Current, CallStages, None
<1>6. Reports'
  BY <1>1, <1>2, <1>3, SetsOfChangesets
    DEF IInv, Shape, Stages, Reports, Told1, OneAttached, OldIsCurrent, OldIsKept, Waits, CallStages, Current, Nothing, None
<1>7. Stages'
  BY <1>1, <1>2, <1>3, SetsOfChangesets
    DEF IInv, Shape, Stages, OldIsCurrent, OldIsKept, NewIsKept, Waits, Current, CallStages, None
<1>8. Undisturbed'
  BY <1>1, <1>2, <1>3, SetsOfChangesets
    DEF IInv, Shape, Stages, OldIsCurrent, OldIsKept, NewIsKept, Waits, Undisturbed, InUse, Current, CallStages, None
<1>. QED
  BY <1>4, <1>5, <1>6, <1>7, <1>8 DEF IInv

LEMMA RestoreCommitKeepsIInv == ASSUME IInv, RestoreCommit PROVE IInv'
BY RestoreCommitFailsKeepsIInv, RestoreCommitSucceedsKeepsIInv

LEMMA EmptyShape == IsSequence(<<>>) /\ IsSequence(<<<<>>>>) /\ Len(<<<<>>>>) # 0
<1>1. <<<<>>>> \in Seq({<<>>}) /\ Len(<<<<>>>>) # 0
  OBVIOUS
<1>. QED
  BY <1>1, EmptySequence, SequenceFrom

LEMMA ReinstallKeepsIInv == ASSUME IInv, Reinstall PROVE IInv'
<1>1. /\ DOMAIN cli' = ClientFields
      /\ cli'.pc = "prompt" /\ cli'.report = Nothing /\ cli'.current = None
  BY DEF Reinstall, Idle, ClientFields
<1>2. revs' = <<<<>>>> /\ chs' = <<>> /\ mishaps' = mishaps
  BY DEF Reinstall
<1>3. Shape'
  BY <1>1, <1>2, EmptyShape DEF IInv, Shape, ChangesetsShape, Pc
<1>4. Attached' = {} /\ Open' = {} /\ Others' = {}
  BY <1>2 DEF Attached, Open, Others
<1>5. OneAttached' /\ Reports'
  BY <1>1, <1>4 DEF OneAttached, Reports, Told1, Nothing
<1>6. Stages'
  BY <1>1 DEF Stages, OldIsCurrent, OldIsKept, NewIsKept, CallStages
<1>7. Undisturbed'
  BY <1>1, <1>4 DEF Undisturbed
<1>. QED
  BY <1>3, <1>5, <1>6, <1>7 DEF IInv

LEMMA InitEstablishesIInv == ASSUME Init PROVE IInv
<1>1. /\ DOMAIN cli = ClientFields
      /\ cli.pc = "prompt" /\ cli.report = Nothing /\ cli.current = None
  BY DEF Init, Idle, ClientFields
<1>2. revs = <<<<>>, Base>> /\ chs = <<>> /\ mishaps = 0
  BY DEF Init
<1>3. IsSequence(revs) /\ Len(revs) # 0
  <2>1. revs \in Seq({<<>>, Base}) /\ {revs[i] : i \in DOMAIN revs} = {<<>>, Base}
    BY <1>2
  <2>. QED
    BY <1>2, <2>1 DEF IsSequence
<1>4. Shape
  BY <1>1, <1>2, <1>3, EmptyShape DEF Shape, ChangesetsShape, Pc
<1>5. Attached = {} /\ Open = {} /\ Others = {}
  BY <1>2 DEF Attached, Open, Others
<1>6. OneAttached /\ Reports
  BY <1>1, <1>5 DEF OneAttached, Reports, Told1, Nothing
<1>7. Stages
  BY <1>1 DEF Stages, OldIsCurrent, OldIsKept, NewIsKept, CallStages
<1>8. Undisturbed
  BY <1>1, <1>5 DEF Undisturbed
<1>. QED
  BY <1>4, <1>6, <1>7, <1>8 DEF IInv

LEMMA StutterKeepsIInv == ASSUME IInv, UNCHANGED vars PROVE IInv'
BY DEF vars, IInv, Shape, ChangesetsShape, OneAttached, Stages, OldIsCurrent, OldIsKept, NewIsKept,
       Waits, Current, Reports, Told1, Undisturbed, InUse, Attached, Open, Others

LEMMA RebaseStepKeepsIInv == ASSUME IInv, RebaseStep PROVE IInv'
BY RebaseKeepsIInv, LockOldKeepsIInv, LockRefusedKeepsIInv, DetachOldKeepsIInv, CreateNewKeepsIInv,
   LockNewKeepsIInv, WriteFileKeepsIInv, FileIsGoneKeepsIInv, LineKeepsIInv, LineFailsKeepsIInv,
   AllPerformedKeepsIInv, GiveUpKeepsIInv, BackToOldKeepsIInv, DetachNewKeepsIInv, TakeOldKeepsIInv,
   AbortOldKeepsIInv, TakeNewKeepsIInv, UnlockKeepsIInv, UnlockRefusedKeepsIInv
   DEF RebaseStep

LEMMA StepKeepsIInv == ASSUME IInv, [Next]_vars PROVE IInv'
<1>1. CASE Start \/ \E c \in DOMAIN chs : Resume(c) \/ OthersTake(c)
  BY <1>1, StartKeepsIInv, ResumeKeepsIInv, OthersTakeKeepsIInv
<1>2. CASE ResumeLists \/ NoneChosen \/ \E c \in cli.listed : Choose(c)
  BY <1>2, ResumeListsKeepsIInv, NoneChosenKeepsIInv, ChooseKeepsIInv
<1>3. CASE \/ \E line \in OurLines : Type(line)
           \/ \E script \in TheirScripts : OthersCommit(script)
  BY <1>3, TypeKeepsIInv, OthersCommitKeepsIInv
<1>4. CASE ClientDies \/ CallFails \/ RebaseStep
  BY <1>4, ClientDiesKeepsIInv, CallFailsKeepsIInv, RebaseStepKeepsIInv
<1>5. CASE Backup \/ Reinstall \/ RestoreStep
  BY <1>5, BackupKeepsIInv, ReinstallKeepsIInv, RestoreKeepsIInv, RestoreCreateKeepsIInv,
     RestoreLockRefusedKeepsIInv, RestoreLineKeepsIInv, RestoreCommitKeepsIInv DEF RestoreStep
<1>6. CASE UNCHANGED vars
  BY <1>6, StutterKeepsIInv
<1>. QED
  BY <1>1, <1>2, <1>3, <1>4, <1>5, <1>6 DEF Next

-----------------------------------------------------------------------------
\* The shape of the variables and what is known of the changesets at each
\* call of a command, whatever the other sessions do and whatever fails.
THEOREM Invariant == Spec => []IInv
<1>1. Init => IInv
  BY InitEstablishesIInv
<1>2. IInv /\ [Next]_vars => IInv'
  BY StepKeepsIInv
<1>. QED
  BY <1>1, <1>2, PTL DEF Spec

\* A rebase or a restore that ends without an exception leaves the user in
\* the changeset the prompt shows, whatever single thing went wrong.
THEOREM PromptIsRight == Spec => []PromptTells
<1>1. IInv => PromptTells
  <2>. SUFFICES ASSUME IInv PROVE PromptTells
    OBVIOUS
  <2>1. cli.report \in {"rebased", "failed"} /\ mishaps <= 1 =>
            Attached = IF cli.current = None THEN {} ELSE {cli.current}
    BY DEF IInv, Reports, Told1, Current
  <2>2. ASSUME cli.pc = "prompt", mishaps = 0 PROVE Cardinality(Open) <= 1
    <3>1. Open = {} \/ Open = {cli.current}
      BY <2>2 DEF IInv, Undisturbed, InUse, Current
    <3>2. Cardinality({}) = 0 /\ Cardinality({cli.current}) = 1
      BY FS_EmptySet, FS_Singleton
    <3>. QED
      BY <3>1, <3>2
  <2>. QED
    BY <2>1, <2>2 DEF PromptTells
<1>. QED
  BY <1>1, Invariant, PTL

-----------------------------------------------------------------------------
(***************************************************************************)
(* What rebase gives up.  WorkSurvives computes what the lines of the      *)
(* saved file do with the ids that are in use when a changeset is given    *)
(* up; here they are performed one after the other, each with the ids that *)
(* were in use at its time.                                                *)
(***************************************************************************)

\* The changeset and the context before and after a line that is accepted.
NoWork(d) == [data |-> d, gone |-> <<>>, ctx |-> <<>>]
Does(s, line, t) ==
    \E used :
        LET p == Perform([data |-> s.data, gone |-> s.gone, used |-> used, ctx |-> s.ctx, ok |-> TRUE], line)
        IN  p.ok /\ t = [data |-> p.data, gone |-> p.gone, ctx |-> p.ctx]

\* From the data d, the first lines of the file have been accepted, the
\* lines todo are left, and s is reached.
Reaches(d, items, todo, s) ==
    \E k \in Nat : \E rest, run :
        /\ rest[0] = items /\ run[0] = NoWork(d)
        /\ \A i \in 0 .. (k - 1) :
              rest[i] # <<>> /\ rest[i + 1] = Tail(rest[i]) /\ Does(run[i], Head(rest[i]).line, run[i + 1])
        /\ rest[k] = todo /\ run[k] = s

LEMMA NothingPerformed == ASSUME NEW d, NEW items PROVE Reaches(d, items, items, NoWork(d))
<1>. DEFINE rest == [i \in {0} |-> items]
            run == [i \in {0} |-> NoWork(d)]
<1>1. rest[0] = items /\ run[0] = NoWork(d) /\ 0 \in Nat /\ 0 .. (0 - 1) = {}
  OBVIOUS
<1>. HIDE DEF rest, run
<1>. QED
  BY <1>1 DEF Reaches

LEMMA OneMorePerformed ==
    ASSUME NEW d, NEW items, NEW todo, NEW s, NEW t,
           Reaches(d, items, todo, s), todo # <<>>, Does(s, Head(todo).line, t)
    PROVE  Reaches(d, items, Tail(todo), t)
<1>1. PICK k \in Nat : \E rest, run :
        /\ rest[0] = items /\ run[0] = NoWork(d)
        /\ \A i \in 0 .. (k - 1) :
              rest[i] # <<>> /\ rest[i + 1] = Tail(rest[i]) /\ Does(run[i], Head(rest[i]).line, run[i + 1])
        /\ rest[k] = todo /\ run[k] = s
  BY DEF Reaches
<1>2. PICK rest, run :
        /\ rest[0] = items /\ run[0] = NoWork(d)
        /\ \A i \in 0 .. (k - 1) :
              rest[i] # <<>> /\ rest[i + 1] = Tail(rest[i]) /\ Does(run[i], Head(rest[i]).line, run[i + 1])
        /\ rest[k] = todo /\ run[k] = s
  BY <1>1
<1>. DEFINE rest2 == [i \in 0 .. (k + 1) |-> IF i = k + 1 THEN Tail(todo) ELSE rest[i]]
            run2 == [i \in 0 .. (k + 1) |-> IF i = k + 1 THEN t ELSE run[i]]
<1>3. /\ \A i \in 0 .. k : rest2[i] = rest[i] /\ run2[i] = run[i]
      /\ rest2[k + 1] = Tail(todo) /\ run2[k + 1] = t
  OBVIOUS
<1>. HIDE DEF rest2, run2
<1>4. /\ 0 \in 0 .. k /\ k \in 0 .. k /\ k + 1 \in Nat /\ (k + 1) - 1 = k
      /\ \A i \in 0 .. k : i = k \/ (i \in 0 .. (k - 1) /\ i + 1 \in 0 .. k)
  OBVIOUS
<1>5. ASSUME NEW i \in 0 .. k
      PROVE  /\ rest2[i] # <<>> /\ rest2[i + 1] = Tail(rest2[i])
             /\ Does(run2[i], Head(rest2[i]).line, run2[i + 1])
  <2>1. CASE i = k
    BY <1>2, <1>3, <1>4, <2>1
  <2>2. CASE i \in 0 .. (k - 1) /\ i + 1 \in 0 .. k
    BY <1>2, <1>3, <2>2
  <2>. QED
    BY <1>4, <2>1, <2>2
<1>. QED
  BY <1>2, <1>3, <1>4, <1>5 DEF Reaches

\* The new changeset holds what the lines taken off the file have done to
\* its parent; the client has no context where it starts performing them.
ClearStages == {"prompt", "lockOld", "detachOld", "createNew", "lockNew", "writeFile"}
NewStages == {"lockNew", "writeFile", "lines", "detachNew", "takeOld", "abortOld"}
ParentOfNew == revs[chs[cli.new].parent]
Reached(ctx) == [data |-> chs[cli.new].data, gone |-> chs[cli.new].gone, ctx |-> ctx]
NewHolds ==
    /\ cli.pc \in ClearStages => cli.ctx = <<>>
    /\ cli.pc \in NewStages => cli.new \in DOMAIN chs /\ chs[cli.new].parent \in DOMAIN revs
    /\ cli.pc \in {"lockNew", "writeFile"} => Reached(cli.ctx) = NoWork(ParentOfNew)
    /\ cli.pc = "lines" => Reaches(ParentOfNew, cli.script, cli.todo, Reached(cli.ctx))
    /\ cli.pc \in {"detachNew", "takeOld", "abortOld"} =>
          \E ctx : Reaches(ParentOfNew, cli.script, <<>>, Reached(ctx))

\* A changeset is given up only when another one is still open; and unless
\* it is the new one, the new one holds what every line of the file does.
OnlyReplaced ==
    \A c \in DOMAIN chs :
        Gone(c) =>
            IF c = cli.new
            THEN chs[cli.old].state \in {"free", "other"}
            ELSE /\ chs[cli.new].state \in {"free", "other"}
                 /\ \E ctx : Reaches(ParentOfNew, cli.script, <<>>, Reached(ctx))

LEMMA NewIsNowhere ==
    ASSUME cli'.pc \notin NewStages, cli'.pc \in ClearStages => cli'.ctx = <<>>
    PROVE  NewHolds'
BY DEF NewHolds, NewStages

\* What a step does to the changesets leaves the new one and its parent.
LEMMA NewStaysAsItIs ==
    ASSUME NewHolds, cli'.pc = cli.pc, cli'.ctx = cli.ctx, cli'.new = cli.new,
           cli'.script = cli.script, cli'.todo = cli.todo,
           cli.new \in DOMAIN chs =>
               /\ cli.new \in DOMAIN chs' /\ chs'[cli.new].parent = chs[cli.new].parent
               /\ chs'[cli.new].data = chs[cli.new].data /\ chs'[cli.new].gone = chs[cli.new].gone,
           \A i \in DOMAIN revs : i \in DOMAIN revs' /\ revs'[i] = revs[i]
    PROVE  NewHolds'
<1>1. CASE cli.pc \in NewStages
  <2>1. /\ cli.new \in DOMAIN chs' /\ chs'[cli'.new].parent \in DOMAIN revs'
        /\ ParentOfNew' = ParentOfNew
        /\ \A ctx : Reached(ctx)' = Reached(ctx)
    BY <1>1 DEF NewHolds, ParentOfNew, Reached
  <2>. QED
    BY <1>1, <2>1 DEF NewHolds
<1>2. CASE cli.pc \notin NewStages
  BY <1>2, NewIsNowhere DEF NewHolds
<1>. QED
  BY <1>1, <1>2

\* Commands that are over, and calls that come before there is a new
\* changeset or after what it holds has been relied on.
LEMMA UserKeepsNew ==
    ASSUME IInv, NewHolds,
           \/ Start \/ ResumeLists \/ NoneChosen \/ CallFails \/ ClientDies \/ Backup \/ Reinstall
           \/ \E c \in DOMAIN chs : Resume(c)
           \/ \E c \in cli.listed : Choose(c)
           \/ \E line \in OurLines : Type(line)
    PROVE  NewHolds'
<1>1. CASE Start \/ NoneChosen \/ CallFails \/ (\E c \in DOMAIN chs : Resume(c)) \/ (\E line \in OurLines : Type(line))
  <2>1. cli'.pc = "prompt" /\ cli'.ctx = <<>>
    BY <1>1 DEF IInv, Shape, ClientFields, Start, NoneChosen, CallFails, Thrown, Resume, Type, Told
  <2>. QED
    BY <2>1, NewIsNowhere DEF NewStages
<1>2. CASE ResumeLists
  <2>1. cli'.pc \in {"prompt", "choose"} /\ (cli'.pc = "prompt" => cli'.ctx = <<>>)
    BY <1>2 DEF IInv, Shape, ClientFields, ResumeLists, Told, At
  <2>. QED
    BY <2>1, NewIsNowhere DEF NewStages, ClearStages
<1>3. CASE \E c \in cli.listed : Choose(c)
  <2>1. cli'.pc = "prompt" /\ cli'.ctx = <<>>
    BY <1>3 DEF IInv, Shape, ClientFields, Choose, Taking, Told
  <2>. QED
    BY <2>1, NewIsNowhere DEF NewStages
<1>4. CASE ClientDies \/ Backup \/ Reinstall
  <2>1. CASE cli' = Idle
    <3>1. cli'.pc = "prompt" /\ cli'.ctx = <<>>
      BY <2>1 DEF Idle
    <3>. QED
      BY <3>1, NewIsNowhere DEF NewStages
  <2>2. CASE Backup
    <3>1. cli'.pc = "prompt" /\ cli'.ctx = <<>>
      BY <2>2 DEF IInv, Shape, ClientFields, Backup, Told
    <3>. QED
      BY <3>1, NewIsNowhere DEF NewStages
  <2>. QED
    BY <1>4, <2>1, <2>2 DEF ClientDies, Died, Reinstall
<1>. QED
  BY <1>1, <1>2, <1>3, <1>4

LEMMA RestoreKeepsNew == ASSUME IInv, NewHolds, RestoreStep PROVE NewHolds'
<1>1. CASE Restore
  <2>1. cli'.pc \in {"prompt", "restoreCreate"} /\ (cli'.pc = "prompt" => cli'.ctx = <<>>)
    BY <1>1 DEF IInv, Shape, ClientFields, Restore, Told, At
  <2>. QED
    BY <2>1, NewIsNowhere DEF NewStages, ClearStages
<1>2. CASE RestoreCreate \/ RestoreLockRefused
  <2>1. cli'.pc \in {"prompt", "restore"} /\ (cli'.pc = "prompt" => cli'.ctx = <<>>)
    BY <1>2 DEF IInv, Shape, ClientFields, RestoreCreate, RestoreLockRefused, Ended, Told, At
  <2>. QED
    BY <2>1, NewIsNowhere DEF NewStages, ClearStages
<1>3. CASE RestoreLine
  <2>1. cli'.pc \in {"prompt", "restore"} /\ (cli'.pc = "prompt" => cli'.ctx = <<>>)
    BY <1>3 DEF IInv, Shape, ClientFields, RestoreLine, Ended, Told
  <2>. QED
    BY <2>1, NewIsNowhere DEF NewStages, ClearStages
<1>4. CASE RestoreCommit
  <2>1. /\ cli'.pc \in {"prompt", "restore", "restoreCreate"}
        /\ cli'.pc = "prompt" => cli'.ctx = <<>>
    BY <1>4 DEF IInv, Shape, ClientFields, RestoreCommit, Ended, Told, At
  <2>. QED
    BY <2>1, NewIsNowhere DEF NewStages, ClearStages
<1>. QED
  BY <1>1, <1>2, <1>3, <1>4 DEF RestoreStep

LEMMA OthersKeepNew ==
    ASSUME IInv, NewHolds,
           \/ \E c \in DOMAIN chs : OthersTake(c)
           \/ \E script \in TheirScripts : OthersCommit(script)
           \/ UNCHANGED vars
    PROVE  NewHolds'
<1>1. CASE \E c \in DOMAIN chs : OthersTake(c)
  <2>1. PICK c \in DOMAIN chs : SetState(c, "other") /\ cli' = cli /\ revs' = revs
    BY <1>1 DEF OthersTake, SetState
  <2>2. /\ DOMAIN chs' = DOMAIN chs
        /\ \A d \in DOMAIN chs :
              chs'[d].parent = chs[d].parent /\ chs'[d].data = chs[d].data /\ chs'[d].gone = chs[d].gone
    BY <2>1, StateIsSet DEF IInv, Shape, States, OpenStates
  <2>. QED
    BY <2>1, <2>2, NewStaysAsItIs
<1>2. CASE \E script \in TheirScripts : OthersCommit(script)
  <2>1. /\ cli'.pc = cli.pc /\ cli'.ctx = cli.ctx /\ cli'.new = cli.new
        /\ cli'.script = cli.script /\ cli'.todo = cli.todo
        /\ chs' = chs
    BY <1>2 DEF IInv, Shape, ClientFields, OthersCommit, Quiet
  <2>2. \E x : revs' = Append(revs, x)
    BY <1>2 DEF OthersCommit
  <2>3. \A i \in DOMAIN revs : i \in DOMAIN revs' /\ revs'[i] = revs[i]
    BY <2>2, AppendedSequence DEF IInv, Shape
  <2>. QED
    BY <2>1, <2>3, NewStaysAsItIs
<1>3. CASE UNCHANGED vars
  BY <1>3, NewStaysAsItIs DEF vars
<1>. QED
  BY <1>1, <1>2, <1>3

\* The calls of rebase that make, fill and keep the new changeset.
LEMMA CreateNewMakesNew == ASSUME IInv, NewHolds, CreateNew PROVE NewHolds'
<1>1. /\ cli'.pc = "lockNew" /\ cli'.new = Len(chs') /\ cli'.ctx = cli.ctx /\ cli.ctx = <<>>
      /\ chs' = Append(chs, NewChangeset(HeadRevision)) /\ revs' = revs
  BY DEF IInv, Shape, ClientFields, CreateNew, At, Step, NewHolds, ClearStages
<1>2. /\ chs'[cli'.new] = NewChangeset(HeadRevision) /\ cli'.new \in DOMAIN chs'
  BY <1>1, ChangesetIsNew DEF IInv
<1>3. HeadRevision \in DOMAIN revs
  BY SequenceShape DEF IInv, Shape, HeadRevision
<1>4. /\ chs'[cli'.new].parent = HeadRevision /\ chs'[cli'.new].gone = <<>>
      /\ chs'[cli'.new].data = revs[HeadRevision]
  BY <1>2 DEF NewChangeset
<1>5. /\ ParentOfNew' = revs[HeadRevision]
      /\ Reached(cli.ctx)' = NoWork(revs[HeadRevision])
  BY <1>1, <1>4 DEF ParentOfNew, Reached, NoWork
<1>. QED
  BY <1>1, <1>2, <1>3, <1>4, <1>5 DEF NewHolds, ClearStages, NewStages, Reached

LEMMA LockNewKeepsNew == ASSUME IInv, NewHolds, LockNew PROVE NewHolds'
<1>1. /\ cli'.pc = "writeFile" /\ cli'.new = cli.new /\ cli'.ctx = cli.ctx
      /\ cli.pc = "lockNew" /\ chs' = chs /\ revs' = revs
  BY DEF IInv, Shape, ClientFields, LockNew, Goes, At, Step
<1>. QED
  BY <1>1 DEF NewHolds, ClearStages, NewStages, Reached, ParentOfNew

LEMMA WriteFileKeepsNew == ASSUME IInv, NewHolds, WriteFile PROVE NewHolds'
<1>1. PICK lines, edited :
         cli' = [At("lines") EXCEPT !.script = lines, !.todo = lines, !.quiet = TRUE, !.edited = edited]
  BY DEF WriteFile
<1>2. /\ cli'.pc = "lines" /\ cli'.new = cli.new /\ cli'.ctx = cli.ctx /\ cli'.todo = cli'.script
      /\ cli.pc = "writeFile" /\ chs' = chs /\ revs' = revs
  <2>1. cli.pc = "writeFile" /\ chs' = chs /\ revs' = revs
    BY DEF WriteFile, Step
  <2>. QED
    BY <1>1, <2>1 DEF IInv, Shape, ClientFields, At
<1>3. Reaches(ParentOfNew, cli'.script, cli'.script, NoWork(ParentOfNew))
  BY NothingPerformed
<1>4. /\ ParentOfNew' = ParentOfNew
      /\ Reached(cli.ctx)' = Reached(cli.ctx) /\ Reached(cli.ctx) = NoWork(ParentOfNew)
      /\ cli.new \in DOMAIN chs /\ chs[cli.new].parent \in DOMAIN revs
  BY <1>2 DEF NewHolds, NewStages, ParentOfNew, Reached
<1>. QED
  BY <1>2, <1>3, <1>4 DEF NewHolds, ClearStages, Reached

LEMMA LineKeepsNew == ASSUME IInv, NewHolds, Line PROVE NewHolds'
<1>. DEFINE p == Perform(Work(cli.new), Head(cli.todo).line)
<1>1. /\ cli.pc = "lines" /\ cli.todo # <<>> /\ revs' = revs /\ chs' = Keeping(cli.new, p)
      /\ cli' = IF p.ok THEN [cli EXCEPT !.todo = Tail(@), !.ctx = p.ctx] ELSE ParsingFailed(cli)
  BY DEF Line, Step
<1>2. Does(Reached(cli.ctx), Head(cli.todo).line, [data |-> p.data, gone |-> p.gone, ctx |-> p.ctx]) \/ ~p.ok
  BY DEF Does, Reached, Work
<1>. HIDE DEF p
<1>3. /\ cli.new \in DOMAIN chs /\ chs[cli.new].parent \in DOMAIN revs
      /\ Reaches(ParentOfNew, cli.script, cli.todo, Reached(cli.ctx))
  BY <1>1 DEF NewHolds, NewStages
<1>4. CASE ~p.ok
  <2>1. cli'.pc = "giveUp"
    BY <1>1, <1>4 DEF IInv, Shape, ClientFields, ParsingFailed
  <2>. QED
    BY <2>1, NewIsNowhere DEF NewStages, ClearStages
<1>5. CASE p.ok
  <2>1. /\ cli'.pc = "lines" /\ cli'.new = cli.new /\ cli'.script = cli.script
        /\ cli'.todo = Tail(cli.todo) /\ cli'.ctx = p.ctx
    BY <1>1, <1>5 DEF IInv, Shape, ClientFields
  <2>2. /\ DOMAIN chs' = DOMAIN chs /\ chs'[cli.new].parent = chs[cli.new].parent
        /\ chs'[cli.new].data = p.data /\ chs'[cli.new].gone = p.gone
    BY <1>1, <1>3, WorkIsKept DEF IInv, Shape
  <2>3. /\ ParentOfNew' = ParentOfNew
        /\ Reached(cli.ctx)' = [data |-> p.data, gone |-> p.gone, ctx |-> p.ctx]
    BY <1>1, <2>1, <2>2 DEF ParentOfNew, Reached
  <2>4. Reaches(ParentOfNew, cli.script, Tail(cli.todo), [data |-> p.data, gone |-> p.gone, ctx |-> p.ctx])
    BY <1>1, <1>2, <1>3, <1>5, OneMorePerformed
  <2>. QED
    BY <1>1, <1>3, <2>1, <2>2, <2>3, <2>4 DEF NewHolds, ClearStages, NewStages, Reached
<1>. QED
  BY <1>4, <1>5

LEMMA AllPerformedKeepsNew == ASSUME IInv, NewHolds, AllPerformed PROVE NewHolds'
<1>1. /\ cli'.pc = "detachNew" /\ cli'.new = cli.new /\ cli'.script = cli.script
      /\ cli.pc = "lines" /\ cli.todo = <<>> /\ chs' = chs /\ revs' = revs
  BY DEF IInv, Shape, ClientFields, AllPerformed, At, Step
<1>2. /\ Reaches(ParentOfNew, cli.script, <<>>, Reached(cli.ctx))
      /\ cli.new \in DOMAIN chs /\ chs[cli.new].parent \in DOMAIN revs
  BY <1>1 DEF NewHolds, NewStages
<1>3. ParentOfNew' = ParentOfNew /\ \A ctx : Reached(ctx)' = Reached(ctx)
  BY <1>1 DEF ParentOfNew, Reached
<1>. QED
  BY <1>1, <1>2, <1>3 DEF NewHolds, ClearStages

\* Detaching the new changeset, and attaching the old one.
LEMMA SetStateKeepsNew ==
    ASSUME IInv, NewHolds, NEW c \in DOMAIN chs, NEW s \in States, SetState(c, s), revs' = revs,
           cli.pc \in {"detachNew", "takeOld"}, cli'.pc \in {"takeOld", "abortOld"},
           cli'.new = cli.new, cli'.script = cli.script
    PROVE  NewHolds'
<1>1. /\ DOMAIN chs' = DOMAIN chs
      /\ \A d \in DOMAIN chs :
            chs'[d].parent = chs[d].parent /\ chs'[d].data = chs[d].data /\ chs'[d].gone = chs[d].gone
  BY StateIsSet DEF IInv, Shape
<1>2. PICK ctx : Reaches(ParentOfNew, cli.script, <<>>, Reached(ctx))
  BY DEF NewHolds
<1>3. cli.new \in DOMAIN chs /\ chs[cli.new].parent \in DOMAIN revs
  BY DEF NewHolds, NewStages
<1>4. ParentOfNew' = ParentOfNew /\ Reached(ctx)' = Reached(ctx)
  BY <1>1, <1>3 DEF ParentOfNew, Reached
<1>. QED
  BY <1>1, <1>2, <1>3, <1>4 DEF NewHolds, ClearStages

LEMMA RebaseKeepsNew == ASSUME IInv, NewHolds, RebaseStep PROVE NewHolds'
<1>1. CASE Rebase
  <2>1. ASSUME cli' = Idle PROVE cli'.pc = "prompt" /\ cli'.ctx = <<>>
    BY <2>1 DEF Idle
  <2>2. ASSUME ChangesetParent(cli.current) # None
        PROVE  cli'.pc \in {"prompt", "lockOld"} /\ cli'.ctx = <<>>
    <3>1. cli.ctx = <<>>
      BY <1>1 DEF Rebase, NewHolds, ClearStages
    <3>. QED
      BY <1>1, <2>2, <3>1 DEF IInv, Shape, ClientFields, Rebase, Told, At
  <2>3. cli'.pc \in {"prompt", "lockOld"} /\ cli'.ctx = <<>>
    BY <1>1, <2>1, <2>2 DEF Rebase, Died
  <2>. QED
    BY <2>3, NewIsNowhere DEF NewStages
<1>2. CASE LockOld \/ DetachOld
  <2>1. cli'.pc \in {"prompt", "detachOld", "createNew"} /\ cli'.ctx = <<>>
    BY <1>2 DEF IInv, Shape, ClientFields, LockOld, DetachOld, Goes, Told, At, NewHolds, ClearStages
  <2>. QED
    BY <2>1, NewIsNowhere DEF NewStages
<1>3. CASE LockRefused \/ UnlockRefused \/ FileIsGone \/ LineFails
  <2>1. cli'.pc \in {"prompt", "giveUp"} /\ (cli'.pc = "prompt" => cli'.ctx = <<>>)
    BY <1>3 DEF IInv, Shape, ClientFields, LockRefused, UnlockRefused, FileIsGone, LineFails, ParsingFailed, Told, At
  <2>. QED
    BY <2>1, NewIsNowhere DEF NewStages, ClearStages
<1>4. CASE GiveUp \/ BackToOld \/ AbortOld \/ TakeNew \/ Unlock
  <2>1. cli'.pc \in {"prompt", "backToOld", "takeNew", "unlock"} /\ (cli'.pc = "prompt" => cli'.ctx = <<>>)
    BY <1>4 DEF IInv, Shape, ClientFields, GiveUp, BackToOld, AbortOld, TakeNew, Unlock, Taking, Goes, Told, At
  <2>. QED
    BY <2>1, NewIsNowhere DEF NewStages, ClearStages
<1>5. CASE DetachNew
  <2>1. /\ SetState(cli.new, "free") /\ revs' = revs /\ cli.pc = "detachNew" /\ cli'.pc = "takeOld"
        /\ cli'.new = cli.new /\ cli'.script = cli.script
    BY <1>5 DEF IInv, Shape, ClientFields, DetachNew, Goes, At, Step
  <2>. QED
    BY <2>1, SetStateKeepsNew DEF NewHolds, NewStages, States, OpenStates
<1>6. CASE TakeOld /\ chs[cli.old].state = "free"
  <2>1. /\ SetState(cli.old, "cli") /\ revs' = revs /\ cli.pc = "takeOld" /\ cli'.pc = "abortOld"
        /\ cli'.new = cli.new /\ cli'.script = cli.script
    BY <1>6 DEF IInv, Shape, ClientFields, TakeOld, Taking, At, Step
  <2>2. cli.old \in DOMAIN chs
    BY <2>1 DEF IInv, Stages, OldIsKept, Waits, Open
  <2>. QED
    BY <2>1, <2>2, SetStateKeepsNew DEF States, OpenStates
<1>7. CASE TakeOld /\ chs[cli.old].state # "free"
  <2>1. cli'.pc = "prompt" /\ cli'.ctx = <<>>
    BY <1>7 DEF IInv, Shape, ClientFields, TakeOld, Taking, Told
  <2>. QED
    BY <2>1, NewIsNowhere DEF NewStages
<1>. QED
  BY <1>1, <1>2, <1>3, <1>4, <1>5, <1>6, <1>7, CreateNewMakesNew, LockNewKeepsNew, WriteFileKeepsNew,
     LineKeepsNew, AllPerformedKeepsNew DEF RebaseStep

LEMMA StepKeepsNew == ASSUME IInv, NewHolds, [Next]_vars PROVE NewHolds'
<1>1. CASE \/ Start \/ ResumeLists \/ NoneChosen \/ CallFails \/ ClientDies \/ Backup \/ Reinstall
           \/ \E c \in DOMAIN chs : Resume(c)
           \/ \E c \in cli.listed : Choose(c)
           \/ \E line \in OurLines : Type(line)
  BY <1>1, UserKeepsNew
<1>2. CASE \/ \E c \in DOMAIN chs : OthersTake(c)
           \/ \E script \in TheirScripts : OthersCommit(script)
           \/ UNCHANGED vars
  BY <1>2, OthersKeepNew
<1>3. CASE RebaseStep \/ RestoreStep
  BY <1>3, RebaseKeepsNew, RestoreKeepsNew
<1>. QED
  BY <1>1, <1>2, <1>3 DEF Next

\* Only two calls abort a changeset.
LEMMA AbortedByRebase ==
    ASSUME IInv, [Next]_vars, NEW c \in DOMAIN chs, Gone(c)
    PROVE  (GiveUp /\ c = cli.new) \/ (AbortOld /\ c = cli.old)
<1>1. /\ c \in DOMAIN chs' /\ chs[c].state # "aborted" /\ chs'[c].state = "aborted"
      /\ ChangesetsShape
  BY DEF Gone, IInv, Shape
<1>2. ASSUME NEW d \in DOMAIN chs, NEW s \in States, SetState(d, s) PROVE c = d /\ s = "aborted"
  BY <1>1, <1>2, StateIsSet
<1>3. ASSUME NEW d \in DOMAIN chs, NEW p, chs' = Keeping(d, p) PROVE FALSE
  BY <1>1, <1>3, WorkIsKept
<1>4. ASSUME chs' = Append(chs, NewChangeset(HeadRevision)) PROVE FALSE
  BY <1>1, <1>4, ChangesetIsNew DEF IInv
<1>5. ASSUME Died PROVE FALSE
  BY <1>1, <1>5, ClientIsGone
<1>6. chs' # chs /\ chs' # <<>>
  BY <1>1
<1>7. ASSUME NEW d \in DOMAIN chs, NEW then, Taking(d, then) PROVE FALSE
  BY <1>2, <1>6, <1>7 DEF Taking, States, OpenStates
<1>8. CASE Start \/ CreateNew \/ RestoreCreate \/ RestoreLockRefused
  BY <1>4, <1>8 DEF Start, CreateNew, RestoreCreate, RestoreLockRefused
<1>9. CASE \/ \E d \in DOMAIN chs : Resume(d) \/ OthersTake(d)
           \/ DetachOld \/ DetachNew
  <2>1. CASE \E d \in DOMAIN chs : Resume(d) \/ OthersTake(d)
    BY <1>2, <2>1 DEF Resume, OthersTake, SetState, States, OpenStates
  <2>2. CASE DetachOld \/ DetachNew
    BY <1>2, <2>2, SetsOfChangesets DEF DetachOld, DetachNew, States, OpenStates, Attached, IInv, Stages, NewIsKept
  <2>. QED
    BY <1>9, <2>1, <2>2
<1>10. CASE \/ \E line \in OurLines : Type(line)
            \/ Line \/ RestoreLine
  <2>1. CASE \E line \in OurLines : Type(line)
    BY <1>3, <2>1 DEF Type, Attached
  <2>2. CASE Line
    BY <1>3, <2>2, SetsOfChangesets DEF Line, IInv, Stages, NewIsKept
  <2>3. CASE RestoreLine
    BY <1>3, <2>3 DEF RestoreLine, IInv, Shape, None
  <2>. QED
    BY <1>10, <2>1, <2>2, <2>3
<1>11. CASE \/ \E d \in cli.listed : Choose(d)
            \/ BackToOld \/ TakeOld \/ TakeNew
  <2>1. CASE \E d \in cli.listed : Choose(d)
    BY <1>6, <1>7, <2>1 DEF Choose, IInv, Stages
  <2>2. CASE BackToOld \/ TakeOld
    <3>1. cli.old \in DOMAIN chs
      BY <2>2 DEF BackToOld, TakeOld, IInv, Stages, OldIsKept, Waits, Open
    <3>. QED
      BY <1>7, <2>2, <3>1 DEF BackToOld, TakeOld
  <2>3. CASE TakeNew
    <3>1. cli.new \in DOMAIN chs
      BY <2>3 DEF TakeNew, IInv, Stages, NewIsKept, Waits, Open
    <3>. QED
      BY <1>7, <2>3, <3>1 DEF TakeNew
  <2>. QED
    BY <1>11, <2>1, <2>2, <2>3
<1>12. CASE ClientDies \/ Rebase
  BY <1>5, <1>6, <1>12 DEF ClientDies, Rebase
<1>13. CASE RestoreCommit
  BY <1>2, <1>6, <1>13 DEF RestoreCommit, IInv, Shape, States
<1>14. CASE Reinstall
  BY <1>1, <1>14 DEF Reinstall
<1>15. CASE \/ ResumeLists \/ NoneChosen \/ CallFails \/ Backup \/ Restore
            \/ LockOld \/ LockRefused \/ LockNew \/ WriteFile \/ FileIsGone \/ LineFails
            \/ AllPerformed \/ Unlock \/ UnlockRefused \/ UNCHANGED vars
            \/ \E script \in TheirScripts : OthersCommit(script)
  BY <1>6, <1>15 DEF ResumeLists, NoneChosen, CallFails, Thrown, Backup, Restore, LockOld, LockRefused,
       LockNew, WriteFile, FileIsGone, LineFails, AllPerformed, Unlock, UnlockRefused, OthersCommit, Quiet, vars
<1>16. CASE GiveUp
  <2>1. cli.new \in DOMAIN chs
    BY <1>16, SetsOfChangesets DEF GiveUp, IInv, Stages, NewIsKept
  <2>. QED
    BY <1>2, <1>16, <2>1 DEF GiveUp, States
<1>17. CASE AbortOld
  <2>1. cli.old \in DOMAIN chs
    BY <1>17, SetsOfChangesets DEF AbortOld, IInv, Stages
  <2>. QED
    BY <1>2, <1>17, <2>1 DEF AbortOld, States
<1>. QED
  BY <1>8, <1>9, <1>10, <1>11, <1>12, <1>13, <1>14, <1>15, <1>16, <1>17 DEF Next, RebaseStep, RestoreStep

\* rebase never gives up a changeset whose work nobody holds, whatever the
\* other sessions do and whatever fails.
THEOREM RebaseGivesUp == Spec => [][OnlyReplaced]_vars
<1>1. Init => NewHolds
  <2>. SUFFICES ASSUME Init PROVE NewHolds
    OBVIOUS
  <2>1. cli.pc = "prompt" /\ cli.ctx = <<>>
    BY DEF Init, Idle
  <2>. QED
    BY <2>1 DEF NewHolds, NewStages
<1>2. IInv /\ NewHolds /\ [Next]_vars => NewHolds'
  BY StepKeepsNew
<1>3. Spec => []NewHolds
  BY <1>1, <1>2, Invariant, PTL DEF Spec
<1>4. IInv /\ NewHolds /\ [Next]_vars => [OnlyReplaced]_vars
  <2>. SUFFICES ASSUME IInv, NewHolds, [Next]_vars, NEW c \in DOMAIN chs, Gone(c)
                PROVE  IF c = cli.new
                       THEN chs[cli.old].state \in {"free", "other"}
                       ELSE /\ chs[cli.new].state \in {"free", "other"}
                            /\ \E ctx : Reaches(ParentOfNew, cli.script, <<>>, Reached(ctx))
    BY DEF OnlyReplaced
  <2>1. (GiveUp /\ c = cli.new) \/ (AbortOld /\ c = cli.old)
    BY AbortedByRebase
  <2>2. CASE GiveUp /\ c = cli.new
    BY <2>2 DEF IInv, Stages, OldIsKept, Waits, Open, Attached, GiveUp
  <2>3. CASE AbortOld /\ c = cli.old
    <3>1. cli.new \in Open \ Attached /\ Attached = {cli.old}
      BY <2>3 DEF IInv, Stages, NewIsKept, Waits, AbortOld
    <3>2. c # cli.new /\ chs[cli.new].state \in {"free", "other"}
      BY <2>3, <3>1 DEF Open, Attached
    <3>3. \E ctx : Reaches(ParentOfNew, cli.script, <<>>, Reached(ctx))
      BY <2>3 DEF NewHolds, AbortOld
    <3>. QED
      BY <3>2, <3>3
  <2>. QED
    BY <2>1, <2>2, <2>3
<1>. QED
  BY <1>3, <1>4, Invariant, PTL DEF Spec
=============================================================================
