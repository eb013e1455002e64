--------------------------- MODULE CliSessionProofs ---------------------------
(***************************************************************************)
(* Proofs about CliSession: that the context of the second pass, which the *)
(* prompt shows, is the one the parser has computed, that nothing is       *)
(* deleted without a question, that the cache of existing objects tells a  *)
(* handler what is so, that the contexts of a session nest and the objects *)
(* of the one the prompt shows exist, and that nothing is created that the *)
(* user was not asked about.                                               *)
(***************************************************************************)
EXTENDS CliSession, CliParserProofs, FiniteSetTheorems

-----------------------------------------------------------------------------
(***************************************************************************)
(* The session.  The shape of its state: only the fields and sequences     *)
(* that the two properties read.                                           *)
(***************************************************************************)
CliFields  == {"ctx", "before", "changeset", "quiet", "force", "failed", "stable", "known"}
LineFields == {"phase", "sig", "todo", "ctx", "parsed", "backup", "auto", "end", "file", "rest"}
PastFields == {"typed", "faults", "asked", "sure", "taint", "unlocked", "stood"}
DbFields   == {"live", "work", "seen", "gone", "pending", "obsolete", "frozen"}
ViewFields == {"objs", "set"}

CliShape(c) == DOMAIN c = CliFields /\ IsSequence(c.ctx) /\ IsSequence(c.before)
DbShape(d)  == DOMAIN d = DbFields /\ DOMAIN d.work = ViewFields /\ DOMAIN d.live = ViewFields
LineShape(l) ==
    /\ DOMAIN l = LineFields
    /\ IsSequence(l.ctx) /\ IsSequence(l.backup) /\ IsSequence(l.sig) /\ IsSequence(l.parsed)
    /\ IsSequence(l.rest) /\ \A i \in 1 .. Len(l.rest) : WellMade(l.rest[i])
    /\ l.phase = "prompt" => l.file = "none"
    /\ l.phase # "prompt" /\ l.file # "none" /\ l.phase # "file" => l.rest # <<>>
Shape == CliShape(cli) /\ DbShape(db) /\ LineShape(line) /\ DOMAIN past = PastFields

\* Nobody has made the session unable to ask but a file, or the user.
Quiet == cli.quiet => InFile \/ past.unlocked
Permitted == past.sure \/ cli.force \/ InFile \/ past.unlocked

\* The first k signals are behind the pass, and deletes among them were allowed.
Behind(k)  == line.todo = SubSeq(line.sig, k + 1, Len(line.sig))
Allowed(k) == \A i \in 1 .. k : line.sig[i][1] = "delete" => Permitted
Follows ==
    \E k, cs :
        /\ k \in 0 .. (Len(line.sig) - 1) /\ Behind(k)
        /\ Along(line.backup, line.sig, cs) /\ cs[Len(line.sig)] = line.parsed
        /\ SameContext(line.ctx, cs[k])
Confirms ==
    line.phase = "confirm" =>
        /\ line.ctx = line.backup /\ Leads(line.backup, line.sig, line.parsed)
        /\ \E k \in 0 .. Len(line.sig) : (k = 0 \/ k < Len(line.sig)) /\ Behind(k) /\ Allowed(k)
Applies == line.phase = "apply" => Follows /\ Allowed(Len(line.sig))

IInv == Shape /\ Quiet /\ Confirms /\ Applies /\ ContextsAgree

-----------------------------------------------------------------------------
(* What the handlers of the two passes leave alone.                        *)
SurePast == DOMAIN past' = PastFields /\ past'.unlocked = past.unlocked /\ past'.sure \in {past.sure, TRUE}
SameMode == cli'.quiet = cli.quiet /\ cli'.force = cli.force
Mild == CliShape(cli') /\ DbShape(db') /\ SurePast /\ SameMode

Proceeds(ctx) ==
    IF Len(line.todo) = 1 THEN line' = Back("performed", ctx)
    ELSE line' = [line EXCEPT !.todo = Tail(@), !.ctx = ctx]
GivesUp == \E end, ctx : end # "performed" /\ IsSequence(ctx) /\ line' = Back(end, ctx)

\* What a signal that was performed does to the context of the second pass.
Stepped(c, s, d) ==
    CASE s[1] = "left" -> d = Front(c)
      [] s[1] \in {"enter", "create"} ->
            \E name : (name = s[4] \/ s[4] = NoName) /\ d = Append(c, <<"object", s[3], name>>)
      [] s[1] = "filter" -> d = Append(c, <<"filter", s[3], s[4]>>)
      [] OTHER -> d = c
Applied ==
    /\ Mild
    /\ \/ line' = line
       \/ GivesUp
       \/ \E ctx : Stepped(line.ctx, Signal, ctx) /\ Proceeds(ctx)
    /\ Signal[1] \in {"delete", "rename"} \/ db.work.objs \subseteq db'.work.objs

LEMMA EndOfLineMild ==
    ASSUME NEW c, NEW d, NEW end, NEW ctx, EndOfLine(c, d, end, ctx), CliShape(c), DbShape(d)
    PROVE  /\ CliShape(cli') /\ DbShape(db') /\ db'.work = d.work /\ line' = Back(end, ctx)
           /\ cli'.quiet = c.quiet /\ cli'.force = c.force
<1>1. line' = Back(end, ctx)
  BY DEF EndOfLine
<1>2. CASE c.changeset
  BY <1>1, <1>2 DEF EndOfLine
<1>3. CASE ~c.changeset
  <2>1. cli' = [ClearCache(c) EXCEPT !.stable = FALSE] /\ db' = Thawed(d)
    BY <1>3 DEF EndOfLine
  <2>2. DOMAIN cli' = CliFields /\ cli'.ctx = c.ctx /\ cli'.before = c.before /\ cli'.quiet = c.quiet /\ cli'.force = c.force
    BY <2>1 DEF ClearCache, CliShape, CliFields
  <2>3. DOMAIN db' = DbFields /\ db'.work = d.work /\ db'.live = d.live
    BY <2>1 DEF Thawed, DbShape, DbFields
  <2>. QED
    BY <1>1, <2>2, <2>3 DEF CliShape, DbShape
<1>. QED
  BY <1>2, <1>3

LEMMA PerformedMild ==
    ASSUME Shape, NEW ctx, IsSequence(ctx), NEW known, NEW d, DbShape(d), Performed(ctx, known, d)
    PROVE  CliShape(cli') /\ DbShape(db') /\ SameMode /\ db'.work = d.work /\ Proceeds(ctx)
<1>1. CASE Len(line.todo) = 1
  <2>1. PICK c : c = [cli EXCEPT !.ctx = ctx, !.known = known]
    OBVIOUS
  <2>2. EndOfLine(c, d, "performed", ctx)
    BY <1>1, <2>1 DEF Performed
  <2>3. CliShape(c) /\ c.quiet = cli.quiet /\ c.force = cli.force
    BY <2>1 DEF Shape, CliShape, CliFields
  <2>. QED
    BY <1>1, <2>2, <2>3, EndOfLineMild DEF SameMode, Proceeds
<1>2. CASE Len(line.todo) # 1
  <2>1. line' = [line EXCEPT !.todo = Tail(@), !.ctx = ctx] /\ cli' = [cli EXCEPT !.known = known] /\ db' = d
    BY <1>2 DEF Performed
  <2>2. CliShape(cli') /\ SameMode
    BY <2>1 DEF Shape, CliShape, CliFields, SameMode
  <2>. QED
    BY <1>2, <2>1, <2>2 DEF Proceeds
<1>. QED
  BY <1>1, <1>2

LEMMA NotPerformedMild ==
    ASSUME Shape, NEW ctx, IsSequence(ctx), NEW known, NEW d, DbShape(d), NEW failed,
           NotPerformed(ctx, known, d, failed)
    PROVE  CliShape(cli') /\ DbShape(db') /\ SameMode /\ db'.work = d.work /\ GivesUp
<1>1. PICK c : c = [cli EXCEPT !.ctx = ctx, !.known = known, !.failed = @ \/ failed]
  OBVIOUS
<1>2. EndOfLine(c, d, "notPerformed", ctx)
  BY <1>1 DEF NotPerformed
<1>3. CliShape(c) /\ c.quiet = cli.quiet /\ c.force = cli.force
  BY <1>1 DEF Shape, CliShape, CliFields
<1>4. "notPerformed" # "performed"
  OBVIOUS
<1>. QED
  BY <1>2, <1>3, <1>4, EndOfLineMild DEF SameMode, GivesUp

LEMMA ThrowMild ==
    ASSUME Shape, NEW known, Throw(known)
    PROVE  CliShape(cli') /\ DbShape(db') /\ SameMode /\ db'.work = db.work /\ GivesUp
<1>1. line' = Back("error", line.ctx) /\ db' = db
  BY DEF Throw
<1>2. GivesUp
  BY <1>1 DEF GivesUp, Shape, LineShape
<1>3. CASE line.file = "batch"
  <2>1. cli' = [cli EXCEPT !.failed = TRUE, !.known = known]
    BY <1>3 DEF Throw
  <2>2. DOMAIN cli' = CliFields /\ cli'.ctx = cli.ctx /\ cli'.before = cli.before /\ SameMode
    BY <2>1 DEF Shape, CliShape, CliFields, SameMode
  <2>. QED
    BY <1>1, <1>2, <2>2 DEF Shape, CliShape
<1>4. CASE line.file = "execute"
  <2>1. cli' = [ClearCache(cli) EXCEPT !.failed = TRUE, !.ctx = <<>>]
    BY <1>4 DEF Throw
  <2>2. DOMAIN cli' = CliFields /\ cli'.ctx = <<>> /\ cli'.before = cli.before /\ SameMode
    BY <2>1 DEF ClearCache, Shape, CliShape, CliFields, SameMode
  <2>. QED
    BY <1>1, <1>2, <2>2, EmptySequence DEF Shape, CliShape
<1>5. CASE line.file \notin {"batch", "execute"}
  <2>1. cli' = [ClearCache(cli) EXCEPT !.ctx = cli.before]
    BY <1>5 DEF Throw
  <2>2. DOMAIN cli' = CliFields /\ cli'.ctx = cli.before /\ cli'.before = cli.before /\ SameMode
    BY <2>1 DEF ClearCache, Shape, CliShape, CliFields, SameMode
  <2>. QED
    BY <1>1, <1>2, <2>2 DEF Shape, CliShape
<1>. QED
  BY <1>1, <1>2, <1>3, <1>4, <1>5 DEF Shape

LEMMA ErrorMild ==
    ASSUME Shape, NEW known, Error(known) \/ Faulty(known)
    PROVE  Mild /\ db'.work = db.work /\ GivesUp
<1>1. Throw(known)
  BY DEF Error, Faulty
<1>2. SurePast
  BY DEF Error, Faulty, Shape, PastFields, SurePast
<1>. QED
  BY <1>1, <1>2, ThrowMild DEF Mild

-----------------------------------------------------------------------------
(* One lemma for each action of the second pass.                           *)
LEMMA AppliedMild ==
    ASSUME Shape, NEW ctx, IsSequence(ctx), NEW known, NEW d, DbShape(d), Performed(ctx, known, d), SurePast,
           Stepped(line.ctx, Signal, ctx),
           Signal[1] \in {"delete", "rename"} \/ db.work.objs \subseteq d.work.objs
    PROVE  Applied
BY PerformedMild DEF Applied, Mild

LEMMA RefusedMild ==
    ASSUME Shape, NEW ctx, IsSequence(ctx), NEW known, NEW d, DbShape(d), NEW failed,
           NotPerformed(ctx, known, d, failed), SurePast,
           Signal[1] \in {"delete", "rename"} \/ db.work.objs \subseteq d.work.objs
    PROVE  Applied
BY NotPerformedMild DEF Applied, Mild

LEMMA ThrownMild == ASSUME Shape, NEW known, Error(known) \/ Faulty(known) PROVE Applied
BY ErrorMild DEF Applied

LEMMA SamePast == ASSUME Shape, UNCHANGED past PROVE SurePast
BY DEF Shape, SurePast

LEMMA ApplyLeftOk == Shape /\ ApplyLeft => Applied
<1>. SUFFICES ASSUME Shape, ApplyLeft PROVE Applied
  OBVIOUS
<1>1. PICK ctx, known : ctx = Front(line.ctx) /\ known = cli.known
  OBVIOUS
<1>2. Performed(ctx, known, db) /\ UNCHANGED past /\ Signal[1] = "left"
  BY <1>1 DEF ApplyLeft, Applying
<1>3. IsSequence(ctx)
  <2>1. IsSequence(line.ctx)
    BY DEF Shape, LineShape
  <2>2. CASE line.ctx = <<>>
    <3>1. Front(<<>>) = <<>>
      BY DEF Front
    <3>. QED
      BY <1>1, <2>2, <3>1, EmptySequence
  <2>3. CASE line.ctx # <<>>
    <3>1. IsSequence(Front(line.ctx))
      BY <2>1, <2>3, FrontOfSequence
    <3>. QED
      BY <1>1, <3>1
  <2>. QED
    BY <2>2, <2>3
<1>4. Stepped(line.ctx, Signal, ctx)
  BY <1>1, <1>2 DEF Stepped
<1>5. DbShape(db) /\ SurePast
  BY <1>2, SamePast DEF Shape
<1>. QED
  BY <1>2, <1>3, <1>4, <1>5, AppliedMild

LEMMA ApplyFilterOk == Shape /\ ApplyFilter => Applied
<1>. SUFFICES ASSUME Shape, ApplyFilter PROVE Applied
  OBVIOUS
<1>1. UNCHANGED past /\ Signal[1] = "filter"
  BY DEF ApplyFilter, Applying
<1>2. PICK ctx, known : ctx = Narrowed /\ known = Told(cli.known, Matched(Narrowed), TRUE)
  OBVIOUS
<1>3. PICK c, k : c = line.ctx /\ k = cli.known
  OBVIOUS
<1>4. Performed(ctx, known, db) \/ NotPerformed(c, k, db, FALSE)
  BY <1>2, <1>3 DEF ApplyFilter
<1>5. IsSequence(c) /\ IsSequence(ctx)
  BY <1>2, <1>3, AppendedSequence DEF Shape, LineShape, Narrowed
<1>6. Stepped(line.ctx, Signal, ctx)
  BY <1>1, <1>2 DEF Stepped, Narrowed
<1>7. DbShape(db) /\ SurePast
  BY <1>1, SamePast DEF Shape
<1>8. CASE Performed(ctx, known, db)
  BY <1>5, <1>6, <1>7, <1>8, AppliedMild
<1>9. CASE NotPerformed(c, k, db, FALSE)
  BY <1>5, <1>7, <1>9, RefusedMild
<1>. QED
  BY <1>4, <1>8, <1>9

LEMMA ApplyShowOk == Shape /\ ApplyShow => Applied
<1>. SUFFICES ASSUME Shape, ApplyShow PROVE Applied
  OBVIOUS
<1>1. PICK S, ctx, known, k :
         /\ S = Expand(line.ctx) /\ ctx = line.ctx /\ k = cli.known
         /\ known = Told(cli.known, Nested(S) \cup Connected(S), TRUE)
  OBVIOUS
<1>2. Signal[1] = "show" /\ \/ Performed(ctx, known, db) /\ UNCHANGED past
                            \/ Error(k) \/ Faulty(k)
  BY <1>1 DEF ApplyShow, Applying
<1>3. IsSequence(ctx) /\ DbShape(db)
  BY <1>1 DEF Shape, LineShape
<1>4. Stepped(line.ctx, Signal, ctx)
  BY <1>1, <1>2 DEF Stepped
<1>5. CASE Performed(ctx, known, db) /\ UNCHANGED past
  BY <1>3, <1>4, <1>5, AppliedMild, SamePast
<1>6. CASE Error(k) \/ Faulty(k)
  BY <1>6, ThrownMild
<1>. QED
  BY <1>2, <1>5, <1>6

\* What creating and restoring do to the data: nothing goes.
LEMMA MadeShape == ASSUME Shape, NEW S PROVE DbShape(Made(S)) /\ db.work.objs \subseteq Made(S).work.objs
<1>1. PICK T : T = {Called(o) : o \in ToCreate(S)}
  OBVIOUS
<1>2. Made(S) = [db EXCEPT !.work = [db.work EXCEPT !.objs = @ \cup T]]
  BY <1>1 DEF Made, Working, With
<1>3. DbShape(db)
  BY DEF Shape
<1>. QED
  BY <1>2, <1>3 DEF DbShape, DbFields, ViewFields

LEMMA RestoredShape == ASSUME Shape, NEW S PROVE DbShape(RestoredIn(S)) /\ db.work.objs \subseteq RestoredIn(S).work.objs
<1>1. DbShape(db)
  BY DEF Shape
<1>2. PICK v : v = Both(db.work, Only(db.gone, S))
  OBVIOUS
<1>3. DOMAIN v = ViewFields /\ db.work.objs \subseteq v.objs
  BY <1>2 DEF Both, ViewFields
<1>4. Undeleted(S) = [[db EXCEPT !.work = v] EXCEPT !.gone = Without(@, S)]
  BY <1>2 DEF Undeleted, Working
<1>5. DbShape(Undeleted(S)) /\ Undeleted(S).work = v
  BY <1>1, <1>3, <1>4 DEF DbShape, DbFields
<1>. QED
  BY <1>1, <1>3, <1>5 DEF RestoredIn

LEMMA NotRestoredOk == ASSUME Shape, NEW ctx, NEW S, NotRestored(ctx, S) PROVE Applied
<1>1. PICK c, known, k : c = line.ctx /\ known = Remembered(S) /\ k = cli.known
  OBVIOUS
<1>2. IsSequence(c) /\ DbShape(db)
  BY <1>1 DEF Shape, LineShape
<1>3. SurePast
  BY SamePast DEF NotRestored, Shape, SurePast, PastFields
<1>4. NotPerformed(c, known, db, FALSE) \/ NotPerformed(c, k, db, FALSE)
  BY <1>1 DEF NotRestored
<1>. QED
  BY <1>2, <1>3, <1>4, RefusedMild

LEMMA ApplyCreateOk == Shape /\ ApplyCreate => Applied
<1>. SUFFICES ASSUME Shape, ApplyCreate PROVE Applied
  OBVIOUS
<1>1. PICK ctx : ctx = Append(line.ctx, <<"object", Signal[3], Signal[4]>>)
  OBVIOUS
<1>2. PICK S : S = Expand(ctx)
  OBVIOUS
<1>3. PICK new : new = Append(line.ctx, NewItem(S))
  OBVIOUS
<1>4. PICK c, looked, known, again, old :
         /\ c = line.ctx /\ looked = Looked(S) /\ known = NowKnown(S) /\ again = KnownAgain(S) /\ old = Remembered(S)
  OBVIOUS
<1>5. PICK made, restored : made = Made(S) /\ restored = RestoredIn(S)
  OBVIOUS
<1>6. Signal[1] \in {"create", "enter"}
  BY DEF ApplyCreate, Applying
<1>7. \/ Performed(ctx, looked, db) /\ UNCHANGED past
      \/ /\ past' = [past EXCEPT !.taint = @ \/ Untold(S)]
         /\ Performed(new, known, made) \/ NotPerformed(c, known, made, TRUE)
      \/ NotRestored(ctx, S)
      \/ IsRestored(ctx, S) /\ Performed(ctx, again, restored)
      \/ NotPerformed(c, old, db, TRUE) /\ past' = [past EXCEPT !.taint = @ \/ Cardinality(S) # 1]
      \/ Error(old) \/ Faulty(old)
  BY <1>1, <1>2, <1>3, <1>4, <1>5 DEF ApplyCreate
<1>8. IsSequence(c) /\ IsSequence(ctx) /\ IsSequence(new)
  BY <1>1, <1>3, <1>4, AppendedSequence DEF Shape, LineShape
<1>9. Stepped(line.ctx, Signal, ctx)
  BY <1>1, <1>6 DEF Stepped
<1>10. Stepped(line.ctx, Signal, new)
  <2>1. \/ Signal[4] = NoName /\ \E x : NewItem(S) = <<"object", Signal[3], x>>
        \/ NewItem(S) = <<"object", Signal[3], Signal[4]>>
    BY DEF NewItem
  <2>. QED
    BY <1>3, <1>6, <2>1 DEF Stepped
<1>11. /\ DbShape(db) /\ DbShape(made) /\ db.work.objs \subseteq made.work.objs
       /\ DbShape(restored) /\ db.work.objs \subseteq restored.work.objs
  BY <1>5, MadeShape, RestoredShape DEF Shape
<1>12. CASE Performed(ctx, looked, db) /\ UNCHANGED past
  BY <1>8, <1>9, <1>11, <1>12, AppliedMild, SamePast
<1>13. CASE /\ past' = [past EXCEPT !.taint = @ \/ Untold(S)]
            /\ Performed(new, known, made) \/ NotPerformed(c, known, made, TRUE)
  <2>1. SurePast
    BY <1>13 DEF Shape, SurePast, PastFields
  <2>2. CASE Performed(new, known, made)
    BY <1>8, <1>10, <1>11, <2>1, <2>2, AppliedMild
  <2>3. CASE NotPerformed(c, known, made, TRUE)
    BY <1>8, <1>11, <2>1, <2>3, RefusedMild
  <2>. QED
    BY <1>13, <2>2, <2>3
<1>14. CASE NotRestored(ctx, S)
  BY <1>14, NotRestoredOk
<1>15. CASE IsRestored(ctx, S) /\ Performed(ctx, again, restored)
  <2>1. SurePast
    BY <1>15 DEF IsRestored, Agreed, Shape, SurePast, PastFields
  <2>. QED
    BY <1>8, <1>9, <1>11, <1>15, <2>1, AppliedMild
<1>16. CASE NotPerformed(c, old, db, TRUE) /\ past' = [past EXCEPT !.taint = @ \/ Cardinality(S) # 1]
  <2>1. SurePast
    BY <1>16 DEF Shape, SurePast, PastFields
  <2>. QED
    BY <1>8, <1>11, <1>16, <2>1, RefusedMild
<1>17. CASE Error(old) \/ Faulty(old)
  BY <1>17, ThrownMild
<1>. QED
  BY <1>7, <1>12, <1>13, <1>14, <1>15, <1>16, <1>17

LEMMA ApplyContainedOk == Shape /\ ApplyContained => Applied
<1>. SUFFICES ASSUME Shape, ApplyContained PROVE Applied
  OBVIOUS
<1>1. PICK S : S = Targets(line.ctx, Signal[3])
  OBVIOUS
<1>2. PICK known, again, old : known = NowKnown(S) /\ again = KnownAgain(S) /\ old = Remembered(S)
  OBVIOUS
<1>3. PICK made, restored : made = Made(S) /\ restored = RestoredIn(S)
  OBVIOUS
<1>4. \/ cli' = [cli EXCEPT !.known = known] /\ db' = made /\ UNCHANGED line /\ past' = [past EXCEPT !.taint = @ \/ Untold(S)]
      \/ NotRestored(line.ctx, S)
      \/ IsRestored(line.ctx, S) /\ cli' = [cli EXCEPT !.known = again] /\ db' = restored /\ UNCHANGED line
      \/ Error(old) \/ Faulty(old)
  BY <1>1, <1>2, <1>3 DEF ApplyContained
<1>5. /\ DbShape(made) /\ db.work.objs \subseteq made.work.objs
      /\ DbShape(restored) /\ db.work.objs \subseteq restored.work.objs
  BY <1>3, MadeShape, RestoredShape
<1>6. ASSUME NEW k, cli' = [cli EXCEPT !.known = k] PROVE CliShape(cli') /\ SameMode
  BY <1>6 DEF Shape, CliShape, CliFields, SameMode
<1>7. CASE cli' = [cli EXCEPT !.known = known] /\ db' = made /\ UNCHANGED line /\ past' = [past EXCEPT !.taint = @ \/ Untold(S)]
  <2>1. SurePast
    BY <1>7 DEF Shape, SurePast, PastFields
  <2>. QED
    BY <1>5, <1>6, <1>7, <2>1 DEF Applied, Mild
<1>8. CASE NotRestored(line.ctx, S)
  <2>1. PICK c : c = line.ctx
    OBVIOUS
  <2>. QED
    BY <1>8, <2>1, NotRestoredOk
<1>9. CASE IsRestored(line.ctx, S) /\ cli' = [cli EXCEPT !.known = again] /\ db' = restored /\ UNCHANGED line
  <2>1. SurePast
    BY <1>9 DEF IsRestored, Agreed, Shape, SurePast, PastFields
  <2>. QED
    BY <1>5, <1>6, <1>9, <2>1 DEF Applied, Mild
<1>10. CASE Error(old) \/ Faulty(old)
  BY <1>10, ThrownMild
<1>. QED
  BY <1>4, <1>7, <1>8, <1>9, <1>10

LEMMA ApplyAttributeOk == Shape /\ ApplyAttribute => Applied
<1>. SUFFICES ASSUME Shape, ApplyAttribute PROVE Applied
  OBVIOUS
<1>1. PICK S, writes : S = Changed(line.ctx, Signal[3]) /\ writes = (Signal[1] \in {"set", "add"})
  OBVIOUS
<1>2. PICK ctx, known, d : ctx = line.ctx /\ known = cli.known /\ d = Written(S, Signal[4][1], writes)
  OBVIOUS
<1>3. /\ Signal[1] \in {"set", "add", "no", "remove"}
      /\ \/ Performed(ctx, known, d) /\ UNCHANGED past
         \/ Error(known) \/ Faulty(known)
  BY <1>1, <1>2 DEF ApplyAttribute, Applying
<1>4. DbShape(d) /\ d.work.objs = db.work.objs
  <2>1. PICK T : d = [db EXCEPT !.work = [db.work EXCEPT !.set = T]]
    <3>1. PICK new : new = {<<o, Signal[4][1]>> : o \in S}
      OBVIOUS
    <3>2. d = [db EXCEPT !.work = [db.work EXCEPT !.set = IF writes THEN @ \cup new ELSE @ \ new]]
      BY <1>2, <3>1 DEF Written, Working
    <3>. QED
      BY <3>2
  <2>2. DbShape(db)
    BY DEF Shape
  <2>. QED
    BY <2>1, <2>2 DEF DbShape, DbFields, ViewFields
<1>5. IsSequence(ctx)
  BY <1>2 DEF Shape, LineShape
<1>6. Stepped(line.ctx, Signal, ctx)
  BY <1>2, <1>3 DEF Stepped
<1>7. CASE Performed(ctx, known, d) /\ UNCHANGED past
  BY <1>4, <1>5, <1>6, <1>7, AppliedMild, SamePast
<1>8. CASE Error(known) \/ Faulty(known)
  BY <1>8, ThrownMild
<1>. QED
  BY <1>3, <1>7, <1>8

LEMMA ApplyDeleteOk == Shape /\ ApplyDelete => Applied
<1>. SUFFICES ASSUME Shape, ApplyDelete PROVE Applied
  OBVIOUS
<1>1. PICK S : S = Expand(line.ctx)
  OBVIOUS
<1>2. PICK N : N = Nested(S)
  OBVIOUS
<1>3. PICK gone : gone = Removing(S \cup N)
  OBVIOUS
<1>4. PICK known, told : known = Told(Told(Looked(S), N, TRUE), gone, FALSE) /\ told = Told(cli.known, N, TRUE)
  OBVIOUS
<1>5. PICK ctx, back, d : ctx = line.ctx /\ back = line.backup /\ d = Deleted(gone)
  OBVIOUS
<1>6. /\ Signal[1] = "delete"
      /\ \/ Performed(ctx, known, d) /\ UNCHANGED past
         \/ NotPerformed(back, told, db, FALSE) /\ UNCHANGED past
         \/ Error(known) \/ Faulty(known)
  BY <1>1, <1>2, <1>3, <1>4, <1>5 DEF ApplyDelete, Applying
<1>7. DbShape(db) /\ DbShape(d)
  <2>1. PICK v : v = Without(db.work, gone)
    OBVIOUS
  <2>2. DOMAIN v = ViewFields
    BY <2>1 DEF Without, ViewFields
  <2>3. d = [[db EXCEPT !.work = v] EXCEPT !.gone = Both(@, Only(db.work, gone))]
    BY <1>5, <2>1 DEF Deleted, Working
  <2>4. DbShape(db)
    BY DEF Shape
  <2>. QED
    BY <2>2, <2>3, <2>4 DEF DbShape, DbFields
<1>8. IsSequence(ctx) /\ IsSequence(back)
  BY <1>5 DEF Shape, LineShape
<1>9. Stepped(line.ctx, Signal, ctx)
  BY <1>5, <1>6 DEF Stepped
<1>10. CASE Performed(ctx, known, d) /\ UNCHANGED past
  BY <1>6, <1>7, <1>8, <1>9, <1>10, AppliedMild, SamePast
<1>11. CASE NotPerformed(back, told, db, FALSE) /\ UNCHANGED past
  BY <1>7, <1>8, <1>11, RefusedMild, SamePast
<1>12. CASE Error(known) \/ Faulty(known)
  BY <1>12, ThrownMild
<1>. QED
  BY <1>6, <1>10, <1>11, <1>12

LEMMA ApplyRenameOk == Shape /\ ApplyRename => Applied
<1>. SUFFICES ASSUME Shape, ApplyRename PROVE Applied
  OBVIOUS
<1>1. PICK S : S = Expand(line.ctx)
  OBVIOUS
<1>2. PICK T : /\ T = S \/ T = S \cup Connected(S)
               /\ LET now == KnownRenamed(T, Signal[4])
                  IN  \/ /\ CanRename(db.work, T, Signal[4])
                         /\ Performed(line.ctx, now, Working(Renamed(db.work, T, Signal[4])))
                         /\ past' = [past EXCEPT !.taint = @ \/ Nested(T) # {}]
                      \/ ~CanRename(db.work, T, Signal[4]) /\ Error(now)
                      \/ Faulty(now)
  BY <1>1 DEF ApplyRename
<1>3. PICK ctx, known, d :
         ctx = line.ctx /\ known = KnownRenamed(T, Signal[4]) /\ d = Working(Renamed(db.work, T, Signal[4]))
  OBVIOUS
<1>4. /\ Signal[1] = "rename"
      /\ \/ Performed(ctx, known, d) /\ past' = [past EXCEPT !.taint = @ \/ Nested(T) # {}]
         \/ Error(known) \/ Faulty(known)
  BY <1>2, <1>3 DEF ApplyRename, Applying
<1>5. DbShape(d)
  <2>1. PICK v : v = Renamed(db.work, T, Signal[4])
    OBVIOUS
  <2>2. DOMAIN v = ViewFields
    BY <2>1 DEF Renamed, ViewFields
  <2>3. d = [db EXCEPT !.work = v]
    BY <1>3, <2>1 DEF Working
  <2>4. DbShape(db)
    BY DEF Shape
  <2>. QED
    BY <2>2, <2>3, <2>4 DEF DbShape, DbFields
<1>6. IsSequence(ctx) /\ Stepped(line.ctx, Signal, ctx)
  BY <1>3, <1>4 DEF Shape, LineShape, Stepped
<1>7. CASE Performed(ctx, known, d) /\ past' = [past EXCEPT !.taint = @ \/ Nested(T) # {}]
  <2>1. SurePast
    BY <1>7 DEF Shape, SurePast, PastFields
  <2>. QED
    BY <1>4, <1>5, <1>6, <1>7, <2>1, AppliedMild
<1>8. CASE Error(known) \/ Faulty(known)
  BY <1>8, ThrownMild
<1>. QED
  BY <1>4, <1>7, <1>8

LEMMA ApplyOk == Shape /\ Apply => Applied
BY ApplyLeftOk, ApplyFilterOk, ApplyShowOk, ApplyCreateOk, ApplyContainedOk, ApplyAttributeOk, ApplyDeleteOk,
   ApplyRenameOk DEF Apply

-----------------------------------------------------------------------------
(* The first pass.                                                         *)
Advances ==
    \E auto :
        line' = IF Len(line.todo) = 1 THEN [line EXCEPT !.phase = "apply", !.todo = line.sig, !.auto = auto]
                ELSE [line EXCEPT !.todo = Tail(@), !.auto = auto]
Heard ==
    /\ Mild
    /\ \/ GivesUp
       \/ Advances /\ (Signal[1] = "delete" => past'.sure \/ cli.force \/ InFile \/ past.unlocked)
       \/ line.todo = <<>> /\ line' = Back("performed", line.ctx)

LEMMA ConfirmedMild ==
    ASSUME Shape, NEW known, NEW auto, Confirmed(known, auto)
    PROVE  CliShape(cli') /\ DbShape(db') /\ SameMode /\ Advances
<1>1. cli' = [cli EXCEPT !.known = known] /\ db' = db
  BY DEF Confirmed
<1>2. Advances
  BY DEF Confirmed, Advances
<1>. QED
  BY <1>1, <1>2 DEF Shape, CliShape, CliFields, SameMode

LEMMA RefusedHeard ==
    ASSUME Shape, NEW known, NEW failed, Refused(known, failed)
    PROVE  Heard
<1>1. PICK c, ctx : c = [cli EXCEPT !.ctx = line.ctx, !.known = known, !.failed = @ \/ failed] /\ ctx = line.ctx
  OBVIOUS
<1>2. EndOfLine(c, db, "refused", ctx) /\ UNCHANGED past
  BY <1>1 DEF Refused
<1>3. CliShape(c) /\ c.quiet = cli.quiet /\ c.force = cli.force /\ IsSequence(ctx) /\ DbShape(db)
  BY <1>1 DEF Shape, CliShape, CliFields, LineShape
<1>4. "refused" # "performed"
  OBVIOUS
<1>. QED
  BY <1>2, <1>3, <1>4, EndOfLineMild, SamePast DEF SameMode, GivesUp, Heard, Mild

LEMMA AgreedSure == ASSUME Shape, NEW S, Agreed(S) PROVE SurePast
BY DEF Agreed, Shape, SurePast, PastFields

\* A signal that is no delete is confirmed.
LEMMA ConfirmedHeard ==
    ASSUME Shape, NEW known, NEW auto, Confirmed(known, auto), SurePast, Signal[1] # "delete"
    PROVE  Heard
BY ConfirmedMild DEF Heard, Mild

LEMMA ConfirmOk == Shape /\ Quiet /\ Confirm => Heard \/ Crashes
<1>. SUFFICES ASSUME Shape, Quiet, Confirm PROVE Heard \/ Crashes
  OBVIOUS
<1>1. PICK known, auto, ctx : known = cli.known /\ auto = line.auto /\ ctx = line.ctx
  OBVIOUS
<1>2. ASSUME ConfirmReading \/ ConfirmLeft \/ ConfirmRename PROVE Heard
  <2>1. /\ Signal[1] # "delete"
        /\ \/ Confirmed(known, auto) /\ UNCHANGED past
           \/ Confirmed(known, FALSE) /\ UNCHANGED past
           \/ Refused(known, TRUE)
    BY <1>1, <1>2 DEF ConfirmReading, ConfirmLeft, ConfirmRename, Confirming
  <2>. QED
    BY <2>1, ConfirmedHeard, RefusedHeard, SamePast
<1>3. ASSUME ConfirmCreate PROVE Heard
  <2>1. PICK S : S = Expand(Signal[2])
    OBVIOUS
  <2>2. /\ Signal[1] # "delete"
        /\ \/ Confirmed(known, auto) /\ Agreed(S)
           \/ Refused(known, TRUE)
    BY <1>1, <1>3, <2>1 DEF ConfirmCreate, Confirming
  <2>. QED
    BY <2>2, ConfirmedHeard, RefusedHeard, AgreedSure
<1>4. ASSUME ConfirmEntered PROVE Heard \/ Crashes
  <2>1. PICK S : S = IF Named(Signal[2]) THEN Expand(Signal[2]) ELSE {}
    OBVIOUS
  <2>2. PICK k, T : k = Looked(S) /\ T = Expand(Signal[2])
    OBVIOUS
  <2>3. /\ Signal[1] # "delete"
        /\ \/ Confirmed(known, TRUE) /\ UNCHANGED past
           \/ Confirmed(known, FALSE) /\ UNCHANGED past
           \/ Confirmed(k, FALSE) /\ UNCHANGED past
           \/ Confirmed(k, TRUE) /\ Agreed(T)
           \/ Refused(k, TRUE) \/ Refused(k, FALSE) \/ Crashes
    BY <1>1, <1>4, <2>1, <2>2 DEF ConfirmEntered, Confirming
  <2>. QED
    BY <2>3, ConfirmedHeard, RefusedHeard, AgreedSure, SamePast
<1>5. ASSUME ConfirmSet PROVE Heard \/ Crashes
  <2>1. PICK S : S = Targets(Signal[2], Signal[3])
    OBVIOUS
  <2>2. PICK k : k = Looked(IF Named(Signal[2]) THEN S ELSE {})
    OBVIOUS
  <2>3. /\ Signal[1] # "delete"
        /\ \/ Confirmed(known, auto) /\ UNCHANGED past
           \/ Confirmed(k, auto) /\ UNCHANGED past
           \/ Confirmed(k, auto) /\ Agreed(S)
           \/ Refused(known, TRUE) \/ Refused(k, FALSE) \/ Crashes
    BY <1>1, <1>5, <2>1, <2>2 DEF ConfirmSet, Confirming
  <2>. QED
    BY <2>3, ConfirmedHeard, RefusedHeard, AgreedSure, SamePast
<1>6. ASSUME ConfirmRemove PROVE Heard
  <2>1. PICK S : S = IF Signal[3] = LastKind(Signal[2]) \/ ~Named(Signal[2]) THEN {} ELSE Targets(Signal[2], Signal[3])
    OBVIOUS
  <2>2. PICK k, j : k = Looked(S) /\ j = IF cli.changeset THEN Looked(S) ELSE cli.known
    OBVIOUS
  <2>3. /\ Signal[1] # "delete"
        /\ \/ Confirmed(k, auto) /\ UNCHANGED past
           \/ Refused(j, TRUE)
    BY <1>1, <1>6, <2>1, <2>2 DEF ConfirmRemove, Confirming
  <2>. QED
    BY <2>3, ConfirmedHeard, RefusedHeard, SamePast
<1>7. ASSUME ConfirmDelete PROVE Heard
  <2>1. \/ Refused(known, TRUE) \/ Refused(known, FALSE)
        \/ ~Asks /\ Confirmed(known, auto) /\ UNCHANGED past
        \/ Confirmed(known, auto) /\ past' = [past EXCEPT !.sure = TRUE]
    BY <1>1, <1>7 DEF ConfirmDelete
  <2>2. CASE ~Asks /\ Confirmed(known, auto) /\ UNCHANGED past
    <3>1. cli.force \/ InFile \/ past.unlocked
      BY <2>2 DEF Asks, Quiet
    <3>. QED
      BY <2>2, <3>1, ConfirmedMild, SamePast DEF Heard, Mild
  <2>3. CASE Confirmed(known, auto) /\ past' = [past EXCEPT !.sure = TRUE]
    <3>1. SurePast /\ past'.sure
      BY <2>3 DEF Shape, SurePast, PastFields
    <3>. QED
      BY <2>3, <3>1, ConfirmedMild DEF Heard, Mild
  <2>. QED
    BY <2>1, <2>2, <2>3, RefusedHeard
<1>8. ASSUME NoSignals PROVE Heard
  <2>1. PICK c : c = [cli EXCEPT !.ctx = line.ctx]
    OBVIOUS
  <2>2. EndOfLine(c, db, "performed", ctx) /\ UNCHANGED past /\ line.todo = <<>>
    BY <1>1, <1>8, <2>1 DEF NoSignals
  <2>3. CliShape(c) /\ c.quiet = cli.quiet /\ c.force = cli.force /\ DbShape(db)
    BY <2>1 DEF Shape, CliShape, CliFields, LineShape
  <2>4. /\ CliShape(cli') /\ DbShape(db') /\ line' = Back("performed", ctx)
        /\ cli'.quiet = c.quiet /\ cli'.force = c.force
    BY <2>2, <2>3, EndOfLineMild
  <2>. QED
    BY <1>1, <2>2, <2>3, <2>4, SamePast DEF SameMode, Heard, Mild
<1>. QED
  BY <1>2, <1>3, <1>4, <1>5, <1>6, <1>7, <1>8 DEF Confirm

-----------------------------------------------------------------------------
(* Every kind of step keeps the invariant.                                 *)
LEMMA BackShape ==
    ASSUME Shape, line.phase \in {"confirm", "apply"} \/ (InFile => line.rest # <<>>),
           NEW end, NEW ctx, IsSequence(ctx)
    PROVE  LET b == Back(end, ctx)
           IN  /\ LineShape(b) /\ b.phase \in {"prompt", "file"} /\ b.file = line.file /\ b.end = end
               /\ b.ctx = ctx /\ b.sig = line.sig /\ b.parsed = line.parsed /\ b.backup = line.backup
<1>. DEFINE b == Back(end, ctx)
            rest == IF InFile THEN Tail(line.rest) ELSE line.rest
<1>1. /\ DOMAIN b = LineFields /\ b.phase = IF InFile THEN "file" ELSE "prompt"
      /\ b.rest = rest /\ b.file = line.file /\ b.end = end
      /\ b.ctx = ctx /\ b.sig = line.sig /\ b.parsed = line.parsed /\ b.backup = line.backup
  BY DEF Back, NextLine, Shape, LineShape, LineFields
<1>. HIDE DEF b
<1>2. IsSequence(rest) /\ \A i \in 1 .. Len(rest) : WellMade(rest[i])
  <2>1. IsSequence(line.rest) /\ \A i \in 1 .. Len(line.rest) : WellMade(line.rest[i])
    BY DEF Shape, LineShape
  <2>2. CASE InFile
    <3>1. line.rest # <<>>
      BY <2>2 DEF Shape, LineShape, InFile
    <3>2. /\ Len(line.rest) \in Nat \ {0} /\ IsSequence(Tail(line.rest)) /\ Len(Tail(line.rest)) = Len(line.rest) - 1
          /\ \A i \in 1 .. (Len(line.rest) - 1) : Tail(line.rest)[i] = line.rest[i + 1]
      BY <2>1, <3>1, TailOfSequence
    <3>3. \A i \in 1 .. (Len(line.rest) - 1) : i + 1 \in 1 .. Len(line.rest)
      BY <3>2
    <3>4. \A i \in 1 .. (Len(line.rest) - 1) : WellMade(Tail(line.rest)[i])
      BY <2>1, <3>2, <3>3
    <3>. QED
      BY <2>2, <3>2, <3>4
  <2>3. CASE ~InFile
    BY <2>1, <2>3
  <2>. QED
    BY <2>2, <2>3
<1>. HIDE DEF rest
<1>3. IsSequence(b.backup) /\ IsSequence(b.sig) /\ IsSequence(b.parsed)
  BY <1>1 DEF Shape, LineShape
<1>4. (b.phase = "prompt" => b.file = "none") /\ b.phase \in {"prompt", "file"}
  BY <1>1 DEF InFile
<1>5. LineShape(b)
  BY <1>1, <1>2, <1>3, <1>4 DEF LineShape
<1>. QED
  BY <1>1, <1>4, <1>5 DEF b

LEMMA QuietStays == ASSUME Quiet, SurePast, SameMode, line'.file = line.file PROVE Quiet'
BY DEF Quiet, SurePast, SameMode, InFile

\* The line ends.
LEMMA BackKeeps ==
    ASSUME Shape, Quiet, Mild, line.phase \in {"confirm", "apply"}, NEW end, NEW ctx, IsSequence(ctx),
           line' = Back(end, ctx),
           end # "performed" \/ line.sig = <<>> \/ SameContext(ctx, line.parsed)
    PROVE  IInv'
<1>1. LET b == Back(end, ctx)
      IN  /\ LineShape(b) /\ b.phase \in {"prompt", "file"} /\ b.file = line.file /\ b.end = end
          /\ b.ctx = ctx /\ b.sig = line.sig /\ b.parsed = line.parsed /\ b.backup = line.backup
  BY BackShape
<1>2. /\ LineShape(line') /\ line'.phase \in {"prompt", "file"} /\ line'.file = line.file /\ line'.end = end
      /\ line'.ctx = ctx /\ line'.sig = line.sig /\ line'.parsed = line.parsed
  BY <1>1
<1>3. Shape'
  BY <1>2 DEF Shape, Mild, SurePast
<1>4. Quiet'
  BY <1>2, QuietStays DEF Mild
<1>5. Confirms' /\ Applies'
  BY <1>2 DEF Confirms, Applies
<1>6. ContextsAgree'
  BY <1>2 DEF ContextsAgree
<1>. QED
  BY <1>3, <1>4, <1>5, <1>6 DEF IInv

LEMMA GivesUpKeeps ==
    ASSUME Shape, Quiet, Mild, line.phase \in {"confirm", "apply"}, GivesUp
    PROVE  IInv'
BY BackKeeps DEF GivesUp

-----------------------------------------------------------------------------
(* The two contexts go together.                                           *)
LEMMA AppendedSame ==
    ASSUME NEW b, NEW c, IsSequence(b), IsSequence(c), SameContext(b, c), NEW x, NEW y,
           x = y \/ (~IsFilter(y) /\ y[3] = NoName /\ SubSeq(x, 1, 2) = SubSeq(y, 1, 2))
    PROVE  IsSequence(Append(b, x)) /\ SameContext(Append(b, x), Append(c, y))
<1>1. Len(b) = Len(c) /\ Len(b) \in Nat /\ DOMAIN b = 1 .. Len(b) /\ DOMAIN c = 1 .. Len(b)
  BY SequenceShape DEF SameContext
<1>2. /\ IsSequence(Append(b, x)) /\ Len(Append(b, x)) = Len(b) + 1 /\ Append(b, x)[Len(b) + 1] = x
      /\ \A i \in 1 .. Len(b) : Append(b, x)[i] = b[i]
  BY ONLY <1>1, AppendedSequence, IsSequence(b)
<1>3. /\ IsSequence(Append(c, y)) /\ Len(Append(c, y)) = Len(b) + 1 /\ Append(c, y)[Len(b) + 1] = y
      /\ \A i \in 1 .. Len(b) : Append(c, y)[i] = c[i]
  BY ONLY <1>1, AppendedSequence, IsSequence(c)
<1>4. \A i \in 1 .. (Len(b) + 1) : i \in 1 .. Len(b) \/ i = Len(b) + 1
  BY <1>1
<1>. QED
  BY <1>1, <1>2, <1>3, <1>4 DEF SameContext

LEMMA SteppedSame ==
    ASSUME NEW b, NEW c, IsSequence(b), IsSequence(c), SameContext(b, c),
           NEW s, NEW d, After(c, s, d), NEW e, Stepped(b, s, e)
    PROVE  IsSequence(e) /\ SameContext(e, d)
<1>1. CASE s[1] = "left"
  <2>1. c # <<>> /\ d = Front(c) /\ e = Front(b)
    BY <1>1 DEF After, Stepped
  <2>2. Len(b) = Len(c)
    BY DEF SameContext
  <2>3. b # <<>>
    BY <2>1, <2>2, EmptySequence
  <2>4. /\ Len(b) \in Nat \ {0} /\ IsSequence(Front(b)) /\ Len(Front(b)) = Len(b) - 1
        /\ \A i \in 1 .. (Len(b) - 1) : Front(b)[i] = b[i]
    BY ONLY <2>3, IsSequence(b), FrontOfSequence
  <2>5. /\ IsSequence(Front(c)) /\ Len(Front(c)) = Len(c) - 1
        /\ \A i \in 1 .. (Len(c) - 1) : Front(c)[i] = c[i]
    BY ONLY <2>1, IsSequence(c), FrontOfSequence
  <2>6. \A i \in 1 .. (Len(b) - 1) : i \in 1 .. Len(b)
    BY <2>4
  <2>. QED
    BY <2>1, <2>2, <2>4, <2>5, <2>6 DEF SameContext
<1>2. CASE s[1] \in {"enter", "create"}
  <2>. DEFINE y == <<"object", s[3], s[4]>>
  <2>1. d = Append(c, y)
    BY <1>2 DEF After
  <2>2. PICK name : (name = s[4] \/ s[4] = NoName) /\ e = Append(b, <<"object", s[3], name>>)
    BY <1>2 DEF Stepped
  <2>. DEFINE x == <<"object", s[3], name>>
  <2>3. ~IsFilter(y) /\ y[3] = s[4] /\ SubSeq(x, 1, 2) = SubSeq(y, 1, 2)
    BY DEF IsFilter
  <2>4. x = y \/ s[4] = NoName
    BY <2>2
  <2>5. e = Append(b, x)
    BY <2>2
  <2>. HIDE DEF x, y
  <2>. QED
    BY <2>1, <2>3, <2>4, <2>5, AppendedSame
<1>3. CASE s[1] = "filter"
  <2>. DEFINE y == <<"filter", s[3], s[4]>>
  <2>1. d = Append(c, y) /\ e = Append(b, y)
    BY <1>3 DEF After, Stepped
  <2>. HIDE DEF y
  <2>. QED
    BY <2>1, AppendedSame
<1>4. CASE s[1] \notin {"left", "enter", "create", "filter"}
  BY <1>4 DEF After, Stepped
<1>. QED
  BY <1>1, <1>2, <1>3, <1>4

LEMMA SameContextSelf == ASSUME NEW c PROVE SameContext(c, c)
BY DEF SameContext

\* What is left of the signals, and the next of them.
LEMMA SignalsLeft ==
    ASSUME NEW sig, IsSequence(sig), NEW k \in Nat, k < Len(sig)
    PROVE  LET todo == SubSeq(sig, k + 1, Len(sig))
           IN  /\ todo # <<>> /\ Len(todo) = Len(sig) - k /\ Head(todo) = sig[k + 1]
               /\ Tail(todo) = SubSeq(sig, (k + 1) + 1, Len(sig))
<1>. DEFINE n == Len(sig)
            todo == SubSeq(sig, k + 1, n)
            less == SubSeq(sig, (k + 1) + 1, n)
<1>1. n \in Nat /\ k <= n /\ k + 1 \in Nat /\ k + 1 <= n /\ n <= Len(sig) /\ n - k # 0 /\ n - k \in Nat
  BY SequenceShape
<1>2. IsSequence(todo) /\ Len(todo) = n - k /\ \A i \in 1 .. (n - k) : todo[i] = sig[k + i]
  <2>. HIDE DEF n
  <2>. QED
    BY ONLY <1>1, IsSequence(sig), PartOfSequence, k \in Nat
<1>3. IsSequence(less) /\ Len(less) = n - (k + 1) /\ \A i \in 1 .. (n - (k + 1)) : less[i] = sig[(k + 1) + i]
  <2>. HIDE DEF n
  <2>. QED
    BY ONLY <1>1, IsSequence(sig), PartOfSequence
<1>. HIDE DEF n, todo, less
<1>4. todo # <<>>
  BY <1>1, <1>2, EmptySequence
<1>5. /\ Head(todo) = todo[1] /\ IsSequence(Tail(todo)) /\ Len(Tail(todo)) = Len(todo) - 1
      /\ \A i \in 1 .. (Len(todo) - 1) : Tail(todo)[i] = todo[i + 1]
  BY ONLY <1>2, <1>4, TailOfSequence
<1>6. 1 \in 1 .. (n - k) /\ (n - k) - 1 = n - (k + 1)
  BY <1>1
<1>7. \A i \in 1 .. (n - (k + 1)) : i + 1 \in 1 .. (n - k) /\ k + (i + 1) = (k + 1) + i
  BY <1>1
<1>8. \A i \in 1 .. (n - (k + 1)) : Tail(todo)[i] = less[i]
  BY <1>2, <1>3, <1>5, <1>6, <1>7
<1>9. Tail(todo) = less
  BY <1>2, <1>3, <1>5, <1>6, <1>8, SameSequences
<1>. QED
  BY <1>2, <1>4, <1>5, <1>6, <1>9 DEF n, todo, less

LEMMA AllSignals == ASSUME NEW sig, IsSequence(sig) PROVE SubSeq(sig, 0 + 1, Len(sig)) = sig
<1>1. Len(sig) \in Nat /\ Len(sig) <= Len(sig) /\ 0 + 1 = 1
  BY SequenceShape
<1>2. /\ IsSequence(SubSeq(sig, 1, Len(sig))) /\ Len(SubSeq(sig, 1, Len(sig))) = Len(sig)
      /\ \A i \in 1 .. Len(sig) : SubSeq(sig, 1, Len(sig))[i] = sig[i]
  BY <1>1, StartOfSequence
<1>. QED
  BY <1>1, <1>2, SameSequences

-----------------------------------------------------------------------------
\* Only the fields todo, ctx, auto and phase change within the passes.
LEMMA PermittedStays ==
    ASSUME SurePast, SameMode, line'.file = line.file, Permitted
    PROVE  Permitted'
BY DEF Permitted, SurePast, SameMode, InFile

LEMMA PassShape ==
    ASSUME Shape, Mild, NEW todo, NEW ctx, IsSequence(ctx), NEW auto, NEW phase, line.phase \in {"confirm", "apply"},
           phase \in {"confirm", "apply"},
           line' = [line EXCEPT !.todo = todo, !.ctx = ctx, !.auto = auto, !.phase = phase]
    PROVE  /\ Shape' /\ line'.file = line.file /\ line'.phase = phase /\ line'.todo = todo /\ line'.ctx = ctx
           /\ line'.sig = line.sig /\ line'.parsed = line.parsed /\ line'.backup = line.backup
<1>1. /\ DOMAIN line' = LineFields /\ line'.rest = line.rest
      /\ line'.file = line.file /\ line'.phase = phase /\ line'.todo = todo /\ line'.ctx = ctx
      /\ line'.sig = line.sig /\ line'.parsed = line.parsed /\ line'.backup = line.backup
  BY DEF Shape, LineShape, LineFields
<1>2. LineShape(line')
  BY <1>1 DEF Shape, LineShape
<1>. QED
  BY <1>1, <1>2 DEF Shape, Mild, SurePast

\* A confirmed signal.
LEMMA AdvancesKeeps ==
    ASSUME IInv, Mild, line.phase = "confirm", line.todo # <<>>, Advances,
           Signal[1] = "delete" => past'.sure \/ cli.force \/ InFile \/ past.unlocked
    PROVE  IInv'
<1>1. Shape /\ Quiet
  BY DEF IInv
<1>2. PICK k \in 0 .. Len(line.sig) : (k = 0 \/ k < Len(line.sig)) /\ Behind(k) /\ Allowed(k)
  BY DEF IInv, Confirms
<1>3. IsSequence(line.sig) /\ Len(line.sig) \in Nat
  BY <1>1, SequenceShape DEF Shape, LineShape
<1>4. k \in Nat /\ k < Len(line.sig) /\ k + 1 <= Len(line.sig) /\ k + 1 \in 0 .. Len(line.sig)
  <2>1. k # Len(line.sig)
    <3>1. SUFFICES ASSUME k = 0, Len(line.sig) = 0 PROVE FALSE
      BY <1>2, <1>3
    <3>2. line.sig = <<>>
      BY <1>3, <3>1, EmptySequence
    <3>3. line.todo = line.sig
      BY <1>2, <1>3, <3>1, AllSignals DEF Behind
    <3>. QED
      BY <3>2, <3>3
  <2>. QED
    BY <1>3, <2>1
<1>5. /\ Len(line.todo) = Len(line.sig) - k /\ Signal = line.sig[k + 1]
      /\ Tail(line.todo) = SubSeq(line.sig, (k + 1) + 1, Len(line.sig))
  BY <1>2, <1>3, <1>4, SignalsLeft DEF Behind, Signal
<1>6. PICK auto :
         line' = IF Len(line.todo) = 1 THEN [line EXCEPT !.phase = "apply", !.todo = line.sig, !.auto = auto]
                 ELSE [line EXCEPT !.todo = Tail(@), !.auto = auto]
  BY DEF Advances
<1>7. PICK ctx, todo, phase :
         /\ ctx = line.ctx
         /\ todo = IF Len(line.todo) = 1 THEN line.sig ELSE Tail(line.todo)
         /\ phase = IF Len(line.todo) = 1 THEN "apply" ELSE "confirm"
  OBVIOUS
<1>8. line' = [line EXCEPT !.todo = todo, !.ctx = ctx, !.auto = auto, !.phase = phase]
  BY <1>1, <1>6, <1>7 DEF Shape, LineShape, LineFields
<1>9. /\ Shape' /\ line'.file = line.file /\ line'.phase = phase /\ line'.todo = todo /\ line'.ctx = ctx
      /\ line'.sig = line.sig /\ line'.parsed = line.parsed /\ line'.backup = line.backup
  <2>1. IsSequence(ctx) /\ phase \in {"confirm", "apply"}
    BY <1>1, <1>7 DEF Shape, LineShape
  <2>2. Shape /\ Mild /\ line.phase \in {"confirm", "apply"}
    BY <1>1
  <2>. QED
    BY ONLY <1>8, <2>1, <2>2, PassShape, Zenon
<1>10. Quiet'
  BY <1>1, <1>9, QuietStays DEF Mild
<1>11. Permitted => Permitted'
  BY <1>9, PermittedStays DEF Mild
<1>12. ASSUME NEW i \in 1 .. (k + 1), line.sig[i][1] = "delete" PROVE Permitted'
  <2>1. CASE i \in 1 .. k
    BY <1>2, <1>11, <1>12, <2>1 DEF Allowed
  <2>2. CASE i = k + 1
    <3>1. past'.sure \/ cli.force \/ InFile \/ past.unlocked
      BY <1>5, <1>12, <2>2
    <3>. QED
      BY <1>9, <3>1 DEF Permitted, InFile, Mild, SurePast, SameMode
  <2>. QED
    BY <1>4, <2>1, <2>2
<1>13. Allowed(k + 1)'
  BY <1>9, <1>12 DEF Allowed
<1>14. line.ctx = line.backup /\ Leads(line.backup, line.sig, line.parsed)
  BY DEF IInv, Confirms
<1>15. CASE Len(line.todo) = 1
  <2>1. phase = "apply" /\ todo = line.sig /\ k + 1 = Len(line.sig)
    <3>1. Len(line.sig) - k = 1
      BY <1>5, <1>15
    <3>2. k + 1 = Len(line.sig)
      BY <1>3, <1>4, <3>1
    <3>. QED
      BY <1>7, <1>15, <3>2
  <2>2. PICK cs : Along(line.backup, line.sig, cs) /\ cs[Len(line.sig)] = line.parsed
    BY <1>14 DEF Leads
  <2>3. cs[0] = line.backup /\ SameContext(line.backup, cs[0])
    BY <2>2, SameContextSelf DEF Along
  <2>4. Behind(0)'
    BY <1>3, <1>9, <2>1, AllSignals DEF Behind
  <2>5. 0 \in 0 .. (Len(line.sig) - 1)
    BY <1>3, <1>4
  <2>6. Follows'
    BY <1>7, <1>9, <1>14, <2>2, <2>3, <2>4, <2>5 DEF Follows
  <2>7. Allowed(Len(line.sig))'
    BY <1>9, <1>13, <2>1 DEF Allowed
  <2>8. line'.phase = "apply"
    BY <1>9, <2>1
  <2>. QED
    BY <1>9, <1>10, <2>6, <2>7, <2>8 DEF IInv, Confirms, Applies, ContextsAgree
<1>16. CASE Len(line.todo) # 1
  <2>1. phase = "confirm" /\ todo = SubSeq(line.sig, (k + 1) + 1, Len(line.sig)) /\ k + 1 < Len(line.sig)
    <3>1. Len(line.sig) - k # 1
      BY <1>5, <1>16
    <3>2. k + 1 < Len(line.sig)
      BY <1>3, <1>4, <3>1
    <3>. QED
      BY <1>5, <1>7, <1>16, <3>2
  <2>2. Behind(k + 1)'
    BY <1>9, <2>1 DEF Behind
  <2>3. line'.ctx = line'.backup /\ Leads(line.backup, line.sig, line.parsed)'
    BY <1>7, <1>9, <1>14
  <2>4. line'.phase = "confirm"
    BY <1>9, <2>1
  <2>5. Confirms'
    BY <1>4, <1>9, <1>13, <2>1, <2>2, <2>3 DEF Confirms
  <2>. QED
    BY <1>9, <1>10, <2>4, <2>5 DEF IInv, Applies, ContextsAgree
<1>. QED
  BY <1>15, <1>16

\* An applied signal.
LEMMA ProceedsKeeps ==
    ASSUME IInv, Mild, line.phase = "apply", NEW ctx, Stepped(line.ctx, Signal, ctx), Proceeds(ctx)
    PROVE  IInv'
<1>1. Shape /\ Quiet
  BY DEF IInv
<1>2. PICK k, cs :
         /\ k \in 0 .. (Len(line.sig) - 1) /\ Behind(k)
         /\ Along(line.backup, line.sig, cs) /\ cs[Len(line.sig)] = line.parsed
         /\ SameContext(line.ctx, cs[k])
  BY DEF IInv, Applies, Follows
<1>3. IsSequence(line.sig) /\ Len(line.sig) \in Nat /\ IsSequence(line.ctx)
  BY <1>1, SequenceShape DEF Shape, LineShape
<1>4. /\ k \in Nat /\ k < Len(line.sig) /\ k + 1 \in 1 .. Len(line.sig) /\ (k + 1) - 1 = k
      /\ k \in 0 .. Len(line.sig) /\ k + 1 \in 0 .. Len(line.sig)
  BY <1>2, <1>3
<1>5. /\ Len(line.todo) = Len(line.sig) - k /\ Signal = line.sig[k + 1]
      /\ Tail(line.todo) = SubSeq(line.sig, (k + 1) + 1, Len(line.sig))
  BY <1>2, <1>3, <1>4, SignalsLeft DEF Behind, Signal
<1>6. IsSequence(cs[k]) /\ After(cs[k], Signal, cs[k + 1])
  <2>1. After(cs[(k + 1) - 1], line.sig[k + 1], cs[k + 1]) /\ IsSequence(cs[k])
    BY <1>2, <1>4 DEF Along
  <2>. QED
    BY <1>4, <1>5, <2>1
<1>7. IsSequence(ctx) /\ SameContext(ctx, cs[k + 1])
  <2>1. PICK b, c, s, d : b = line.ctx /\ c = cs[k] /\ s = Signal /\ d = cs[k + 1]
    OBVIOUS
  <2>2. /\ IsSequence(b) /\ IsSequence(c) /\ SameContext(b, c) /\ After(c, s, d) /\ Stepped(b, s, ctx)
    BY <1>2, <1>3, <1>6, <2>1
  <2>3. IsSequence(ctx) /\ SameContext(ctx, d)
    BY ONLY <2>2, SteppedSame
  <2>. QED
    BY <2>1, <2>3
<1>8. CASE Len(line.todo) = 1
  <2>1. Len(line.sig) - k = 1
    BY <1>5, <1>8
  <2>2. k + 1 = Len(line.sig)
    BY <1>3, <1>4, <2>1
  <2>3. SameContext(ctx, line.parsed)
    BY <1>2, <1>7, <2>2
  <2>4. line' = Back("performed", ctx)
    BY <1>8 DEF Proceeds
  <2>. QED
    BY <1>1, <1>7, <2>3, <2>4, BackKeeps
<1>9. CASE Len(line.todo) # 1
  <2>1. Len(line.sig) - k # 1
    BY <1>5, <1>9
  <2>2. k + 1 \in 0 .. (Len(line.sig) - 1)
    BY <1>3, <1>4, <2>1
  <2>3. line' = [line EXCEPT !.todo = Tail(@), !.ctx = ctx]
    BY <1>9 DEF Proceeds
  <2>4. PICK todo, auto, phase : todo = Tail(line.todo) /\ auto = line.auto /\ phase = line.phase
    OBVIOUS
  <2>5. line' = [line EXCEPT !.todo = todo, !.ctx = ctx, !.auto = auto, !.phase = phase]
    BY <1>1, <2>3, <2>4 DEF Shape, LineShape, LineFields
  <2>6. /\ Shape' /\ line'.file = line.file /\ line'.phase = phase /\ line'.todo = todo /\ line'.ctx = ctx
        /\ line'.sig = line.sig /\ line'.parsed = line.parsed /\ line'.backup = line.backup
    <3>1. Shape /\ Mild /\ IsSequence(ctx) /\ line.phase \in {"confirm", "apply"} /\ phase \in {"confirm", "apply"}
      BY <1>1, <1>7, <2>4
    <3>. QED
      BY ONLY <2>5, <3>1, PassShape, Zenon
  <2>7. Quiet'
    BY <1>1, <2>6, QuietStays DEF Mild
  <2>8. Permitted => Permitted'
    BY <2>6, PermittedStays DEF Mild
  <2>9. Allowed(Len(line.sig))'
    BY <2>6, <2>8 DEF IInv, Applies, Allowed
  <2>10. Behind(k + 1)'
    BY <1>5, <2>4, <2>6 DEF Behind
  <2>11. Follows'
    BY <1>2, <1>7, <2>2, <2>6, <2>10 DEF Follows
  <2>12. line'.phase = "apply"
    BY <2>4, <2>6
  <2>. QED
    BY <2>6, <2>7, <2>9, <2>11, <2>12 DEF IInv, Confirms, Applies, ContextsAgree
<1>. QED
  BY <1>8, <1>9

\* The line stays as it is.
LEMMA SameLineKeeps == ASSUME IInv, Mild, line' = line PROVE IInv'
<1>1. Shape'
  BY DEF IInv, Shape, Mild, SurePast
<1>2. Quiet'
  BY QuietStays DEF IInv, Mild
<1>3. Permitted => Permitted'
  BY PermittedStays DEF Mild
<1>4. \A k : (Behind(k) <=> Behind(k)') /\ (Allowed(k) => Allowed(k)')
  BY <1>3 DEF Behind, Allowed
<1>5. Confirms'
  BY <1>4 DEF IInv, Confirms
<1>6. Applies'
  <2>1. Follows => Follows'
    BY <1>4 DEF Follows
  <2>. QED
    BY <1>4, <2>1 DEF IInv, Applies
<1>7. ContextsAgree'
  BY DEF IInv, ContextsAgree
<1>. QED
  BY <1>1, <1>2, <1>5, <1>6, <1>7 DEF IInv

LEMMA PromptShape ==
    /\ DOMAIN AtPrompt = LineFields /\ AtPrompt.phase = "prompt" /\ AtPrompt.sig = <<>> /\ AtPrompt.file = "none"
    /\ AtPrompt.ctx = <<>> /\ AtPrompt.parsed = <<>> /\ AtPrompt.backup = <<>> /\ AtPrompt.rest = <<>>
    /\ LineShape(AtPrompt)
<1>1. /\ DOMAIN AtPrompt = LineFields /\ AtPrompt.phase = "prompt" /\ AtPrompt.sig = <<>> /\ AtPrompt.file = "none"
      /\ AtPrompt.ctx = <<>> /\ AtPrompt.parsed = <<>> /\ AtPrompt.backup = <<>> /\ AtPrompt.rest = <<>>
  BY DEF AtPrompt, LineFields
<1>2. IsSequence(<<>>) /\ 1 .. Len(<<>>) = {}
  BY EmptySequence
<1>. QED
  BY <1>1, <1>2 DEF LineShape

\* A line that was no line: nothing in it for the two properties.
LEMMA OutsideKeeps ==
    ASSUME CliShape(cli'), DbShape(db'), LineShape(line'), DOMAIN past' = PastFields, Quiet',
           line'.phase = "file" \/ (line'.phase = "prompt" /\ line'.sig = <<>>)
    PROVE  IInv'
BY DEF IInv, Shape, Confirms, Applies, ContextsAgree

\* deska-cli has ended and is started again.
LEMMA CrashShapes ==
    ASSUME Shape, Crashes
    PROVE  /\ CliShape(cli') /\ cli'.ctx = <<>> /\ cli'.before = cli.before /\ ~cli'.quiet
           /\ ~cli'.changeset /\ ~cli'.stable /\ db' = db
           /\ DOMAIN line' = LineFields /\ LineShape(line') /\ line'.phase = "prompt" /\ line'.end = "error"
           /\ line'.sig = <<>> /\ line'.file = "none"
<1>1. PICK c : c = Outside(Leaving)
  OBVIOUS
<1>2. CliShape(c) /\ c.ctx = <<>> /\ c.before = cli.before /\ ~c.changeset /\ ~c.stable
  <2>1. PICK b : b = Leaving
    OBVIOUS
  <2>2. DOMAIN b = CliFields /\ b.before = cli.before /\ ~b.stable
    BY <2>1 DEF Leaving, ClearCache, Shape, CliShape, CliFields
  <2>3. c = [b EXCEPT !.changeset = FALSE, !.ctx = <<>>]
    BY <1>1, <2>1 DEF Outside
  <2>. QED
    BY <2>2, <2>3, EmptySequence DEF Shape, CliShape, CliFields
<1>3. cli' = [c EXCEPT !.quiet = FALSE] /\ line' = [AtPrompt EXCEPT !.end = "error"] /\ db' = db
  BY <1>1 DEF Crashes
<1>4. /\ DOMAIN line' = LineFields /\ line'.phase = "prompt" /\ line'.sig = <<>> /\ line'.file = "none"
      /\ line'.ctx = <<>> /\ line'.parsed = <<>> /\ line'.backup = <<>> /\ line'.rest = <<>> /\ line'.end = "error"
  BY <1>3, PromptShape DEF LineFields
<1>5. LineShape(line')
  BY <1>4, PromptShape DEF LineShape
<1>. QED
  BY <1>2, <1>3, <1>4, <1>5 DEF CliShape, CliFields

LEMMA CrashKeeps == ASSUME Shape, Crashes PROVE IInv'
<1>1. UNCHANGED <<db, past>>
  BY DEF Crashes
<1>2. Quiet'
  BY CrashShapes DEF Quiet
<1>. QED
  BY <1>1, <1>2, CrashShapes, OutsideKeeps DEF Shape

LEMMA ConfirmKeeps == IInv /\ Confirm => IInv'
<1>. SUFFICES ASSUME IInv, Confirm PROVE IInv'
  OBVIOUS
<1>1. Shape /\ Quiet /\ (Heard \/ Crashes)
  BY ConfirmOk DEF IInv
<1>2. line.phase = "confirm"
  BY DEF Confirm, ConfirmReading, ConfirmLeft, ConfirmCreate, ConfirmEntered, ConfirmSet, ConfirmRemove,
         ConfirmDelete, ConfirmRename, Confirming, NoSignals
<1>3. CASE Heard /\ GivesUp
  BY <1>1, <1>2, <1>3, GivesUpKeeps DEF Heard
<1>4. CASE Heard /\ line.todo # <<>> /\ Advances /\ (Signal[1] = "delete" => past'.sure \/ cli.force \/ InFile \/ past.unlocked)
  BY <1>1, <1>2, <1>4, AdvancesKeeps DEF Heard
<1>5. CASE Heard /\ line.todo = <<>>
  <2>1. PICK k \in 0 .. Len(line.sig) : (k = 0 \/ k < Len(line.sig)) /\ Behind(k)
    BY <1>2 DEF IInv, Confirms
  <2>2. IsSequence(line.sig) /\ Len(line.sig) \in Nat /\ IsSequence(line.ctx)
    BY <1>1, SequenceShape DEF Shape, LineShape
  <2>3. ~(k < Len(line.sig))
    BY <1>5, <2>1, <2>2, SignalsLeft DEF Behind
  <2>4. line.sig = <<>>
    <3>1. k = 0 /\ Len(line.sig) = 0
      BY <2>1, <2>2, <2>3
    <3>. QED
      BY <2>2, <3>1, EmptySequence
  <2>5. line' = Back("performed", line.ctx)
    <3>1. NoSignals
      BY <1>5 DEF Confirm, ConfirmReading, ConfirmLeft, ConfirmCreate, ConfirmEntered, ConfirmSet, ConfirmRemove,
                  ConfirmDelete, ConfirmRename, Confirming
    <3>. QED
      BY <3>1 DEF NoSignals, EndOfLine
  <2>6. PICK ctx : ctx = line.ctx
    OBVIOUS
  <2>. QED
    BY <1>1, <1>2, <1>5, <2>2, <2>4, <2>5, <2>6, BackKeeps DEF Heard
<1>6. CASE Crashes
  BY <1>1, <1>6, CrashKeeps
<1>. QED
  BY <1>1, <1>3, <1>4, <1>5, <1>6 DEF Heard

LEMMA ApplyKeeps == IInv /\ Apply => IInv'
<1>. SUFFICES ASSUME IInv, Apply PROVE IInv'
  OBVIOUS
<1>1. Applied /\ Mild /\ Shape /\ Quiet
  BY ApplyOk DEF IInv, Applied
<1>2. line.phase = "apply"
  BY DEF Apply, ApplyLeft, ApplyFilter, ApplyShow, ApplyCreate, ApplyContained, ApplyAttribute, ApplyDelete,
         ApplyRename, Applying
<1>3. CASE line' = line
  BY <1>1, <1>3, SameLineKeeps
<1>4. CASE GivesUp
  BY <1>1, <1>2, <1>4, GivesUpKeeps
<1>5. CASE \E ctx : Stepped(line.ctx, Signal, ctx) /\ Proceeds(ctx)
  BY <1>1, <1>2, <1>5, ProceedsKeeps
<1>. QED
  BY <1>1, <1>3, <1>4, <1>5 DEF Applied

-----------------------------------------------------------------------------
\* A line is read: at the prompt, or from a file.
SamePerson(c) == c.quiet = cli.quiet /\ c.force = cli.force
LEMMA ReadKeeps ==
    ASSUME Shape, Quiet, line.phase = "prompt" \/ (line.phase = "file" /\ line.rest # <<>>),
           NEW l, WellMade(l), NEW c, CliShape(c), SamePerson(c), ReadWith(l, c),
           DOMAIN past' = PastFields, past'.unlocked = past.unlocked
    PROVE  IInv'
<1>1. PICK there : there = (IF c.changeset THEN db.work ELSE db.live).objs
  OBVIOUS
<1>2. PICK r, d, e : /\ r = ParseLine(c.ctx, l, there)
                     /\ d = (IF c.changeset THEN db ELSE Froze(db))
                     /\ e = (IF c.changeset THEN c ELSE [ClearCache(c) EXCEPT !.stable = TRUE])
  OBVIOUS
<1>3. Parsed(r, e, d)
  BY <1>1, <1>2 DEF ReadWith
<1>4. CliShape(e) /\ SamePerson(e) /\ e.ctx = c.ctx
  <2>1. CASE c.changeset
    BY <1>2, <2>1
  <2>2. CASE ~c.changeset
    <3>1. e = [ClearCache(c) EXCEPT !.stable = TRUE]
      BY <1>2, <2>2
    <3>. QED
      BY <3>1 DEF ClearCache, CliShape, CliFields, SamePerson
  <2>. QED
    BY <2>1, <2>2
<1>5. DbShape(d)
  <2>1. DbShape(db)
    BY DEF Shape
  <2>2. DbShape(Froze(db))
    BY <2>1 DEF DbShape, DbFields, Froze
  <2>. QED
    BY <1>2, <2>1, <2>2
<1>6. IsSequence(r.ctx) /\ IsSequence(r.sig) /\ (r.ok => Leads(c.ctx, r.sig, r.ctx))
  BY <1>2, LinesLead DEF CliShape
<1>7. IsSequence(c.ctx)
  BY DEF CliShape
<1>8. InFile => line.rest # <<>>
  BY DEF Shape, LineShape, InFile
<1>9. CASE r.ok
  <2>1. /\ line' = [line EXCEPT !.phase = "confirm", !.sig = r.sig, !.todo = r.sig, !.ctx = c.ctx, !.backup = c.ctx,
                       !.parsed = r.ctx, !.auto = FALSE, !.end = "none"]
        /\ cli' = [e EXCEPT !.ctx = r.ctx] /\ db' = d
    BY <1>3, <1>4, <1>9 DEF Parsed
  <2>2. /\ DOMAIN line' = LineFields /\ line'.phase = "confirm" /\ line'.sig = r.sig /\ line'.todo = r.sig
        /\ line'.ctx = c.ctx /\ line'.backup = c.ctx /\ line'.parsed = r.ctx
        /\ line'.rest = line.rest /\ line'.file = line.file
    BY <2>1 DEF Shape, LineShape, LineFields
  <2>3. CliShape(cli') /\ cli'.quiet = cli.quiet
    BY <1>4, <1>6, <2>1 DEF CliShape, CliFields, SamePerson
  <2>4. LineShape(line')
    <3>1. line.file # "none" => line.rest # <<>>
      BY <1>8 DEF InFile
    <3>. QED
      BY <1>6, <1>7, <2>2, <3>1 DEF Shape, LineShape
  <2>5. Shape'
    BY <1>5, <2>1, <2>3, <2>4 DEF Shape
  <2>6. Quiet'
    BY <2>2, <2>3 DEF Quiet, InFile
  <2>7. Behind(0)'
    BY <1>6, <2>2, AllSignals DEF Behind
  <2>8. Allowed(0)'
    <3>1. 1 .. 0 = {}
      OBVIOUS
    <3>. QED
      BY <3>1 DEF Allowed
  <2>9. 0 \in 0 .. Len(line'.sig)
    BY <1>6, <2>2, SequenceShape
  <2>10. Leads(line'.backup, line'.sig, line'.parsed)
    BY <1>6, <1>9, <2>2
  <2>11. Confirms'
    BY <2>2, <2>7, <2>8, <2>9, <2>10 DEF Confirms
  <2>. QED
    BY <2>2, <2>5, <2>6, <2>11 DEF IInv, Applies, ContextsAgree
<1>10. CASE ~r.ok
  <2>1. PICK f, ctx : f = [e EXCEPT !.ctx = r.ctx, !.failed = TRUE] /\ ctx = r.ctx
    OBVIOUS
  <2>2. EndOfLine(f, d, "malformed", ctx)
    BY <1>3, <1>10, <2>1 DEF Parsed
  <2>3. CliShape(f) /\ f.quiet = cli.quiet
    BY <1>4, <1>6, <2>1 DEF CliShape, CliFields, SamePerson
  <2>4. CliShape(cli') /\ DbShape(db') /\ line' = Back("malformed", ctx) /\ cli'.quiet = cli.quiet
    BY <1>5, <2>2, <2>3, EndOfLineMild
  <2>5. IsSequence(ctx)
    BY <1>6, <2>1
  <2>6. LET b == Back("malformed", ctx)
        IN  LineShape(b) /\ b.phase \in {"prompt", "file"} /\ b.file = line.file /\ b.end = "malformed"
    BY <1>8, <2>5, BackShape
  <2>7. LineShape(line') /\ line'.phase \in {"prompt", "file"} /\ line'.file = line.file /\ line'.end # "performed"
    BY <2>4, <2>6
  <2>8. Shape' /\ Quiet'
    BY <2>4, <2>7 DEF Shape, Quiet, InFile
  <2>. QED
    BY <2>7, <2>8 DEF IInv, Confirms, Applies, ContextsAgree
<1>. QED
  BY <1>9, <1>10

LEMMA NewLinePast ==
    Shape => DOMAIN NewLine = PastFields /\ NewLine.unlocked = past.unlocked
BY DEF Shape, NewLine, PastFields

LEMMA TypeLineKeeps == IInv /\ (\E l \in Lines : TypeLine(l)) => IInv'
<1>. SUFFICES ASSUME IInv, NEW l \in Lines, TypeLine(l) PROVE IInv'
  OBVIOUS
<1>1. Shape /\ Quiet
  BY DEF IInv
<1>2. PICK c : c = [cli EXCEPT !.before = cli.ctx, !.failed = FALSE]
  OBVIOUS
<1>3. line.phase = "prompt" /\ ReadWith(l, c) /\ past' = [NewLine EXCEPT !.typed = @ + 1]
  BY <1>2 DEF TypeLine
<1>4. CliShape(c) /\ SamePerson(c)
  BY <1>1, <1>2 DEF Shape, CliShape, CliFields, SamePerson
<1>5. DOMAIN past' = PastFields /\ past'.unlocked = past.unlocked
  BY <1>1, <1>3, NewLinePast DEF PastFields
<1>. QED
  BY <1>1, <1>3, <1>4, <1>5, LinesAssumption, ReadKeeps

LEMMA HeadWellMade == ASSUME Shape, line.rest # <<>> PROVE WellMade(Head(line.rest))
<1>1. IsSequence(line.rest) /\ \A i \in 1 .. Len(line.rest) : WellMade(line.rest[i])
  BY DEF Shape, LineShape
<1>2. Len(line.rest) \in Nat \ {0} /\ Head(line.rest) = line.rest[1]
  BY <1>1, TailOfSequence
<1>3. 1 \in 1 .. Len(line.rest)
  BY <1>2
<1>. QED
  BY <1>1, <1>2, <1>3

LEMMA FileLineKeeps == IInv /\ FileLine => IInv'
<1>. SUFFICES ASSUME IInv, FileLine PROVE IInv'
  OBVIOUS
<1>1. Shape /\ Quiet
  BY DEF IInv
<1>2. PICK l, c : l = Head(line.rest) /\ c = cli
  OBVIOUS
<1>3. line.phase = "file" /\ line.rest # <<>> /\ ReadWith(l, c) /\ past' = NewLine
  BY <1>2 DEF FileLine
<1>4. WellMade(l)
  BY <1>1, <1>2, <1>3, HeadWellMade
<1>5. CliShape(c) /\ SamePerson(c)
  BY <1>1, <1>2 DEF Shape, SamePerson
<1>6. DOMAIN past' = PastFields /\ past'.unlocked = past.unlocked
  BY <1>1, <1>3, NewLinePast
<1>. QED
  BY <1>1, <1>3, <1>4, <1>5, <1>6, ReadKeeps

-----------------------------------------------------------------------------
(* The commands, and the files.                                            *)
LEMMA EndedKeeps ==
    ASSUME Shape, Quiet, line.phase = "prompt" \/ (line.phase = "file" /\ line.rest # <<>>),
           NEW end, line' = Ended(end), CliShape(cli'), cli'.quiet = cli.quiet, DbShape(db'),
           DOMAIN past' = PastFields, past'.unlocked = past.unlocked
    PROVE  IInv'
<1>1. CASE InFile
  <2>1. line.phase = "file" /\ line.rest # <<>>
    BY <1>1 DEF Shape, LineShape, InFile
  <2>2. PICK ctx : ctx = line.ctx
    OBVIOUS
  <2>3. IsSequence(ctx)
    BY <2>2 DEF Shape, LineShape
  <2>4. LET b == Back(end, ctx)
        IN  LineShape(b) /\ b.phase \in {"prompt", "file"} /\ b.file = line.file
    BY <2>1, <2>3, BackShape
  <2>5. line' = [NextLine EXCEPT !.end = end]
    BY <1>1 DEF Ended
  <2>6. /\ DOMAIN line' = LineFields /\ line'.phase = "file" /\ line'.file = line.file
        /\ line'.rest = Back(end, ctx).rest /\ line'.ctx = line.ctx /\ line'.backup = line.backup
        /\ line'.sig = line.sig /\ line'.parsed = line.parsed
    BY <1>1, <2>5 DEF Back, NextLine, Shape, LineShape, LineFields
  <2>7. LineShape(line')
    BY <2>4, <2>6 DEF Shape, LineShape
  <2>8. Quiet'
    BY <1>1, <2>6 DEF Quiet, InFile
  <2>. QED
    BY <2>6, <2>7, <2>8, OutsideKeeps
<1>2. CASE ~InFile
  <2>1. line' = [AtPrompt EXCEPT !.end = end]
    BY <1>2 DEF Ended
  <2>2. /\ DOMAIN line' = LineFields /\ line'.phase = "prompt" /\ line'.sig = <<>> /\ line'.file = "none"
        /\ line'.ctx = <<>> /\ line'.parsed = <<>> /\ line'.backup = <<>> /\ line'.rest = <<>>
    BY <2>1, PromptShape DEF LineFields
  <2>3. LineShape(line')
    BY <2>2, PromptShape DEF LineShape
  <2>4. Quiet'
    BY <1>2, <2>2 DEF Quiet, InFile
  <2>. QED
    BY <2>2, <2>3, <2>4, OutsideKeeps
<1>. QED
  BY <1>1, <1>2

LEMMA CountedPast == Shape => DOMAIN Counted = PastFields /\ Counted.unlocked = past.unlocked
BY NewLinePast DEF Counted, PastFields

LEMMA ReturnsKeeps ==
    ASSUME Shape, Quiet, line.phase = "prompt" \/ (line.phase = "file" /\ line.rest # <<>>),
           NEW true, NEW c, NEW d, Returns(true, c, d), CliShape(c), c.quiet = cli.quiet, DbShape(d)
    PROVE  IInv'
<1>1. /\ cli' = [c EXCEPT !.failed = InFile /\ ~true] /\ db' = d /\ line' = Ended("none")
      /\ past' = [Counted EXCEPT !.taint = past.taint /\ c.known # Nothing]
  BY DEF Returns
<1>2. CliShape(cli') /\ cli'.quiet = cli.quiet
  BY <1>1 DEF CliShape, CliFields
<1>3. DOMAIN past' = PastFields /\ past'.unlocked = past.unlocked
  BY <1>1, CountedPast DEF PastFields
<1>. QED
  BY <1>1, <1>2, <1>3, EndedKeeps

LEMMA RaisesKeeps ==
    ASSUME Shape, Quiet, line.phase = "prompt" \/ (line.phase = "file" /\ line.rest # <<>>),
           NEW c, NEW d, Raises(c, d), CliShape(c), c.quiet = cli.quiet, DbShape(d),
           DOMAIN past' = PastFields, past'.unlocked = past.unlocked
    PROVE  IInv'
<1>1. /\ cli' = [ClearCache(c) EXCEPT !.failed = InFile, !.ctx = IF InFile THEN <<>> ELSE @] /\ db' = d
      /\ line' = Ended("error")
  BY DEF Raises
<1>2. /\ DOMAIN cli' = CliFields /\ cli'.quiet = cli.quiet /\ cli'.before = c.before
      /\ cli'.ctx = IF InFile THEN <<>> ELSE c.ctx
  BY <1>1 DEF CliShape, CliFields, ClearCache
<1>3. CliShape(cli')
  BY <1>2, EmptySequence DEF CliShape
<1>. QED
  BY <1>1, <1>2, <1>3, EndedKeeps

LEMMA FailedKeeps ==
    ASSUME Shape, Quiet, line.phase = "prompt" \/ (line.phase = "file" /\ line.rest # <<>>),
           NEW c, NEW d, Failed(c, d), CliShape(c), c.quiet = cli.quiet, DbShape(d)
    PROVE  IInv'
<1>1. Raises(c, d) /\ past' = [Counted EXCEPT !.faults = @ + 1, !.taint = FALSE]
  BY DEF Failed
<1>2. DOMAIN past' = PastFields /\ past'.unlocked = past.unlocked
  BY <1>1, CountedPast DEF PastFields
<1>. QED
  BY <1>1, <1>2, RaisesKeeps

LEMMA CommandPhase ==
    ASSUME NEW name, Command(name) PROVE line.phase = "prompt" \/ (line.phase = "file" /\ line.rest # <<>>)
BY DEF Command, AtThePrompt

\* What a command leaves of the session.
LEMMA SessionShapes ==
    ASSUME Shape
    PROVE  /\ CliShape(cli) /\ DbShape(db)
           /\ CliShape(Attaching) /\ Attaching.quiet = cli.quiet
           /\ CliShape(Leaving) /\ Leaving.quiet = cli.quiet
           /\ CliShape(InChangeset(Attaching)) /\ InChangeset(Attaching).quiet = cli.quiet
           /\ CliShape(Outside(Leaving)) /\ Outside(Leaving).quiet = cli.quiet
<1>1. CliShape(cli) /\ DbShape(db)
  BY DEF Shape
<1>2. ASSUME NEW b, NEW e, e = [ClearCache(cli) EXCEPT !.stable = b]
      PROVE  CliShape(e) /\ e.quiet = cli.quiet
  BY <1>1, <1>2 DEF CliShape, CliFields, ClearCache
<1>3. ASSUME NEW e, CliShape(e), e.quiet = cli.quiet
      PROVE  CliShape(InChangeset(e)) /\ InChangeset(e).quiet = cli.quiet
  BY <1>3 DEF CliShape, CliFields, InChangeset
<1>4. ASSUME NEW e, CliShape(e), e.quiet = cli.quiet
      PROVE  CliShape(Outside(e)) /\ Outside(e).quiet = cli.quiet
  BY <1>4, EmptySequence DEF CliShape, CliFields, Outside
<1>5. CliShape(Attaching) /\ Attaching.quiet = cli.quiet
  BY <1>2 DEF Attaching
<1>6. CliShape(Leaving) /\ Leaving.quiet = cli.quiet
  BY <1>2 DEF Leaving
<1>. QED
  BY <1>1, <1>3, <1>4, <1>5, <1>6

LEMMA DataShapes ==
    ASSUME Shape
    PROVE  /\ DbShape([db EXCEPT !.work = db.live, !.gone = NoData, !.pending = TRUE, !.obsolete = FALSE])
           /\ DbShape([db EXCEPT !.live = db.work, !.pending = FALSE])
           /\ DbShape([db EXCEPT !.pending = FALSE])
           /\ DbShape(Thawed(db)) /\ DbShape(Froze(db))
<1>1. DbShape(db)
  BY DEF Shape
<1>2. DbShape([db EXCEPT !.work = db.live, !.gone = NoData, !.pending = TRUE, !.obsolete = FALSE])
  BY <1>1 DEF DbShape, DbFields
<1>3. DbShape([db EXCEPT !.live = db.work, !.pending = FALSE]) /\ DbShape([db EXCEPT !.pending = FALSE])
  BY <1>1 DEF DbShape, DbFields
<1>4. DbShape(Thawed(db)) /\ DbShape(Froze(db))
  BY <1>1 DEF DbShape, DbFields, Thawed, Froze
<1>. QED
  BY <1>2, <1>3, <1>4

\* A command ends in one of three ways.
Finishes(c, d) ==
    /\ CliShape(c) /\ c.quiet = cli.quiet /\ DbShape(d)
    /\ \/ \E true \in BOOLEAN : Returns(true, c, d)
       \/ Failed(c, d)
       \/ Raises(c, d) /\ past' = [Counted EXCEPT !.taint = FALSE]

LEMMA FinishesKeeps ==
    ASSUME Shape, Quiet, line.phase = "prompt" \/ (line.phase = "file" /\ line.rest # <<>>),
           NEW c, NEW d, Finishes(c, d)
    PROVE  IInv'
<1>1. CliShape(c) /\ c.quiet = cli.quiet /\ DbShape(d)
  BY DEF Finishes
<1>2. CASE \E true \in BOOLEAN : Returns(true, c, d)
  BY <1>1, <1>2, ReturnsKeeps
<1>3. CASE Failed(c, d)
  BY <1>1, <1>3, FailedKeeps
<1>4. CASE Raises(c, d) /\ past' = [Counted EXCEPT !.taint = FALSE]
  <2>1. DOMAIN past' = PastFields /\ past'.unlocked = past.unlocked
    BY <1>4, CountedPast DEF PastFields
  <2>. QED
    BY <1>1, <1>4, <2>1, RaisesKeeps
<1>. QED
  BY <1>2, <1>3, <1>4 DEF Finishes

LEMMA CommandsKeep == IInv /\ Commands => IInv'
<1>. SUFFICES ASSUME IInv, Commands PROVE IInv'
  OBVIOUS
<1>1. Shape /\ Quiet
  BY DEF IInv
<1>2. PICK at, leave, in, out :
         at = Attaching /\ leave = Leaving /\ in = InChangeset(Attaching) /\ out = Outside(Leaving)
  OBVIOUS
<1>3. PICK now : now = cli
  OBVIOUS
<1>4. /\ CliShape(now) /\ now.quiet = cli.quiet /\ CliShape(at) /\ at.quiet = cli.quiet
      /\ CliShape(leave) /\ leave.quiet = cli.quiet /\ CliShape(in) /\ in.quiet = cli.quiet
      /\ CliShape(out) /\ out.quiet = cli.quiet
  BY <1>1, <1>2, <1>3, SessionShapes
<1>5. PICK d, started, committed, aborted, thawed, froze :
         /\ d = db /\ started = [db EXCEPT !.work = db.live, !.gone = NoData, !.pending = TRUE, !.obsolete = FALSE]
         /\ committed = [db EXCEPT !.live = db.work, !.pending = FALSE] /\ aborted = [db EXCEPT !.pending = FALSE]
         /\ thawed = Thawed(db) /\ froze = Froze(db)
  OBVIOUS
<1>6. /\ DbShape(d) /\ DbShape(started) /\ DbShape(committed) /\ DbShape(aborted) /\ DbShape(thawed)
      /\ DbShape(froze)
  BY <1>1, <1>5, DataShapes DEF Shape
<1>. USE DEF Done
<1>7. ASSUME Start PROVE IInv'
  <2>1. \/ Raises(at, d) /\ past' = [Counted EXCEPT !.taint = FALSE]
        \/ Returns(TRUE, in, started) \/ Failed(at, d)
    BY <1>2, <1>5, <1>7 DEF Start
  <2>2. Finishes(at, d) \/ Finishes(in, started)
    BY <1>4, <1>6, <2>1 DEF Finishes
  <2>. QED
    BY <1>1, <1>7, <2>2, CommandPhase, FinishesKeeps DEF Start
<1>8. ASSUME Resume PROVE IInv'
  <2>1. \/ Raises(at, d) /\ past' = [Counted EXCEPT !.taint = FALSE]
        \/ Returns(TRUE, in, d) \/ Failed(at, d)
    BY <1>2, <1>5, <1>8 DEF Resume
  <2>2. Finishes(at, d) \/ Finishes(in, d)
    BY <1>4, <1>6, <2>1 DEF Finishes
  <2>. QED
    BY <1>1, <1>8, <2>2, CommandPhase, FinishesKeeps DEF Resume
<1>9. ASSUME Commit PROVE IInv'
  <2>1. Returns(FALSE, leave, d) \/ Returns(TRUE, out, committed) \/ Failed(leave, d)
    BY <1>2, <1>5, <1>9 DEF Commit
  <2>2. Finishes(leave, d) \/ Finishes(out, committed)
    BY <1>4, <1>6, <2>1 DEF Finishes
  <2>. QED
    BY <1>1, <1>9, <2>2, CommandPhase, FinishesKeeps DEF Commit
<1>10. ASSUME Detach PROVE IInv'
  <2>1. Returns(TRUE, out, d) \/ Failed(leave, d)
    BY <1>2, <1>5, <1>10 DEF Detach
  <2>2. Finishes(leave, d) \/ Finishes(out, d)
    BY <1>4, <1>6, <2>1 DEF Finishes
  <2>. QED
    BY <1>1, <1>10, <2>2, CommandPhase, FinishesKeeps DEF Detach
<1>11. ASSUME Abort PROVE IInv'
  <2>1. Returns(TRUE, out, aborted) \/ Failed(leave, d)
    BY <1>2, <1>5, <1>11 DEF Abort
  <2>2. Finishes(leave, d) \/ Finishes(out, aborted)
    BY <1>4, <1>6, <2>1 DEF Finishes
  <2>. QED
    BY <1>1, <1>11, <2>2, CommandPhase, FinishesKeeps DEF Abort
<1>12. ASSUME NonInteractive PROVE IInv'
  <2>1. PICK c : c = [cli EXCEPT !.force = ~@]
    OBVIOUS
  <2>2. CliShape(c) /\ c.quiet = cli.quiet
    BY <1>1, <2>1 DEF Shape, CliShape, CliFields
  <2>3. Returns(TRUE, c, d)
    BY <1>5, <1>12, <2>1 DEF NonInteractive
  <2>4. Finishes(c, d)
    BY <1>6, <2>2, <2>3 DEF Finishes
  <2>. QED
    BY <1>1, <1>12, <2>4, CommandPhase, FinishesKeeps DEF NonInteractive
<1>13. ASSUME NEW known, NEW c, c = [cli EXCEPT !.known = known] PROVE CliShape(c) /\ c.quiet = cli.quiet
  BY <1>1, <1>13 DEF Shape, CliShape, CliFields
<1>14. ASSUME Context PROVE IInv'
  <2>1. PICK known : known = Told(cli.known, Matched(cli.ctx), TRUE)
    OBVIOUS
  <2>2. PICK c : c = [cli EXCEPT !.known = known]
    OBVIOUS
  <2>3. CliShape(c) /\ c.quiet = cli.quiet
    BY <1>13, <2>2
  <2>4. Returns(TRUE, c, d)
    BY <1>5, <1>14, <2>1, <2>2 DEF Context
  <2>5. Finishes(c, d)
    BY <1>6, <2>3, <2>4 DEF Finishes
  <2>. QED
    BY <1>1, <1>14, <2>5, CommandPhase, FinishesKeeps DEF Context
<1>15. ASSUME Dump PROVE IInv'
  <2>1. PICK known : known = Told(cli.known, View.objs, TRUE)
    OBVIOUS
  <2>2. PICK c : c = [cli EXCEPT !.known = known]
    OBVIOUS
  <2>3. CliShape(c) /\ c.quiet = cli.quiet
    BY <1>13, <2>2
  <2>4. Returns(TRUE, c, d) \/ Failed(now, d) \/ Returns(TRUE, leave, thawed) \/ Failed(at, froze)
    BY <1>2, <1>3, <1>5, <1>15, <2>1, <2>2 DEF Dump
  <2>5. Finishes(c, d) \/ Finishes(now, d) \/ Finishes(leave, thawed) \/ Finishes(at, froze)
    BY <1>4, <1>6, <2>3, <2>4 DEF Finishes
  <2>. QED
    BY <1>1, <1>15, <2>5, CommandPhase, FinishesKeeps DEF Dump
<1>16. ASSUME NotNow PROVE IInv'
  <2>1. PICK c : c = IF cli.changeset \/ ~Command("resume") THEN cli ELSE Attaching
    OBVIOUS
  <2>2. CliShape(c) /\ c.quiet = cli.quiet
    BY <1>1, <2>1, SessionShapes
  <2>3. Returns(FALSE, c, d)
    BY <1>5, <1>16, <2>1 DEF NotNow
  <2>4. Finishes(c, d)
    BY <1>6, <2>2, <2>3 DEF Finishes
  <2>. QED
    BY <1>1, <1>16, <2>4, CommandPhase, FinishesKeeps DEF NotNow
<1>. QED
  BY <1>7, <1>8, <1>9, <1>10, <1>11, <1>12, <1>14, <1>15, <1>16 DEF Commands

LEMMA ReadingKeeps ==
    ASSUME IInv, NEW file \in {"batch", "execute"}, NEW lines \in Batches \cup Scripts, Reading(file, lines)
    PROVE  IInv'
<1>1. /\ cli' = [cli EXCEPT !.quiet = TRUE, !.ctx = <<>>, !.failed = FALSE]
      /\ line' = [AtPrompt EXCEPT !.phase = "file", !.file = file, !.rest = lines]
      /\ past' = [NewLine EXCEPT !.typed = @ + 1] /\ UNCHANGED db
  BY DEF Reading
<1>2. Shape
  BY DEF IInv
<1>3. /\ DOMAIN line' = LineFields /\ line'.phase = "file" /\ line'.file = file /\ line'.rest = lines
      /\ line'.sig = <<>> /\ line'.ctx = <<>> /\ line'.parsed = <<>> /\ line'.backup = <<>>
  BY <1>1, PromptShape DEF LineFields
<1>4. IsSequence(lines) /\ \A i \in 1 .. Len(lines) : WellMade(lines[i])
  <2>1. IsSequence(lines) /\ \A i \in DOMAIN lines : WellMade(lines[i])
    BY LinesAssumption DEF IsSequence
  <2>. QED
    BY <2>1, SequenceShape
<1>5. LineShape(line')
  BY <1>3, <1>4, EmptySequence DEF LineShape
<1>6. CliShape(cli')
  BY <1>1, <1>2, EmptySequence DEF Shape, CliShape, CliFields
<1>7. DOMAIN past' = PastFields
  BY <1>1, <1>2, NewLinePast DEF PastFields
<1>8. Quiet'
  BY <1>3 DEF Quiet, InFile
<1>9. DbShape(db')
  BY <1>1, <1>2 DEF Shape
<1>. QED
  BY <1>3, <1>5, <1>6, <1>7, <1>8, <1>9, OutsideKeeps

LEMMA FilesKeep == IInv /\ ((\E b \in Batches : Batch(b)) \/ (\E x \in Scripts : Execute(x)) \/ FileEnds) => IInv'
<1>1. ASSUME IInv, NEW b \in Batches, Batch(b) PROVE IInv'
  <2>1. CASE Reading("batch", b)
    BY <1>1, <2>1, ReadingKeeps
  <2>2. CASE /\ cli' = [cli EXCEPT !.quiet = TRUE, !.ctx = <<>>, !.failed = FALSE]
             /\ line' = [AtPrompt EXCEPT !.end = "refused"] /\ UNCHANGED db
             /\ past' = [NewLine EXCEPT !.typed = @ + 1, !.faults = @ + 1, !.unlocked = TRUE]
    <3>1. Shape
      BY <1>1 DEF IInv
    <3>2. CliShape(cli') /\ DbShape(db')
      BY <2>2, <3>1, EmptySequence DEF Shape, CliShape, CliFields
    <3>3. DOMAIN past' = PastFields /\ past'.unlocked
      BY <2>2, <3>1, NewLinePast DEF PastFields
    <3>4. /\ DOMAIN line' = LineFields /\ line'.phase = "prompt" /\ line'.sig = <<>> /\ line'.file = "none"
          /\ line'.ctx = <<>> /\ line'.parsed = <<>> /\ line'.backup = <<>> /\ line'.rest = <<>>
      BY <2>2, PromptShape DEF LineFields
    <3>5. LineShape(line')
      BY <3>4, PromptShape DEF LineShape
    <3>6. Quiet'
      BY <3>3 DEF Quiet
    <3>. QED
      BY <3>2, <3>3, <3>4, <3>5, <3>6, OutsideKeeps
  <2>. QED
    BY <1>1, <2>1, <2>2 DEF Batch
<1>2. ASSUME IInv, NEW x \in Scripts, Execute(x) PROVE IInv'
  BY <1>2, ReadingKeeps DEF Execute
<1>3. ASSUME IInv, FileEnds PROVE IInv'
  <2>1. Shape
    BY <1>3 DEF IInv
  <2>2. PICK end : line' = [AtPrompt EXCEPT !.end = end]
    BY <1>3 DEF FileEnds
  <2>3. /\ cli' = [cli EXCEPT !.quiet = FALSE, !.ctx = <<>>]
        /\ past' = [past EXCEPT !.unlocked = FALSE] /\ UNCHANGED db
    BY <1>3 DEF FileEnds
  <2>4. CliShape(cli') /\ DbShape(db') /\ ~cli'.quiet
    BY <2>1, <2>3, EmptySequence DEF Shape, CliShape, CliFields
  <2>5. DOMAIN past' = PastFields
    BY <2>1, <2>3 DEF Shape, PastFields
  <2>6. /\ DOMAIN line' = LineFields /\ line'.phase = "prompt" /\ line'.sig = <<>> /\ line'.file = "none"
        /\ line'.ctx = <<>> /\ line'.parsed = <<>> /\ line'.backup = <<>> /\ line'.rest = <<>>
    BY <2>2, PromptShape DEF LineFields
  <2>7. LineShape(line')
    BY <2>6, PromptShape DEF LineShape
  <2>8. Quiet'
    BY <2>4 DEF Quiet
  <2>. QED
    BY <2>4, <2>5, <2>6, <2>7, <2>8, OutsideKeeps
<1>. QED
  BY <1>1, <1>2, <1>3

LEMMA OtherCommitKeeps == IInv /\ OtherCommit => IInv'
<1>. SUFFICES ASSUME IInv, OtherCommit PROVE IInv'
  OBVIOUS
<1>1. PICK v \in Views : db' = [db EXCEPT !.live = v, !.obsolete = @ \/ db.pending]
  BY DEF OtherCommit
<1>2. past' = [past EXCEPT !.faults = @ + 1] /\ UNCHANGED <<cli, line>>
  BY DEF OtherCommit
<1>3. DOMAIN v = ViewFields
  <2>1. v = [objs |-> v.objs, set |-> v.set]
    BY ViewsAssumption DEF IsData
  <2>. QED
    BY <2>1 DEF ViewFields
<1>4. Shape
  BY DEF IInv
<1>5. Mild
  BY <1>1, <1>2, <1>3, <1>4 DEF Shape, Mild, CliShape, DbShape, DbFields, SurePast, PastFields, SameMode
<1>. QED
  BY <1>2, <1>5, SameLineKeeps

-----------------------------------------------------------------------------
(***************************************************************************)
(* Every session starts in the invariant and stays in it.                  *)
(***************************************************************************)
LEMMA Starts == Init => IInv
<1>. SUFFICES ASSUME Init PROVE IInv
  OBVIOUS
<1>1. PICK v \in Views : db = [live |-> v, work |-> v, seen |-> v, gone |-> NoData, pending |-> FALSE,
                               obsolete |-> FALSE, frozen |-> FALSE]
  BY DEF Init
<1>2. DbShape(db)
  <2>1. v = [objs |-> v.objs, set |-> v.set]
    BY ViewsAssumption DEF IsData
  <2>2. DOMAIN v = ViewFields
    BY <2>1 DEF ViewFields
  <2>. QED
    BY <1>1, <2>2 DEF DbShape, DbFields
<1>3. DOMAIN cli = CliFields /\ cli.ctx = <<>> /\ cli.before = <<>> /\ ~cli.quiet
  BY DEF Init, CliFields
<1>4. CliShape(cli)
  BY <1>3, EmptySequence DEF CliShape
<1>5. DOMAIN past = PastFields
  BY DEF Init, PastFields
<1>6. line = AtPrompt
  BY DEF Init
<1>7. LineShape(line) /\ line.phase = "prompt" /\ line.sig = <<>>
  BY <1>6, PromptShape
<1>. QED
  BY <1>2, <1>3, <1>4, <1>5, <1>7 DEF IInv, Shape, Quiet, Confirms, Applies, ContextsAgree

LEMMA Inductive == IInv /\ [Next \/ Stops]_vars => IInv'
<1>. SUFFICES ASSUME IInv, [Next \/ Stops]_vars PROVE IInv'
  OBVIOUS
<1>1. CASE Next
  BY <1>1, TypeLineKeeps, FilesKeep, CommandsKeep, ConfirmKeeps, ApplyKeeps, FileLineKeeps, OtherCommitKeeps
     DEF Next, Handle
<1>2. CASE UNCHANGED vars
  <2>1. Mild
    BY <1>2 DEF vars, IInv, Shape, Mild, SurePast, SameMode
  <2>. QED
    BY <1>2, <2>1, SameLineKeeps DEF vars
<1>. QED
  BY <1>1, <1>2 DEF Stops

THEOREM Invariant == Spec => []IInv
BY Starts, Inductive, PTL DEF Spec

(* When a line was performed, the prompt shows the context the parser had  *)
(* computed for it: the second pass, which follows what the server has     *)
(* really done, does not lose its way in any line there is.                *)
THEOREM PromptAgrees == Spec => []ContextsAgree
<1>1. IInv => ContextsAgree
  BY DEF IInv
<1>. QED
  BY <1>1, Invariant, PTL

(* Objects vanish unconfirmed only in a file, in a session forced to be    *)
(* non-interactive, and after a batch file that could not be locked.       *)
Unasked == line.phase = "apply" /\ Signal[1] # "rename" /\ ~(db.work.objs \subseteq db'.work.objs)
LEMMA DeleteStep ==
    ASSUME IInv, [Next \/ Stops]_vars, Unasked PROVE Permitted
<1>1. db' # db /\ line.phase = "apply"
  BY DEF Unasked
<1>2. Apply \/ OtherCommit
  <2>1. Next
    BY <1>1 DEF Stops, vars
  <2>2. ~Confirm
    BY <1>1 DEF Confirm, ConfirmReading, ConfirmLeft, ConfirmCreate, ConfirmEntered, ConfirmSet, ConfirmRemove,
           ConfirmDelete, ConfirmRename, Confirming, NoSignals
  <2>3. ~Commands
    <3>1. \A name : ~Command(name)
      BY <1>1 DEF Command, AtThePrompt
    <3>. QED
      BY <3>1 DEF Commands, Start, Resume, Commit, Detach, Abort, NonInteractive, Context, Dump, NotNow
  <2>4. ~(\E l \in Lines : TypeLine(l)) /\ ~(\E b \in Batches : Batch(b)) /\ ~(\E x \in Scripts : Execute(x))
    BY <1>1 DEF TypeLine, Batch, Execute, AtThePrompt
  <2>5. ~FileLine /\ ~FileEnds
    BY <1>1 DEF FileLine, FileEnds
  <2>. QED
    BY <2>1, <2>2, <2>3, <2>4, <2>5 DEF Next, Handle
<1>3. ~OtherCommit
  <2>1. SUFFICES ASSUME OtherCommit PROVE FALSE
    OBVIOUS
  <2>2. DbShape(db)
    BY DEF IInv, Shape
  <2>3. db'.work = db.work
    BY <2>1, <2>2 DEF OtherCommit, DbShape, DbFields
  <2>. QED
    BY <2>3 DEF Unasked
<1>4. Applied
  BY <1>2, <1>3, ApplyOk DEF IInv
<1>5. Signal[1] = "delete"
  BY <1>4 DEF Applied, Unasked
<1>6. PICK k \in 0 .. (Len(line.sig) - 1) : Behind(k)
  BY <1>1 DEF IInv, Applies, Follows
<1>7. IsSequence(line.sig) /\ Len(line.sig) \in Nat
  BY SequenceShape DEF IInv, Shape, LineShape
<1>8. k \in Nat /\ k < Len(line.sig) /\ k + 1 \in 1 .. Len(line.sig)
  BY <1>7
<1>9. Signal = line.sig[k + 1]
  BY <1>6, <1>7, <1>8, SignalsLeft DEF Behind, Signal
<1>. QED
  BY <1>1, <1>5, <1>8, <1>9 DEF IInv, Applies, Allowed

THEOREM NothingVanishes == Spec => DeletesAreConfirmed
<1>1. IInv /\ [Next \/ Stops]_vars =>
        [line.phase = "apply" /\ Signal[1] # "rename" /\ ~(db.work.objs \subseteq db'.work.objs) =>
           past.sure \/ cli.force \/ InFile \/ past.unlocked]_vars
  BY DeleteStep DEF Unasked, Permitted
<1>. QED
  BY <1>1, Invariant, PTL DEF Spec, DeletesAreConfirmed

-----------------------------------------------------------------------------
(***************************************************************************)
(* The cache.  In a changeset it tells what the work holds, but for new    *)
(* objects the server is to name; outside one, while the view is frozen,   *)
(* it tells exactly what the frozen view holds.  For that nothing may      *)
(* change the data outside a changeset, which the first pass sees to: it   *)
(* refuses what would, and an object that a line enters outside one is     *)
(* there and has a name, so that the second pass finds the same object.    *)
(***************************************************************************)
Nearly(known, objs)  == \A o \in DOMAIN known : IsNew(o) \/ known[o] = (o \in objs)
Exactly(known, objs) == \A o \in DOMAIN known : known[o] = (o \in objs)

InPasses == line.phase \in {"confirm", "apply"}
InsideTells  == cli.stable /\ cli.changeset /\ ~past.taint => Nearly(cli.known, db.work.objs)
OutsideTells == cli.stable /\ ~cli.changeset /\ db.frozen => Exactly(cli.known, db.seen.objs)
Viewing == InPasses /\ ~cli.changeset => db.frozen /\ cli.stable
Batched == line.file = "batch" => cli.changeset
Asked   == line.phase = "confirm" /\ line.auto => cli.changeset

Harmless(s) ==
    /\ s[1] \in {"left", "filter", "show", "enter"}
    /\ s[1] = "enter" => Named(s[2]) /\ ExpandIn(db.seen, s[2]) \subseteq db.seen.objs
Idle(k) == ~cli.changeset => \A i \in 1 .. k : Harmless(line.sig[i])
Idles ==
    /\ line.phase = "confirm" => \E k \in 0 .. Len(line.sig) : (k = 0 \/ k < Len(line.sig)) /\ Behind(k) /\ Idle(k)
    /\ line.phase = "apply" => Idle(Len(line.sig))

CInv == InsideTells /\ OutsideTells /\ Viewing /\ Batched /\ Asked /\ Idles

-----------------------------------------------------------------------------
(* What is looked up, and what is told of what is there, is so.            *)
LEMMA ViewInside == /\ cli.changeset => View = db.work
                    /\ ~cli.changeset /\ db.frozen => View = db.seen
BY DEF View

LEMMA LookedTells ==
    ASSUME NEW S
    PROVE  /\ Nearly(cli.known, View.objs) => Nearly(Looked(S), View.objs)
           /\ Exactly(cli.known, View.objs) => Exactly(Looked(S), View.objs)
<1>1. DOMAIN Looked(S) = DOMAIN cli.known \cup S
  BY DEF Looked
<1>2. \A o \in DOMAIN Looked(S) :
         \/ Looked(S)[o] = (o \in View.objs)
         \/ o \in DOMAIN cli.known /\ Looked(S)[o] = cli.known[o]
  BY DEF Looked, Exists, Knows
<1>. QED
  BY <1>1, <1>2 DEF Nearly, Exactly

LEMMA ToldTells ==
    ASSUME NEW known, NEW objs, NEW T, T \subseteq objs
    PROVE  /\ Nearly(known, objs) => Nearly(Told(known, T, TRUE), objs)
           /\ Exactly(known, objs) => Exactly(Told(known, T, TRUE), objs)
<1>1. CASE ~cli.stable
  BY <1>1 DEF Told
<1>2. CASE cli.stable
  <2>1. Told(known, T, TRUE) = [o \in DOMAIN known \cup T |-> IF o \in T THEN TRUE ELSE known[o]]
    BY <1>2 DEF Told
  <2>2. \A o \in T : TRUE = (o \in objs)
    OBVIOUS
  <2>. QED
    BY <2>1, <2>2 DEF Nearly, Exactly
<1>. QED
  BY <1>1, <1>2

LEMMA NothingTells == ASSUME NEW objs PROVE Nearly(Nothing, objs) /\ Exactly(Nothing, objs)
BY DEF Nearly, Exactly, Nothing

\* What the filters of a context match is there.
StepAt(v, ctx, i, before) ==
    LET k == ctx[i][2]
    IN  IF IsFilter(ctx[i])
          THEN {o \in v.objs : o[1] = k /\ Matches(v, o, ctx[i][3]) /\ (i = 1 \/ \E t \in before : IsUnder(o, t))}
        ELSE IF i = 1 THEN {<<k, <<ctx[i][3]>>>>} ELSE {<<k, Append(t[2], ctx[i][3])>> : t \in before}
Steps(f, n, v, ctx) == f = [i \in 1 .. n |-> StepAt(v, ctx, i, f[i - 1])]

LEMMA StepsThere ==
    ASSUME NEW v, NEW ctx, Len(ctx) \in Nat
    PROVE  Steps(Narrowing(v, ctx), Len(ctx), v, ctx)
<1>. DEFINE S == {n \in Nat : \E f : Steps(f, n, v, ctx)}
<1>1. 0 \in S
  <2>. DEFINE f == [i \in 1 .. 0 |-> i]
  <2>1. f = [i \in 1 .. 0 |-> StepAt(v, ctx, i, f[i - 1])]
    OBVIOUS
  <2>. QED
    BY <2>1 DEF Steps
<1>2. ASSUME NEW n \in Nat, n \in S PROVE n + 1 \in S
  <2>1. PICK f : Steps(f, n, v, ctx)
    BY <1>2
  <2>. DEFINE g == [i \in 1 .. (n + 1) |-> IF i = n + 1 THEN StepAt(v, ctx, i, f[n]) ELSE f[i]]
  <2>2. g[n + 1] = StepAt(v, ctx, n + 1, f[n]) /\ \A i \in 1 .. n : g[i] = f[i]
    <3>1. n + 1 \in 1 .. (n + 1) /\ \A i \in 1 .. n : i \in 1 .. (n + 1) /\ i # n + 1
      OBVIOUS
    <3>. QED
      BY <3>1
  <2>3. \A i \in 1 .. n : f[i] = StepAt(v, ctx, i, f[i - 1])
    BY <2>1 DEF Steps
  <2>4. g = [i \in 1 .. (n + 1) |-> g[i]]
    OBVIOUS
  <2>. HIDE DEF g
  <2>5. \A p, q : StepAt(v, ctx, 1, p) = StepAt(v, ctx, 1, q)
    BY DEF StepAt
  <2>6. ASSUME NEW i \in 1 .. (n + 1) PROVE g[i] = StepAt(v, ctx, i, g[i - 1])
    <3>1. CASE i = 1
      <4>1. \E p : g[i] = StepAt(v, ctx, 1, p)
        <5>1. 1 \in 1 .. n \/ 1 = n + 1
          OBVIOUS
        <5>. QED
          BY <2>2, <2>3, <3>1, <5>1
      <4>. QED
        BY <2>5, <3>1, <4>1
    <3>2. CASE i # 1 /\ i = n + 1
      <4>1. i - 1 = n /\ n \in 1 .. n
        BY <3>2
      <4>. QED
        BY <2>2, <3>2, <4>1
    <3>3. CASE i # 1 /\ i # n + 1
      <4>1. i \in 1 .. n /\ i - 1 \in 1 .. n
        BY <3>3
      <4>. QED
        BY <2>2, <2>3, <4>1
    <3>. QED
      BY <3>1, <3>2, <3>3
  <2>7. Steps(g, n + 1, v, ctx)
    BY <2>4, <2>6 DEF Steps
  <2>. QED
    BY <2>7
<1>. HIDE DEF S
<1>3. Len(ctx) \in S
  BY <1>1, <1>2, SetInduction
<1>4. \E f : Steps(f, Len(ctx), v, ctx)
  BY <1>3 DEF S
<1>5. Narrowing(v, ctx) = CHOOSE f : Steps(f, Len(ctx), v, ctx)
  BY DEF Narrowing, Steps, StepAt
<1>. QED
  BY <1>4, <1>5

LEMMA FilterExpands ==
    ASSUME NEW v, NEW ctx, IsSequence(ctx), ctx # <<>>, IsFilter(ctx[Len(ctx)])
    PROVE  ExpandIn(v, ctx) \subseteq v.objs
<1>1. Len(ctx) \in Nat \ {0} /\ Len(ctx) \in 1 .. Len(ctx)
  BY TailOfSequence
<1>2. HasFilter(ctx)
  BY <1>1 DEF HasFilter
<1>3. ExpandIn(v, ctx) = Narrowing(v, ctx)[Len(ctx)]
  BY <1>2 DEF ExpandIn
<1>4. \E p : Narrowing(v, ctx)[Len(ctx)] = StepAt(v, ctx, Len(ctx), p)
  <2>. DEFINE f == Narrowing(v, ctx)
  <2>1. Steps(f, Len(ctx), v, ctx)
    BY <1>1, StepsThere
  <2>. HIDE DEF f
  <2>2. f[Len(ctx)] = StepAt(v, ctx, Len(ctx), f[Len(ctx) - 1])
    BY <1>1, <2>1 DEF Steps
  <2>. QED
    BY <2>2 DEF f
<1>5. \A p : StepAt(v, ctx, Len(ctx), p) \subseteq v.objs
  BY DEF StepAt
<1>. QED
  BY <1>3, <1>4, <1>5

LEMMA MatchedThere == ASSUME NEW ctx, IsSequence(ctx) PROVE Matched(ctx) \subseteq View.objs
<1>1. Len(ctx) \in Nat
  BY SequenceShape
<1>2. ASSUME NEW i \in 1 .. Len(ctx), IsFilter(ctx[i]) PROVE Expand(SubSeq(ctx, 1, i)) \subseteq View.objs
  <2>1. PICK c, v : c = SubSeq(ctx, 1, i) /\ v = View
    OBVIOUS
  <2>2. i \in Nat /\ i <= Len(ctx) /\ i # 0 /\ i \in 1 .. i
    BY <1>1
  <2>3. IsSequence(c) /\ Len(c) = i /\ \A j \in 1 .. i : c[j] = ctx[j]
    BY <2>1, <2>2, StartOfSequence
  <2>4. c # <<>>
    BY <2>2, <2>3, EmptySequence
  <2>5. IsFilter(c[Len(c)])
    BY <1>2, <2>2, <2>3
  <2>6. ExpandIn(v, c) \subseteq v.objs
    BY ONLY <2>3, <2>4, <2>5, FilterExpands
  <2>. QED
    BY <2>1, <2>6 DEF Expand
<1>. QED
  BY <1>2 DEF Matched

LEMMA ExpandOne == ASSUME NEW ctx, ~HasFilter(ctx) PROVE \E x : Expand(ctx) \subseteq {x}
<1>1. CASE ctx = <<>>
  <2>1. Expand(ctx) = {}
    BY <1>1 DEF Expand, ExpandIn
  <2>. QED
    BY <2>1
<1>2. CASE ctx # <<>>
  <2>1. Expand(ctx) = {<<LastKind(ctx), PathOf(ctx)>>}
    BY <1>2 DEF Expand, ExpandIn
  <2>. QED
    BY <2>1
<1>. QED
  BY <1>1, <1>2

LEMMA TargetsOne == ASSUME NEW ctx, ~HasFilter(ctx), NEW k PROVE \E x : Targets(ctx, k) \subseteq {x}
<1>1. PICK x : Expand(ctx) \subseteq {x}
  BY ExpandOne
<1>2. Targets(ctx, k) \subseteq {<<k, x[2]>>}
  BY <1>1 DEF Targets
<1>. QED
  BY <1>2

-----------------------------------------------------------------------------
(* The signals of the second pass are those of the parser: outside a       *)
(* changeset, the object that is entered is the one the first pass saw.    *)
LEMMA SignalNow ==
    ASSUME IInv, line.phase = "apply"
    PROVE  \E k, c, d :
              /\ k \in 0 .. (Len(line.sig) - 1) /\ k + 1 \in 1 .. Len(line.sig) /\ Signal = line.sig[k + 1]
              /\ IsSequence(c) /\ SameContext(line.ctx, c) /\ After(c, Signal, d)
<1>1. PICK k, cs :
         /\ k \in 0 .. (Len(line.sig) - 1) /\ Behind(k)
         /\ Along(line.backup, line.sig, cs)
         /\ SameContext(line.ctx, cs[k])
  BY DEF IInv, Applies, Follows
<1>2. IsSequence(line.sig) /\ Len(line.sig) \in Nat
  BY SequenceShape DEF IInv, Shape, LineShape
<1>3. /\ k \in Nat /\ k < Len(line.sig) /\ k + 1 \in 1 .. Len(line.sig) /\ (k + 1) - 1 = k
      /\ k \in 0 .. Len(line.sig)
  BY <1>1, <1>2
<1>4. Signal = line.sig[k + 1]
  BY <1>1, <1>2, <1>3, SignalsLeft DEF Behind, Signal
<1>5. After(cs[(k + 1) - 1], line.sig[k + 1], cs[k + 1]) /\ IsSequence(cs[k])
  BY <1>1, <1>3 DEF Along
<1>. QED
  BY <1>1, <1>3, <1>4, <1>5

LEMMA HarmlessSignal == ASSUME IInv, CInv, line.phase = "apply", ~cli.changeset PROVE Harmless(Signal)
BY SignalNow DEF CInv, Idles, Idle

LEMMA SameWhenNamed ==
    ASSUME NEW b, NEW c, NEW x, IsSequence(b), IsSequence(c), SameContext(b, c), Named(Append(c, x))
    PROVE  b = c
<1>1. Len(b) = Len(c) /\ Len(c) \in Nat /\ DOMAIN c = 1 .. Len(c)
  BY SequenceShape DEF SameContext
<1>2. /\ Len(Append(c, x)) = Len(c) + 1
      /\ \A i \in 1 .. Len(c) : Append(c, x)[i] = c[i]
  BY ONLY <1>1, IsSequence(c), AppendedSequence
<1>3. \A i \in 1 .. Len(c) : i \in 1 .. (Len(c) + 1)
  BY <1>1
<1>4. \A i \in 1 .. Len(c) : IsFilter(c[i]) \/ c[i][3] # NoName
  BY <1>2, <1>3 DEF Named
<1>5. \A i \in 1 .. Len(b) : b[i] = c[i]
  BY <1>1, <1>4 DEF SameContext
<1>. QED
  BY <1>1, <1>5, SameSequences

\* The object a line enters outside a changeset is there, and the cache agrees.
LEMMA EnteredThere ==
    ASSUME IInv, CInv, line.phase = "apply", ~cli.changeset, Signal[1] = "enter",
           NEW ctx, ctx = Append(line.ctx, <<"object", Signal[3], Signal[4]>>)
    PROVE  Named(ctx) /\ AllExist(Expand(ctx))
<1>1. Harmless(Signal)
  BY HarmlessSignal
<1>2. PICK c, d : IsSequence(c) /\ SameContext(line.ctx, c) /\ After(c, Signal, d)
  BY SignalNow
<1>3. PICK x : x = <<"object", Signal[3], Signal[4]>>
  OBVIOUS
<1>4. d = Append(c, x) /\ Signal[2] = d
  BY <1>2, <1>3 DEF After
<1>5. IsSequence(line.ctx)
  BY DEF IInv, Shape, LineShape
<1>6. Named(Append(c, x))
  BY <1>1, <1>4 DEF Harmless
<1>7. line.ctx = c
  BY <1>2, <1>5, <1>6, SameWhenNamed
<1>8. ctx = Signal[2]
  BY <1>3, <1>4, <1>7
<1>9. db.frozen /\ cli.stable
  BY DEF CInv, Viewing, InPasses
<1>10. View = db.seen /\ Exactly(cli.known, db.seen.objs)
  BY <1>9, ViewInside DEF CInv, OutsideTells
<1>11. Expand(ctx) \subseteq View.objs
  BY <1>1, <1>8, <1>10 DEF Harmless, Expand
<1>12. ASSUME NEW o \in Expand(ctx) PROVE Exists(o)
  <2>1. o \in db.seen.objs /\ o \in View.objs
    BY <1>10, <1>11
  <2>2. CASE o \in DOMAIN cli.known
    <3>1. cli.known[o] = (o \in db.seen.objs)
      BY <1>10, <2>2 DEF Exactly
    <3>2. cli.known[o]
      BY <2>1, <3>1
    <3>. QED
      BY <1>9, <2>2, <3>2 DEF Exists, Knows
  <2>3. CASE o \notin DOMAIN cli.known
    BY <2>1, <2>3 DEF Exists, Knows
  <2>. QED
    BY <2>2, <2>3
<1>. QED
  BY <1>1, <1>8, <1>12 DEF Harmless, AllExist

-----------------------------------------------------------------------------
(* What a handler leaves in the cache.                                     *)
CacheStep ==
    /\ cli'.changeset = cli.changeset
    /\ cli.changeset => InsideTells'
    /\ ~cli.changeset => /\ db'.seen = db.seen /\ OutsideTells'
                         /\ line'.phase \in {"confirm", "apply"} => db'.frozen /\ cli'.stable
\* What it tells the cache is so in the data it leaves.
Tells(known, d) ==
    /\ cli.changeset => (cli.stable /\ ~past'.taint => Nearly(known, d.work.objs))
    /\ ~cli.changeset => d = db /\ Exactly(known, db.seen.objs)
Ends == line'.phase \in {"prompt", "file"} /\ line'.file = line.file

LEMMA BackEnds ==
    ASSUME Shape, NEW end, NEW ctx, line' = Back(end, ctx)
    PROVE  line'.phase \in {"prompt", "file"} /\ line'.file = line.file
<1>1. /\ DOMAIN NextLine = LineFields /\ NextLine.phase \in {"prompt", "file"} /\ NextLine.file = line.file
  BY DEF NextLine, Shape, LineShape, LineFields
<1>2. line' = [NextLine EXCEPT !.end = end, !.todo = <<>>, !.ctx = ctx]
  BY DEF Back
<1>. QED
  BY <1>1, <1>2 DEF LineFields

LEMMA EndCache ==
    ASSUME Shape, InPasses, NEW c, NEW d, NEW end, NEW ctx, EndOfLine(c, d, end, ctx),
           DOMAIN c = CliFields, c.changeset = cli.changeset, c.stable = cli.stable,
           cli.changeset => (cli.stable /\ ~past'.taint => Nearly(c.known, d.work.objs)),
           ~cli.changeset => d = db
    PROVE  CacheStep /\ Ends
<1>1. Ends
  <2>1. line' = Back(end, ctx)
    BY DEF EndOfLine
  <2>. QED
    BY <2>1, BackEnds DEF Ends
<1>2. CASE cli.changeset
  <2>1. cli' = c /\ db' = d
    BY <1>2 DEF EndOfLine
  <2>. QED
    BY <1>1, <1>2, <2>1 DEF CacheStep, InsideTells
<1>3. CASE ~cli.changeset
  <2>1. cli' = [ClearCache(c) EXCEPT !.stable = FALSE] /\ db' = Thawed(db)
    BY <1>3 DEF EndOfLine
  <2>2. ~cli'.stable /\ cli'.changeset = cli.changeset
    BY <2>1 DEF CliFields, ClearCache
  <2>3. db'.seen = db.seen
    BY <2>1 DEF Shape, DbShape, DbFields, Thawed
  <2>. QED
    BY <1>1, <1>3, <2>2, <2>3 DEF CacheStep, OutsideTells, Ends
<1>. QED
  BY <1>2, <1>3

LEMMA StayCache ==
    ASSUME Shape, CInv, InPasses, NEW known, NEW d, cli' = [cli EXCEPT !.known = known], db' = d, Tells(known, d)
    PROVE  CacheStep
<1>1. cli'.changeset = cli.changeset /\ cli'.stable = cli.stable /\ cli'.known = known
  BY DEF Shape, CliShape, CliFields
<1>2. CASE cli.changeset
  BY <1>1, <1>2 DEF CacheStep, InsideTells, Tells
<1>3. CASE ~cli.changeset
  BY <1>1, <1>3 DEF CacheStep, OutsideTells, Tells, CInv, Viewing
<1>. QED
  BY <1>2, <1>3

LEMMA PerformedCache ==
    ASSUME Shape, CInv, InPasses, NEW ctx, NEW known, NEW d, Performed(ctx, known, d), Tells(known, d)
    PROVE  CacheStep
<1>1. CASE Len(line.todo) = 1
  <2>1. PICK c : c = [cli EXCEPT !.ctx = ctx, !.known = known]
    OBVIOUS
  <2>2. EndOfLine(c, d, "performed", ctx)
    BY <1>1, <2>1 DEF Performed
  <2>3. /\ DOMAIN c = CliFields /\ c.changeset = cli.changeset /\ c.stable = cli.stable /\ c.known = known
    BY <2>1 DEF Shape, CliShape, CliFields
  <2>. QED
    BY <2>2, <2>3, EndCache DEF Tells
<1>2. CASE Len(line.todo) # 1
  BY <1>2, StayCache DEF Performed
<1>. QED
  BY <1>1, <1>2

LEMMA NotPerformedCache ==
    ASSUME Shape, InPasses, NEW ctx, NEW known, NEW d, NEW failed,
           NotPerformed(ctx, known, d, failed),
           cli.changeset => (cli.stable /\ ~past'.taint => Nearly(known, d.work.objs)),
           ~cli.changeset => d = db
    PROVE  CacheStep
<1>1. PICK c : c = [cli EXCEPT !.ctx = ctx, !.known = known, !.failed = @ \/ failed]
  OBVIOUS
<1>2. EndOfLine(c, d, "notPerformed", ctx)
  BY <1>1 DEF NotPerformed
<1>3. DOMAIN c = CliFields /\ c.changeset = cli.changeset /\ c.stable = cli.stable /\ c.known = known
  BY <1>1 DEF Shape, CliShape, CliFields
<1>. QED
  BY <1>2, <1>3, EndCache

LEMMA ThrownCache ==
    ASSUME Shape, CInv, InPasses, NEW known, Error(known) \/ Faulty(known)
    PROVE  CacheStep
<1>1. Throw(known) /\ past'.taint = (line.file = "batch")
  BY DEF Error, Faulty, Shape, PastFields
<1>2. line' = Back("error", line.ctx) /\ db' = db
  BY <1>1 DEF Throw
<1>3. Ends
  <2>1. PICK end, ctx : end = "error" /\ ctx = line.ctx
    OBVIOUS
  <2>. QED
    BY <1>2, <2>1, BackEnds DEF Ends
<1>4. CASE line.file = "batch"
  <2>1. cli' = [cli EXCEPT !.failed = TRUE, !.known = known] /\ cli.changeset
    BY <1>1, <1>4 DEF Throw, CInv, Batched
  <2>2. cli'.changeset = cli.changeset
    BY <2>1 DEF Shape, CliShape, CliFields
  <2>. QED
    BY <1>1, <1>4, <2>1, <2>2 DEF CacheStep, InsideTells
<1>5. CASE line.file # "batch"
  <2>1. cli' \in {[ClearCache(cli) EXCEPT !.failed = TRUE, !.ctx = <<>>], [ClearCache(cli) EXCEPT !.ctx = cli.before]}
    BY <1>1, <1>5 DEF Throw
  <2>2. cli'.changeset = cli.changeset /\ cli'.known = Nothing
    BY <2>1 DEF ClearCache, Shape, CliShape, CliFields
  <2>3. InsideTells' /\ OutsideTells'
    BY <2>2, NothingTells DEF InsideTells, OutsideTells
  <2>. QED
    BY <1>2, <1>3, <2>2, <2>3 DEF CacheStep, Ends
<1>. QED
  BY <1>4, <1>5


-----------------------------------------------------------------------------
(* What the handlers of the second pass tell the cache of the work.        *)
Knowing == Shape /\ cli.stable /\ cli.changeset /\ Nearly(cli.known, View.objs)

LEMMA ExistsTells ==
    ASSUME cli.stable, Nearly(cli.known, View.objs), NEW o, ~IsNew(o)
    PROVE  Exists(o) = (o \in View.objs)
<1>1. CASE o \in DOMAIN cli.known
  BY <1>1 DEF Exists, Knows, Nearly
<1>2. CASE o \notin DOMAIN cli.known
  BY <1>2 DEF Exists, Knows
<1>. QED
  BY <1>1, <1>2

LEMMA ToCreateSome == ASSUME NEW S PROVE ToCreate(S) \subseteq S
BY DEF ToCreate

\* What is remembered of several objects, and of one.
LEMMA NowKnownTells ==
    ASSUME cli.stable, NEW S, NEW o \in DOMAIN NowKnown(S)
    PROVE  \/ o \in ToCreate(S) /\ NowKnown(S)[o] = TRUE
           \/ o \in S \ ToCreate(S) /\ Exists(o) /\ NowKnown(S)[o] = Exists(o)
           \/ o \notin S /\ o \in DOMAIN cli.known /\ NowKnown(S)[o] = cli.known[o]
<1>1. CASE Cardinality(S) = 1
  <2>1. NowKnown(S) = [q \in DOMAIN cli.known \cup S |-> IF q \in S THEN TRUE ELSE cli.known[q]] /\ ToCreate(S) = S
    BY <1>1 DEF NowKnown, Told, ToCreate
  <2>. QED
    BY <2>1
<1>2. CASE Cardinality(S) # 1
  <2>1. ToCreate(S) = {q \in S : ~Exists(q)}
    BY <1>2 DEF ToCreate
  <2>2. NowKnown(S) = [q \in DOMAIN Looked(S) \cup ToCreate(S) |-> IF q \in ToCreate(S) THEN TRUE ELSE Looked(S)[q]]
    BY <1>2 DEF NowKnown, Remembered, Told
  <2>3. DOMAIN Looked(S) = DOMAIN cli.known \cup S
    BY DEF Looked
  <2>4. CASE o \in ToCreate(S)
    BY <2>2, <2>4
  <2>5. CASE o \notin ToCreate(S)
    <3>1. o \in DOMAIN Looked(S) /\ NowKnown(S)[o] = Looked(S)[o]
      BY <2>2, <2>5
    <3>2. Looked(S)[o] = (IF o \in S THEN Exists(o) ELSE cli.known[o])
      BY <2>3, <3>1 DEF Looked
    <3>. QED
      BY <2>1, <2>3, <2>5, <3>1, <3>2
  <2>. QED
    BY <2>4, <2>5
<1>. QED
  BY <1>1, <1>2

LEMMA MadeObjects == ASSUME Shape, NEW S PROVE Made(S).work.objs = db.work.objs \cup {Called(o) : o \in ToCreate(S)}
<1>1. PICK T : T = {Called(o) : o \in ToCreate(S)}
  OBVIOUS
<1>2. Made(S) = [db EXCEPT !.work = [db.work EXCEPT !.objs = @ \cup T]]
  BY <1>1 DEF Made, Working, With
<1>. QED
  BY <1>1, <1>2 DEF Shape, DbShape, DbFields, ViewFields

LEMMA MadeTells == ASSUME Knowing, NEW S, ~Untold(S) PROVE Nearly(NowKnown(S), Made(S).work.objs)
<1>1. View = db.work /\ cli.stable /\ Nearly(cli.known, View.objs)
  BY DEF Knowing, View
<1>2. PICK new : new = {Called(q) : q \in ToCreate(S)}
  OBVIOUS
<1>3. Made(S).work.objs = View.objs \cup new
  BY <1>1, <1>2, MadeObjects DEF Knowing
<1>4. ASSUME NEW o \in DOMAIN NowKnown(S), ~IsNew(o) PROVE NowKnown(S)[o] = (o \in View.objs \cup new)
  <2>1. CASE o \in ToCreate(S) /\ NowKnown(S)[o] = TRUE
    <3>1. o = Called(o)
      BY <1>4 DEF Called
    <3>2. o \in new
      BY <1>2, <2>1, <3>1
    <3>. QED
      BY <2>1, <3>2
  <2>2. CASE o \in S \ ToCreate(S) /\ Exists(o) /\ NowKnown(S)[o] = Exists(o)
    <3>1. Exists(o) = (o \in View.objs)
      BY <1>1, <1>4, ExistsTells
    <3>. QED
      BY <2>2, <3>1
  <2>3. CASE o \notin S /\ o \in DOMAIN cli.known /\ NowKnown(S)[o] = cli.known[o]
    <3>1. cli.known[o] = (o \in View.objs)
      BY <1>1, <1>4, <2>3 DEF Nearly
    <3>2. o \notin new
      <4>1. SUFFICES ASSUME NEW q \in ToCreate(S), o = Called(q) PROVE FALSE
        BY <1>2
      <4>2. IsNew(q)
        BY <2>3, <4>1, ToCreateSome DEF Called
      <4>. QED
        BY <2>3, <4>1, <4>2 DEF Untold
    <3>. QED
      BY <2>3, <3>1, <3>2
  <2>. QED
    BY <1>1, <2>1, <2>2, <2>3, NowKnownTells
<1>. QED
  BY <1>3, <1>4 DEF Nearly

LEMMA RestoredObjects ==
    ASSUME Shape, NEW S
    PROVE  RestoredIn(S).work.objs = IF AllExist(S) THEN db.work.objs ELSE db.work.objs \cup (db.gone.objs \cap S)
<1>1. PICK v : v = Both(db.work, Only(db.gone, S))
  OBVIOUS
<1>2. v.objs = db.work.objs \cup (db.gone.objs \cap S)
  BY <1>1 DEF Both, Only
<1>3. Undeleted(S) = [[db EXCEPT !.work = v] EXCEPT !.gone = Without(@, S)]
  BY <1>1 DEF Undeleted, Working
<1>4. Undeleted(S).work = v
  BY <1>3 DEF Shape, DbShape, DbFields
<1>. QED
  BY <1>2, <1>4 DEF RestoredIn

LEMMA RestoredTells ==
    ASSUME Knowing, NEW S, NEW x, S \subseteq {x}, "gone" \in Refusals(S)
    PROVE  Nearly(KnownAgain(S), RestoredIn(S).work.objs)
<1>1. View = db.work /\ cli.stable /\ Nearly(cli.known, View.objs) /\ Shape
  BY DEF Knowing, View
<1>2. Nearly(Looked(S), View.objs)
  BY <1>1, LookedTells
<1>3. CASE AllExist(S)
  BY <1>1, <1>2, <1>3, RestoredObjects DEF KnownAgain
<1>4. CASE ~AllExist(S)
  <2>1. S \subseteq db.gone.objs
    <3>1. \E o \in ToCreate(S) : o \in db.gone.objs
      BY DEF Refusals
    <3>. QED
      BY <3>1, ToCreateSome
  <2>2. PICK known, objs : known = Looked(S) /\ objs = View.objs \cup S
    OBVIOUS
  <2>3. RestoredIn(S).work.objs = objs
    BY <1>1, <1>4, <2>1, <2>2, RestoredObjects
  <2>4. KnownAgain(S) = [o \in DOMAIN known \cup S |-> IF o \in S THEN TRUE ELSE known[o]]
    BY <1>1, <1>4, <2>2 DEF KnownAgain, Told
  <2>5. ASSUME NEW o \in DOMAIN KnownAgain(S), ~IsNew(o) PROVE KnownAgain(S)[o] = (o \in objs)
    <3>1. CASE o \in S
      BY <2>2, <2>4, <3>1
    <3>2. CASE o \notin S
      <4>1. o \in DOMAIN known /\ KnownAgain(S)[o] = known[o]
        BY <2>4, <3>2
      <4>2. known[o] = (o \in View.objs)
        BY <1>2, <2>2, <2>5, <4>1 DEF Nearly
      <4>. QED
        BY <2>2, <3>2, <4>1, <4>2
    <3>. QED
      BY <3>1, <3>2
  <2>. QED
    BY <2>3, <2>5 DEF Nearly
<1>. QED
  BY <1>3, <1>4

\* What is deleted is forgotten, what is nested in it too; the rest was looked at.
DeleteKnown(S) == Told(Told(Looked(S), Nested(S), TRUE), Removing(S \cup Nested(S)), FALSE)
LEMMA DeletedTells ==
    ASSUME Knowing, NEW S
    PROVE  Nearly(DeleteKnown(S), Deleted(Removing(S \cup Nested(S))).work.objs)
<1>1. View = db.work /\ cli.stable /\ Nearly(cli.known, View.objs)
  BY DEF Knowing, View
<1>2. PICK N, gone, objs, looked, told, known :
         /\ N = Nested(S) /\ gone = Removing(S \cup N) /\ objs = View.objs \ gone
         /\ looked = Looked(S) /\ told = Told(looked, N, TRUE) /\ known = Told(told, gone, FALSE)
  OBVIOUS
<1>3. Deleted(gone).work.objs = objs
  <2>1. PICK v : v = Without(db.work, gone)
    OBVIOUS
  <2>2. Deleted(gone) = [[db EXCEPT !.work = v] EXCEPT !.gone = Both(@, Only(db.work, gone))]
    BY <2>1 DEF Deleted, Working
  <2>3. Deleted(gone).work = v
    BY <2>2 DEF Knowing, Shape, DbShape, DbFields
  <2>4. v.objs = db.work.objs \ gone
    BY <2>1 DEF Without
  <2>5. objs = db.work.objs \ gone
    BY <1>1, <1>2
  <2>. QED
    BY <2>3, <2>4, <2>5
<1>4. N \subseteq View.objs
  BY <1>2 DEF Nested
<1>5. known = [o \in DOMAIN told \cup gone |-> IF o \in gone THEN FALSE ELSE told[o]]
  BY <1>1, <1>2 DEF Told
<1>6. told = [o \in DOMAIN looked \cup N |-> IF o \in N THEN TRUE ELSE looked[o]]
  BY <1>1, <1>2 DEF Told
<1>7. Nearly(looked, View.objs)
  BY <1>1, <1>2, LookedTells
<1>8. ASSUME NEW o \in DOMAIN known, ~IsNew(o) PROVE known[o] = (o \in objs)
  <2>1. CASE o \in gone
    <3>1. o \notin objs
      BY <1>2, <2>1
    <3>2. known[o] = FALSE
      BY <1>5, <2>1
    <3>3. FALSE = (o \in objs)
      BY <3>1
    <3>. QED
      BY <3>2, <3>3
  <2>2. CASE o \notin gone
    <3>1. o \in DOMAIN told /\ known[o] = told[o]
      BY <1>5, <2>2
    <3>2. told[o] = (o \in View.objs)
      <4>1. CASE o \in N
        BY <1>4, <1>6, <4>1
      <4>2. CASE o \notin N
        <5>1. o \in DOMAIN looked /\ told[o] = looked[o]
          BY <1>6, <3>1, <4>2
        <5>. QED
          BY <1>7, <1>8, <5>1 DEF Nearly
      <4>. QED
        BY <4>1, <4>2
    <3>3. (o \in View.objs) = (o \in objs)
      BY <1>2, <2>2
    <3>. QED
      BY <3>1, <3>2, <3>3
  <2>. QED
    BY <2>1, <2>2
<1>. QED
  BY <1>2, <1>3, <1>8 DEF Nearly, DeleteKnown

\* What has moved is known by its new name; nothing else has moved.
LEMMA RenamedTells ==
    ASSUME Knowing, NEW T, NEW name, CanRename(db.work, T, name), Nested(T) = {}
    PROVE  Nearly(KnownRenamed(T, name), Working(Renamed(db.work, T, name)).work.objs)
<1>1. View = db.work /\ cli.stable /\ Nearly(cli.known, View.objs)
  BY DEF Knowing, View
<1>2. PICK new, objs, told, known :
         /\ new = {Moved(t, T, name) : t \in T} /\ objs = {Moved(o, T, name) : o \in View.objs}
         /\ told = Told(cli.known, T, FALSE) /\ known = Told(told, new, TRUE)
  OBVIOUS
<1>3. Working(Renamed(db.work, T, name)).work.objs = objs
  <2>1. PICK v : v = Renamed(db.work, T, name)
    OBVIOUS
  <2>2. Working(v).work = v
    BY DEF Knowing, Shape, DbShape, DbFields, Working
  <2>3. v.objs = {Moved(o, T, name) : o \in db.work.objs}
    BY <2>1 DEF Renamed
  <2>4. objs = {Moved(o, T, name) : o \in db.work.objs}
    BY <1>1, <1>2
  <2>. QED
    BY <2>1, <2>2, <2>3, <2>4
<1>4. T \subseteq View.objs /\ \A t \in T : Moved(t, T, name) \notin View.objs
  BY <1>1 DEF CanRename
<1>5. ASSUME NEW o \in View.objs, o \notin T PROVE Moved(o, T, name) = o
  <2>1. ~\E top \in T : o = top \/ IsUnder(o, top)
    BY <1>5 DEF Nested
  <2>. QED
    BY <2>1 DEF Moved
<1>6. \A o \in objs : o \in new \/ (o \in View.objs /\ o \notin T)
  BY <1>2, <1>5
<1>7. \A o : o \in View.objs /\ o \notin T => o \in objs
  BY <1>2, <1>5
<1>8. new \subseteq objs
  BY <1>2, <1>4
<1>9. known = [o \in DOMAIN told \cup new |-> IF o \in new THEN TRUE ELSE told[o]]
  BY <1>1, <1>2 DEF Told
<1>10. told = [o \in DOMAIN cli.known \cup T |-> IF o \in T THEN FALSE ELSE cli.known[o]]
  BY <1>1, <1>2 DEF Told
<1>11. ASSUME NEW o \in DOMAIN known, ~IsNew(o) PROVE known[o] = (o \in objs)
  <2>1. CASE o \in new
    BY <1>8, <1>9, <2>1
  <2>2. CASE o \notin new
    <3>1. o \in DOMAIN told /\ known[o] = told[o]
      BY <1>9, <2>2
    <3>2. CASE o \in T
      <4>1. o \notin objs
        BY <1>6, <2>2, <3>2
      <4>2. told[o] = FALSE
        BY <1>10, <3>1, <3>2
      <4>3. FALSE = (o \in objs)
        BY <4>1
      <4>. QED
        BY <3>1, <4>2, <4>3
    <3>3. CASE o \notin T
      <4>1. o \in DOMAIN cli.known /\ told[o] = cli.known[o]
        BY <1>10, <3>1, <3>3
      <4>2. cli.known[o] = (o \in View.objs)
        BY <1>1, <1>11, <4>1 DEF Nearly
      <4>3. o \in View.objs <=> o \in objs
        BY <1>6, <1>7, <2>2, <3>3
      <4>. QED
        BY <3>1, <4>1, <4>2, <4>3
    <3>. QED
      BY <3>2, <3>3
  <2>. QED
    BY <2>1, <2>2
<1>. QED
  BY <1>2, <1>3, <1>11 DEF Nearly, KnownRenamed

-----------------------------------------------------------------------------
(* Each handler of the second pass leaves a cache that tells what is so.   *)
LEMMA KnowsInside == ASSUME Shape, CInv, cli.changeset, cli.stable, ~past.taint PROVE Knowing
BY ViewInside DEF Knowing, CInv, InsideTells

LEMMA KnowsOutside ==
    ASSUME CInv, InPasses, ~cli.changeset
    PROVE  cli.stable /\ db.frozen /\ View = db.seen /\ Exactly(cli.known, View.objs)
BY ViewInside DEF CInv, Viewing, OutsideTells

\* A handler that changes no data.
LEMMA SameTells ==
    ASSUME Shape, CInv, InPasses, past'.taint = past.taint
    PROVE  /\ Tells(cli.known, db)
           /\ \A S : Tells(Looked(S), db)
           /\ \A T : T \subseteq View.objs => Tells(Told(cli.known, T, TRUE), db)
<1>1. CASE cli.changeset
  <2>1. View = db.work
    BY <1>1 DEF View
  <2>2. cli.stable /\ ~past'.taint => Nearly(cli.known, View.objs)
    BY <1>1, KnowsInside DEF Knowing
  <2>3. ASSUME NEW S PROVE Tells(Looked(S), db)
    BY <1>1, <2>1, <2>2, LookedTells DEF Tells
  <2>4. ASSUME NEW T, T \subseteq View.objs PROVE Tells(Told(cli.known, T, TRUE), db)
    <3>1. PICK known, objs : known = cli.known /\ objs = View.objs
      OBVIOUS
    <3>2. Nearly(known, objs) => Nearly(Told(known, T, TRUE), objs)
      BY <2>4, <3>1, ToldTells
    <3>. QED
      BY <1>1, <2>1, <2>2, <3>1, <3>2 DEF Tells
  <2>. QED
    BY <1>1, <2>1, <2>2, <2>3, <2>4 DEF Tells
<1>2. CASE ~cli.changeset
  <2>1. View = db.seen /\ Exactly(cli.known, View.objs)
    BY <1>2, KnowsOutside
  <2>2. ASSUME NEW S PROVE Tells(Looked(S), db)
    BY <1>2, <2>1, LookedTells DEF Tells
  <2>3. ASSUME NEW T, T \subseteq View.objs PROVE Tells(Told(cli.known, T, TRUE), db)
    <3>1. PICK known, objs : known = cli.known /\ objs = View.objs
      OBVIOUS
    <3>2. Exactly(Told(known, T, TRUE), objs)
      BY <2>1, <2>3, <3>1, ToldTells
    <3>. QED
      BY <1>2, <2>1, <3>1, <3>2 DEF Tells
  <2>. QED
    BY <1>2, <2>1, <2>2, <2>3 DEF Tells
<1>. QED
  BY <1>1, <1>2

LEMMA TaintStays ==
    ASSUME Shape
    PROVE  /\ UNCHANGED past => past'.taint = past.taint
           /\ \A S : Agreed(S) => past'.taint = past.taint
           /\ \A b : past' = [past EXCEPT !.taint = @ \/ b] => past'.taint = (past.taint \/ b)
           /\ past' = [past EXCEPT !.sure = TRUE] => past'.taint = past.taint
BY DEF Shape, PastFields, Agreed

LEMMA NotPerformedTells ==
    ASSUME Shape, InPasses, NEW ctx, NEW known, NEW failed, NotPerformed(ctx, known, db, failed), Tells(known, db)
    PROVE  CacheStep
<1>1. PICK d : d = db
  OBVIOUS
<1>2. NotPerformed(ctx, known, d, failed) /\ Tells(known, d)
  BY <1>1
<1>. QED
  BY <1>1, <1>2, NotPerformedCache DEF Tells

LEMMA ApplyLeftCache == ASSUME Shape, CInv, ApplyLeft PROVE CacheStep
<1>1. PICK ctx, known, d : ctx = Front(line.ctx) /\ known = cli.known /\ d = db
  OBVIOUS
<1>2. InPasses /\ UNCHANGED past /\ Performed(ctx, known, d)
  BY <1>1 DEF ApplyLeft, Applying, InPasses
<1>3. Tells(known, d)
  BY <1>1, <1>2, SameTells, TaintStays
<1>. QED
  BY <1>2, <1>3, PerformedCache

LEMMA ApplyFilterCache == ASSUME Shape, CInv, ApplyFilter PROVE CacheStep
<1>1. PICK ctx, old, before, known, d :
         /\ ctx = Narrowed /\ old = cli.known /\ before = line.ctx /\ d = db
         /\ known = Told(cli.known, Matched(Narrowed), TRUE)
  OBVIOUS
<1>2. InPasses /\ UNCHANGED past /\ (Performed(ctx, known, d) \/ NotPerformed(before, old, db, FALSE))
  BY <1>1 DEF ApplyFilter, Applying, InPasses
<1>3. Matched(Narrowed) \subseteq View.objs
  <2>1. PICK c, x : c = line.ctx /\ x = <<"filter", Signal[3], Signal[4]>>
    OBVIOUS
  <2>2. IsSequence(Append(c, x))
    BY <2>1, AppendedSequence DEF Shape, LineShape
  <2>3. Narrowed = Append(c, x)
    BY <2>1 DEF Narrowed
  <2>. QED
    BY <2>2, <2>3, MatchedThere
<1>4. Tells(known, d) /\ Tells(old, db)
  BY <1>1, <1>2, <1>3, SameTells, TaintStays
<1>. QED
  BY <1>2, <1>4, PerformedCache, NotPerformedTells

LEMMA ApplyShowCache == ASSUME Shape, CInv, ApplyShow PROVE CacheStep
<1>1. PICK T, ctx, old, known, d :
         /\ T = Nested(Expand(line.ctx)) \cup Connected(Expand(line.ctx)) /\ ctx = line.ctx /\ old = cli.known
         /\ known = Told(cli.known, T, TRUE) /\ d = db
  OBVIOUS
<1>2. InPasses
  BY DEF ApplyShow, Applying, InPasses
<1>3. (Performed(ctx, known, d) /\ UNCHANGED past) \/ Error(old) \/ Faulty(old)
  BY <1>1 DEF ApplyShow
<1>4. T \subseteq View.objs
  BY <1>1 DEF Nested, Connected
<1>5. CASE Performed(ctx, known, d) /\ UNCHANGED past
  BY <1>1, <1>2, <1>4, <1>5, SameTells, TaintStays, PerformedCache
<1>. QED
  BY <1>2, <1>3, <1>5, ThrownCache

\* Objects are created, restored, or not.
LEMMA MadeStepTells ==
    ASSUME Shape, CInv, cli.changeset, NEW S, past' = [past EXCEPT !.taint = @ \/ Untold(S)]
    PROVE  Tells(NowKnown(S), Made(S))
<1>1. past'.taint = (past.taint \/ Untold(S))
  BY TaintStays
<1>2. cli.stable /\ ~past'.taint => Nearly(NowKnown(S), Made(S).work.objs)
  BY <1>1, KnowsInside, MadeTells
<1>. QED
  BY <1>2 DEF Tells

LEMMA RestoredStepTells ==
    ASSUME Shape, CInv, cli.changeset, NEW S, Agreed(S), "gone" \in Refusals(S), \E x : S \subseteq {x}
    PROVE  Tells(KnownAgain(S), RestoredIn(S))
<1>1. past'.taint = past.taint
  BY TaintStays
<1>2. cli.stable /\ ~past'.taint => Nearly(KnownAgain(S), RestoredIn(S).work.objs)
  BY <1>1, KnowsInside, RestoredTells
<1>. QED
  BY <1>2 DEF Tells

LEMMA RememberedTells ==
    ASSUME Shape, CInv, cli.changeset, NEW S, past' = [past EXCEPT !.taint = @ \/ Cardinality(S) # 1]
    PROVE  Tells(Remembered(S), db)
<1>1. past'.taint = (past.taint \/ Cardinality(S) # 1)
  BY TaintStays
<1>2. View = db.work
  BY DEF View
<1>3. ASSUME cli.stable, ~past'.taint PROVE Nearly(Remembered(S), db.work.objs)
  <2>1. Cardinality(S) = 1 /\ Nearly(cli.known, View.objs)
    BY <1>1, <1>3, KnowsInside DEF Knowing
  <2>2. Remembered(S) = cli.known
    BY <2>1 DEF Remembered
  <2>. QED
    BY <1>2, <2>1, <2>2
<1>. QED
  BY <1>3 DEF Tells

LEMMA NotRestoredCache == ASSUME Shape, CInv, InPasses, cli.changeset, NEW ctx, NEW S, NotRestored(ctx, S) PROVE CacheStep
<1>1. PICK c, known, old : c = line.ctx /\ known = Remembered(S) /\ old = cli.known
  OBVIOUS
<1>2. \/ NotPerformed(c, known, db, FALSE) /\ past' = [past EXCEPT !.taint = @ \/ Cardinality(S) # 1]
      \/ NotPerformed(c, old, db, FALSE) /\ UNCHANGED past
  BY <1>1 DEF NotRestored
<1>3. CASE NotPerformed(c, known, db, FALSE) /\ past' = [past EXCEPT !.taint = @ \/ Cardinality(S) # 1]
  BY <1>1, <1>3, RememberedTells, NotPerformedTells
<1>4. CASE NotPerformed(c, old, db, FALSE) /\ UNCHANGED past
  BY <1>1, <1>4, SameTells, TaintStays, NotPerformedTells
<1>. QED
  BY <1>2, <1>3, <1>4

LEMMA ApplyCreateCache == ASSUME IInv, CInv, ApplyCreate PROVE CacheStep
<1>1. PICK ctx : ctx = Append(line.ctx, <<"object", Signal[3], Signal[4]>>)
  OBVIOUS
<1>2. PICK S : S = Expand(ctx)
  OBVIOUS
<1>3. PICK new, c, looked, known, again, old, made, restored, same :
         /\ new = Append(line.ctx, NewItem(S)) /\ c = line.ctx /\ looked = Looked(S) /\ known = NowKnown(S)
         /\ again = KnownAgain(S) /\ old = Remembered(S) /\ made = Made(S) /\ restored = RestoredIn(S) /\ same = db
  OBVIOUS
<1>4. Shape /\ InPasses /\ line.phase = "apply" /\ Signal[1] \in {"create", "enter"}
  BY DEF IInv, ApplyCreate, Applying, InPasses
<1>5. \/ Signal[1] = "enter" /\ Performed(ctx, looked, same) /\ UNCHANGED past
      \/ /\ Signal[1] = "create" \/ ~Named(ctx) \/ ~AllExist(S)
         /\ \/ /\ past' = [past EXCEPT !.taint = @ \/ Untold(S)]
               /\ Performed(new, known, made) \/ NotPerformed(c, known, made, TRUE)
            \/ NotRestored(ctx, S)
            \/ "gone" \in Refusals(S) /\ IsRestored(ctx, S) /\ Performed(ctx, again, restored)
            \/ NotPerformed(c, old, db, TRUE) /\ past' = [past EXCEPT !.taint = @ \/ Cardinality(S) # 1]
            \/ Error(old) \/ Faulty(old)
  BY <1>1, <1>2, <1>3 DEF ApplyCreate
<1>6. CASE Performed(ctx, looked, same) /\ UNCHANGED past
  <2>1. Tells(looked, same)
    BY <1>3, <1>4, <1>6, SameTells, TaintStays
  <2>. QED
    BY <1>4, <1>6, <2>1, PerformedCache
<1>7. CASE ~cli.changeset
  <2>1. Signal[1] = "enter"
    BY <1>4, <1>7, HarmlessSignal DEF Harmless
  <2>2. Named(ctx) /\ AllExist(S)
    BY <1>1, <1>2, <1>4, <1>7, <2>1, EnteredThere
  <2>. QED
    BY <1>5, <1>6, <2>1, <2>2
<1>8. CASE /\ cli.changeset /\ past' = [past EXCEPT !.taint = @ \/ Untold(S)]
           /\ Performed(new, known, made) \/ NotPerformed(c, known, made, TRUE)
  <2>1. Tells(known, made)
    BY <1>3, <1>4, <1>8, MadeStepTells
  <2>2. CASE Performed(new, known, made)
    BY <1>4, <2>1, <2>2, PerformedCache
  <2>3. CASE NotPerformed(c, known, made, TRUE)
    BY <1>4, <1>8, <2>1, <2>3, NotPerformedCache DEF Tells
  <2>. QED
    BY <1>8, <2>2, <2>3
<1>9. CASE cli.changeset /\ NotRestored(ctx, S)
  BY <1>4, <1>9, NotRestoredCache
<1>10. CASE cli.changeset /\ "gone" \in Refusals(S) /\ IsRestored(ctx, S) /\ Performed(ctx, again, restored)
  <2>1. Agreed(S) /\ \E x : S \subseteq {x}
    BY <1>2, <1>10, ExpandOne DEF IsRestored
  <2>2. Tells(again, restored)
    BY <1>3, <1>4, <1>10, <2>1, RestoredStepTells
  <2>. QED
    BY <1>4, <1>10, <2>2, PerformedCache
<1>11. CASE cli.changeset /\ NotPerformed(c, old, db, TRUE) /\ past' = [past EXCEPT !.taint = @ \/ Cardinality(S) # 1]
  BY <1>3, <1>4, <1>11, RememberedTells, NotPerformedTells
<1>12. CASE Error(old) \/ Faulty(old)
  BY <1>4, <1>12, ThrownCache
<1>. QED
  BY <1>5, <1>6, <1>7, <1>8, <1>9, <1>10, <1>11, <1>12

LEMMA ApplyContainedCache == ASSUME IInv, CInv, ApplyContained PROVE CacheStep
<1>1. PICK S : S = Targets(line.ctx, Signal[3])
  OBVIOUS
<1>2. PICK known, again, old, made, restored :
         /\ known = NowKnown(S) /\ again = KnownAgain(S) /\ old = Remembered(S)
         /\ made = Made(S) /\ restored = RestoredIn(S)
  OBVIOUS
<1>3. Shape /\ InPasses /\ line.phase = "apply" /\ Signal[1] \in {"set", "add"}
  BY DEF IInv, ApplyContained, Applying, InPasses
<1>4. cli.changeset
  BY <1>3, HarmlessSignal DEF Harmless
<1>5. \/ cli' = [cli EXCEPT !.known = known] /\ db' = made /\ past' = [past EXCEPT !.taint = @ \/ Untold(S)]
      \/ NotRestored(line.ctx, S)
      \/ /\ "gone" \in Refusals(S) /\ IsRestored(line.ctx, S)
         /\ cli' = [cli EXCEPT !.known = again] /\ db' = restored
      \/ Error(old) \/ Faulty(old)
  BY <1>1, <1>2 DEF ApplyContained
<1>6. CASE cli' = [cli EXCEPT !.known = known] /\ db' = made /\ past' = [past EXCEPT !.taint = @ \/ Untold(S)]
  <2>1. Tells(known, made)
    BY <1>2, <1>3, <1>4, <1>6, MadeStepTells
  <2>. QED
    BY <1>3, <1>6, <2>1, StayCache
<1>7. CASE NotRestored(line.ctx, S)
  <2>1. PICK c : c = line.ctx
    OBVIOUS
  <2>. QED
    BY <1>3, <1>4, <1>7, <2>1, NotRestoredCache
<1>8. CASE /\ "gone" \in Refusals(S) /\ IsRestored(line.ctx, S)
           /\ cli' = [cli EXCEPT !.known = again] /\ db' = restored
  <2>1. PICK c, k : c = line.ctx /\ k = Signal[3]
    OBVIOUS
  <2>2. Agreed(S) /\ ~HasFilter(c) /\ S = Targets(c, k)
    BY <1>1, <1>8, <2>1 DEF IsRestored
  <2>3. \E x : S \subseteq {x}
    BY <2>2, TargetsOne
  <2>4. Tells(again, restored)
    BY <1>2, <1>3, <1>4, <1>8, <2>2, <2>3, RestoredStepTells
  <2>. QED
    BY <1>3, <1>8, <2>4, StayCache
<1>9. CASE Error(old) \/ Faulty(old)
  BY <1>3, <1>9, ThrownCache
<1>. QED
  BY <1>5, <1>6, <1>7, <1>8, <1>9

LEMMA ApplyAttributeCache == ASSUME IInv, CInv, ApplyAttribute PROVE CacheStep
<1>1. PICK S, writes : S = Changed(line.ctx, Signal[3]) /\ writes = (Signal[1] \in {"set", "add"})
  OBVIOUS
<1>2. PICK ctx, known, d : ctx = line.ctx /\ known = cli.known /\ d = Written(S, Signal[4][1], writes)
  OBVIOUS
<1>3. Shape /\ InPasses /\ line.phase = "apply" /\ Signal[1] \in {"set", "add", "no", "remove"}
  BY DEF IInv, ApplyAttribute, Applying, InPasses
<1>4. cli.changeset
  BY <1>3, HarmlessSignal DEF Harmless
<1>5. (Performed(ctx, known, d) /\ UNCHANGED past) \/ Error(known) \/ Faulty(known)
  BY <1>1, <1>2 DEF ApplyAttribute
<1>6. CASE Performed(ctx, known, d) /\ UNCHANGED past
  <2>1. \E T : d = [db EXCEPT !.work = [db.work EXCEPT !.set = T]]
    BY <1>2 DEF Written, Working
  <2>2. d.work.objs = db.work.objs
    BY <1>3, <2>1 DEF Shape, DbShape, DbFields, ViewFields
  <2>3. Tells(known, db)
    BY <1>2, <1>3, <1>6, SameTells, TaintStays
  <2>4. Tells(known, d)
    BY <1>4, <2>2, <2>3 DEF Tells
  <2>. QED
    BY <1>3, <1>6, <2>4, PerformedCache
<1>. QED
  BY <1>3, <1>5, <1>6, ThrownCache

LEMMA ApplyDeleteCache == ASSUME IInv, CInv, ApplyDelete PROVE CacheStep
<1>1. PICK S : S = Expand(line.ctx)
  OBVIOUS
<1>2. PICK ctx, back, known, told, d :
         /\ ctx = line.ctx /\ back = line.backup /\ known = DeleteKnown(S) /\ told = Told(cli.known, Nested(S), TRUE)
         /\ d = Deleted(Removing(S \cup Nested(S)))
  OBVIOUS
<1>3. Shape /\ InPasses /\ line.phase = "apply" /\ Signal[1] = "delete"
  BY DEF IInv, ApplyDelete, Applying, InPasses
<1>4. cli.changeset
  BY <1>3, HarmlessSignal DEF Harmless
<1>5. \/ Performed(ctx, known, d) /\ UNCHANGED past
      \/ NotPerformed(back, told, db, FALSE) /\ UNCHANGED past
      \/ Error(known) \/ Faulty(known)
  BY <1>1, <1>2 DEF ApplyDelete, DeleteKnown
<1>6. CASE Performed(ctx, known, d) /\ UNCHANGED past
  <2>1. past'.taint = past.taint
    BY <1>3, <1>6, TaintStays
  <2>2. cli.stable /\ ~past'.taint => Nearly(known, d.work.objs)
    BY <1>2, <1>3, <1>4, <2>1, KnowsInside, DeletedTells
  <2>3. Tells(known, d)
    BY <1>4, <2>2 DEF Tells
  <2>. QED
    BY <1>3, <1>6, <2>3, PerformedCache
<1>7. CASE NotPerformed(back, told, db, FALSE) /\ UNCHANGED past
  <2>1. Nested(S) \subseteq View.objs
    BY DEF Nested
  <2>2. Tells(told, db)
    BY <1>2, <1>3, <1>7, <2>1, SameTells, TaintStays
  <2>. QED
    BY <1>3, <1>7, <2>2, NotPerformedTells
<1>. QED
  BY <1>3, <1>5, <1>6, <1>7, ThrownCache

LEMMA ApplyRenameCache == ASSUME IInv, CInv, ApplyRename PROVE CacheStep
<1>1. PICK T, known, d, ctx :
         /\ known = KnownRenamed(T, Signal[4]) /\ d = Working(Renamed(db.work, T, Signal[4])) /\ ctx = line.ctx
         /\ \/ /\ CanRename(db.work, T, Signal[4]) /\ Performed(ctx, known, d)
               /\ past' = [past EXCEPT !.taint = @ \/ Nested(T) # {}]
            \/ Error(known) \/ Faulty(known)
  BY DEF ApplyRename
<1>2. Shape /\ InPasses /\ line.phase = "apply" /\ Signal[1] = "rename"
  BY DEF IInv, ApplyRename, Applying, InPasses
<1>3. cli.changeset
  BY <1>2, HarmlessSignal DEF Harmless
<1>4. CASE /\ CanRename(db.work, T, Signal[4]) /\ Performed(ctx, known, d)
           /\ past' = [past EXCEPT !.taint = @ \/ Nested(T) # {}]
  <2>1. past'.taint = (past.taint \/ Nested(T) # {})
    BY <1>2, <1>4, TaintStays
  <2>2. PICK name : name = Signal[4]
    OBVIOUS
  <2>3. cli.stable /\ ~past'.taint => Nearly(known, d.work.objs)
    BY <1>1, <1>2, <1>3, <1>4, <2>1, <2>2, KnowsInside, RenamedTells
  <2>4. Tells(known, d)
    BY <1>3, <2>3 DEF Tells
  <2>. QED
    BY <1>2, <1>4, <2>4, PerformedCache
<1>. QED
  BY <1>1, <1>2, <1>4, ThrownCache

LEMMA ApplyCache == ASSUME IInv, CInv, Apply PROVE CacheStep
BY ApplyLeftCache, ApplyFilterCache, ApplyShowCache, ApplyCreateCache, ApplyContainedCache, ApplyAttributeCache,
   ApplyDeleteCache, ApplyRenameCache DEF Apply, IInv

-----------------------------------------------------------------------------
(* The first pass: it changes no data, and outside a changeset it lets     *)
(* pass only what will change none.                                        *)
Passes == \E known, auto : Confirmed(known, auto) /\ (~cli.changeset => Harmless(Signal) /\ ~auto)

LEMMA ConfirmedCache ==
    ASSUME Shape, CInv, InPasses, NEW known, NEW auto, Confirmed(known, auto), Tells(known, db),
           ~cli.changeset => Harmless(Signal) /\ ~auto
    PROVE  CacheStep /\ Passes
<1>1. Passes
  BY DEF Passes
<1>2. PICK d : d = db
  OBVIOUS
<1>3. cli' = [cli EXCEPT !.known = known] /\ db' = d /\ Tells(known, d)
  BY <1>2 DEF Confirmed
<1>. QED
  BY <1>1, <1>3, StayCache

LEMMA RefusedCache ==
    ASSUME Shape, CInv, InPasses, NEW known, NEW failed, Refused(known, failed), Tells(known, db)
    PROVE  CacheStep /\ Ends
<1>1. PICK c, d, ctx : c = [cli EXCEPT !.ctx = line.ctx, !.known = known, !.failed = @ \/ failed] /\ d = db /\ ctx = line.ctx
  OBVIOUS
<1>2. EndOfLine(c, d, "refused", ctx)
  BY <1>1 DEF Refused
<1>3. DOMAIN c = CliFields /\ c.changeset = cli.changeset /\ c.stable = cli.stable /\ c.known = known
  BY <1>1 DEF Shape, CliShape, CliFields
<1>. QED
  BY <1>1, <1>2, <1>3, EndCache DEF Tells

\* What is refused outside a changeset, and confirmed in one.
LEMMA InsideOnly ==
    ASSUME Shape, CInv, InPasses, past'.taint = past.taint, NEW known, NEW refused, NEW auto, NEW failed,
           (cli.changeset /\ Confirmed(known, auto)) \/ Refused(refused, failed),
           Tells(known, db), Tells(refused, db)
    PROVE  CacheStep /\ (Passes \/ Ends)
BY ConfirmedCache, RefusedCache

LEMMA ConfirmReadingCache == ASSUME Shape, CInv, ConfirmReading \/ ConfirmLeft PROVE CacheStep /\ (Passes \/ Ends)
<1>1. InPasses /\ UNCHANGED past /\ Signal[1] \in {"filter", "show", "left"} /\ line.phase = "confirm"
  BY DEF ConfirmReading, ConfirmLeft, Confirming, InPasses
<1>2. PICK known, auto : known = cli.known /\ auto \in {line.auto, FALSE} /\ Confirmed(known, auto)
  BY DEF ConfirmReading, ConfirmLeft
<1>3. Tells(known, db)
  BY <1>1, <1>2, SameTells, TaintStays
<1>4. Harmless(Signal)
  BY <1>1 DEF Harmless
<1>5. ~cli.changeset => ~auto
  BY <1>1, <1>2 DEF CInv, Asked
<1>. QED
  BY <1>1, <1>2, <1>3, <1>4, <1>5, ConfirmedCache

LEMMA ConfirmChangeCache ==
    ASSUME Shape, CInv, ConfirmCreate \/ ConfirmDelete \/ ConfirmRename
    PROVE  CacheStep /\ (Passes \/ Ends)
<1>1. InPasses
  BY DEF ConfirmCreate, ConfirmDelete, ConfirmRename, Confirming, InPasses
<1>2. PICK known, auto : known = cli.known /\ auto = line.auto
  OBVIOUS
<1>3. \/ cli.changeset /\ Confirmed(known, auto)
      \/ Refused(known, TRUE)
      \/ Refused(known, FALSE)
  BY <1>2 DEF ConfirmCreate, ConfirmDelete, ConfirmRename
<1>4. UNCHANGED past \/ (\E S : Agreed(S)) \/ past' = [past EXCEPT !.sure = TRUE]
  BY DEF ConfirmCreate, ConfirmDelete, ConfirmRename, Refused
<1>5. past'.taint = past.taint
  BY <1>4, TaintStays
<1>6. Tells(known, db)
  BY <1>1, <1>2, <1>5, SameTells
<1>. QED
  BY <1>1, <1>3, <1>5, <1>6, InsideOnly

LEMMA ConfirmAttributeCache ==
    ASSUME Shape, CInv, ~Crashes, ConfirmSet \/ ConfirmRemove
    PROVE  CacheStep /\ (Passes \/ Ends)
<1>1. InPasses
  BY DEF ConfirmSet, ConfirmRemove, Confirming, InPasses
<1>2. PICK S, known, looked, auto :
         /\ S = IF ~Named(Signal[2]) \/ (Signal[1] \in {"no", "remove"} /\ Signal[3] = LastKind(Signal[2]))
                THEN {} ELSE Targets(Signal[2], Signal[3])
         /\ known = cli.known /\ looked = Looked(S) /\ auto = line.auto
  OBVIOUS
<1>3. /\ \/ cli.changeset /\ (Confirmed(known, auto) \/ Confirmed(looked, auto))
         \/ Refused(known, TRUE) \/ Refused(looked, FALSE) \/ Refused(looked, TRUE)
      /\ UNCHANGED past \/ (\E T : Agreed(T))
  <2>1. CASE ConfirmSet
    <3>1. S = IF Named(Signal[2]) THEN Targets(Signal[2], Signal[3]) ELSE {}
      BY <1>2, <2>1 DEF ConfirmSet, Confirming
    <3>. QED
      BY <1>2, <2>1, <3>1 DEF ConfirmSet, Refused
  <2>2. CASE ConfirmRemove
    <3>1. S = IF Signal[3] = LastKind(Signal[2]) \/ ~Named(Signal[2]) THEN {} ELSE Targets(Signal[2], Signal[3])
      BY <1>2, <2>2 DEF ConfirmRemove, Confirming
    <3>. QED
      BY <1>2, <2>2, <3>1 DEF ConfirmRemove, Refused
  <2>. QED
    BY <2>1, <2>2
<1>4. past'.taint = past.taint
  BY <1>3, TaintStays
<1>5. Tells(known, db) /\ Tells(looked, db)
  BY <1>1, <1>2, <1>4, SameTells
<1>. QED
  BY <1>1, <1>3, <1>4, <1>5, InsideOnly

LEMMA EnteredHarmless ==
    ASSUME Shape, CInv, InPasses, ~cli.changeset, Signal[1] = "enter", Named(Signal[2]), AllExist(Expand(Signal[2]))
    PROVE  Harmless(Signal)
<1>1. View = db.seen /\ Exactly(cli.known, View.objs)
  BY KnowsOutside
<1>2. ASSUME NEW o, Exists(o) PROVE o \in View.objs
  <2>1. CASE Knows(o)
    <3>1. cli.known[o] /\ cli.known[o] = (o \in View.objs)
      BY <1>1, <1>2, <2>1 DEF Exists, Knows, Exactly
    <3>. QED
      BY <3>1
  <2>2. CASE ~Knows(o)
    BY <1>2, <2>2 DEF Exists
  <2>. QED
    BY <2>1, <2>2
<1>3. Expand(Signal[2]) \subseteq View.objs
  BY <1>2 DEF AllExist
<1>. QED
  BY <1>1, <1>3 DEF Harmless, Expand

LEMMA ConfirmEnteredCache == ASSUME Shape, CInv, ~Crashes, ConfirmEntered PROVE CacheStep /\ (Passes \/ Ends)
<1>1. InPasses /\ line.phase = "confirm" /\ Signal[1] = "enter"
  BY DEF ConfirmEntered, Confirming, InPasses
<1>2. PICK S, known, looked :
         /\ S = IF Named(Signal[2]) THEN Expand(Signal[2]) ELSE {}
         /\ known = cli.known /\ looked = Looked(S)
  OBVIOUS
<1>3. PICK there : there = (Named(Signal[2]) /\ AllExist(S))
  OBVIOUS
<1>4. /\ \/ line.auto /\ Confirmed(known, TRUE)
         \/ Refused(looked, TRUE) \/ Refused(looked, FALSE)
         \/ ~line.auto /\ (there \/ cli.changeset) /\ (Confirmed(known, FALSE) \/ Confirmed(looked, FALSE))
         \/ ~line.auto /\ (cli.changeset \/ there) /\ ~there /\ Confirmed(looked, TRUE)
      /\ UNCHANGED past \/ (\E T : Agreed(T))
  BY <1>2, <1>3 DEF ConfirmEntered, Refused
<1>5. past'.taint = past.taint
  BY <1>4, TaintStays
<1>6. Tells(known, db) /\ Tells(looked, db)
  BY <1>1, <1>2, <1>5, SameTells
<1>7. ~cli.changeset => ~line.auto
  BY <1>1 DEF CInv, Asked
<1>8. CASE Refused(looked, TRUE) \/ Refused(looked, FALSE)
  BY <1>1, <1>6, <1>8, RefusedCache
<1>9. CASE ~line.auto /\ (there \/ cli.changeset) /\ (Confirmed(known, FALSE) \/ Confirmed(looked, FALSE))
  <2>1. ~cli.changeset => Harmless(Signal) /\ ~FALSE
    BY <1>1, <1>2, <1>3, <1>9, EnteredHarmless
  <2>2. PICK auto : auto = FALSE
    OBVIOUS
  <2>. QED
    BY <1>1, <1>6, <1>9, <2>1, <2>2, ConfirmedCache
<1>10. CASE cli.changeset /\ (Confirmed(known, TRUE) \/ Confirmed(looked, TRUE))
  <2>1. PICK auto : auto = TRUE
    OBVIOUS
  <2>. QED
    BY <1>1, <1>6, <1>10, <2>1, ConfirmedCache
<1>. QED
  BY <1>4, <1>7, <1>8, <1>9, <1>10

LEMMA NoSignalsCache == ASSUME Shape, CInv, NoSignals PROVE CacheStep /\ Ends
<1>1. PICK c, d, ctx, known : c = [cli EXCEPT !.ctx = line.ctx] /\ d = db /\ ctx = line.ctx /\ known = cli.known
  OBVIOUS
<1>2. EndOfLine(c, d, "performed", ctx) /\ UNCHANGED past /\ InPasses
  BY <1>1 DEF NoSignals, InPasses
<1>3. DOMAIN c = CliFields /\ c.changeset = cli.changeset /\ c.stable = cli.stable /\ c.known = known
  BY <1>1 DEF Shape, CliShape, CliFields
<1>4. Tells(known, db)
  BY <1>1, <1>2, SameTells, TaintStays
<1>. QED
  BY <1>1, <1>2, <1>3, <1>4, EndCache DEF Tells

LEMMA ConfirmCache == ASSUME Shape, CInv, ~Crashes, Confirm PROVE CacheStep /\ (Passes \/ Ends)
BY ConfirmReadingCache, ConfirmChangeCache, ConfirmAttributeCache, ConfirmEnteredCache, NoSignalsCache DEF Confirm
-----------------------------------------------------------------------------
(* The passes keep what is said of the cache.                              *)
LEMMA StepTells ==
    ASSUME CacheStep
    PROVE  /\ InsideTells' /\ OutsideTells' /\ Viewing'
           /\ cli'.changeset = cli.changeset /\ (~cli.changeset => db'.seen = db.seen)
BY DEF CacheStep, InsideTells, OutsideTells, Viewing, InPasses

LEMMA EndsCache == ASSUME CInv, CacheStep, Ends PROVE CInv'
<1>1. InsideTells' /\ OutsideTells' /\ Viewing' /\ cli'.changeset = cli.changeset
  BY StepTells
<1>2. Batched' /\ Asked' /\ Idles'
  BY <1>1 DEF CInv, Ends, Batched, Asked, Idles
<1>. QED
  BY <1>1, <1>2 DEF CInv

LEMMA IdleStays ==
    ASSUME NEW k, Idle(k), line'.sig = line.sig, cli'.changeset = cli.changeset, ~cli.changeset => db'.seen = db.seen
    PROVE  Idle(k)'
<1>1. SUFFICES ASSUME ~cli.changeset, NEW i \in 1 .. k PROVE Harmless(line.sig[i])'
  BY DEF Idle
<1>2. Harmless(line.sig[i]) /\ db'.seen = db.seen
  BY <1>1 DEF Idle
<1>. QED
  BY <1>2 DEF Harmless

LEMMA PassesCache == ASSUME IInv, CInv, line.phase = "confirm", line.todo # <<>>, CacheStep, Passes PROVE CInv'
<1>1. /\ InsideTells' /\ OutsideTells' /\ Viewing'
      /\ cli'.changeset = cli.changeset /\ (~cli.changeset => db'.seen = db.seen)
  BY StepTells
<1>2. PICK known, auto : Confirmed(known, auto) /\ (~cli.changeset => Harmless(Signal) /\ ~auto)
  BY DEF Passes
<1>3. /\ line'.sig = line.sig /\ line'.file = line.file /\ line'.auto = auto
      /\ line'.phase = IF Len(line.todo) = 1 THEN "apply" ELSE "confirm"
      /\ line'.todo = IF Len(line.todo) = 1 THEN line.sig ELSE Tail(line.todo)
  <2>1. line' = IF Len(line.todo) = 1 THEN [line EXCEPT !.phase = "apply", !.todo = line.sig, !.auto = auto]
                ELSE [line EXCEPT !.todo = Tail(@), !.auto = auto]
    BY <1>2 DEF Confirmed
  <2>. QED
    BY <2>1 DEF IInv, Shape, LineShape, LineFields
<1>4. PICK k \in 0 .. Len(line.sig) : (k = 0 \/ k < Len(line.sig)) /\ Behind(k) /\ Idle(k)
  BY DEF CInv, Idles
<1>5. IsSequence(line.sig) /\ Len(line.sig) \in Nat
  BY SequenceShape DEF IInv, Shape, LineShape
<1>6. k \in Nat /\ k < Len(line.sig) /\ k + 1 \in 0 .. Len(line.sig) /\ k + 1 <= Len(line.sig)
  <2>1. k # Len(line.sig)
    <3>1. SUFFICES ASSUME k = 0, Len(line.sig) = 0 PROVE FALSE
      BY <1>4, <1>5
    <3>2. line.sig = <<>>
      BY <1>5, <3>1, EmptySequence
    <3>3. line.todo = line.sig
      BY <1>4, <1>5, <3>1, AllSignals DEF Behind
    <3>. QED
      BY <3>2, <3>3
  <2>. QED
    BY <1>5, <2>1
<1>7. /\ Len(line.todo) = Len(line.sig) - k /\ Signal = line.sig[k + 1]
      /\ Tail(line.todo) = SubSeq(line.sig, (k + 1) + 1, Len(line.sig))
  BY <1>4, <1>5, <1>6, SignalsLeft DEF Behind, Signal
<1>8. Idle(k + 1)
  <2>1. SUFFICES ASSUME ~cli.changeset, NEW i \in 1 .. (k + 1) PROVE Harmless(line.sig[i])
    BY DEF Idle
  <2>2. CASE i \in 1 .. k
    BY <1>4, <2>1, <2>2 DEF Idle
  <2>3. CASE i = k + 1
    BY <1>2, <1>7, <2>1, <2>3
  <2>. QED
    BY <1>6, <2>2, <2>3
<1>9. Idle(k + 1)'
  <2>1. PICK n : n = k + 1
    OBVIOUS
  <2>2. Idle(n)'
    BY <1>1, <1>3, <1>8, <2>1, IdleStays
  <2>. QED
    BY <2>1, <2>2
<1>10. Idles'
  <2>1. CASE Len(line.todo) = 1
    <3>1. Len(line.sig) - k = 1
      BY <1>7, <2>1
    <3>2. k + 1 = Len(line.sig)
      BY <1>5, <1>6, <3>1
    <3>3. Idle(Len(line.sig))'
      BY <1>3, <1>9, <3>2 DEF Idle
    <3>. QED
      BY <1>3, <2>1, <3>3 DEF Idles
  <2>2. CASE Len(line.todo) # 1
    <3>1. Len(line.sig) - k # 1
      BY <1>7, <2>2
    <3>2. k + 1 < Len(line.sig)
      BY <1>5, <1>6, <3>1
    <3>3. Behind(k + 1)'
      BY <1>3, <1>7, <2>2 DEF Behind
    <3>. QED
      BY <1>3, <1>6, <1>9, <2>2, <3>2, <3>3 DEF Idles
  <2>. QED
    BY <2>1, <2>2
<1>11. Batched' /\ Asked'
  BY <1>1, <1>2, <1>3 DEF CInv, Batched, Asked
<1>. QED
  BY <1>1, <1>10, <1>11 DEF CInv

LEMMA CrashTells == ASSUME Shape, Crashes PROVE CInv'
<1>1. ~cli'.stable /\ line'.phase = "prompt" /\ line'.file = "none"
  BY CrashShapes
<1>. QED
  BY <1>1 DEF CInv, InsideTells, OutsideTells, Viewing, InPasses, Batched, Asked, Idles

LEMMA ConfirmTells == IInv /\ CInv /\ Confirm => CInv'
<1>. SUFFICES ASSUME IInv, CInv, Confirm PROVE CInv'
  OBVIOUS
<1>1. Shape
  BY DEF IInv
<1>2. CASE Crashes
  BY <1>1, <1>2, CrashTells
<1>3. CASE NoSignals
  BY <1>1, <1>3, NoSignalsCache, EndsCache
<1>4. CASE ~NoSignals /\ ~Crashes
  <2>1. line.phase = "confirm" /\ line.todo # <<>>
    BY <1>4 DEF Confirm, ConfirmReading, ConfirmLeft, ConfirmCreate, ConfirmEntered, ConfirmSet, ConfirmRemove,
           ConfirmDelete, ConfirmRename, Confirming
  <2>. QED
    BY <1>1, <1>4, <2>1, ConfirmCache, EndsCache, PassesCache
<1>. QED
  BY <1>2, <1>3, <1>4

LEMMA ApplyTells == IInv /\ CInv /\ Apply => CInv'
<1>. SUFFICES ASSUME IInv, CInv, Apply PROVE CInv'
  OBVIOUS
<1>1. Shape /\ Applied /\ CacheStep
  BY ApplyOk, ApplyCache DEF IInv
<1>2. line.phase = "apply"
  BY DEF Apply, ApplyLeft, ApplyFilter, ApplyShow, ApplyCreate, ApplyContained, ApplyAttribute, ApplyDelete,
         ApplyRename, Applying
<1>3. /\ InsideTells' /\ OutsideTells' /\ Viewing'
      /\ cli'.changeset = cli.changeset /\ (~cli.changeset => db'.seen = db.seen)
  BY <1>1, StepTells
<1>4. ASSUME line'.phase = line.phase, line'.sig = line.sig, line'.file = line.file PROVE CInv'
  <2>1. PICK n : n = Len(line.sig)
    OBVIOUS
  <2>2. Idle(n)
    BY <1>2, <2>1 DEF CInv, Idles
  <2>3. Idle(n)'
    BY <1>3, <1>4, <2>2, IdleStays
  <2>4. Idle(Len(line.sig))'
    BY <1>4, <2>1, <2>3 DEF Idle
  <2>5. Idles' /\ Batched' /\ Asked'
    BY <1>2, <1>3, <1>4, <2>4 DEF CInv, Idles, Batched, Asked
  <2>. QED
    BY <1>3, <2>5 DEF CInv
<1>5. CASE line' = line
  BY <1>4, <1>5
<1>6. CASE \E end, ctx : line' = Back(end, ctx)
  <2>1. Ends
    BY <1>1, <1>6, BackEnds DEF Ends
  <2>. QED
    BY <1>1, <2>1, EndsCache
<1>7. CASE \E ctx : line' = [line EXCEPT !.todo = Tail(@), !.ctx = ctx]
  <2>1. line'.phase = line.phase /\ line'.sig = line.sig /\ line'.file = line.file
    BY <1>1, <1>7 DEF Shape, LineShape, LineFields
  <2>. QED
    BY <1>4, <2>1
<1>. QED
  BY <1>1, <1>5, <1>6, <1>7 DEF Applied, GivesUp, Proceeds

-----------------------------------------------------------------------------
(* A line is read: in a changeset the cache stays as it is; outside one it *)
(* is emptied, and tells from then on what the view holds that is frozen.  *)
LEMMA ReadTells ==
    ASSUME Shape, InsideTells, Batched, NEW l, WellMade(l), NEW c, CliShape(c),
           c.changeset = cli.changeset, c.stable = cli.stable, c.known = cli.known,
           ReadWith(l, c), past'.taint = (past.taint /\ cli.changeset)
    PROVE  CInv'
<1>1. PICK there : there = (IF c.changeset THEN db.work ELSE db.live).objs
  OBVIOUS
<1>2. PICK r, d, e : /\ r = ParseLine(c.ctx, l, there)
                     /\ d = (IF c.changeset THEN db ELSE Froze(db))
                     /\ e = (IF c.changeset THEN c ELSE [ClearCache(c) EXCEPT !.stable = TRUE])
  OBVIOUS
<1>3. Parsed(r, e, d)
  BY <1>1, <1>2 DEF ReadWith
<1>4. /\ DOMAIN e = CliFields /\ e.changeset = cli.changeset
      /\ cli.changeset => e.stable = cli.stable /\ e.known = cli.known
      /\ ~cli.changeset => e.stable /\ e.known = Nothing
  <2>1. CASE c.changeset
    BY <1>2, <2>1 DEF CliShape
  <2>2. CASE ~c.changeset
    <3>1. e = [ClearCache(c) EXCEPT !.stable = TRUE]
      BY <1>2, <2>2
    <3>. QED
      BY <2>2, <3>1 DEF ClearCache, CliShape, CliFields
  <2>. QED
    BY <2>1, <2>2
<1>5. (cli.changeset => d = db) /\ (~cli.changeset => d.frozen)
  BY <1>2 DEF Froze, Shape, DbShape, DbFields
<1>6. cli.changeset /\ cli.stable /\ ~past'.taint => Nearly(cli.known, db.work.objs)
  <2>1. SUFFICES ASSUME cli.changeset, cli.stable, ~past'.taint PROVE Nearly(cli.known, db.work.objs)
    OBVIOUS
  <2>2. ~(past.taint /\ cli.changeset)
    BY <2>1
  <2>3. ~past.taint
    BY <2>1, <2>2
  <2>. QED
    BY <2>1, <2>3 DEF InsideTells
<1>7. IsSequence(r.sig)
  BY <1>2, LinesLead DEF CliShape
<1>8. CASE r.ok
  <2>1. /\ line' = [line EXCEPT !.phase = "confirm", !.sig = r.sig, !.todo = r.sig, !.ctx = e.ctx, !.backup = e.ctx,
                       !.parsed = r.ctx, !.auto = FALSE, !.end = "none"]
        /\ cli' = [e EXCEPT !.ctx = r.ctx] /\ db' = d
    BY <1>3, <1>8 DEF Parsed
  <2>2. /\ line'.phase = "confirm" /\ line'.sig = r.sig /\ line'.todo = r.sig /\ line'.file = line.file /\ ~line'.auto
    BY <2>1 DEF Shape, LineShape, LineFields
  <2>3. cli'.changeset = cli.changeset /\ cli'.stable = e.stable /\ cli'.known = e.known
    BY <1>4, <2>1 DEF CliFields
  <2>4. InsideTells'
    BY <1>4, <1>5, <1>6, <2>1, <2>3 DEF InsideTells
  <2>5. OutsideTells'
    BY <1>4, <2>3, NothingTells DEF OutsideTells
  <2>6. Viewing' /\ Batched' /\ Asked'
    BY <1>4, <1>5, <2>1, <2>2, <2>3 DEF Viewing, Batched, Asked
  <2>7. Behind(0)'
    BY <1>7, <2>2, AllSignals DEF Behind
  <2>8. Idle(0)'
    <3>1. 1 .. 0 = {}
      OBVIOUS
    <3>. QED
      BY <3>1 DEF Idle
  <2>9. 0 \in 0 .. Len(line'.sig)
    BY <1>7, <2>2, SequenceShape
  <2>10. Idles'
    BY <2>2, <2>7, <2>8, <2>9 DEF Idles
  <2>. QED
    BY <2>4, <2>5, <2>6, <2>10 DEF CInv
<1>9. CASE ~r.ok
  <2>1. PICK f, end, ctx : f = [e EXCEPT !.ctx = r.ctx, !.failed = TRUE] /\ end = "malformed" /\ ctx = r.ctx
    OBVIOUS
  <2>2. EndOfLine(f, d, end, ctx)
    BY <1>3, <1>9, <2>1 DEF Parsed
  <2>3. DOMAIN f = CliFields /\ f.changeset = cli.changeset /\ f.stable = e.stable /\ f.known = e.known
    BY <1>4, <2>1 DEF CliFields
  <2>4. line'.phase \in {"prompt", "file"} /\ line'.file = line.file
    BY <2>2, BackEnds DEF EndOfLine
  <2>5. InsideTells' /\ OutsideTells' /\ cli'.changeset = cli.changeset
    <3>1. CASE cli.changeset
      <4>1. cli' = f /\ db' = d
        BY <2>2, <2>3, <3>1 DEF EndOfLine
      <4>. QED
        BY <1>4, <1>5, <1>6, <2>3, <3>1, <4>1 DEF InsideTells, OutsideTells
    <3>2. CASE ~cli.changeset
      <4>1. cli' = [ClearCache(f) EXCEPT !.stable = FALSE]
        BY <2>2, <2>3, <3>2 DEF EndOfLine
      <4>2. ~cli'.stable /\ cli'.changeset = cli.changeset
        BY <2>3, <4>1 DEF ClearCache, CliFields
      <4>. QED
        BY <4>2 DEF InsideTells, OutsideTells
    <3>. QED
      BY <3>1, <3>2
  <2>6. Viewing' /\ Batched' /\ Asked' /\ Idles'
    BY <2>4, <2>5 DEF Viewing, InPasses, Batched, Asked, Idles
  <2>. QED
    BY <2>5, <2>6 DEF CInv
<1>. QED
  BY <1>8, <1>9

LEMMA NewLineTaint == Shape => NewLine.taint = (past.taint /\ cli.changeset) /\ DOMAIN NewLine = PastFields
BY DEF Shape, NewLine, PastFields

LEMMA LinesTell == IInv /\ CInv /\ ((\E l \in Lines : TypeLine(l)) \/ FileLine) => CInv'
<1>1. ASSUME IInv, CInv, NEW l \in Lines, TypeLine(l) PROVE CInv'
  <2>1. Shape
    BY <1>1 DEF IInv
  <2>2. PICK c : c = [cli EXCEPT !.before = cli.ctx, !.failed = FALSE]
    OBVIOUS
  <2>3. ReadWith(l, c) /\ past' = [NewLine EXCEPT !.typed = @ + 1]
    BY <1>1, <2>2 DEF TypeLine
  <2>4. CliShape(c) /\ c.changeset = cli.changeset /\ c.stable = cli.stable /\ c.known = cli.known
    BY <2>1, <2>2 DEF Shape, CliShape, CliFields
  <2>5. past'.taint = (past.taint /\ cli.changeset)
    BY <2>1, <2>3, NewLineTaint DEF PastFields
  <2>. QED
    BY <1>1, <2>1, <2>3, <2>4, <2>5, LinesAssumption, ReadTells DEF CInv
<1>2. ASSUME IInv, CInv, FileLine PROVE CInv'
  <2>1. Shape
    BY <1>2 DEF IInv
  <2>2. PICK l, c : l = Head(line.rest) /\ c = cli
    OBVIOUS
  <2>3. ReadWith(l, c) /\ past' = NewLine
    BY <1>2, <2>2 DEF FileLine
  <2>4. CliShape(c)
    BY <2>1, <2>2 DEF Shape
  <2>5. WellMade(l)
    BY <1>2, <2>1, <2>2, HeadWellMade DEF FileLine
  <2>. QED
    BY <1>2, <2>1, <2>2, <2>3, <2>4, <2>5, NewLineTaint, ReadTells DEF CInv
<1>. QED
  BY <1>1, <1>2

-----------------------------------------------------------------------------
(* The commands: what they leave in the cache is so, or they empty it.     *)
Resting == line'.phase \in {"prompt", "file"} /\ line'.file # "batch"
LEMMA RestingTells == ASSUME InsideTells', OutsideTells', Resting PROVE CInv'
BY DEF CInv, Resting, Viewing, InPasses, Batched, Asked, Idles

LEMMA EndedRests == ASSUME Shape, NEW name, Command(name), NEW end, line' = Ended(end) PROVE Resting
<1>1. CASE InFile
  <2>1. line' = [NextLine EXCEPT !.end = end]
    BY <1>1 DEF Ended
  <2>2. line'.phase \in {"prompt", "file"} /\ line'.file = line.file
    BY <2>1 DEF NextLine, Shape, LineShape, LineFields
  <2>3. line.file # "batch"
    BY DEF Command, AtThePrompt, Shape, LineShape
  <2>. QED
    BY <2>2, <2>3 DEF Resting
<1>2. CASE ~InFile
  <2>1. line' = [AtPrompt EXCEPT !.end = end]
    BY <1>2 DEF Ended
  <2>. QED
    BY <2>1, PromptShape DEF Resting, LineFields
<1>. QED
  BY <1>1, <1>2

\* What a command leaves is told by a cache that is empty, or as good as it was.
Known(c, d) ==
    \/ c.known = Nothing
    \/ /\ c.changeset = cli.changeset /\ c.stable = cli.stable /\ d = db
       /\ InsideTells => (cli.changeset /\ cli.stable /\ ~past.taint => Nearly(c.known, db.work.objs))
       /\ OutsideTells => (~cli.changeset /\ cli.stable /\ db.frozen => Exactly(c.known, db.seen.objs))

LEMMA ReturnsTells ==
    ASSUME Shape, InsideTells, OutsideTells, NEW name, Command(name), NEW true, NEW c, NEW d, Returns(true, c, d),
           DOMAIN c = CliFields, Known(c, d)
    PROVE  CInv'
<1>1. /\ cli' = [c EXCEPT !.failed = InFile /\ ~true] /\ db' = d /\ line' = Ended("none")
      /\ past' = [Counted EXCEPT !.taint = past.taint /\ c.known # Nothing]
  BY DEF Returns
<1>2. Resting
  BY <1>1, EndedRests
<1>3. cli'.known = c.known /\ cli'.changeset = c.changeset /\ cli'.stable = c.stable
  BY <1>1 DEF CliFields
<1>4. past'.taint = (past.taint /\ c.known # Nothing)
  BY <1>1, CountedPast DEF PastFields
<1>5. CASE c.known = Nothing
  BY <1>2, <1>3, <1>5, NothingTells, RestingTells DEF InsideTells, OutsideTells
<1>6. CASE c.known # Nothing
  <2>1. ~past'.taint => ~past.taint
    <3>1. SUFFICES ASSUME ~past'.taint PROVE ~past.taint
      OBVIOUS
    <3>2. ~(past.taint /\ c.known # Nothing)
      BY <1>4, <3>1
    <3>. QED
      BY <1>6, <3>2
  <2>2. InsideTells' /\ OutsideTells'
    BY <1>1, <1>3, <1>6, <2>1 DEF Known, InsideTells, OutsideTells
  <2>. QED
    BY <1>2, <2>2, RestingTells
<1>. QED
  BY <1>5, <1>6

LEMMA RaisesTells ==
    ASSUME Shape, NEW name, Command(name), NEW c, NEW d, Raises(c, d), DOMAIN c = CliFields PROVE CInv'
<1>1. /\ cli' = [ClearCache(c) EXCEPT !.failed = InFile, !.ctx = IF InFile THEN <<>> ELSE @]
      /\ line' = Ended("error")
  BY DEF Raises
<1>2. cli'.known = Nothing
  BY <1>1 DEF ClearCache, CliFields
<1>3. Resting
  BY <1>1, EndedRests
<1>. QED
  BY <1>2, <1>3, NothingTells, RestingTells DEF InsideTells, OutsideTells

\* Whatever way a command ends.
Concludes(c, d) ==
    /\ DOMAIN c = CliFields
    /\ \/ Known(c, d) /\ (\E true \in BOOLEAN : Returns(true, c, d))
       \/ Failed(c, d) \/ Raises(c, d)

LEMMA ConcludesTells ==
    ASSUME Shape, CInv, NEW name, Command(name), NEW c, NEW d, Concludes(c, d) PROVE CInv'
BY ReturnsTells, RaisesTells DEF CInv, Concludes, Failed

LEMMA EmptyKnown ==
    ASSUME Shape, NEW d
    PROVE  /\ DOMAIN Attaching = CliFields /\ Known(Attaching, d)
           /\ DOMAIN Leaving = CliFields /\ Known(Leaving, d)
           /\ DOMAIN InChangeset(Attaching) = CliFields /\ Known(InChangeset(Attaching), d)
           /\ DOMAIN Outside(Leaving) = CliFields /\ Known(Outside(Leaving), d)
<1>1. ASSUME NEW b, NEW e, e = [ClearCache(cli) EXCEPT !.stable = b]
      PROVE  DOMAIN e = CliFields /\ e.known = Nothing
  BY <1>1 DEF Shape, CliShape, CliFields, ClearCache
<1>2. ASSUME NEW e, DOMAIN e = CliFields, e.known = Nothing
      PROVE  /\ DOMAIN InChangeset(e) = CliFields /\ InChangeset(e).known = Nothing
             /\ DOMAIN Outside(e) = CliFields /\ Outside(e).known = Nothing
  BY <1>2 DEF CliFields, InChangeset, Outside
<1>3. /\ DOMAIN Attaching = CliFields /\ Attaching.known = Nothing
      /\ DOMAIN Leaving = CliFields /\ Leaving.known = Nothing
  BY <1>1 DEF Attaching, Leaving
<1>4. /\ DOMAIN InChangeset(Attaching) = CliFields /\ InChangeset(Attaching).known = Nothing
      /\ DOMAIN Outside(Leaving) = CliFields /\ Outside(Leaving).known = Nothing
  BY <1>2, <1>3
<1>. QED
  BY <1>3, <1>4 DEF Known

\* A command that tells the cache of what is there.
LEMMA ThereKnown ==
    ASSUME Shape, NEW T, T \subseteq View.objs
    PROVE  LET c == [cli EXCEPT !.known = Told(@, T, TRUE)] IN DOMAIN c = CliFields /\ Known(c, db)
<1>1. PICK c, known, old : c = [cli EXCEPT !.known = Told(@, T, TRUE)] /\ known = Told(cli.known, T, TRUE) /\ old = cli.known
  OBVIOUS
<1>2. /\ DOMAIN c = CliFields /\ c.known = known /\ c.changeset = cli.changeset /\ c.stable = cli.stable
  BY <1>1 DEF Shape, CliShape, CliFields
<1>3. ASSUME NEW objs, T \subseteq objs
      PROVE  (Nearly(old, objs) => Nearly(known, objs)) /\ (Exactly(old, objs) => Exactly(known, objs))
  BY <1>1, <1>3, ToldTells
<1>4. InsideTells => (cli.changeset /\ cli.stable /\ ~past.taint => Nearly(known, db.work.objs))
  <2>1. SUFFICES ASSUME InsideTells, cli.changeset, cli.stable, ~past.taint PROVE Nearly(known, db.work.objs)
    OBVIOUS
  <2>2. Nearly(old, db.work.objs) /\ T \subseteq db.work.objs
    BY <1>1, <2>1, ViewInside DEF InsideTells
  <2>. QED
    BY <1>3, <2>2
<1>5. OutsideTells => (~cli.changeset /\ cli.stable /\ db.frozen => Exactly(known, db.seen.objs))
  <2>1. SUFFICES ASSUME OutsideTells, ~cli.changeset, cli.stable, db.frozen PROVE Exactly(known, db.seen.objs)
    OBVIOUS
  <2>2. Exactly(old, db.seen.objs) /\ T \subseteq db.seen.objs
    BY <1>1, <2>1, ViewInside DEF OutsideTells
  <2>. QED
    BY <1>3, <2>2
<1>6. DOMAIN c = CliFields /\ Known(c, db)
  BY <1>2, <1>4, <1>5 DEF Known
<1>. QED
  BY <1>1, <1>6

LEMMA SameKnown ==
    ASSUME DOMAIN cli = CliFields, NEW c, DOMAIN c = CliFields, c.known = cli.known, c.changeset = cli.changeset, c.stable = cli.stable
    PROVE  Known(c, db)
BY DEF Known, InsideTells, OutsideTells

LEMMA CommandsTell == IInv /\ CInv /\ Commands => CInv'
<1>. SUFFICES ASSUME IInv, CInv, Commands PROVE CInv'
  OBVIOUS
<1>1. Shape
  BY DEF IInv
<1>2. PICK at, leave, in, out :
         at = Attaching /\ leave = Leaving /\ in = InChangeset(Attaching) /\ out = Outside(Leaving)
  OBVIOUS
<1>3. \A d : /\ DOMAIN at = CliFields /\ Known(at, d) /\ DOMAIN leave = CliFields /\ Known(leave, d)
             /\ DOMAIN in = CliFields /\ Known(in, d) /\ DOMAIN out = CliFields /\ Known(out, d)
  BY <1>1, <1>2, EmptyKnown
<1>4. PICK now, d : now = cli /\ d = db
  OBVIOUS
<1>5. DOMAIN now = CliFields /\ Known(now, d)
  BY <1>1, <1>4, SameKnown DEF Shape, CliShape
<1>. USE DEF Done
<1>6. ASSUME Start PROVE CInv'
  <2>1. \E e : Concludes(at, e) \/ Concludes(in, e)
    BY <1>2, <1>3, <1>6 DEF Start, Concludes
  <2>. QED
    BY <1>1, <1>6, <2>1, ConcludesTells DEF Start
<1>7. ASSUME Resume PROVE CInv'
  <2>1. \E e : Concludes(at, e) \/ Concludes(in, e)
    BY <1>2, <1>3, <1>7 DEF Resume, Concludes
  <2>. QED
    BY <1>1, <1>7, <2>1, ConcludesTells DEF Resume
<1>8. ASSUME Commit PROVE CInv'
  <2>1. \E e : Concludes(leave, e) \/ Concludes(out, e)
    BY <1>2, <1>3, <1>8 DEF Commit, Concludes
  <2>. QED
    BY <1>1, <1>8, <2>1, ConcludesTells DEF Commit
<1>9. ASSUME Detach PROVE CInv'
  <2>1. \E e : Concludes(leave, e) \/ Concludes(out, e)
    BY <1>2, <1>3, <1>9 DEF Detach, Concludes
  <2>. QED
    BY <1>1, <1>9, <2>1, ConcludesTells DEF Detach
<1>10. ASSUME Abort PROVE CInv'
  <2>1. \E e : Concludes(leave, e) \/ Concludes(out, e)
    BY <1>2, <1>3, <1>10 DEF Abort, Concludes
  <2>. QED
    BY <1>1, <1>10, <2>1, ConcludesTells DEF Abort
<1>11. ASSUME NonInteractive PROVE CInv'
  <2>1. PICK c : c = [cli EXCEPT !.force = ~@]
    OBVIOUS
  <2>2. DOMAIN c = CliFields /\ c.known = cli.known /\ c.changeset = cli.changeset /\ c.stable = cli.stable
    BY <1>1, <2>1 DEF Shape, CliShape, CliFields
  <2>3. Known(c, d) /\ Returns(TRUE, c, d)
    BY <1>1, <1>4, <1>11, <2>1, <2>2, SameKnown DEF NonInteractive, Shape, CliShape
  <2>4. Concludes(c, d)
    BY <2>2, <2>3 DEF Concludes
  <2>. QED
    BY <1>1, <1>11, <2>4, ConcludesTells DEF NonInteractive
<1>12. ASSUME Context PROVE CInv'
  <2>1. PICK T : T = Matched(cli.ctx)
    OBVIOUS
  <2>2. T \subseteq View.objs
    BY <1>1, <2>1, MatchedThere DEF Shape, CliShape
  <2>3. PICK c : c = [cli EXCEPT !.known = Told(@, T, TRUE)]
    OBVIOUS
  <2>4. DOMAIN c = CliFields /\ Known(c, d)
    BY <1>1, <1>4, <2>2, <2>3, ThereKnown
  <2>5. Returns(TRUE, c, d)
    BY <1>4, <1>12, <2>1, <2>3 DEF Context
  <2>6. Concludes(c, d)
    BY <2>4, <2>5 DEF Concludes
  <2>. QED
    BY <1>1, <1>12, <2>6, ConcludesTells DEF Context
<1>13. ASSUME Dump PROVE CInv'
  <2>1. PICK T : T = View.objs
    OBVIOUS
  <2>2. PICK c : c = [cli EXCEPT !.known = Told(@, T, TRUE)]
    OBVIOUS
  <2>3. DOMAIN c = CliFields /\ Known(c, d)
    BY <1>1, <1>4, <2>1, <2>2, ThereKnown
  <2>4. \/ Returns(TRUE, c, d) \/ Failed(now, d)
        \/ Returns(TRUE, leave, Thawed(db)) \/ Failed(at, Froze(db))
    BY <1>2, <1>4, <1>13, <2>1, <2>2 DEF Dump
  <2>5. \E e : Concludes(c, e) \/ Concludes(now, e) \/ Concludes(leave, e) \/ Concludes(at, e)
    BY <1>3, <1>5, <2>3, <2>4 DEF Concludes
  <2>. QED
    BY <1>1, <1>13, <2>5, ConcludesTells DEF Dump
<1>14. ASSUME NotNow PROVE CInv'
  <2>1. PICK c : c = IF cli.changeset \/ ~Command("resume") THEN cli ELSE Attaching
    OBVIOUS
  <2>2. DOMAIN c = CliFields /\ Known(c, d)
    BY <1>2, <1>3, <1>4, <1>5, <2>1
  <2>3. Returns(FALSE, c, d)
    BY <1>4, <1>14, <2>1 DEF NotNow
  <2>4. Concludes(c, d)
    BY <2>2, <2>3 DEF Concludes
  <2>. QED
    BY <1>1, <1>14, <2>4, ConcludesTells DEF NotNow
<1>. QED
  BY <1>6, <1>7, <1>8, <1>9, <1>10, <1>11, <1>12, <1>13, <1>14 DEF Commands

-----------------------------------------------------------------------------
(* The files, and another session.                                         *)
LEMMA FilesTell == IInv /\ CInv /\ ((\E b \in Batches : Batch(b)) \/ (\E x \in Scripts : Execute(x)) \/ FileEnds) => CInv'
<1>. SUFFICES ASSUME IInv, CInv, (\E b \in Batches : Batch(b)) \/ (\E x \in Scripts : Execute(x)) \/ FileEnds PROVE CInv'
  OBVIOUS
<1>1. Shape
  BY DEF IInv
<1>2. db' = db /\ \E quiet, failed : cli' = [cli EXCEPT !.quiet = quiet, !.ctx = <<>>, !.failed = failed]
  <2>1. CASE FileEnds
    <3>1. cli' = [cli EXCEPT !.quiet = FALSE, !.ctx = <<>>] /\ db' = db
      BY <2>1 DEF FileEnds
    <3>2. cli' = [cli EXCEPT !.quiet = FALSE, !.ctx = <<>>, !.failed = cli.failed]
      BY <1>1, <3>1 DEF Shape, CliShape, CliFields
    <3>. QED
      BY <3>1, <3>2
  <2>2. CASE ~FileEnds
    BY <2>2 DEF Batch, Execute, Reading
  <2>. QED
    BY <2>1, <2>2
<1>3. cli'.known = cli.known /\ cli'.changeset = cli.changeset /\ cli'.stable = cli.stable
  BY <1>1, <1>2 DEF Shape, CliShape, CliFields
<1>4. cli.changeset => (~past'.taint => ~past.taint)
  <2>1. CASE FileEnds
    BY <1>1, <2>1 DEF FileEnds, Shape, PastFields
  <2>2. CASE ~FileEnds
    <3>1. \/ past' = [NewLine EXCEPT !.typed = @ + 1]
          \/ past' = [NewLine EXCEPT !.typed = @ + 1, !.faults = @ + 1, !.unlocked = TRUE]
      BY <2>2 DEF Batch, Execute, Reading
    <3>2. past'.taint = (past.taint /\ cli.changeset)
      BY <1>1, <3>1, NewLineTaint DEF PastFields
    <3>3. SUFFICES ASSUME cli.changeset, ~past'.taint PROVE ~past.taint
      OBVIOUS
    <3>4. ~(past.taint /\ cli.changeset)
      BY <3>2, <3>3
    <3>. QED
      BY <3>3, <3>4
  <2>. QED
    BY <2>1, <2>2
<1>5. InsideTells' /\ OutsideTells'
  BY <1>2, <1>3, <1>4 DEF CInv, InsideTells, OutsideTells
<1>6. line'.phase \in {"prompt", "file"} /\ (line'.file = "batch" => cli.changeset)
  <2>1. ASSUME NEW end, line' = [AtPrompt EXCEPT !.end = end] PROVE line'.phase = "prompt" /\ line'.file = "none"
    BY <2>1, PromptShape DEF LineFields
  <2>2. ASSUME NEW file, NEW lines, line' = [AtPrompt EXCEPT !.phase = "file", !.file = file, !.rest = lines]
        PROVE  line'.phase = "file" /\ line'.file = file
    BY <2>2, PromptShape DEF LineFields
  <2>3. \/ \E end : line' = [AtPrompt EXCEPT !.end = end]
        \/ cli.changeset /\ \E file, lines : line' = [AtPrompt EXCEPT !.phase = "file", !.file = file, !.rest = lines]
        \/ \E lines : line' = [AtPrompt EXCEPT !.phase = "file", !.file = "execute", !.rest = lines]
    BY DEF Batch, Execute, Reading, FileEnds
  <2>. QED
    BY <2>1, <2>2, <2>3
<1>. QED
  BY <1>3, <1>5, <1>6 DEF CInv, Viewing, InPasses, Batched, Asked, Idles

LEMMA UnchangedTells ==
    ASSUME CInv, UNCHANGED <<cli, line>>, db'.work = db.work, db'.seen = db.seen, db'.frozen = db.frozen,
           ~past'.taint => ~past.taint
    PROVE  CInv'
<1>1. InsideTells' /\ OutsideTells' /\ Viewing' /\ Batched' /\ Asked'
  BY DEF CInv, InsideTells, OutsideTells, Viewing, InPasses, Batched, Asked
<1>2. \A k : Idle(k) => Idle(k)'
  BY IdleStays
<1>3. \A k : Behind(k) => Behind(k)'
  BY DEF Behind
<1>4. Idles'
  BY <1>2, <1>3 DEF CInv, Idles
<1>. QED
  BY <1>1, <1>4 DEF CInv

LEMMA OtherCommitTells == IInv /\ CInv /\ OtherCommit => CInv'
<1>. SUFFICES ASSUME IInv, CInv, OtherCommit PROVE CInv'
  OBVIOUS
<1>1. PICK v \in Views : db' = [db EXCEPT !.live = v, !.obsolete = @ \/ db.pending]
  BY DEF OtherCommit
<1>2. past' = [past EXCEPT !.faults = @ + 1] /\ UNCHANGED <<cli, line>>
  BY DEF OtherCommit
<1>3. db'.work = db.work /\ db'.seen = db.seen /\ db'.frozen = db.frozen /\ past'.taint = past.taint
  BY <1>1, <1>2 DEF IInv, Shape, DbShape, DbFields, PastFields
<1>. QED
  BY <1>2, <1>3, UnchangedTells

(***************************************************************************)
(* Every session starts with a cache that tells what is so, and keeps one. *)
(***************************************************************************)
LEMMA CacheStarts == Init => CInv
<1>. SUFFICES ASSUME Init PROVE CInv
  OBVIOUS
<1>1. ~cli.changeset /\ ~cli.stable
  BY DEF Init
<1>2. line.phase = "prompt" /\ line.file = "none"
  BY PromptShape DEF Init
<1>. QED
  BY <1>1, <1>2 DEF CInv, InsideTells, OutsideTells, Viewing, InPasses, Batched, Asked, Idles

LEMMA CacheInductive == IInv /\ CInv /\ [Next \/ Stops]_vars => CInv'
<1>. SUFFICES ASSUME IInv, CInv, [Next \/ Stops]_vars PROVE CInv'
  OBVIOUS
<1>1. CASE Next
  BY <1>1, LinesTell, FilesTell, CommandsTell, ConfirmTells, ApplyTells, OtherCommitTells DEF Next, Handle
<1>2. CASE UNCHANGED vars
  BY <1>2, UnchangedTells DEF vars
<1>. QED
  BY <1>1, <1>2 DEF Stops

(* What the cache of existing objects tells a handler is so, whatever the  *)
(* lines, the files, the objects and the names are: in a changeset, where  *)
(* every change goes through the cache, and outside one, where the view is *)
(* frozen for the line.                                                    *)
THEOREM CacheIsRight == Spec => []CacheTells
<1>1. IInv /\ CInv => CacheTells
  <2>1. SUFFICES ASSUME IInv, CInv, InPasses, cli.stable, ~past.taint, NEW o \in DOMAIN cli.known
                 PROVE  IsNew(o) \/ (cli.known[o] <=> o \in View.objs)
    BY DEF CacheTells, InPasses
  <2>2. IsNew(o) \/ cli.known[o] = (o \in View.objs)
    <3>1. CASE cli.changeset
      BY <2>1, <3>1, ViewInside DEF CInv, InsideTells, Nearly
    <3>2. CASE ~cli.changeset
      BY <2>1, <3>2, KnowsOutside DEF Exactly
    <3>. QED
      BY <3>1, <3>2
  <2>. QED
    BY <2>2
<1>2. IInv /\ CInv /\ [Next \/ Stops]_vars => IInv' /\ CInv'
  BY Inductive, CacheInductive
<1>3. Init => IInv /\ CInv
  BY Starts, CacheStarts
<1>. QED
  BY <1>1, <1>2, <1>3, PTL DEF Spec

-----------------------------------------------------------------------------
(***************************************************************************)
(* The contexts.  Their kinds nest, and in a changeset what they stand for *)
(* is there, as long as it was when the line was typed.                    *)
(***************************************************************************)
\* A context with other names nests as well.
LEMMA SameNests ==
    ASSUME NEW c, NEW d, IsSequence(c), IsSequence(d), SameContext(c, d), KindsNest(d)
    PROVE  KindsNest(c)
<1>1. Len(c) \in Nat /\ Len(c) = Len(d)
  BY SequenceShape DEF SameContext
<1>2. ASSUME NEW i \in 1 .. Len(c) PROVE c[i][1] = d[i][1] /\ c[i][2] = d[i][2]
  <2>1. PICK x, y : x = c[i] /\ y = d[i]
    OBVIOUS
  <2>2. x = y \/ SubSeq(x, 1, 2) = SubSeq(y, 1, 2)
    BY <2>1 DEF SameContext
  <2>3. SubSeq(x, 1, 2) = SubSeq(y, 1, 2) => x[1] = y[1] /\ x[2] = y[2]
    <3>1. \A z : SubSeq(z, 1, 2)[1] = z[1] /\ SubSeq(z, 1, 2)[2] = z[2]
      OBVIOUS
    <3>. QED
      BY <3>1
  <2>. QED
    BY <2>1, <2>2, <2>3
<1>3. ASSUME NEW i \in 1 .. Len(c)
      PROVE  /\ c[i][2] \in Kinds
             /\ IF i = 1 THEN IsFilter(c[i]) \/ c[i][2] \notin DOMAIN EmbeddedInto ELSE MayHold(c[i - 1][2], c[i][2])
  <2>1. i \in 1 .. Len(d) /\ (i # 1 => i - 1 \in 1 .. Len(c))
    BY <1>1
  <2>2. /\ d[i][2] \in Kinds
        /\ IF i = 1 THEN IsFilter(d[i]) \/ d[i][2] \notin DOMAIN EmbeddedInto ELSE MayHold(d[i - 1][2], d[i][2])
    BY <2>1 DEF KindsNest
  <2>3. c[i][2] = d[i][2] /\ (IsFilter(c[i]) <=> IsFilter(d[i])) /\ (i # 1 => c[i - 1][2] = d[i - 1][2])
    BY <1>2, <2>1 DEF IsFilter
  <2>. QED
    BY <2>2, <2>3
<1>. QED
  BY <1>3 DEF KindsNest

-----------------------------------------------------------------------------
(***************************************************************************)
(* What a context stands for, item by item.  A step looks at the item and  *)
(* at what those before it stand for.                                      *)
(***************************************************************************)
LEMMA NarrowingAt ==
    ASSUME NEW v, NEW ctx, IsSequence(ctx), NEW i \in 1 .. Len(ctx)
    PROVE  Narrowing(v, ctx)[i] = StepAt(v, ctx, i, Narrowing(v, ctx)[i - 1])
<1>. DEFINE f == Narrowing(v, ctx)
<1>1. Steps(f, Len(ctx), v, ctx)
  BY SequenceShape, StepsThere
<1>. HIDE DEF f
<1>2. f[i] = StepAt(v, ctx, i, f[i - 1])
  BY <1>1 DEF Steps
<1>. QED
  BY <1>2 DEF f

LEMMA SameSteps ==
    ASSUME NEW v, NEW c, NEW d, NEW i, c[i] = d[i], NEW before
    PROVE  StepAt(v, c, i, before) = StepAt(v, d, i, before)
BY DEF StepAt

LEMMA FirstStep == ASSUME NEW v, NEW ctx, NEW p, NEW q PROVE StepAt(v, ctx, 1, p) = StepAt(v, ctx, 1, q)
BY DEF StepAt

\* The start of a context stands for what it stands for in the whole of it.
LEMMA NarrowingStart ==
    ASSUME NEW v, NEW c, NEW d, IsSequence(c), IsSequence(d), NEW m \in Nat, m <= Len(c), m <= Len(d),
           \A i \in 1 .. m : c[i] = d[i], NEW i \in 1 .. m
    PROVE  Narrowing(v, c)[i] = Narrowing(v, d)[i]
<1>. DEFINE S == {n \in Nat : n \in 1 .. m => Narrowing(v, c)[n] = Narrowing(v, d)[n]}
<1>1. Len(c) \in Nat /\ Len(d) \in Nat
  BY SequenceShape
<1>2. 0 \in S
  OBVIOUS
<1>3. ASSUME NEW n \in Nat, n \in S PROVE n + 1 \in S
  <2>1. SUFFICES ASSUME n + 1 \in 1 .. m PROVE Narrowing(v, c)[n + 1] = Narrowing(v, d)[n + 1]
    OBVIOUS
  <2>2. n + 1 \in 1 .. Len(c) /\ n + 1 \in 1 .. Len(d) /\ (n + 1) - 1 = n /\ c[n + 1] = d[n + 1]
    BY <1>1, <2>1
  <2>3. /\ Narrowing(v, c)[n + 1] = StepAt(v, c, n + 1, Narrowing(v, c)[n])
        /\ Narrowing(v, d)[n + 1] = StepAt(v, d, n + 1, Narrowing(v, d)[n])
    <3>1. /\ Narrowing(v, c)[n + 1] = StepAt(v, c, n + 1, Narrowing(v, c)[(n + 1) - 1])
          /\ Narrowing(v, d)[n + 1] = StepAt(v, d, n + 1, Narrowing(v, d)[(n + 1) - 1])
      BY <2>2, NarrowingAt
    <3>. QED
      BY <2>2, <3>1
  <2>4. StepAt(v, c, n + 1, Narrowing(v, c)[n]) = StepAt(v, d, n + 1, Narrowing(v, c)[n])
    BY <2>2, SameSteps
  <2>5. StepAt(v, d, n + 1, Narrowing(v, c)[n]) = StepAt(v, d, n + 1, Narrowing(v, d)[n])
    <3>1. CASE n = 0
      <4>1. n + 1 = 1
        BY <3>1
      <4>. QED
        BY <4>1, FirstStep
    <3>2. CASE n # 0
      <4>1. Narrowing(v, c)[n] = Narrowing(v, d)[n]
        BY <1>3, <2>1, <3>2
      <4>. QED
        BY <4>1
    <3>. QED
      BY <3>1, <3>2
  <2>. QED
    BY <2>3, <2>4, <2>5
<1>. HIDE DEF S
<1>4. i \in S
  BY <1>2, <1>3, SetInduction
<1>. QED
  BY <1>4 DEF S

\* Without a filter a context stands for one object, there or not.
LEMMA NamesOnly ==
    ASSUME NEW v, NEW ctx, IsSequence(ctx), ~HasFilter(ctx), NEW i \in 1 .. Len(ctx)
    PROVE  Narrowing(v, ctx)[i] = {<<ctx[i][2], [j \in 1 .. i |-> ctx[j][3]]>>}
<1>. DEFINE Path(n) == [j \in 1 .. n |-> ctx[j][3]]
            S == {n \in Nat : n \in 1 .. Len(ctx) => Narrowing(v, ctx)[n] = {<<ctx[n][2], Path(n)>>}}
<1>1. Len(ctx) \in Nat
  BY SequenceShape
<1>2. \A n \in 1 .. Len(ctx) : ~IsFilter(ctx[n])
  BY DEF HasFilter
<1>3. ASSUME NEW n \in Nat PROVE IsSequence(Path(n)) /\ Len(Path(n)) = n /\ \A j \in 1 .. n : Path(n)[j] = ctx[j][3]
  <2>. DEFINE t == Path(n)
  <2>1. DOMAIN t = 1 .. n /\ t = [j \in 1 .. n |-> t[j]] /\ \A j \in 1 .. n : t[j] = ctx[j][3]
    OBVIOUS
  <2>. HIDE DEF t
  <2>2. IsSequence(t) /\ Len(t) = n /\ \A j \in 1 .. n : t[j] = ctx[j][3]
    BY <2>1, SequenceOf
  <2>. QED
    BY <2>2 DEF t
<1>4. Path(1) = <<ctx[1][3]>>
  OBVIOUS
<1>. HIDE DEF Path
<1>5. ASSUME NEW n \in Nat PROVE Path(n + 1) = Append(Path(n), ctx[n + 1][3])
  <2>. DEFINE a == Append(Path(n), ctx[n + 1][3])
  <2>1. IsSequence(Path(n)) /\ Len(Path(n)) = n /\ DOMAIN Path(n) = 1 .. n
    BY <1>3, SequenceShape
  <2>2. IsSequence(a) /\ Len(a) = n + 1 /\ a[n + 1] = ctx[n + 1][3] /\ \A j \in 1 .. n : a[j] = Path(n)[j]
    BY <2>1, AppendedSequence
  <2>. HIDE DEF a
  <2>3. n + 1 \in Nat /\ n + 1 \in 1 .. (n + 1)
    OBVIOUS
  <2>4. IsSequence(Path(n + 1)) /\ Len(Path(n + 1)) = n + 1 /\ \A j \in 1 .. (n + 1) : Path(n + 1)[j] = ctx[j][3]
    BY <1>3, <2>3
  <2>5. ASSUME NEW j \in 1 .. (n + 1) PROVE Path(n + 1)[j] = a[j]
    <3>1. CASE j = n + 1
      BY <2>2, <2>4, <3>1
    <3>2. CASE j \in 1 .. n
      BY <1>3, <2>2, <2>4, <3>2
    <3>. QED
      BY <3>1, <3>2
  <2>6. Path(n + 1) = a
    BY <2>2, <2>4, <2>5, SameSequences
  <2>. QED
    BY <2>6 DEF a
<1>6. 0 \in S
  OBVIOUS
<1>7. ASSUME NEW n \in Nat, n \in S PROVE n + 1 \in S
  <2>1. SUFFICES ASSUME n + 1 \in 1 .. Len(ctx) PROVE Narrowing(v, ctx)[n + 1] = {<<ctx[n + 1][2], Path(n + 1)>>}
    OBVIOUS
  <2>2. (n + 1) - 1 = n /\ ~IsFilter(ctx[n + 1])
    BY <1>2, <2>1
  <2>3. Narrowing(v, ctx)[n + 1] = StepAt(v, ctx, n + 1, Narrowing(v, ctx)[n])
    <3>1. Narrowing(v, ctx)[n + 1] = StepAt(v, ctx, n + 1, Narrowing(v, ctx)[(n + 1) - 1])
      BY <2>1, NarrowingAt
    <3>. QED
      BY <2>2, <3>1
  <2>4. CASE n = 0
    <3>1. n + 1 = 1
      BY <2>4
    <3>2. Narrowing(v, ctx)[n + 1] = {<<ctx[1][2], <<ctx[1][3]>>>>}
      BY <2>2, <2>3, <3>1 DEF StepAt
    <3>. QED
      BY <1>4, <3>1, <3>2
  <2>5. CASE n # 0
    <3>1. n + 1 # 1 /\ n \in 1 .. Len(ctx)
      BY <1>1, <2>1, <2>5
    <3>2. Narrowing(v, ctx)[n] = {<<ctx[n][2], Path(n)>>}
      BY <1>7, <3>1
    <3>3. Narrowing(v, ctx)[n + 1] = {<<ctx[n + 1][2], Append(t[2], ctx[n + 1][3])>> : t \in Narrowing(v, ctx)[n]}
      BY <2>2, <2>3, <3>1 DEF StepAt
    <3>4. PICK a : a = <<ctx[n][2], Path(n)>>
      OBVIOUS
    <3>5. a[2] = Path(n) /\ Narrowing(v, ctx)[n] = {a}
      BY <3>2, <3>4
    <3>6. Narrowing(v, ctx)[n + 1] = {<<ctx[n + 1][2], Append(a[2], ctx[n + 1][3])>>}
      BY <3>3, <3>5
    <3>7. Append(a[2], ctx[n + 1][3]) = Path(n + 1)
      BY <1>5, <3>5
    <3>. QED
      BY <3>6, <3>7
  <2>. QED
    BY <2>4, <2>5
<1>. HIDE DEF S
<1>8. i \in S
  <2>1. Nat \subseteq S
    BY ONLY <1>6, <1>7, SetInduction
  <2>2. i \in Nat
    BY SequenceShape
  <2>. QED
    BY ONLY <2>1, <2>2
<1>9. Narrowing(v, ctx)[i] = {<<ctx[i][2], Path(i)>>}
  BY <1>8 DEF S
<1>. QED
  BY <1>9 DEF Path

LEMMA ExpandsAt ==
    ASSUME NEW v, NEW ctx, IsSequence(ctx), ctx # <<>>
    PROVE  Len(ctx) \in 1 .. Len(ctx) /\ ExpandIn(v, ctx) = Narrowing(v, ctx)[Len(ctx)]
<1>1. Len(ctx) \in 1 .. Len(ctx) /\ LastKind(ctx) = ctx[Len(ctx)][2]
  BY LastKindOf
<1>2. CASE HasFilter(ctx)
  BY <1>1, <1>2 DEF ExpandIn
<1>3. CASE ~HasFilter(ctx)
  <2>1. Narrowing(v, ctx)[Len(ctx)] = {<<ctx[Len(ctx)][2], PathOf(ctx)>>}
    BY <1>1, <1>3, NamesOnly DEF PathOf
  <2>2. ExpandIn(v, ctx) = {<<LastKind(ctx), PathOf(ctx)>>}
    BY <1>3 DEF ExpandIn
  <2>. QED
    BY <1>1, <2>1, <2>2
<1>. QED
  BY <1>2, <1>3

\* The objects of the first m items are there.
StandsIn(v, ctx, m) == \A i \in 1 .. m : Narrowing(v, ctx)[i] \subseteq v.objs

LEMMA StandsWhen ==
    ASSUME NEW ctx, IsSequence(ctx) PROVE Stands(ctx) <=> Named(ctx) /\ StandsIn(View, ctx, Len(ctx))
<1>1. Len(ctx) \in Nat
  BY SequenceShape
<1>2. ASSUME NEW i \in 1 .. Len(ctx) PROVE Expand(SubSeq(ctx, 1, i)) = Narrowing(View, ctx)[i]
  <2>1. PICK c : c = SubSeq(ctx, 1, i)
    OBVIOUS
  <2>2. i \in Nat /\ i <= Len(ctx) /\ i # 0 /\ i \in 1 .. i
    BY <1>1
  <2>3. IsSequence(c) /\ Len(c) = i /\ \A j \in 1 .. i : c[j] = ctx[j]
    BY <2>1, <2>2, StartOfSequence
  <2>4. c # <<>>
    BY <2>2, <2>3, EmptySequence
  <2>5. Expand(c) = Narrowing(View, c)[i]
    BY <2>3, <2>4, ExpandsAt DEF Expand
  <2>6. Narrowing(View, c)[i] = Narrowing(View, ctx)[i]
    BY <2>2, <2>3, NarrowingStart
  <2>. QED
    BY <2>1, <2>5, <2>6
<1>. QED
  BY <1>2 DEF Stands, StandsIn

LEMMA StandsStart ==
    ASSUME NEW v, NEW c, NEW d, IsSequence(c), IsSequence(d), NEW m \in Nat, m <= Len(c), m <= Len(d),
           \A i \in 1 .. m : c[i] = d[i], StandsIn(v, d, m)
    PROVE  StandsIn(v, c, m)
BY NarrowingStart DEF StandsIn

-----------------------------------------------------------------------------
(***************************************************************************)
(* The objects that a context stands for have its last kind, and as many   *)
(* names as objects of that kind have.                                     *)
(***************************************************************************)
Typed(S, k) ==
    /\ IsFiniteSet(S)
    /\ \A o \in S : o = <<k, o[2]>> /\ IsSequence(o[2]) /\ Len(o[2]) = Depth[k] + 1

LEMMA ImageFinite ==
    ASSUME NEW S, IsFiniteSet(S), NEW f, DOMAIN f = S PROVE IsFiniteSet({f[t] : t \in S})
<1>. DEFINE T == {f[t] : t \in S}
<1>1. PICK g : g = [t \in S |-> f[t]]
  OBVIOUS
<1>2. g \in [S -> T] /\ \A t \in T : \E s \in S : g[s] = t
  BY <1>1
<1>. HIDE DEF T
<1>3. g \in Surjection(S, T)
  BY <1>2 DEF Surjection
<1>4. IsFiniteSet(T)
  BY <1>3, FS_Surjection
<1>. QED
  BY <1>4 DEF T

\* What is in the data is an object.
LEMMA DataObject ==
    ASSUME NEW v, IsData(v), NEW o \in v.objs
    PROVE  o = <<o[1], o[2]>> /\ o[1] \in Kinds /\ IsSequence(o[2]) /\ Len(o[2]) = Depth[o[1]] + 1 /\ Last(o[2]) # NoName
BY DEF IsData, IsObject, IsSequence

LEMMA StepKind ==
    ASSUME NEW v, IsData(v), NEW ctx, NEW i, NEW before, NEW o \in StepAt(v, ctx, i, before)
    PROVE  o = <<ctx[i][2], o[2]>> /\ o[1] = ctx[i][2]
<1>1. PICK k : k = ctx[i][2]
  OBVIOUS
<1>2. CASE IsFilter(ctx[i])
  <2>1. o \in v.objs /\ o[1] = k
    BY <1>1, <1>2 DEF StepAt
  <2>2. o = <<o[1], o[2]>>
    BY <2>1, DataObject
  <2>. QED
    BY <1>1, <2>1, <2>2
<1>3. CASE ~IsFilter(ctx[i])
  <2>1. \E p : o = <<k, p>>
    BY <1>1, <1>3 DEF StepAt
  <2>. QED
    BY <1>1, <2>1
<1>. QED
  BY <1>2, <1>3

LEMMA StepTyped ==
    ASSUME NEW v, IsData(v), NEW ctx, IsSequence(ctx), KindsNest(ctx), NEW i \in 1 .. Len(ctx), NEW before,
           i # 1 => Typed(before, ctx[i - 1][2])
    PROVE  Typed(StepAt(v, ctx, i, before), ctx[i][2])
<1>. DEFINE S == StepAt(v, ctx, i, before)
<1>1. PICK k : k = ctx[i][2]
  OBVIOUS
<1>2. \A o \in S : o = <<k, o[2]>> /\ o[1] = k
  BY <1>1, StepKind
<1>3. CASE IsFilter(ctx[i])
  <2>1. S \subseteq v.objs /\ IsFiniteSet(v.objs)
    BY <1>3 DEF StepAt, IsData
  <2>. HIDE DEF S
  <2>2. IsFiniteSet(S)
    BY <2>1, FS_Subset
  <2>3. ASSUME NEW o \in S PROVE o = <<k, o[2]>> /\ IsSequence(o[2]) /\ Len(o[2]) = Depth[k] + 1
    <3>1. o \in v.objs
      BY <2>1
    <3>2. IsSequence(o[2]) /\ Len(o[2]) = Depth[o[1]] + 1
      BY <3>1, DataObject
    <3>. QED
      BY <1>2, <3>2
  <2>4. Typed(S, k)
    BY <2>2, <2>3 DEF Typed
  <2>. QED
    BY <1>1, <2>4 DEF S
<1>4. CASE ~IsFilter(ctx[i]) /\ i = 1
  <2>1. PICK a, p : p = <<ctx[i][3]>> /\ a = <<k, p>>
    OBVIOUS
  <2>2. S = {a}
    BY <1>1, <1>4, <2>1 DEF StepAt
  <2>3. Depth[k] = 0
    BY <1>1, <1>4, NestedDepths
  <2>4. IsSequence(p) /\ Len(p) = 1
    <3>1. PICK name : name = ctx[i][3]
      OBVIOUS
    <3>2. p \in Seq({name}) /\ Len(p) = 1
      BY <1>4, <2>1, <3>1
    <3>. QED
      BY <3>2, SequenceFrom
  <2>5. a[2] = p /\ a = <<k, a[2]>>
    BY <2>1
  <2>. HIDE DEF S
  <2>6. IsFiniteSet(S)
    BY <2>2, FS_Singleton
  <2>7. Typed(S, k)
    BY <2>2, <2>3, <2>4, <2>5, <2>6 DEF Typed
  <2>. QED
    BY <1>1, <2>7 DEF S
<1>5. CASE ~IsFilter(ctx[i]) /\ i # 1
  <2>1. PICK j, name : j = ctx[i - 1][2] /\ name = ctx[i][3]
    OBVIOUS
  <2>2. Typed(before, j) /\ Depth[k] = Depth[j] + 1 /\ Depth[j] \in Nat
    <3>1. i - 1 \in 1 .. Len(ctx)
      BY <1>5, SequenceShape
    <3>. QED
      BY <1>1, <1>5, <2>1, <3>1, NestedDepths
  <2>3. S = {<<k, Append(t[2], name)>> : t \in before}
    BY <1>1, <1>5, <2>1 DEF StepAt
  <2>4. PICK f : f = [t \in before |-> <<k, Append(t[2], name)>>]
    OBVIOUS
  <2>5. DOMAIN f = before /\ S = {f[t] : t \in before}
    BY <2>3, <2>4
  <2>. HIDE DEF S
  <2>6. IsFiniteSet(S)
    BY <2>2, <2>5, ImageFinite DEF Typed
  <2>7. ASSUME NEW o \in S PROVE o = <<k, o[2]>> /\ IsSequence(o[2]) /\ Len(o[2]) = Depth[k] + 1
    <3>1. PICK t \in before : o = <<k, Append(t[2], name)>>
      BY <2>3
    <3>2. IsSequence(t[2]) /\ Len(t[2]) = Depth[j] + 1
      BY <2>2 DEF Typed
    <3>3. PICK p : p = Append(t[2], name)
      OBVIOUS
    <3>4. IsSequence(p) /\ Len(p) = (Depth[j] + 1) + 1
      BY <3>2, <3>3, AppendedSequence
    <3>. QED
      BY <2>2, <3>1, <3>3, <3>4
  <2>8. Typed(S, k)
    BY <2>6, <2>7 DEF Typed
  <2>. QED
    BY <1>1, <2>8 DEF S
<1>. QED
  BY <1>3, <1>4, <1>5

LEMMA NarrowingTyped ==
    ASSUME NEW v, IsData(v), NEW ctx, IsSequence(ctx), KindsNest(ctx), NEW i \in 1 .. Len(ctx)
    PROVE  Typed(Narrowing(v, ctx)[i], ctx[i][2])
<1>. DEFINE S == {n \in Nat : n \in 1 .. Len(ctx) => Typed(Narrowing(v, ctx)[n], ctx[n][2])}
<1>1. Len(ctx) \in Nat
  BY SequenceShape
<1>2. 0 \in S
  OBVIOUS
<1>3. ASSUME NEW n \in Nat, n \in S PROVE n + 1 \in S
  <2>1. SUFFICES ASSUME n + 1 \in 1 .. Len(ctx) PROVE Typed(Narrowing(v, ctx)[n + 1], ctx[n + 1][2])
    OBVIOUS
  <2>2. Narrowing(v, ctx)[n + 1] = StepAt(v, ctx, n + 1, Narrowing(v, ctx)[(n + 1) - 1])
    BY <2>1, NarrowingAt
  <2>3. (n + 1) - 1 = n /\ (n + 1 # 1 => n \in 1 .. Len(ctx))
    BY <1>1, <2>1
  <2>4. n + 1 # 1 => Typed(Narrowing(v, ctx)[(n + 1) - 1], ctx[(n + 1) - 1][2])
    BY <1>3, <2>3
  <2>5. Typed(StepAt(v, ctx, n + 1, Narrowing(v, ctx)[(n + 1) - 1]), ctx[n + 1][2])
    BY <2>1, <2>4, StepTyped
  <2>. QED
    BY <2>2, <2>5
<1>. HIDE DEF S
<1>4. i \in S
  BY <1>1, <1>2, <1>3, SetInduction
<1>. QED
  BY <1>4 DEF S

LEMMA NarrowingKind ==
    ASSUME NEW v, IsData(v), NEW ctx, IsSequence(ctx), NEW i \in 1 .. Len(ctx), NEW o \in Narrowing(v, ctx)[i]
    PROVE  o = <<ctx[i][2], o[2]>> /\ o[1] = ctx[i][2]
<1>1. PICK before : before = Narrowing(v, ctx)[i - 1]
  OBVIOUS
<1>2. o \in StepAt(v, ctx, i, before)
  BY <1>1, NarrowingAt
<1>. QED
  BY <1>2, StepKind

LEMMA ExpandTyped ==
    ASSUME NEW v, IsData(v), NEW ctx, IsSequence(ctx), KindsNest(ctx), ctx # <<>>
    PROVE  Typed(ExpandIn(v, ctx), LastKind(ctx))
<1>1. Len(ctx) \in 1 .. Len(ctx) /\ LastKind(ctx) = ctx[Len(ctx)][2] /\ ExpandIn(v, ctx) = Narrowing(v, ctx)[Len(ctx)]
  BY LastKindOf, ExpandsAt
<1>2. PICK i \in 1 .. Len(ctx) : i = Len(ctx)
  BY <1>1
<1>3. Typed(Narrowing(v, ctx)[i], ctx[i][2])
  BY NarrowingTyped
<1>. QED
  BY <1>1, <1>2, <1>3

LEMMA ExpandKind ==
    ASSUME NEW v, IsData(v), NEW ctx, IsSequence(ctx), ctx # <<>>, NEW o \in ExpandIn(v, ctx)
    PROVE  o = <<LastKind(ctx), o[2]>> /\ o[1] = LastKind(ctx)
<1>1. Len(ctx) \in 1 .. Len(ctx) /\ LastKind(ctx) = ctx[Len(ctx)][2] /\ ExpandIn(v, ctx) = Narrowing(v, ctx)[Len(ctx)]
  BY LastKindOf, ExpandsAt
<1>2. PICK i \in 1 .. Len(ctx) : i = Len(ctx)
  BY <1>1
<1>3. o \in Narrowing(v, ctx)[i]
  BY <1>1, <1>2
<1>. QED
  BY <1>1, <1>2, <1>3, NarrowingKind

LEMMA ExpandEmpty == ASSUME NEW v PROVE ExpandIn(v, <<>>) = {}
BY DEF ExpandIn

-----------------------------------------------------------------------------
(***************************************************************************)
(* A context whose objects are there, and how far a change of the data     *)
(* reaches: objects with fewer names than those that change stay, and with *)
(* them what the items before stand for.                                   *)
(***************************************************************************)
Held(v, ctx) == Named(ctx) /\ StandsIn(v, ctx, Len(ctx))
SameBelow(v, w, n) ==
    /\ \A o \in v.objs \cup w.objs : Len(o[2]) <= n => o \in v.objs /\ o \in w.objs
    /\ \A s \in v.set \cup w.set : Len(s[1][2]) <= n => s \in v.set /\ s \in w.set
Below(ctx, n) == \A i \in 1 .. Len(ctx) : ctx[i][2] \in Kinds /\ Depth[ctx[i][2]] \in Nat /\ Depth[ctx[i][2]] + 1 <= n

LEMMA MatchesLast ==
    ASSUME NEW v, NEW w, NEW n, SameBelow(v, w, n), NEW o, Len(o[2]) <= n, NEW f
    PROVE  Matches(v, o, f) <=> Matches(w, o, f)
<1>1. PICK q, s : q = <<f[1], o[2]>> /\ s = <<q, f[2]>>
  OBVIOUS
<1>2. s[1] = q /\ q[2] = o[2]
  BY <1>1
<1>3. Len(s[1][2]) <= n
  BY <1>2
<1>4. s \in v.set <=> s \in w.set
  BY <1>3 DEF SameBelow
<1>. QED
  BY <1>1, <1>4 DEF Matches

LEMMA StepLasts ==
    ASSUME NEW v, NEW w, IsData(v), IsData(w), NEW n \in Nat, SameBelow(v, w, n), NEW ctx, NEW i,
           Depth[ctx[i][2]] + 1 <= n, NEW before
    PROVE  StepAt(v, ctx, i, before) = StepAt(w, ctx, i, before)
<1>1. PICK k, f : k = ctx[i][2] /\ f = ctx[i][3]
  OBVIOUS
<1>2. CASE IsFilter(ctx[i])
  <2>1. ASSUME NEW o, o[1] = k PROVE (o \in v.objs <=> o \in w.objs) /\ (o \in v.objs => (Matches(v, o, f) <=> Matches(w, o, f)))
    <3>1. o \in v.objs \cup w.objs => Len(o[2]) = Depth[k] + 1
      BY <2>1, DataObject
    <3>2. o \in v.objs \cup w.objs => Len(o[2]) <= n
      BY <1>1, <3>1
    <3>3. o \in v.objs => (Matches(v, o, f) <=> Matches(w, o, f))
      BY <3>2, MatchesLast
    <3>. QED
      BY <3>2, <3>3 DEF SameBelow
  <2>2. /\ StepAt(v, ctx, i, before) = {o \in v.objs : o[1] = k /\ Matches(v, o, f) /\ (i = 1 \/ \E t \in before : IsUnder(o, t))}
        /\ StepAt(w, ctx, i, before) = {o \in w.objs : o[1] = k /\ Matches(w, o, f) /\ (i = 1 \/ \E t \in before : IsUnder(o, t))}
    BY <1>1, <1>2 DEF StepAt
  <2>. QED
    BY <2>1, <2>2
<1>3. CASE ~IsFilter(ctx[i])
  BY <1>3 DEF StepAt
<1>. QED
  BY <1>2, <1>3

LEMMA NarrowingLasts ==
    ASSUME NEW v, NEW w, IsData(v), IsData(w), NEW n \in Nat, SameBelow(v, w, n),
           NEW ctx, IsSequence(ctx), Below(ctx, n), NEW i \in 1 .. Len(ctx)
    PROVE  Narrowing(v, ctx)[i] = Narrowing(w, ctx)[i]
<1>. DEFINE S == {m \in Nat : m \in 1 .. Len(ctx) => Narrowing(v, ctx)[m] = Narrowing(w, ctx)[m]}
<1>1. Len(ctx) \in Nat
  BY SequenceShape
<1>2. 0 \in S
  OBVIOUS
<1>3. ASSUME NEW m \in Nat, m \in S PROVE m + 1 \in S
  <2>1. SUFFICES ASSUME m + 1 \in 1 .. Len(ctx) PROVE Narrowing(v, ctx)[m + 1] = Narrowing(w, ctx)[m + 1]
    OBVIOUS
  <2>2. PICK j, p, q : j = m + 1 /\ p = Narrowing(v, ctx)[j - 1] /\ q = Narrowing(w, ctx)[j - 1]
    OBVIOUS
  <2>3. Narrowing(v, ctx)[j] = StepAt(v, ctx, j, p) /\ Narrowing(w, ctx)[j] = StepAt(w, ctx, j, q)
    BY <2>1, <2>2, NarrowingAt
  <2>4. j - 1 = m /\ (m = 0 => j = 1) /\ (m # 0 => m \in 1 .. Len(ctx))
    BY <1>1, <2>1, <2>2
  <2>5. StepAt(v, ctx, j, p) = StepAt(v, ctx, j, q)
    <3>1. CASE m = 0
      BY <2>4, <3>1, FirstStep
    <3>2. CASE m # 0
      <4>1. p = q
        BY <1>3, <2>2, <2>4, <3>2
      <4>. QED
        BY <4>1
    <3>. QED
      BY <3>1, <3>2
  <2>6. Depth[ctx[j][2]] + 1 <= n
    BY <2>1, <2>2 DEF Below
  <2>7. StepAt(v, ctx, j, q) = StepAt(w, ctx, j, q)
    BY <2>6, StepLasts
  <2>. QED
    BY <2>2, <2>3, <2>5, <2>7
<1>. HIDE DEF S
<1>4. i \in S
  BY <1>1, <1>2, <1>3, SetInduction
<1>. QED
  BY <1>4 DEF S

LEMMA HeldLasts ==
    ASSUME NEW v, NEW w, IsData(v), IsData(w), NEW n \in Nat, SameBelow(v, w, n),
           NEW ctx, IsSequence(ctx), Below(ctx, n), Held(v, ctx)
    PROVE  Held(w, ctx)
<1>1. ASSUME NEW i \in 1 .. Len(ctx), NEW o \in Narrowing(w, ctx)[i] PROVE o \in w.objs
  <2>1. o \in Narrowing(v, ctx)[i]
    BY <1>1, NarrowingLasts
  <2>2. o \in v.objs
    BY <2>1 DEF Held, StandsIn
  <2>3. o[1] = ctx[i][2]
    BY <2>1, NarrowingKind
  <2>4. Len(o[2]) <= n
    BY <2>2, <2>3, DataObject DEF Below
  <2>. QED
    BY <2>2, <2>4 DEF SameBelow
<1>. QED
  BY <1>1 DEF Held, StandsIn

\* The start of a context, and one item more.
LEMMA HeldFront == ASSUME NEW v, NEW ctx, IsSequence(ctx), Held(v, ctx) PROVE IsSequence(Front(ctx)) /\ Held(v, Front(ctx))
<1>1. CASE ctx = <<>>
  <2>1. Front(ctx) = <<>>
    BY <1>1 DEF Front
  <2>. QED
    BY <1>1, <2>1
<1>2. CASE ctx # <<>>
  <2>1. PICK c, m : c = Front(ctx) /\ m = Len(ctx) - 1
    OBVIOUS
  <2>2. /\ IsSequence(c) /\ Len(c) = m /\ m \in Nat /\ m <= Len(c) /\ m <= Len(ctx) /\ m \in 0 .. Len(ctx)
        /\ \A i \in 1 .. m : c[i] = ctx[i] /\ i \in 1 .. Len(ctx)
    BY <1>2, <2>1, FrontOfSequence
  <2>3. StandsIn(v, ctx, m)
    BY <2>2 DEF Held, StandsIn
  <2>4. StandsIn(v, c, m)
    BY <2>2, <2>3, StandsStart
  <2>5. Named(c)
    BY <2>2 DEF Held, Named
  <2>. QED
    BY <2>1, <2>2, <2>4, <2>5 DEF Held
<1>. QED
  BY <1>1, <1>2

LEMMA HeldEmpty == ASSUME NEW v PROVE Held(v, <<>>)
<1>1. Len(<<>>) = 0 /\ 1 .. 0 = {}
  OBVIOUS
<1>. QED
  BY <1>1 DEF Held, Named, StandsIn

LEMMA HeldOn ==
    ASSUME NEW v, NEW c, IsSequence(c), Held(v, c), NEW x, IsFilter(x) \/ x[3] # NoName, ExpandIn(v, Append(c, x)) \subseteq v.objs
    PROVE  Held(v, Append(c, x))
<1>1. PICK d, m : d = Append(c, x) /\ m = Len(c)
  OBVIOUS
<1>2. /\ IsSequence(d) /\ Len(d) = m + 1 /\ d[m + 1] = x /\ m \in Nat /\ m <= Len(c) /\ m <= Len(d)
      /\ \A i \in 1 .. m : d[i] = c[i]
  BY <1>1, AppendedSequence, SequenceShape
<1>3. StandsIn(v, d, m)
  <2>1. StandsIn(v, c, m)
    BY <1>1 DEF Held
  <2>. QED
    BY <1>2, <2>1, StandsStart
<1>4. d # <<>>
  BY <1>2
<1>5. Narrowing(v, d)[m + 1] \subseteq v.objs
  <2>1. ExpandIn(v, d) = Narrowing(v, d)[Len(d)]
    BY <1>2, <1>4, ExpandsAt
  <2>. QED
    BY <1>1, <1>2, <2>1
<1>6. \A i \in 1 .. Len(d) : i \in 1 .. m \/ i = m + 1
  BY <1>2
<1>7. StandsIn(v, d, Len(d))
  BY <1>3, <1>5, <1>6 DEF StandsIn
<1>8. Named(d)
  BY <1>1, <1>2, <1>6 DEF Held, Named
<1>. QED
  BY <1>1, <1>7, <1>8 DEF Held

\* The kinds above those of the last item.
LEMMA BelowNext ==
    ASSUME NEW c, IsSequence(c), NEW x, KindsNest(Append(c, x))
    PROVE  Below(c, Depth[x[2]]) /\ x[2] \in Kinds /\ Depth[x[2]] \in Nat
<1>1. PICK d, m : d = Append(c, x) /\ m = Len(c)
  OBVIOUS
<1>2. /\ IsSequence(d) /\ Len(d) = m + 1 /\ d[m + 1] = x /\ m \in Nat
      /\ \A i \in 1 .. m : d[i] = c[i]
  BY <1>1, AppendedSequence, SequenceShape
<1>3. PICK j \in 1 .. Len(d) : j = m + 1
  BY <1>2
<1>4. x[2] \in Kinds /\ Depth[x[2]] \in Nat /\ \A i \in 1 .. (j - 1) : Depth[d[i][2]] < Depth[x[2]]
  BY <1>1, <1>2, <1>3, NestedDepths
<1>5. ASSUME NEW i \in 1 .. Len(c) PROVE c[i][2] \in Kinds /\ Depth[c[i][2]] \in Nat /\ Depth[c[i][2]] + 1 <= Depth[x[2]]
  <2>1. i \in 1 .. Len(d) /\ i \in 1 .. (j - 1) /\ d[i] = c[i]
    BY <1>1, <1>2, <1>3
  <2>2. d[i][2] \in Kinds /\ Depth[d[i][2]] \in Nat
    BY <1>1, <1>2, <2>1, NestedDepths
  <2>. QED
    BY <1>4, <2>1, <2>2
<1>. QED
  BY <1>4, <1>5 DEF Below

LEMMA BelowLast ==
    ASSUME NEW ctx, IsSequence(ctx), KindsNest(ctx), ctx # <<>>
    PROVE  Below(Front(ctx), Depth[LastKind(ctx)]) /\ Depth[LastKind(ctx)] \in Nat
<1>1. PICK c, n : c = Front(ctx) /\ n = Len(ctx) /\ n \in Nat
  BY SequenceShape
<1>2. n \in 1 .. Len(ctx) /\ LastKind(ctx) = ctx[n][2]
  BY <1>1, LastKindOf
<1>3. Len(c) = n - 1 /\ \A i \in 1 .. (n - 1) : c[i] = ctx[i] /\ i \in 1 .. Len(ctx)
  BY <1>1, FrontOfSequence
<1>4. Depth[ctx[n][2]] \in Nat /\ \A i \in 1 .. (n - 1) : Depth[ctx[i][2]] < Depth[ctx[n][2]]
  BY <1>2, NestedDepths
<1>5. ASSUME NEW i \in 1 .. Len(c) PROVE c[i][2] \in Kinds /\ Depth[c[i][2]] \in Nat /\ Depth[c[i][2]] + 1 <= Depth[ctx[n][2]]
  <2>1. i \in 1 .. (n - 1) /\ i \in 1 .. Len(ctx) /\ c[i] = ctx[i]
    BY <1>3
  <2>2. ctx[i][2] \in Kinds /\ Depth[ctx[i][2]] \in Nat
    BY <2>1, NestedDepths
  <2>. QED
    BY <1>4, <2>1, <2>2
<1>. QED
  BY <1>1, <1>2, <1>4, <1>5 DEF Below

\* One more item: its objects are those before it, each with one more name.
Deeper(c, k, name) == Append(c, <<"object", k, name>>)
Stems(v, c) == IF c = <<>> THEN {<<>>} ELSE {t[2] : t \in ExpandIn(v, c)}
LEMMA ExpandNext ==
    ASSUME NEW c, IsSequence(c), NEW v, NEW k, NEW name
    PROVE  /\ IsSequence(Deeper(c, k, name)) /\ Deeper(c, k, name) # <<>> /\ LastKind(Deeper(c, k, name)) = k
           /\ \A o : o \in ExpandIn(v, Deeper(c, k, name)) => \E p \in Stems(v, c) : o = <<k, Append(p, name)>>
           /\ \A p : p \in Stems(v, c) => <<k, Append(p, name)>> \in ExpandIn(v, Deeper(c, k, name))
<1>1. PICK x, d, m : x = <<"object", k, name>> /\ d = Deeper(c, k, name) /\ m = Len(c)
  OBVIOUS
<1>2. /\ IsSequence(d) /\ Len(d) = m + 1 /\ d[m + 1] = x /\ m \in Nat
      /\ \A i \in 1 .. m : d[i] = c[i]
  <2>1. d = Append(c, x)
    BY <1>1 DEF Deeper
  <2>. QED
    BY <1>1, <2>1, AppendedSequence, SequenceShape
<1>3. d # <<>>
  BY <1>2
<1>4. ~IsFilter(x) /\ x[2] = k /\ x[3] = name
  BY <1>1 DEF IsFilter
<1>5. PICK j \in 1 .. Len(d) : j = m + 1
  BY <1>2
<1>6. LastKind(d) = k
  BY <1>2, <1>3, <1>4, LastKindOf
<1>7. ExpandIn(v, d) = StepAt(v, d, j, Narrowing(v, d)[j - 1])
  <2>1. ExpandIn(v, d) = Narrowing(v, d)[j]
    BY <1>2, <1>3, <1>5, ExpandsAt
  <2>. QED
    BY <1>2, <2>1, NarrowingAt
<1>8. ASSUME c = <<>> PROVE ExpandIn(v, d) = {<<k, Append(p, name)>> : p \in Stems(v, c)}
  <2>1. j = 1
    BY <1>1, <1>5, <1>8, EmptySequence
  <2>2. ExpandIn(v, d) = {<<k, <<name>>>>}
    BY <1>2, <1>4, <1>5, <1>7, <2>1 DEF StepAt
  <2>3. Stems(v, c) = {<<>>} /\ Append(<<>>, name) = <<name>>
    BY <1>8 DEF Stems
  <2>4. {<<k, Append(p, name)>> : p \in Stems(v, c)} = {<<k, <<name>>>>}
    BY <2>3
  <2>5. ExpandIn(v, d) = {<<k, Append(p, name)>> : p \in Stems(v, c)}
    BY <2>2, <2>4
  <2>. QED
    BY <2>5
<1>9. ASSUME c # <<>> PROVE ExpandIn(v, d) = {<<k, Append(p, name)>> : p \in Stems(v, c)}
  <2>1. m # 0 /\ j # 1 /\ j - 1 = m /\ m \in 1 .. m /\ m <= Len(d) /\ m <= Len(c)
    <3>1. m # 0
      BY <1>1, <1>9, EmptySequence
    <3>. QED
      BY <1>1, <1>2, <1>5, <3>1
  <2>2. Narrowing(v, d)[m] = Narrowing(v, c)[m]
    BY <1>2, <2>1, NarrowingStart
  <2>3. Narrowing(v, d)[j - 1] = ExpandIn(v, c)
    BY <1>1, <1>9, <2>1, <2>2, ExpandsAt
  <2>4. ExpandIn(v, d) = {<<k, Append(t[2], name)>> : t \in ExpandIn(v, c)}
    BY <1>2, <1>4, <1>5, <1>7, <2>1, <2>3 DEF StepAt
  <2>5. Stems(v, c) = {t[2] : t \in ExpandIn(v, c)}
    BY <1>9 DEF Stems
  <2>6. {<<k, Append(t[2], name)>> : t \in ExpandIn(v, c)} = {<<k, Append(p, name)>> : p \in Stems(v, c)}
    BY <2>5
  <2>7. ExpandIn(v, d) = {<<k, Append(p, name)>> : p \in Stems(v, c)}
    BY <2>4, <2>6
  <2>. QED
    BY <2>7
<1>10. ExpandIn(v, d) = {<<k, Append(p, name)>> : p \in Stems(v, c)}
  BY <1>8, <1>9
<1>11. /\ \A o : o \in ExpandIn(v, d) => \E p \in Stems(v, c) : o = <<k, Append(p, name)>>
       /\ \A p : p \in Stems(v, c) => <<k, Append(p, name)>> \in ExpandIn(v, d)
  BY <1>10
<1>. QED
  BY <1>1, <1>2, <1>3, <1>6, <1>11

LEMMA DeeperIs ==
    ASSUME NEW c, IsSequence(c), NEW k, NEW name
    PROVE  IsSequence(Deeper(c, k, name)) /\ Deeper(c, k, name) # <<>> /\ LastKind(Deeper(c, k, name)) = k
BY ExpandNext

LEMMA NextObjects ==
    ASSUME NEW c, IsSequence(c), NEW v, NEW k, NEW name, NEW o, o \in ExpandIn(v, Deeper(c, k, name))
    PROVE  \E p \in Stems(v, c) : o = <<k, Append(p, name)>>
<1>1. \A x : x \in ExpandIn(v, Deeper(c, k, name)) => \E p \in Stems(v, c) : x = <<k, Append(p, name)>>
  BY ONLY IsSequence(c), ExpandNext
<1>. QED
  BY <1>1

LEMMA StemObjects ==
    ASSUME NEW c, IsSequence(c), NEW v, NEW k, NEW name, NEW p, p \in Stems(v, c)
    PROVE  <<k, Append(p, name)>> \in ExpandIn(v, Deeper(c, k, name))
BY ExpandNext, Zenon

\* What the data gain among the objects of the last kind leaves the context standing.
LEMMA HeldGrows ==
    ASSUME NEW v, NEW w, IsData(v), IsData(w), NEW ctx, IsSequence(ctx), KindsNest(ctx), ctx # <<>>, Held(v, ctx),
           SameBelow(v, w, Depth[LastKind(ctx)]), v.objs \subseteq w.objs
    PROVE  Held(w, ctx)
<1>1. PICK c, n, x : c = Front(ctx) /\ n = Len(ctx) /\ x = ctx[n]
  OBVIOUS
<1>2. /\ n \in Nat \ {0} /\ IsSequence(c) /\ Len(c) = n - 1 /\ \A i \in 1 .. (n - 1) : c[i] = ctx[i]
  BY <1>1, FrontOfSequence
<1>3. ctx = Append(c, x)
  <2>1. PICK d : d = Append(c, x)
    OBVIOUS
  <2>2. IsSequence(d) /\ Len(d) = (n - 1) + 1 /\ d[(n - 1) + 1] = x /\ \A i \in 1 .. (n - 1) : d[i] = c[i]
    BY <1>2, <2>1, AppendedSequence, SequenceShape
  <2>3. \A i \in 1 .. Len(d) : i \in 1 .. (n - 1) \/ i = n
    BY <1>2, <2>2
  <2>4. Len(d) = Len(ctx) /\ \A i \in 1 .. Len(d) : d[i] = ctx[i]
    BY <1>1, <1>2, <2>2, <2>3
  <2>. QED
    BY <2>1, <2>2, <2>4, SameSequences
<1>4. Below(c, Depth[LastKind(ctx)]) /\ Depth[LastKind(ctx)] \in Nat
  BY <1>1, BelowLast
<1>5. Held(v, c)
  BY <1>1, HeldFront
<1>6. Held(w, c)
  BY <1>2, <1>4, <1>5, HeldLasts
<1>7. IsFilter(x) \/ x[3] # NoName
  BY <1>1, <1>2 DEF Held, Named
<1>8. n \in 1 .. Len(ctx) /\ \A u : ExpandIn(u, ctx) = Narrowing(u, ctx)[n] /\ Narrowing(u, ctx)[n] = StepAt(u, ctx, n, Narrowing(u, ctx)[n - 1])
  <2>1. n \in 1 .. Len(ctx)
    BY <1>1, <1>2
  <2>. QED
    BY <1>1, <2>1, ExpandsAt, NarrowingAt
<1>9. ExpandIn(v, ctx) \subseteq v.objs
  BY <1>1, <1>8 DEF Held, StandsIn
<1>10. ExpandIn(w, ctx) \subseteq w.objs
  <2>1. CASE IsFilter(x)
    BY <1>1, <1>8, <2>1 DEF StepAt
  <2>2. CASE ~IsFilter(x)
    <3>1. PICK p, q : p = Narrowing(v, ctx)[n - 1] /\ q = Narrowing(w, ctx)[n - 1]
      OBVIOUS
    <3>2. StepAt(w, ctx, n, q) = StepAt(v, ctx, n, q)
      BY <1>1, <2>2 DEF StepAt
    <3>3. StepAt(v, ctx, n, q) = StepAt(v, ctx, n, p)
      <4>1. CASE n = 1
        BY <4>1, FirstStep
      <4>2. CASE n # 1
        <5>1. n - 1 \in Nat /\ n - 1 \in 1 .. (n - 1) /\ n - 1 <= Len(c) /\ n - 1 <= Len(ctx)
          BY <1>1, <1>2, <4>2
        <5>2. n - 1 \in 1 .. Len(c)
          BY <1>2, <5>1
        <5>3. \A u : Narrowing(u, c)[n - 1] = Narrowing(u, ctx)[n - 1]
          BY <1>2, <5>1, NarrowingStart
        <5>4. Narrowing(v, c)[n - 1] = Narrowing(w, c)[n - 1]
          BY <1>2, <1>4, <5>2, NarrowingLasts
        <5>5. p = q
          BY <3>1, <5>3, <5>4
        <5>. QED
          BY <5>5
      <4>. QED
        BY <4>1, <4>2
    <3>4. ExpandIn(w, ctx) = ExpandIn(v, ctx)
      BY <1>8, <3>1, <3>2, <3>3
    <3>. QED
      BY <1>9, <3>4
  <2>. QED
    BY <2>1, <2>2
<1>. QED
  BY <1>2, <1>3, <1>6, <1>7, <1>10, HeldOn

-----------------------------------------------------------------------------
(***************************************************************************)
(* What a change makes of the data, and the objects it leaves alone.       *)
(***************************************************************************)
DataOf(d) == IsData(d.live) /\ IsData(d.work) /\ IsData(d.gone)

LEMMA ChangedBelow ==
    ASSUME NEW v, NEW w, NEW n,
           \A o \in (v.objs \ w.objs) \cup (w.objs \ v.objs) : ~(Len(o[2]) <= n),
           \A s \in (v.set \ w.set) \cup (w.set \ v.set) : ~(Len(s[1][2]) <= n)
    PROVE  SameBelow(v, w, n)
<1>1. ASSUME NEW o \in v.objs \cup w.objs, Len(o[2]) <= n PROVE o \in v.objs /\ o \in w.objs
  BY <1>1
<1>2. ASSUME NEW s \in v.set \cup w.set, Len(s[1][2]) <= n PROVE s \in v.set /\ s \in w.set
  BY <1>2
<1>. QED
  BY <1>1, <1>2 DEF SameBelow

LEMMA EndsOf ==
    ASSUME NEW s, IsSequence(s), NEW e
    PROVE  Last(Append(s, e)) = e /\ Front(Append(s, e)) = s
<1>1. PICK a, n : a = Append(s, e) /\ n = Len(s)
  OBVIOUS
<1>2. IsSequence(a) /\ Len(a) = n + 1 /\ a[n + 1] = e /\ n \in Nat /\ \A i \in 1 .. n : a[i] = s[i]
  BY <1>1, AppendedSequence, SequenceShape
<1>3. a # <<>>
  BY <1>2
<1>4. /\ IsSequence(Front(a)) /\ Len(Front(a)) = (n + 1) - 1 /\ (n + 1) - 1 = n
      /\ \A i \in 1 .. ((n + 1) - 1) : Front(a)[i] = a[i]
  BY <1>2, <1>3, FrontOfSequence
<1>5. Front(a) = s
  BY <1>1, <1>2, <1>4, SameSequences
<1>. QED
  BY <1>1, <1>2, <1>5 DEF Last

\* The server names a new object as long as it has a name.
LEMMA CalledNew ==
    ASSUME NEW o, IsNew(o), NEW i \in DOMAIN AutoNames, IsFree(o, i)
    PROVE  \E j \in DOMAIN AutoNames : Called(o) = AutoNamed(o, j) /\ AutoNames[j] # NoName
<1>. DEFINE T == {j \in DOMAIN AutoNames : IsFree(o, j)}
            Free(j) == IsFree(o, j)
<1>1. DOMAIN AutoNames = 1 .. Len(AutoNames) /\ Len(AutoNames) \in Nat /\ \A j \in DOMAIN AutoNames : AutoNames[j] # NoName
  BY NamesAssumption, SequenceShape DEF IsSequence
<1>2. T \in SUBSET Nat /\ T # {}
  BY <1>1
<1>3. PICK n \in T : \A m \in T : n <= m
  <2>. HIDE DEF T
  <2>. QED
    BY <1>2, LeastElement
<1>4. n \in DOMAIN AutoNames /\ Free(n) /\ \A j \in 1 .. (n - 1) : ~Free(j)
  <2>1. n \in DOMAIN AutoNames /\ Free(n) /\ n \in 1 .. Len(AutoNames)
    BY <1>1, <1>3
  <2>2. ASSUME NEW j \in 1 .. (n - 1), Free(j) PROVE FALSE
    <3>1. j \in DOMAIN AutoNames /\ ~(n <= j)
      BY <1>1, <2>1
    <3>. QED
      BY <1>3, <2>2, <3>1
  <2>. QED
    BY <2>1, <2>2
<1>5. PICK j : j = CHOOSE m \in DOMAIN AutoNames : IsFree(o, m) /\ \A l \in 1 .. (m - 1) : ~IsFree(o, l)
  OBVIOUS
<1>6. j \in DOMAIN AutoNames
  BY <1>4, <1>5
<1>7. Called(o) = AutoNamed(o, j)
  BY <1>5 DEF Called
<1>. QED
  BY <1>1, <1>6, <1>7

LEMMA CalledObject ==
    ASSUME NEW k \in Kinds, Depth[k] \in Nat, NEW o, o = <<k, o[2]>>, IsSequence(o[2]), Len(o[2]) = Depth[k] + 1,
           IsNew(o) => \E i \in DOMAIN AutoNames : IsFree(o, i)
    PROVE  IsObject(Called(o)) /\ Len(Called(o)[2]) = Depth[k] + 1
<1>1. o[1] = k
  OBVIOUS
<1>2. CASE ~IsNew(o)
  <2>1. Called(o) = o /\ Last(o[2]) # NoName
    BY <1>2 DEF Called, IsNew
  <2>. QED
    BY <1>1, <2>1 DEF IsObject, IsSequence
<1>3. CASE IsNew(o)
  <2>1. PICK j \in DOMAIN AutoNames : Called(o) = AutoNamed(o, j) /\ AutoNames[j] # NoName
    BY <1>3, CalledNew
  <2>2. PICK p, s, q, e : p = o[2] /\ s = Front(p) /\ e = AutoNames[j] /\ q = Append(s, e)
    OBVIOUS
  <2>3. p # <<>>
    BY <2>2
  <2>4. IsSequence(s) /\ Len(s) = (Depth[k] + 1) - 1
    BY <2>2, <2>3, FrontOfSequence
  <2>5. IsSequence(q) /\ Len(q) = ((Depth[k] + 1) - 1) + 1 /\ Last(q) = e
    BY <2>2, <2>4, AppendedSequence, EndsOf
  <2>6. Called(o) = <<k, q>>
    BY <1>1, <2>1, <2>2 DEF AutoNamed
  <2>7. PICK c : c = Called(o) /\ c = <<k, q>> /\ c[1] = k /\ c[2] = q
    BY <2>6
  <2>8. Len(c[2]) = Depth[k] + 1 /\ Last(c[2]) # NoName
    BY <2>1, <2>2, <2>5, <2>7
  <2>. QED
    BY <2>5, <2>7, <2>8 DEF IsObject, IsSequence
<1>. QED
  BY <1>2, <1>3

LEMMA MadeData ==
    ASSUME Shape, DataOf(db), NEW k \in Kinds, Depth[k] \in Nat, NEW S, Typed(S, k), NamesLast(S)
    PROVE  DataOf(Made(S)) /\ SameBelow(db.work, Made(S).work, Depth[k]) /\ db.work.objs \subseteq Made(S).work.objs
<1>1. PICK T, v, w, d : T = ToCreate(S) /\ v = db.work /\ d = Made(S) /\ w = d.work
  OBVIOUS
<1>2. PICK f : f = [o \in T |-> Called(o)]
  OBVIOUS
<1>3. PICK new : new = {f[o] : o \in T}
  OBVIOUS
<1>4. new = {Called(o) : o \in T}
  BY <1>2, <1>3
<1>5. v = [objs |-> v.objs, set |-> v.set] /\ IsFiniteSet(v.objs)
  BY <1>1 DEF DataOf, IsData
<1>6. w = [objs |-> v.objs \cup new, set |-> v.set] /\ d.live = db.live /\ d.gone = db.gone
  BY <1>1, <1>4, <1>5 DEF Made, Working, With, Shape, DbShape, DbFields
<1>7. ASSUME NEW o \in new PROVE IsObject(o) /\ Len(o[2]) = Depth[k] + 1
  <2>1. PICK p \in T : o = Called(p)
    BY <1>4
  <2>2. p \in S
    BY <1>1, ToCreateSome
  <2>3. /\ p = <<k, p[2]>> /\ IsSequence(p[2]) /\ Len(p[2]) = Depth[k] + 1
        /\ IsNew(p) => \E i \in DOMAIN AutoNames : IsFree(p, i)
    BY <2>2 DEF Typed, NamesLast
  <2>. QED
    BY <2>1, <2>3, CalledObject
<1>8. IsFiniteSet(v.objs \cup new)
  <2>1. T \subseteq S /\ IsFiniteSet(S)
    BY <1>1, ToCreateSome DEF Typed
  <2>2. IsFiniteSet(T)
    BY <2>1, FS_Subset
  <2>3. IsFiniteSet(new)
    BY <1>2, <1>3, <2>2, ImageFinite
  <2>. QED
    BY <1>5, <2>3, FS_Union
<1>9. w.objs = v.objs \cup new /\ w.set = v.set /\ w = [objs |-> w.objs, set |-> w.set]
  BY <1>6
<1>10. IsData(w)
  BY <1>1, <1>7, <1>8, <1>9 DEF DataOf, IsData
<1>11. SameBelow(v, w, Depth[k])
  <2>1. \A o \in (v.objs \ w.objs) \cup (w.objs \ v.objs) : ~(Len(o[2]) <= Depth[k])
    BY <1>7, <1>9
  <2>. QED
    BY <1>9, <2>1, ChangedBelow
<1>. QED
  BY <1>1, <1>6, <1>9, <1>10, <1>11 DEF DataOf

LEMMA RestoredData ==
    ASSUME Shape, DataOf(db), NEW k \in Kinds, Depth[k] \in Nat, NEW S, Typed(S, k)
    PROVE  /\ DataOf(RestoredIn(S)) /\ SameBelow(db.work, RestoredIn(S).work, Depth[k])
           /\ db.work.objs \subseteq RestoredIn(S).work.objs
<1>1. CASE AllExist(S)
  <2>1. RestoredIn(S) = db
    BY <1>1 DEF RestoredIn
  <2>. QED
    BY <2>1 DEF SameBelow
<1>2. CASE ~AllExist(S)
  <2>1. PICK v, g, d, w : v = db.work /\ g = db.gone /\ d = Undeleted(S) /\ w = d.work
    OBVIOUS
  <2>2. RestoredIn(S) = d
    BY <1>2, <2>1 DEF RestoredIn
  <2>3. /\ w = [objs |-> v.objs \cup (g.objs \cap S), set |-> v.set \cup {s \in g.set : s[1] \in S}]
        /\ d.live = db.live /\ d.gone = [objs |-> g.objs \ S, set |-> {s \in g.set : s[1] \notin S}]
    BY <2>1 DEF Undeleted, Working, Both, Only, Without, Shape, DbShape, DbFields
  <2>4. /\ w.objs = v.objs \cup (g.objs \cap S) /\ w.set = v.set \cup {s \in g.set : s[1] \in S}
        /\ w = [objs |-> w.objs, set |-> w.set]
    BY <2>3
  <2>5. PICK r : r = d.gone
    OBVIOUS
  <2>6. r.objs = g.objs \ S /\ r.set = {s \in g.set : s[1] \notin S} /\ r = [objs |-> r.objs, set |-> r.set]
    BY <2>3, <2>5
  <2>7. IsFiniteSet(w.objs) /\ IsFiniteSet(r.objs)
    <3>1. IsFiniteSet(v.objs) /\ IsFiniteSet(g.objs)
      BY <2>1 DEF DataOf, IsData
    <3>2. IsFiniteSet(g.objs \cap S) /\ IsFiniteSet(g.objs \ S)
      BY <3>1, FS_Subset
    <3>3. IsFiniteSet(v.objs \cup (g.objs \cap S))
      BY <3>1, <3>2, FS_Union
    <3>. QED
      BY <2>4, <2>6, <3>2, <3>3
  <2>8. IsData(w) /\ IsData(r)
    BY <2>1, <2>4, <2>6, <2>7 DEF DataOf, IsData
  <2>9. SameBelow(v, w, Depth[k])
    <3>1. \A o \in S : ~(Len(o[2]) <= Depth[k])
      BY DEF Typed
    <3>2. /\ \A o \in (v.objs \ w.objs) \cup (w.objs \ v.objs) : ~(Len(o[2]) <= Depth[k])
          /\ \A s \in (v.set \ w.set) \cup (w.set \ v.set) : ~(Len(s[1][2]) <= Depth[k])
      BY <2>4, <3>1
    <3>. QED
      BY <3>2, ChangedBelow
  <2>. QED
    BY <2>1, <2>2, <2>3, <2>4, <2>5, <2>8, <2>9 DEF DataOf
<1>. QED
  BY <1>1, <1>2

LEMMA WrittenData ==
    ASSUME Shape, DataOf(db), NEW k, NEW S, S \subseteq db.work.objs, \A o \in S : o[1] = k, Depth[k] \in Nat, NEW a, NEW there
    PROVE  /\ DataOf(Written(S, a, there)) /\ SameBelow(db.work, Written(S, a, there).work, Depth[k])
           /\ db.work.objs \subseteq Written(S, a, there).work.objs
<1>1. PICK v, d, w, new : v = db.work /\ d = Written(S, a, there) /\ w = d.work /\ new = {<<o, a>> : o \in S}
  OBVIOUS
<1>2. v = [objs |-> v.objs, set |-> v.set]
  BY <1>1 DEF DataOf, IsData
<1>3. /\ w = [v EXCEPT !.set = IF there THEN @ \cup new ELSE @ \ new]
      /\ d.live = db.live /\ d.gone = db.gone
  BY <1>1 DEF Written, Working, Shape, DbShape, DbFields
<1>4. w.objs = v.objs /\ w.set = (IF there THEN v.set \cup new ELSE v.set \ new) /\ w = [objs |-> w.objs, set |-> w.set]
  BY <1>2, <1>3
<1>5. ASSUME NEW s \in new PROVE s = <<s[1], s[2]>> /\ IsObject(s[1]) /\ ~(Len(s[1][2]) <= Depth[k])
  <2>1. PICK o \in S : s = <<o, a>>
    BY <1>1
  <2>2. IsObject(o) /\ Len(o[2]) = Depth[k] + 1
    BY <1>1 DEF DataOf, IsData, IsObject
  <2>3. s[1] = o /\ s[2] = a
    BY <2>1
  <2>. QED
    BY <2>1, <2>2, <2>3
<1>6. IsData(w)
  BY <1>1, <1>4, <1>5 DEF DataOf, IsData
<1>7. SameBelow(v, w, Depth[k])
  <2>1. \A s \in (v.set \ w.set) \cup (w.set \ v.set) : s \in new
    BY <1>4
  <2>. QED
    BY <1>4, <1>5, <2>1, ChangedBelow
<1>. QED
  BY <1>1, <1>3, <1>4, <1>6, <1>7 DEF DataOf

LEMMA DeletedData ==
    ASSUME Shape, DataOf(db), NEW T, NEW n, \A o \in T : ~(Len(o[2]) <= n)
    PROVE  DataOf(Deleted(T)) /\ SameBelow(db.work, Deleted(T).work, n)
<1>1. PICK v, g, d, w, r : v = db.work /\ g = db.gone /\ d = Deleted(T) /\ w = d.work /\ r = d.gone
  OBVIOUS
<1>2. /\ w = [objs |-> v.objs \ T, set |-> {s \in v.set : s[1] \notin T}] /\ d.live = db.live
      /\ r = [objs |-> g.objs \cup (v.objs \cap T), set |-> g.set \cup {s \in v.set : s[1] \in T}]
  BY <1>1 DEF Deleted, Working, Both, Only, Without, Shape, DbShape, DbFields
<1>3. /\ w.objs = v.objs \ T /\ w.set = {s \in v.set : s[1] \notin T} /\ w = [objs |-> w.objs, set |-> w.set]
      /\ r.objs = g.objs \cup (v.objs \cap T) /\ r.set = g.set \cup {s \in v.set : s[1] \in T} /\ r = [objs |-> r.objs, set |-> r.set]
  BY <1>2
<1>4. IsFiniteSet(w.objs) /\ IsFiniteSet(r.objs)
  <2>1. IsFiniteSet(v.objs) /\ IsFiniteSet(g.objs)
    BY <1>1 DEF DataOf, IsData
  <2>2. IsFiniteSet(v.objs \cap T) /\ IsFiniteSet(v.objs \ T)
    BY <2>1, FS_Subset
  <2>3. IsFiniteSet(g.objs \cup (v.objs \cap T))
    BY <2>1, <2>2, FS_Union
  <2>. QED
    BY <1>3, <2>2, <2>3
<1>5. IsData(w) /\ IsData(r)
  BY <1>1, <1>3, <1>4 DEF DataOf, IsData
<1>6. SameBelow(v, w, n)
  BY <1>3, ChangedBelow
<1>. QED
  BY <1>1, <1>2, <1>5, <1>6 DEF DataOf

\* A renamed object, and what is nested in it, is an object of its kind again.
LEMMA MovedObject ==
    ASSUME NEW v, IsData(v), NEW T, T \subseteq v.objs, NEW name, name # NoName, NEW o, IsObject(o)
    PROVE  /\ IsObject(Moved(o, T, name)) /\ Len(Moved(o, T, name)[2]) = Len(o[2])
           /\ Moved(o, T, name) # o => \E top \in T : Len(top[2]) <= Len(o[2])
<1>1. IsSequence(o[2]) /\ Len(o[2]) \in Nat /\ Last(o[2]) # NoName /\ o[1] \in Kinds /\ Len(o[2]) = Depth[o[1]] + 1
  BY SequenceShape DEF IsObject, IsSequence
<1>2. CASE ~\E top \in T : o = top \/ IsUnder(o, top)
  <2>1. Moved(o, T, name) = o
    BY <1>2 DEF Moved
  <2>. QED
    BY <2>1
<1>3. CASE \E top \in T : o = top \/ IsUnder(o, top)
  <2>1. PICK top : top = CHOOSE t \in T : o = t \/ IsUnder(o, t)
    OBVIOUS
  <2>2. top \in T /\ (o = top \/ IsUnder(o, top))
    BY <1>3, <2>1
  <2>3. PICK p, q, l, m : p = o[2] /\ q = top[2] /\ l = Len(p) /\ m = Len(q)
    OBVIOUS
  <2>4. IsSequence(q) /\ m \in Nat \ {0} /\ q # <<>>
    <3>1. top \in v.objs
      BY <2>2
    <3>2. IsSequence(q) /\ m = Depth[top[1]] + 1 /\ top[1] \in Kinds
      BY <2>3, <3>1, DataObject
    <3>3. Depth[top[1]] \in Nat
      BY <3>2, SchemeAssumption
    <3>4. m # 0 /\ m \in Nat
      BY <3>2, <3>3
    <3>5. q # <<>>
      BY <2>3, <3>4, EmptySequence
    <3>. QED
      BY <3>2, <3>4, <3>5
  <2>5. IsSequence(p) /\ l \in Nat /\ m <= l /\ (m = l \/ m < l) /\ (m = l => o = top)
    <3>1. o = top => m = l
      BY <2>3
    <3>2. IsUnder(o, top) => m < l
      BY <2>3 DEF IsUnder
    <3>. QED
      BY <1>1, <2>2, <2>3, <2>4, <3>1, <3>2
  <2>6. PICK f, e, g, h, r : f = Front(q) /\ e = <<name>> /\ g = f \o e /\ h = SubSeq(p, m + 1, l) /\ r = g \o h
    OBVIOUS
  <2>7. Moved(o, T, name) = <<o[1], r>>
    <3>1. Moved(o, T, name) = <<o[1], Front(top[2]) \o <<name>> \o SubSeq(o[2], Len(top[2]) + 1, Len(o[2]))>>
      BY <1>3, <2>1 DEF Moved
    <3>. QED
      BY <2>3, <2>6, <3>1
  <2>8. IsSequence(f) /\ Len(f) = m - 1
    BY <2>3, <2>4, <2>6, FrontOfSequence
  <2>9. IsSequence(e) /\ Len(e) = 1 /\ e[1] = name
    <3>1. e \in Seq({name}) /\ Len(e) = 1 /\ e[1] = name
      BY <2>6
    <3>. QED
      BY <3>1, SequenceFrom
  <2>10. IsSequence(g) /\ Len(g) = m /\ g[m] = name
    <3>1. IsSequence(g) /\ Len(g) = (m - 1) + 1 /\ g[(m - 1) + 1] = e[1]
      BY <2>6, <2>8, <2>9, JoinedSequences
    <3>2. (m - 1) + 1 = m
      BY <2>4
    <3>. QED
      BY <2>9, <3>1, <3>2
  <2>11. IsSequence(h) /\ Len(h) = l - m /\ \A i \in 1 .. (l - m) : h[i] = p[m + i]
    <3>1. l = Len(p) /\ h = SubSeq(p, m + 1, l)
      BY <2>3, <2>6
    <3>2. IsSequence(p) /\ m \in Nat /\ l \in Nat /\ m <= l
      BY <2>4, <2>5
    <3>3. l <= Len(p)
      BY <3>1, <3>2
    <3>. QED
      BY <3>1, <3>2, <3>3, PartOfSequence
  <2>12. /\ IsSequence(r) /\ Len(r) = m + (l - m) /\ \A i \in 1 .. m : r[i] = g[i]
         /\ \A i \in 1 .. (l - m) : r[m + i] = h[i]
    <3>1. r = g \o h /\ IsSequence(g) /\ IsSequence(h) /\ Len(g) = m /\ Len(h) = l - m
      BY <2>6, <2>10, <2>11
    <3>2. /\ IsSequence(g \o h) /\ Len(g \o h) = Len(g) + Len(h)
          /\ \A i \in 1 .. Len(g) : (g \o h)[i] = g[i]
          /\ \A i \in 1 .. Len(h) : (g \o h)[Len(g) + i] = h[i]
      <4>1. IsSequence(g) /\ IsSequence(h)
        BY <3>1
      <4>. QED
        BY ONLY <4>1, JoinedSequences
    <3>. QED
      BY ONLY <3>1, <3>2, Zenon
  <2>13. Len(r) = l
    BY <2>4, <2>5, <2>12
  <2>14. r[l] # NoName
    <3>1. CASE m = l
      <4>1. l \in 1 .. m
        BY <2>4, <3>1
      <4>2. r[l] = g[m]
        BY <2>12, <3>1, <4>1
      <4>. QED
        BY <2>10, <4>2
    <3>2. CASE m < l
      <4>1. l - m \in 1 .. (l - m) /\ m + (l - m) = l
        BY <2>4, <2>5, <3>2
      <4>2. r[l] = p[l]
        BY <2>11, <2>12, <4>1
      <4>. QED
        BY <1>1, <2>3, <4>2 DEF Last
    <3>. QED
      BY <2>5, <3>1, <3>2
  <2>15. PICK c : c = Moved(o, T, name) /\ c = <<o[1], r>> /\ c[1] = o[1] /\ c[2] = r
    BY <2>7
  <2>16. Last(r) # NoName
    BY <2>13, <2>14 DEF Last
  <2>17. IsObject(c) /\ Len(c[2]) = Len(o[2])
    BY <1>1, <2>3, <2>12, <2>13, <2>15, <2>16 DEF IsObject, IsSequence
  <2>. QED
    BY <2>2, <2>3, <2>5, <2>15, <2>17
<1>. QED
  BY <1>2, <1>3

LEMMA RenamedData ==
    ASSUME NEW v, IsData(v), NEW T, T \subseteq v.objs, NEW name, name # NoName, NEW n \in Nat, \A t \in T : ~(Len(t[2]) <= n)
    PROVE  IsData(Renamed(v, T, name)) /\ SameBelow(v, Renamed(v, T, name), n)
<1>1. PICK w, f : w = Renamed(v, T, name) /\ f = [o \in v.objs |-> Moved(o, T, name)]
  OBVIOUS
<1>2. /\ w.objs = {Moved(o, T, name) : o \in v.objs} /\ w.set = {<<Moved(s[1], T, name), s[2]>> : s \in v.set}
      /\ w = [objs |-> w.objs, set |-> w.set]
  BY <1>1 DEF Renamed
<1>3. w.objs = {f[o] : o \in v.objs} /\ DOMAIN f = v.objs
  BY <1>1, <1>2
<1>4. IsFiniteSet(w.objs)
  BY <1>3, ImageFinite DEF IsData
<1>5. ASSUME NEW o \in w.objs PROVE IsObject(o)
  <2>1. PICK p \in v.objs : o = Moved(p, T, name)
    BY <1>2
  <2>2. IsObject(p)
    BY DEF IsData
  <2>. QED
    BY <2>1, <2>2, MovedObject
<1>6. ASSUME NEW s \in w.set PROVE s = <<s[1], s[2]>> /\ IsObject(s[1])
  <2>1. PICK t \in v.set : s = <<Moved(t[1], T, name), t[2]>>
    BY <1>2
  <2>2. IsObject(t[1])
    BY DEF IsData
  <2>3. IsObject(Moved(t[1], T, name))
    BY <2>2, MovedObject
  <2>. QED
    BY <2>1, <2>3
<1>7. IsData(w)
  BY <1>2, <1>4, <1>5, <1>6 DEF IsData
<1>8. ASSUME NEW o, IsObject(o), Len(o[2]) <= n PROVE Moved(o, T, name) = o
  <2>1. SUFFICES ASSUME Moved(o, T, name) # o PROVE FALSE
    OBVIOUS
  <2>2. PICK top \in T : Len(top[2]) <= Len(o[2])
    BY <1>8, <2>1, MovedObject
  <2>3. IsSequence(o[2]) /\ IsSequence(top[2])
    BY <1>8, DataObject DEF IsObject, IsSequence
  <2>4. Len(o[2]) \in Nat /\ Len(top[2]) \in Nat
    BY <2>3, SequenceShape
  <2>. QED
    BY <1>8, <2>2, <2>4
<1>9. ASSUME NEW o \in v.objs \cup w.objs, Len(o[2]) <= n PROVE o \in v.objs /\ o \in w.objs
  <2>1. CASE o \in v.objs
    <3>1. IsObject(o)
      BY <2>1 DEF IsData
    <3>2. o = Moved(o, T, name)
      BY <1>8, <1>9, <3>1
    <3>. QED
      BY <1>2, <2>1, <3>2
  <2>2. CASE o \in w.objs
    <3>1. PICK p \in v.objs : o = Moved(p, T, name)
      BY <1>2, <2>2
    <3>2. IsObject(p) /\ Len(p[2]) = Len(o[2])
      BY <3>1, MovedObject DEF IsData
    <3>3. o = p
      BY <1>8, <1>9, <3>1, <3>2
    <3>. QED
      BY <2>2, <3>3
  <2>. QED
    BY <1>9, <2>1, <2>2
<1>10. ASSUME NEW s \in v.set \cup w.set, Len(s[1][2]) <= n PROVE s \in v.set /\ s \in w.set
  <2>1. CASE s \in v.set
    <3>1. IsObject(s[1]) /\ s = <<s[1], s[2]>>
      BY <2>1 DEF IsData
    <3>2. s[1] = Moved(s[1], T, name)
      BY <1>8, <1>10, <3>1
    <3>3. s = <<Moved(s[1], T, name), s[2]>>
      BY <3>1, <3>2
    <3>. QED
      BY <1>2, <2>1, <3>3
  <2>2. CASE s \in w.set
    <3>1. PICK t \in v.set : s = <<Moved(t[1], T, name), t[2]>>
      BY <1>2, <2>2
    <3>2. IsObject(t[1]) /\ t = <<t[1], t[2]>>
      BY DEF IsData
    <3>3. s[1] = Moved(t[1], T, name) /\ s[2] = t[2]
      BY <3>1
    <3>4. Len(t[1][2]) <= n
      BY <1>10, <3>2, <3>3, MovedObject
    <3>5. s[1] = t[1]
      BY <1>8, <3>2, <3>3, <3>4
    <3>6. s = t
      BY <3>1, <3>2, <3>3, <3>5
    <3>. QED
      BY <2>2, <3>6
  <2>. QED
    BY <1>10, <2>1, <2>2
<1>11. SameBelow(v, w, n)
  BY <1>9, <1>10 DEF SameBelow
<1>. QED
  BY <1>1, <1>7, <1>11

-----------------------------------------------------------------------------
(***************************************************************************)
(* The contexts of the session nest, and while a line is performed in a    *)
(* changeset the objects of the context of the second pass are there: all  *)
(* of them, or when a delete or a rename has taken those of the last item, *)
(* which is left next, those of the items before.                          *)
(***************************************************************************)
IsRest(sig) == (\A i \in 1 .. Len(sig) : NestedSignal(sig[i])) /\ LeavesAfter(sig)
Nesting ==
    /\ KindsNest(cli.ctx) /\ KindsNest(cli.before)
    /\ InPasses => KindsNest(line.ctx) /\ KindsNest(line.backup) /\ IsRest(line.sig)
    /\ line.phase = "apply" => IsRest(line.todo)
AllLeft(todo) == todo # <<>> /\ \A i \in 1 .. Len(todo) : todo[i][1] = "left"
Trusted == cli.changeset /\ past.stood /\ ~past.taint
PassStands ==
    InPasses /\ Trusted =>
        \/ Held(db.work, line.ctx)
        \/ line.phase = "apply" /\ AllLeft(line.todo) /\ Held(db.work, Front(line.ctx))
PromptStands == line.phase = "prompt" /\ line.end = "performed" /\ Trusted => Held(db.work, cli.ctx)
NInv == DataOf(db) /\ Nesting /\ PassStands /\ PromptStands

\* The line has ended.
LEMMA EndedNests ==
    ASSUME line'.phase \in {"prompt", "file"}, KindsNest(cli'.ctx), KindsNest(cli'.before), DataOf(db'),
           line'.end = "performed" /\ Trusted' => Held(db'.work, cli'.ctx)
    PROVE  NInv'
<1>1. ~InPasses' /\ line'.phase # "apply"
  BY DEF InPasses
<1>2. DataOf(db)'
  BY DEF DataOf
<1>3. Nesting'
  BY <1>1 DEF Nesting
<1>4. PassStands'
  BY <1>1 DEF PassStands
<1>5. PromptStands'
  BY DEF PromptStands
<1>. QED
  BY <1>2, <1>3, <1>4, <1>5 DEF NInv

LEMMA BackEnded ==
    ASSUME Shape, NEW end, NEW ctx, line' = Back(end, ctx) PROVE line'.phase \in {"prompt", "file"} /\ line'.end = end
<1>1. DOMAIN NextLine = LineFields /\ NextLine.phase \in {"prompt", "file"}
  BY DEF NextLine, Shape, LineShape, LineFields
<1>2. line' = [NextLine EXCEPT !.end = end, !.todo = <<>>, !.ctx = ctx]
  BY DEF Back
<1>. QED
  BY <1>1, <1>2 DEF LineFields

LEMMA EndNests ==
    ASSUME Shape, NEW c, NEW d, NEW end, NEW ctx, EndOfLine(c, d, end, ctx), DOMAIN c = CliFields,
           KindsNest(c.ctx), KindsNest(c.before), DbShape(d), DataOf(d),
           end = "performed" /\ c.changeset /\ past'.stood /\ ~past'.taint => Held(d.work, c.ctx)
    PROVE  NInv'
<1>1. line'.phase \in {"prompt", "file"} /\ line'.end = end
  BY BackEnded DEF EndOfLine
<1>2. CASE c.changeset
  <2>1. cli' = c /\ db' = d
    BY <1>2 DEF EndOfLine
  <2>. QED
    BY <1>1, <2>1, EndedNests DEF Trusted
<1>3. CASE ~c.changeset
  <2>1. cli' = [ClearCache(c) EXCEPT !.stable = FALSE] /\ db' = Thawed(d)
    BY <1>3 DEF EndOfLine
  <2>2. cli'.ctx = c.ctx /\ cli'.before = c.before /\ cli'.changeset = c.changeset
    BY <2>1 DEF ClearCache, CliFields
  <2>3. db'.live = d.live /\ db'.work = d.work /\ db'.gone = d.gone
    BY <2>1 DEF Thawed, DbShape, DbFields
  <2>. QED
    BY <1>1, <1>3, <2>2, <2>3, EndedNests DEF Trusted, DataOf
<1>. QED
  BY <1>2, <1>3

LEMMA NotPerformedNests ==
    ASSUME Shape, Nesting, NEW ctx, KindsNest(ctx), NEW known, NEW d, DbShape(d), DataOf(d), NEW failed,
           NotPerformed(ctx, known, d, failed)
    PROVE  NInv'
<1>1. PICK c, end : c = [cli EXCEPT !.ctx = ctx, !.known = known, !.failed = @ \/ failed] /\ end = "notPerformed"
  OBVIOUS
<1>2. EndOfLine(c, d, end, ctx)
  BY <1>1 DEF NotPerformed
<1>3. DOMAIN c = CliFields /\ c.ctx = ctx /\ c.before = cli.before
  BY <1>1 DEF Shape, CliShape, CliFields
<1>4. end # "performed" /\ KindsNest(c.ctx) /\ KindsNest(c.before)
  BY <1>1, <1>3 DEF Nesting
<1>. QED
  BY <1>2, <1>3, <1>4, EndNests

LEMMA ThrowNests == ASSUME Shape, DataOf(db), Nesting, NEW known, Throw(known) PROVE NInv'
<1>1. PICK end, ctx : end = "error" /\ ctx = line.ctx
  OBVIOUS
<1>2. line' = Back(end, ctx) /\ db' = db
  BY <1>1 DEF Throw
<1>3. line'.phase \in {"prompt", "file"} /\ line'.end = end
  BY <1>2, BackEnded
<1>4. KindsNest(cli'.ctx) /\ cli'.before = cli.before
  <2>1. CASE line.file = "batch"
    <3>1. cli' = [cli EXCEPT !.failed = TRUE, !.known = known]
      BY <2>1 DEF Throw
    <3>. QED
      BY <3>1 DEF Shape, CliShape, CliFields, Nesting
  <2>2. CASE line.file = "execute"
    <3>1. cli' = [ClearCache(cli) EXCEPT !.failed = TRUE, !.ctx = <<>>]
      BY <2>2 DEF Throw
    <3>2. cli'.ctx = <<>> /\ cli'.before = cli.before
      BY <3>1 DEF ClearCache, Shape, CliShape, CliFields
    <3>. QED
      BY <3>2, EmptyNests
  <2>3. CASE line.file \notin {"batch", "execute"}
    <3>1. cli' = [ClearCache(cli) EXCEPT !.ctx = cli.before]
      BY <2>3 DEF Throw
    <3>2. cli'.ctx = cli.before /\ cli'.before = cli.before
      BY <3>1 DEF ClearCache, Shape, CliShape, CliFields
    <3>. QED
      BY <3>2 DEF Nesting
  <2>. QED
    BY <2>1, <2>2, <2>3
<1>5. line'.end # "performed"
  BY <1>1, <1>3
<1>6. DataOf(db') /\ KindsNest(cli'.before)
  BY <1>2, <1>4 DEF Nesting
<1>. QED
  BY <1>3, <1>4, <1>5, <1>6, EndedNests

LEMMA ThrownNests == ASSUME Shape, DataOf(db), Nesting, NEW known, Error(known) \/ Faulty(known) PROVE NInv'
BY ThrowNests DEF Error, Faulty

LEMMA RestTail == ASSUME NEW todo, IsSequence(todo), todo # <<>>, IsRest(todo) PROVE IsRest(Tail(todo))
<1>1. PICK t, n : t = Tail(todo) /\ n = Len(todo)
  OBVIOUS
<1>2. n \in Nat \ {0} /\ Len(t) = n - 1 /\ \A i \in 1 .. (n - 1) : t[i] = todo[i + 1]
  BY <1>1, TailOfSequence
<1>3. ASSUME NEW i \in 1 .. Len(t) PROVE i + 1 \in 1 .. n /\ t[i] = todo[i + 1]
  BY <1>2
<1>4. \A i \in 1 .. Len(t) : NestedSignal(t[i])
  BY <1>1, <1>3 DEF IsRest
<1>5. ASSUME NEW i \in 1 .. Len(t), Takes(t[i]) PROVE i < Len(t) /\ \A j \in (i + 1) .. Len(t) : t[j][1] = "left"
  <2>1. i + 1 < n /\ \A j \in ((i + 1) + 1) .. n : todo[j][1] = "left"
    BY <1>1, <1>3, <1>5 DEF IsRest, LeavesAfter
  <2>2. ASSUME NEW j \in (i + 1) .. Len(t) PROVE t[j][1] = "left"
    <3>1. j \in 1 .. Len(t) /\ j + 1 \in ((i + 1) + 1) .. n
      BY <1>2
    <3>. QED
      BY <1>3, <2>1, <3>1
  <2>. QED
    BY <1>2, <2>1, <2>2
<1>. QED
  BY <1>1, <1>4, <1>5 DEF IsRest, LeavesAfter

LEMMA TodoNow ==
    ASSUME IInv, line.phase = "apply"
    PROVE  IsSequence(line.todo) /\ line.todo # <<>> /\ Len(line.todo) \in Nat \ {0} /\ Signal = line.todo[1]
<1>1. PICK k : k \in 0 .. (Len(line.sig) - 1) /\ Behind(k)
  BY DEF IInv, Applies, Follows
<1>2. IsSequence(line.sig) /\ Len(line.sig) \in Nat
  BY SequenceShape DEF IInv, Shape, LineShape
<1>3. PICK s, n, todo : s = line.sig /\ n = Len(line.sig) /\ todo = line.todo
  OBVIOUS
<1>4. k \in Nat /\ k <= n /\ n \in Nat /\ n <= Len(s) /\ n - k # 0
  BY <1>1, <1>2, <1>3
<1>5. IsSequence(SubSeq(s, k + 1, n)) /\ Len(SubSeq(s, k + 1, n)) = n - k
  BY <1>2, <1>3, <1>4, PartOfSequence
<1>6. todo = SubSeq(s, k + 1, n)
  BY <1>1, <1>3 DEF Behind
<1>7. IsSequence(todo) /\ Len(todo) = n - k
  BY ONLY <1>5, <1>6, Zenon
<1>8. todo # <<>>
  BY <1>4, <1>7
<1>9. Len(todo) \in Nat \ {0} /\ Head(todo) = todo[1]
  BY <1>7, <1>8, TailOfSequence
<1>. QED
  BY <1>3, <1>7, <1>8, <1>9 DEF Signal

LEMMA PerformedNests ==
    ASSUME IInv, NInv, line.phase = "apply", NEW ctx, KindsNest(ctx), NEW known, NEW d, DbShape(d), DataOf(d),
           Performed(ctx, known, d),
           cli.changeset /\ past'.stood /\ ~past'.taint =>
               \/ Held(d.work, ctx)
               \/ Len(line.todo) # 1 /\ AllLeft(Tail(line.todo)) /\ Held(d.work, Front(ctx))
    PROVE  NInv'
<1>1. Shape /\ Nesting
  BY DEF IInv, NInv
<1>2. CASE Len(line.todo) = 1
  <2>1. PICK c : c = [cli EXCEPT !.ctx = ctx, !.known = known]
    OBVIOUS
  <2>2. EndOfLine(c, d, "performed", ctx)
    BY <1>2, <2>1 DEF Performed
  <2>3. DOMAIN c = CliFields /\ c.ctx = ctx /\ c.before = cli.before /\ c.changeset = cli.changeset
    BY <1>1, <2>1 DEF Shape, CliShape, CliFields
  <2>4. KindsNest(c.before)
    BY <1>1, <2>3 DEF Nesting
  <2>. QED
    BY <1>1, <1>2, <2>2, <2>3, <2>4, EndNests
<1>3. CASE Len(line.todo) # 1
  <2>1. line' = [line EXCEPT !.todo = Tail(@), !.ctx = ctx] /\ cli' = [cli EXCEPT !.known = known] /\ db' = d
    BY <1>3 DEF Performed
  <2>2. /\ line'.phase = "apply" /\ line'.todo = Tail(line.todo) /\ line'.ctx = ctx
        /\ line'.sig = line.sig /\ line'.backup = line.backup
    BY <1>1, <2>1 DEF Shape, LineShape, LineFields
  <2>3. cli'.ctx = cli.ctx /\ cli'.before = cli.before /\ cli'.changeset = cli.changeset
    BY <1>1, <2>1 DEF Shape, CliShape, CliFields
  <2>4. IsRest(Tail(line.todo))
    <3>1. IsRest(line.todo)
      BY <1>1 DEF Nesting
    <3>. QED
      BY <3>1, TodoNow, RestTail
  <2>5. Nesting'
    BY <1>1, <2>2, <2>3, <2>4 DEF Nesting, InPasses
  <2>6. PassStands'
    BY <2>1, <2>2, <2>3 DEF PassStands, Trusted
  <2>7. PromptStands'
    BY <2>2 DEF PromptStands
  <2>. QED
    BY <2>1, <2>5, <2>6, <2>7 DEF NInv
<1>. QED
  BY <1>2, <1>3

\* What the invariants say of the signal that is applied.
LEMMA StepNests ==
    ASSUME IInv, NInv, line.phase = "apply", NEW ctx, Stepped(line.ctx, Signal, ctx)
    PROVE  IsSequence(ctx) /\ KindsNest(ctx)
<1>1. PICK s, b : s = Signal /\ b = line.ctx
  OBVIOUS
<1>2. IsSequence(b) /\ KindsNest(b) /\ IsRest(line.sig)
  BY <1>1 DEF IInv, Shape, LineShape, NInv, Nesting, InPasses
<1>3. PICK c, d : IsSequence(c) /\ SameContext(b, c) /\ After(c, s, d) /\ NestedSignal(s)
  BY <1>1, <1>2, SignalNow DEF IsRest
<1>4. CASE s[1] = "left"
  <2>1. ctx = Front(b)
    BY <1>1, <1>4 DEF Stepped
  <2>. QED
    BY <1>2, <2>1, FrontNests
<1>5. CASE s[1] \in {"enter", "create", "filter"}
  <2>1. PICK x : d = Append(c, x) /\ s[2] = d
    BY <1>3, <1>5 DEF After
  <2>2. IsSequence(d) /\ KindsNest(d)
    BY <1>3, <1>5, <2>1, AppendedSequence DEF NestedSignal
  <2>3. Stepped(b, s, ctx)
    BY <1>1
  <2>4. IsSequence(ctx) /\ SameContext(ctx, d)
    BY ONLY <1>2, <1>3, <2>3, SteppedSame
  <2>. QED
    BY <2>2, <2>4, SameNests
<1>6. CASE s[1] \notin {"left", "enter", "create", "filter"}
  BY <1>1, <1>2, <1>6 DEF Stepped
<1>. QED
  BY <1>4, <1>5, <1>6

LEMMA AttributeNow ==
    ASSUME IInv, NInv, line.phase = "apply", Signal[1] \in {"set", "no", "add", "remove"}
    PROVE  /\ line.ctx # <<>> /\ IsSequence(line.ctx) /\ KindsNest(line.ctx)
           /\ Signal[3] \in Kinds /\ Depth[Signal[3]] \in Nat /\ Depth[Signal[3]] = Depth[LastKind(line.ctx)]
<1>1. PICK s, b : s = Signal /\ b = line.ctx
  OBVIOUS
<1>2. IsSequence(b) /\ KindsNest(b) /\ IsRest(line.sig)
  BY <1>1 DEF IInv, Shape, LineShape, NInv, Nesting, InPasses
<1>3. PICK c, d : IsSequence(c) /\ SameContext(b, c) /\ After(c, s, d) /\ NestedSignal(s)
  BY <1>1, <1>2, SignalNow DEF IsRest
<1>4. c # <<>> /\ s[2] = c
  BY <1>1, <1>3 DEF After
<1>5. s[3] \in Kinds /\ Depth[s[3]] = Depth[LastKind(c)]
  BY <1>1, <1>3, <1>4 DEF NestedSignal, IsAttribute
<1>6. Len(b) = Len(c) /\ Len(c) \in 1 .. Len(c) /\ LastKind(c) = c[Len(c)][2]
  BY <1>3, <1>4, LastKindOf DEF SameContext
<1>7. b # <<>> /\ LastKind(b) = b[Len(c)][2]
  <2>1. b # <<>>
    BY <1>6, EmptySequence
  <2>. QED
    BY <1>2, <1>6, <2>1, LastKindOf
<1>8. b[Len(c)][2] = c[Len(c)][2]
  <2>1. PICK x, y : x = b[Len(c)] /\ y = c[Len(c)]
    OBVIOUS
  <2>2. x = y \/ SubSeq(x, 1, 2) = SubSeq(y, 1, 2)
    BY <1>3, <1>6, <2>1 DEF SameContext
  <2>3. \A z : SubSeq(z, 1, 2)[2] = z[2]
    OBVIOUS
  <2>4. SubSeq(x, 1, 2) = SubSeq(y, 1, 2) => x[2] = y[2]
    BY <2>3
  <2>. QED
    BY <2>1, <2>2, <2>4
<1>9. Depth[s[3]] \in Nat
  BY <1>5, SchemeAssumption
<1>. QED
  BY <1>1, <1>2, <1>5, <1>6, <1>7, <1>8, <1>9

LEMMA TakingNow ==
    ASSUME IInv, NInv, line.phase = "apply", Takes(Signal)
    PROVE  /\ Len(line.todo) # 1 /\ AllLeft(Tail(line.todo)) /\ NestedSignal(Signal)
<1>1. PICK todo, n : todo = line.todo /\ n = Len(line.todo)
  OBVIOUS
<1>2. IsSequence(todo) /\ todo # <<>> /\ n \in Nat \ {0} /\ Signal = todo[1] /\ IsRest(todo)
  BY <1>1, TodoNow DEF NInv, Nesting
<1>3. 1 \in 1 .. n
  BY <1>2
<1>4. 1 < n /\ \A j \in (1 + 1) .. n : todo[j][1] = "left"
  BY <1>1, <1>2, <1>3 DEF IsRest, LeavesAfter
<1>5. NestedSignal(Signal)
  BY <1>1, <1>2, <1>3 DEF IsRest
<1>6. PICK t : t = Tail(todo)
  OBVIOUS
<1>7. Len(t) = n - 1 /\ \A i \in 1 .. (n - 1) : t[i] = todo[i + 1]
  <2>1. /\ Len(Tail(todo)) = Len(todo) - 1
        /\ \A i \in 1 .. (Len(todo) - 1) : Tail(todo)[i] = todo[i + 1]
    <3>1. IsSequence(todo) /\ todo # <<>>
      BY <1>2
    <3>. QED
      BY ONLY <3>1, TailOfSequence
  <2>. QED
    BY <1>1, <1>6, <2>1
<1>8. t # <<>>
  <2>1. Len(t) # 0
    BY <1>2, <1>4, <1>7
  <2>. QED
    BY <2>1
<1>9. ASSUME NEW i \in 1 .. Len(t) PROVE t[i][1] = "left"
  <2>1. t[i] = todo[i + 1] /\ i + 1 \in (1 + 1) .. n
    BY <1>2, <1>7
  <2>. QED
    BY <1>4, <2>1
<1>. QED
  BY <1>1, <1>4, <1>5, <1>6, <1>8, <1>9 DEF AllLeft

LEMMA HeldNow == ASSUME IInv, NInv, line.phase = "apply", Signal[1] # "left", Trusted PROVE Held(db.work, line.ctx)
<1>1. IsSequence(line.todo) /\ Len(line.todo) \in Nat \ {0} /\ Signal = line.todo[1]
  BY TodoNow
<1>2. 1 \in 1 .. Len(line.todo)
  BY <1>1
<1>3. ~AllLeft(line.todo)
  BY <1>1, <1>2 DEF AllLeft
<1>. QED
  BY <1>3 DEF NInv, PassStands, InPasses

LEMMA PastStays ==
    ASSUME Shape
    PROVE  /\ UNCHANGED past => past'.taint = past.taint /\ past'.stood = past.stood
           /\ \A S : Agreed(S) => past'.taint = past.taint /\ past'.stood = past.stood
           /\ \A b : past' = [past EXCEPT !.taint = @ \/ b] => past'.taint = (past.taint \/ b) /\ past'.stood = past.stood
           /\ past' = [past EXCEPT !.sure = TRUE] => past'.taint = past.taint /\ past'.stood = past.stood
BY DEF Shape, PastFields, Agreed

\* Outside the cache, and in it, an object with a name is known to exist when it does.
LEMMA ExistsThere ==
    ASSUME Shape, CInv, cli.changeset, ~past.taint, NEW o, ~IsNew(o)
    PROVE  Exists(o) = (o \in db.work.objs)
<1>1. View = db.work
  BY DEF View
<1>2. CASE cli.stable
  <2>1. Nearly(cli.known, View.objs)
    BY <1>1, <1>2 DEF CInv, InsideTells
  <2>. QED
    BY <1>1, <1>2, <2>1, ExistsTells
<1>3. CASE ~cli.stable
  BY <1>1, <1>3 DEF Exists, Knows
<1>. QED
  BY <1>2, <1>3

-----------------------------------------------------------------------------
(***************************************************************************)
(* The second pass, signal by signal.                                      *)
(***************************************************************************)
PastKept == past'.stood = past.stood /\ (past.taint => past'.taint)
LEMMA KeepsPast ==
    ASSUME Shape
    PROVE  /\ UNCHANGED past => PastKept
           /\ \A S : Agreed(S) => PastKept
           /\ \A b : past' = [past EXCEPT !.taint = @ \/ b] => PastKept
           /\ past' = [past EXCEPT !.sure = TRUE] => PastKept
<1>1. /\ UNCHANGED past => past'.taint = past.taint /\ past'.stood = past.stood
      /\ \A S : Agreed(S) => past'.taint = past.taint /\ past'.stood = past.stood
      /\ \A b : past' = [past EXCEPT !.taint = @ \/ b] => past'.taint = (past.taint \/ b) /\ past'.stood = past.stood
      /\ past' = [past EXCEPT !.sure = TRUE] => past'.taint = past.taint /\ past'.stood = past.stood
  BY PastStays
<1>. QED
  BY <1>1 DEF PastKept

LEMMA ViewHere == ASSUME cli.changeset PROVE View = db.work /\ \A ctx : Expand(ctx) = ExpandIn(db.work, ctx)
BY DEF View, Expand

\* A step that stays at its signal.
LEMMA StayNests ==
    ASSUME Shape, NInv, line.phase = "apply", NEW known, NEW d, cli' = [cli EXCEPT !.known = known], db' = d,
           DataOf(d), UNCHANGED line, cli.changeset /\ past'.stood /\ ~past'.taint => Held(d.work, line.ctx)
    PROVE  NInv'
<1>1. cli'.ctx = cli.ctx /\ cli'.before = cli.before /\ cli'.changeset = cli.changeset
  BY DEF Shape, CliShape, CliFields
<1>2. DataOf(db)'
  BY DEF DataOf
<1>3. Nesting'
  BY <1>1 DEF NInv, Nesting, InPasses
<1>4. PassStands'
  BY <1>1 DEF PassStands, Trusted
<1>5. PromptStands'
  BY DEF PromptStands
<1>. QED
  BY <1>2, <1>3, <1>4, <1>5 DEF NInv

LEMMA ApplyLeftNests == ASSUME IInv, NInv, ApplyLeft PROVE NInv'
<1>1. PICK ctx, known, d : ctx = Front(line.ctx) /\ known = cli.known /\ d = db
  OBVIOUS
<1>2. line.phase = "apply" /\ InPasses /\ UNCHANGED past /\ Performed(ctx, known, d)
  BY <1>1 DEF ApplyLeft, Applying, InPasses
<1>3. Shape /\ IsSequence(line.ctx) /\ KindsNest(line.ctx) /\ DbShape(d) /\ DataOf(d)
  BY <1>1, <1>2 DEF IInv, Shape, LineShape, NInv, Nesting
<1>4. KindsNest(ctx)
  BY <1>1, <1>3, FrontNests
<1>5. ASSUME cli.changeset, past'.stood, ~past'.taint PROVE Held(d.work, ctx)
  <2>1. Trusted
    BY <1>2, <1>3, <1>5, KeepsPast DEF Trusted, PastKept
  <2>2. Held(db.work, line.ctx) \/ Held(db.work, Front(line.ctx))
    BY <1>2, <2>1 DEF NInv, PassStands
  <2>. QED
    BY <1>1, <1>3, <2>2, HeldFront
<1>. QED
  BY <1>2, <1>3, <1>4, <1>5, PerformedNests

LEMMA ApplyFilterNests == ASSUME IInv, NInv, CInv, ApplyFilter PROVE NInv'
<1>1. PICK ctx, known, old, before, d, c, x :
         /\ ctx = Narrowed /\ known = Told(cli.known, Matched(Narrowed), TRUE) /\ old = cli.known
         /\ before = line.ctx /\ d = db /\ c = line.ctx /\ x = <<"filter", Signal[3], Signal[4]>>
  OBVIOUS
<1>2. line.phase = "apply" /\ InPasses /\ UNCHANGED past /\ Signal[1] = "filter"
  BY DEF ApplyFilter, Applying, InPasses
<1>3. Performed(ctx, known, d) \/ NotPerformed(before, old, db, FALSE)
  BY <1>1 DEF ApplyFilter
<1>4. /\ Shape /\ Nesting /\ IsSequence(c) /\ KindsNest(c) /\ DbShape(d) /\ DataOf(d) /\ ctx = Append(c, x)
      /\ DbShape(db) /\ DataOf(db) /\ KindsNest(before)
  BY <1>1, <1>2 DEF IInv, Shape, LineShape, NInv, Nesting, Narrowed
<1>5. KindsNest(ctx)
  <2>1. Stepped(line.ctx, Signal, ctx)
    BY <1>1, <1>2 DEF Stepped, Narrowed
  <2>. QED
    BY <1>2, <2>1, StepNests
<1>6. ASSUME cli.changeset, past'.stood, ~past'.taint PROVE Held(d.work, ctx)
  <2>1. Trusted
    BY <1>2, <1>4, <1>6, KeepsPast DEF Trusted, PastKept
  <2>2. Held(db.work, c)
    BY <1>1, <1>2, <2>1, HeldNow
  <2>3. IsFilter(x)
    BY <1>1 DEF IsFilter
  <2>4. PICK v, y : v = db.work /\ y = Append(c, x)
    OBVIOUS
  <2>5. IsSequence(y) /\ y # <<>> /\ IsFilter(y[Len(y)])
    BY <1>4, <2>3, <2>4, AppendedSequence, EmptySequence, SequenceShape
  <2>6. ExpandIn(v, Append(c, x)) \subseteq v.objs
    BY <2>4, <2>5, FilterExpands
  <2>7. Held(v, c)
    BY <2>2, <2>4
  <2>8. Held(v, Append(c, x))
    BY ONLY <1>4, <2>3, <2>6, <2>7, HeldOn
  <2>. QED
    BY <1>1, <1>4, <2>4, <2>8
<1>7. CASE Performed(ctx, known, d)
  BY <1>2, <1>4, <1>5, <1>6, <1>7, PerformedNests
<1>8. CASE NotPerformed(before, old, db, FALSE)
  <2>1. PICK same : same = db
    OBVIOUS
  <2>2. NotPerformed(before, old, same, FALSE) /\ DbShape(same) /\ DataOf(same)
    BY <1>4, <1>8, <2>1
  <2>. QED
    BY <1>4, <2>2, NotPerformedNests
<1>. QED
  BY <1>3, <1>7, <1>8

LEMMA ApplyShowNests == ASSUME IInv, NInv, ApplyShow PROVE NInv'
<1>1. PICK ctx, known, old, d :
         /\ ctx = line.ctx /\ known = Told(cli.known, Nested(Expand(line.ctx)) \cup Connected(Expand(line.ctx)), TRUE)
         /\ old = cli.known /\ d = db
  OBVIOUS
<1>2. line.phase = "apply" /\ InPasses /\ Signal[1] = "show"
  BY DEF ApplyShow, Applying, InPasses
<1>3. (Performed(ctx, known, d) /\ UNCHANGED past) \/ Error(old) \/ Faulty(old)
  BY <1>1 DEF ApplyShow
<1>4. Shape /\ Nesting /\ KindsNest(ctx) /\ DbShape(d) /\ DataOf(d) /\ DataOf(db)
  BY <1>1, <1>2 DEF IInv, Shape, LineShape, NInv, Nesting
<1>5. CASE Performed(ctx, known, d) /\ UNCHANGED past
  <2>1. ASSUME cli.changeset, past'.stood, ~past'.taint PROVE Held(d.work, ctx)
    <3>1. Trusted
      BY <1>4, <1>5, <2>1, KeepsPast DEF Trusted, PastKept
    <3>. QED
      BY <1>1, <1>2, <3>1, HeldNow
  <2>. QED
    BY <1>2, <1>4, <1>5, <2>1, PerformedNests
<1>6. CASE Error(old) \/ Faulty(old)
  BY <1>4, <1>6, ThrownNests
<1>. QED
  BY <1>3, <1>5, <1>6

-----------------------------------------------------------------------------
(***************************************************************************)
(* A new item of the context: its objects are those before it, each with   *)
(* one more name.                                                          *)
(***************************************************************************)
LEMMA StemsAre ==
    ASSUME NEW v, IsData(v), NEW c, IsSequence(c), KindsNest(c) PROVE \A p \in Stems(v, c) : IsSequence(p)
<1>1. CASE c = <<>>
  BY <1>1, EmptySequence DEF Stems
<1>2. CASE c # <<>>
  BY <1>2, ExpandTyped DEF Typed, Stems
<1>. QED
  BY <1>1, <1>2

LEMMA NextLast ==
    ASSUME NEW v, IsData(v), NEW c, IsSequence(c), KindsNest(c), NEW k, NEW n, NEW o \in ExpandIn(v, Deeper(c, k, n))
    PROVE  o[1] = k /\ Last(o[2]) = n
<1>1. PICK p \in Stems(v, c) : o = <<k, Append(p, n)>>
  BY NextObjects
<1>2. IsSequence(p)
  BY StemsAre
<1>. QED
  BY <1>1, <1>2, EndsOf

LEMMA ExpandLasts ==
    ASSUME NEW v, NEW w, IsData(v), IsData(w), NEW n \in Nat, SameBelow(v, w, n),
           NEW c, IsSequence(c), Below(c, n)
    PROVE  ExpandIn(v, c) = ExpandIn(w, c)
<1>1. CASE c = <<>>
  BY <1>1, ExpandEmpty
<1>2. CASE c # <<>>
  <2>1. PICK m : m = Len(c)
    OBVIOUS
  <2>2. m \in 1 .. Len(c) /\ ExpandIn(v, c) = Narrowing(v, c)[m] /\ ExpandIn(w, c) = Narrowing(w, c)[m]
    BY <1>2, <2>1, ExpandsAt
  <2>. QED
    BY <2>2, NarrowingLasts
<1>. QED
  BY <1>1, <1>2

LEMMA SameStems ==
    ASSUME NEW v, NEW w, NEW c, IsSequence(c), Stems(v, c) = Stems(w, c), NEW k, NEW name
    PROVE  ExpandIn(v, Deeper(c, k, name)) = ExpandIn(w, Deeper(c, k, name))
<1>1. PICK d, S, T : d = Deeper(c, k, name) /\ S = ExpandIn(v, d) /\ T = ExpandIn(w, d)
  OBVIOUS
<1>2. ASSUME NEW o \in S PROVE o \in T
  <2>1. PICK p \in Stems(v, c) : o = <<k, Append(p, name)>>
    BY <1>1, NextObjects
  <2>. QED
    BY <1>1, <2>1, StemObjects
<1>3. ASSUME NEW o \in T PROVE o \in S
  <2>1. PICK p \in Stems(w, c) : o = <<k, Append(p, name)>>
    BY <1>1, NextObjects
  <2>. QED
    BY <1>1, <2>1, StemObjects
<1>. QED
  BY <1>1, <1>2, <1>3

LEMMA HeldNext ==
    ASSUME NEW v, NEW w, IsData(v), IsData(w), NEW c, IsSequence(c), NEW k, NEW name, name # NoName,
           KindsNest(Deeper(c, k, name)), SameBelow(v, w, Depth[k]), Held(v, c),
           ExpandIn(v, Deeper(c, k, name)) \subseteq w.objs
    PROVE  Held(w, Deeper(c, k, name))
<1>1. PICK x : x = <<"object", k, name>> /\ Deeper(c, k, name) = Append(c, x)
  BY DEF Deeper
<1>2. Below(c, Depth[k]) /\ Depth[k] \in Nat
  BY <1>1, BelowNext
<1>3. Held(w, c)
  BY <1>2, HeldLasts
<1>4. ExpandIn(v, c) = ExpandIn(w, c)
  BY <1>2, ExpandLasts
<1>5. ExpandIn(v, Deeper(c, k, name)) = ExpandIn(w, Deeper(c, k, name))
  <2>1. Stems(v, c) = Stems(w, c)
    BY <1>4 DEF Stems
  <2>. QED
    BY <2>1, SameStems
<1>6. x[3] # NoName /\ ExpandIn(w, Append(c, x)) \subseteq w.objs
  BY <1>1, <1>5
<1>. QED
  BY <1>1, <1>3, <1>6, HeldOn

LEMMA NextTyped ==
    ASSUME NEW v, IsData(v), NEW c, IsSequence(c), NEW k, NEW name, KindsNest(Deeper(c, k, name))
    PROVE  /\ k \in Kinds /\ Depth[k] \in Nat /\ Typed(ExpandIn(v, Deeper(c, k, name)), k)
<1>1. PICK x : x = <<"object", k, name>> /\ Deeper(c, k, name) = Append(c, x)
  BY DEF Deeper
<1>2. k \in Kinds /\ Depth[k] \in Nat
  BY <1>1, BelowNext
<1>3. IsSequence(Deeper(c, k, name)) /\ Deeper(c, k, name) # <<>> /\ LastKind(Deeper(c, k, name)) = k
  BY DeeperIs
<1>. QED
  BY <1>2, <1>3, ExpandTyped

\* The objects are in the data after they were created, with the names the server gave them ...
LEMMA MadeThere ==
    ASSUME Shape, CInv, cli.changeset, ~past.taint, NEW S, NEW o \in S, ~IsNew(o)
    PROVE  o \in Made(S).work.objs
<1>1. DOMAIN db = DbFields /\ DOMAIN db.work = ViewFields
  BY DEF Shape, DbShape
<1>2. Made(S).work.objs = db.work.objs \cup {Called(p) : p \in ToCreate(S)}
  BY <1>1 DEF Made, Working, With, DbFields, ViewFields
<1>3. CASE Exists(o)
  BY <1>2, <1>3, ExistsThere
<1>4. CASE ~Exists(o)
  <2>1. o \in ToCreate(S) /\ Called(o) = o
    BY <1>4 DEF ToCreate, Called
  <2>. QED
    BY <1>2, <2>1
<1>. QED
  BY <1>3, <1>4

LEMMA NamedThere ==
    ASSUME Shape, NEW c, IsSequence(c), KindsNest(c), DataOf(db), cli.changeset, NEW k, NEW S,
           S = ExpandIn(db.work, Deeper(c, k, NoName)), IsFiniteSet(S), Cardinality(S) = 1, NamesLast(S),
           NEW name, name = Last(Called(CHOOSE o \in S : TRUE)[2])
    PROVE  name # NoName /\ ExpandIn(db.work, Deeper(c, k, name)) \subseteq Made(S).work.objs
<1>1. PICK v : v = db.work
  OBVIOUS
<1>2. IsData(v)
  BY <1>1 DEF DataOf
<1>3. PICK y : S = {y}
  BY FS_Singleton
<1>4. y = (CHOOSE o \in S : TRUE)
  BY <1>3
<1>5. PICK p \in Stems(v, c) : y = <<k, Append(p, NoName)>>
  <2>1. y \in ExpandIn(v, Deeper(c, k, NoName))
    BY <1>1, <1>3
  <2>. QED
    BY <2>1, NextObjects
<1>6. IsSequence(p) /\ Last(y[2]) = NoName /\ Front(y[2]) = p
  <2>1. IsSequence(p)
    BY <1>2, <1>5, StemsAre
  <2>. QED
    BY <1>5, <2>1, EndsOf
<1>7. PICK j : Called(y) = AutoNamed(y, j) /\ AutoNames[j] # NoName
  <2>1. IsNew(y) /\ y \in S
    BY <1>3, <1>6 DEF IsNew
  <2>2. PICK i \in DOMAIN AutoNames : IsFree(y, i)
    BY <2>1 DEF NamesLast
  <2>. QED
    BY <2>1, <2>2, CalledNew
<1>8. Called(y) = <<k, Append(p, AutoNames[j])>>
  BY <1>5, <1>6, <1>7 DEF AutoNamed
<1>9. name = AutoNames[j]
  <2>1. name = Last(Called(y)[2])
    BY <1>4
  <2>2. Last(Append(p, AutoNames[j])) = AutoNames[j]
    BY <1>6, EndsOf
  <2>. QED
    BY <1>8, <2>1, <2>2
<1>10. ASSUME NEW o \in ExpandIn(v, Deeper(c, k, name)) PROVE o = Called(y)
  <2>1. PICK q \in Stems(v, c) : o = <<k, Append(q, name)>>
    <3>1. PICK m : m = name
      OBVIOUS
    <3>2. o \in ExpandIn(v, Deeper(c, k, m))
      BY <1>10, <3>1
    <3>3. \E q \in Stems(v, c) : o = <<k, Append(q, m)>>
      BY ONLY IsSequence(c), <3>2, NextObjects
    <3>. QED
      BY <3>1, <3>3
  <2>2. <<k, Append(q, NoName)>> \in ExpandIn(v, Deeper(c, k, NoName))
    BY <2>1, StemObjects
  <2>3. <<k, Append(q, NoName)>> = y
    BY <1>1, <1>3, <2>2
  <2>4. Append(q, NoName) = Append(p, NoName)
    BY <1>5, <2>3
  <2>5. IsSequence(q)
    BY <1>2, <2>1, StemsAre
  <2>6. Front(Append(q, NoName)) = q /\ Front(Append(p, NoName)) = p
    BY <1>6, <2>5, EndsOf
  <2>7. q = p
    BY <2>4, <2>6
  <2>. QED
    BY <1>8, <1>9, <2>1, <2>7
<1>11. Called(y) \in Made(S).work.objs
  <2>1. DOMAIN db = DbFields /\ DOMAIN db.work = ViewFields
    BY DEF Shape, DbShape
  <2>2. Made(S).work.objs = db.work.objs \cup {Called(q) : q \in ToCreate(S)}
    BY <2>1 DEF Made, Working, With, DbFields, ViewFields
  <2>3. y \in ToCreate(S)
    BY <1>3 DEF ToCreate
  <2>. QED
    BY <2>2, <2>3
<1>. QED
  BY <1>1, <1>7, <1>9, <1>10, <1>11

\* ... and after the one that had been deleted was restored.
LEMMA RestoredThere ==
    ASSUME Shape, CInv, DataOf(db), cli.changeset, ~past.taint, NEW S, "gone" \in Refusals(S), \E x : S \subseteq {x},
           NEW name, \A o \in S : Last(o[2]) = name
    PROVE  name # NoName /\ S \subseteq RestoredIn(S).work.objs
<1>1. PICK o : o \in ToCreate(S) /\ o \in db.gone.objs
  BY DEF Refusals
<1>2. o \in S /\ S = {o}
  BY <1>1 DEF ToCreate
<1>3. Last(o[2]) # NoName
  BY <1>1, DataObject DEF DataOf
<1>4. CASE AllExist(S)
  <2>1. RestoredIn(S) = db /\ Exists(o)
    BY <1>2, <1>4 DEF RestoredIn, AllExist
  <2>2. o \in db.work.objs
    BY <1>3, <2>1, ExistsThere DEF IsNew
  <2>. QED
    BY <1>2, <1>3, <2>1, <2>2
<1>5. CASE ~AllExist(S)
  <2>1. DOMAIN db = DbFields
    BY DEF Shape, DbShape
  <2>2. PICK v : v = Both(db.work, Only(db.gone, S))
    OBVIOUS
  <2>3. RestoredIn(S) = [[db EXCEPT !.work = v] EXCEPT !.gone = Without(@, S)]
    BY <1>5, <2>2 DEF RestoredIn, Undeleted, Working
  <2>4. RestoredIn(S).work = v
    BY <2>1, <2>3 DEF DbFields
  <2>5. o \in v.objs
    BY <1>1, <1>2, <2>2 DEF Both, Only
  <2>. QED
    BY <1>2, <1>3, <2>4, <2>5
<1>. QED
  BY <1>4, <1>5

-----------------------------------------------------------------------------
(* An object is created, entered, restored, or not.                        *)
LEMMA NotRestoredNests == ASSUME IInv, NInv, line.phase = "apply", NEW ctx, NEW S, NotRestored(ctx, S) PROVE NInv'
<1>1. PICK c, known, old, d : c = line.ctx /\ known = Remembered(S) /\ old = cli.known /\ d = db
  OBVIOUS
<1>2. NotPerformed(c, known, d, FALSE) \/ NotPerformed(c, old, d, FALSE)
  BY <1>1 DEF NotRestored
<1>3. Shape /\ Nesting /\ KindsNest(c) /\ DbShape(d) /\ DataOf(d)
  BY <1>1 DEF IInv, Shape, NInv, Nesting, InPasses
<1>. QED
  BY <1>2, <1>3, NotPerformedNests

LEMMA CreateHere ==
    ASSUME IInv, NInv, line.phase = "apply", Signal[1] \in {"create", "enter"},
           NEW name, name = Signal[4] \/ Signal[4] = NoName
    PROVE  /\ IsSequence(line.ctx) /\ KindsNest(line.ctx) /\ KindsNest(Deeper(line.ctx, Signal[3], name))
<1>1. PICK ctx, x : ctx = Deeper(line.ctx, Signal[3], name) /\ x = <<"object", Signal[3], name>>
  OBVIOUS
<1>2. ctx = Append(line.ctx, x)
  BY <1>1 DEF Deeper
<1>3. Stepped(line.ctx, Signal, ctx)
  BY <1>1, <1>2 DEF Stepped
<1>4. KindsNest(ctx)
  BY <1>3, StepNests
<1>. QED
  BY <1>1, <1>4 DEF IInv, Shape, LineShape, NInv, Nesting, InPasses

\* What was created, entered or restored stands.
LEMMA EnteredStands ==
    ASSUME Shape, CInv, DataOf(db), cli.changeset, ~past.taint, NEW c, IsSequence(c), KindsNest(c), NEW k, NEW name,
           KindsNest(Deeper(c, k, name)), Held(db.work, c), name # NoName, AllExist(ExpandIn(db.work, Deeper(c, k, name)))
    PROVE  Held(db.work, Deeper(c, k, name))
<1>1. PICK v, S : v = db.work /\ S = ExpandIn(db.work, Deeper(c, k, name))
  OBVIOUS
<1>2. IsData(v)
  BY <1>1 DEF DataOf
<1>3. ASSUME NEW o \in S PROVE o \in v.objs
  <2>1. Exists(o)
    BY <1>1, <1>3 DEF AllExist
  <2>2. ~IsNew(o)
    BY <1>1, <1>2, <1>3, NextLast DEF IsNew
  <2>. QED
    BY <1>1, <2>1, <2>2, ExistsThere
<1>4. SameBelow(v, v, Depth[k])
  BY DEF SameBelow
<1>. QED
  BY <1>1, <1>2, <1>3, <1>4, HeldNext

LEMMA MadeStands ==
    ASSUME Shape, CInv, DataOf(db), cli.changeset, ~past.taint, NEW c, IsSequence(c), KindsNest(c), NEW k, NEW name, NEW asked,
           KindsNest(Deeper(c, k, asked)), KindsNest(Deeper(c, k, name)), Held(db.work, c),
           NEW S, S = ExpandIn(db.work, Deeper(c, k, asked)), NamesLast(S),
           \/ asked # NoName /\ name = asked
           \/ asked = NoName /\ Cardinality(S) = 1 /\ name = Last(Called(CHOOSE o \in S : TRUE)[2])
    PROVE  Held(Made(S).work, Deeper(c, k, name))
<1>1. PICK v, w : v = db.work /\ w = Made(S).work
  OBVIOUS
<1>2. IsData(v)
  BY <1>1 DEF DataOf
<1>3. k \in Kinds /\ Depth[k] \in Nat /\ Typed(S, k)
  BY <1>1, <1>2, NextTyped
<1>4. IsData(w) /\ SameBelow(v, w, Depth[k])
  BY <1>1, <1>3, MadeData DEF DataOf
<1>5. name # NoName /\ ExpandIn(v, Deeper(c, k, name)) \subseteq w.objs
  <2>1. CASE asked # NoName /\ name = asked
    <3>1. ASSUME NEW o \in S PROVE o \in w.objs
      <4>1. ~IsNew(o)
        BY <1>1, <1>2, <2>1, <3>1, NextLast DEF IsNew
      <4>. QED
        BY <1>1, <4>1, MadeThere
    <3>. QED
      BY <1>1, <2>1, <3>1
  <2>2. CASE asked = NoName /\ Cardinality(S) = 1 /\ name = Last(Called(CHOOSE o \in S : TRUE)[2])
    <3>1. IsFiniteSet(S)
      BY <1>3 DEF Typed
    <3>. QED
      BY <1>1, <2>2, <3>1, NamedThere
  <2>. QED
    BY <2>1, <2>2
<1>6. Held(v, c)
  BY <1>1
<1>. QED
  BY <1>1, <1>2, <1>4, <1>5, <1>6, HeldNext

LEMMA RestoredStands ==
    ASSUME Shape, CInv, DataOf(db), cli.changeset, ~past.taint, NEW c, IsSequence(c), KindsNest(c), NEW k, NEW name,
           KindsNest(Deeper(c, k, name)), Held(db.work, c),
           NEW S, S = ExpandIn(db.work, Deeper(c, k, name)), "gone" \in Refusals(S), \E x : S \subseteq {x}
    PROVE  Held(RestoredIn(S).work, Deeper(c, k, name))
<1>1. PICK v, w : v = db.work /\ w = RestoredIn(S).work
  OBVIOUS
<1>2. IsData(v)
  BY <1>1 DEF DataOf
<1>3. k \in Kinds /\ Depth[k] \in Nat /\ Typed(S, k)
  BY <1>1, <1>2, NextTyped
<1>4. IsData(w) /\ SameBelow(v, w, Depth[k])
  BY <1>1, <1>3, RestoredData DEF DataOf
<1>5. \A o \in S : Last(o[2]) = name
  BY <1>1, <1>2, NextLast
<1>6. name # NoName /\ S \subseteq w.objs
  BY <1>1, <1>5, RestoredThere
<1>. QED
  BY <1>1, <1>2, <1>4, <1>6, HeldNext

LEMMA HeldEntering ==
    ASSUME IInv, NInv, line.phase = "apply", Signal[1] \in {"create", "enter"}, Trusted PROVE Held(db.work, line.ctx)
<1>1. Signal[1] # "left"
  OBVIOUS
<1>. QED
  BY <1>1, HeldNow

LEMMA NamedDeeper ==
    ASSUME NEW c, IsSequence(c), NEW k, NEW name, Named(Deeper(c, k, name)) PROVE name # NoName
<1>1. PICK x, n, d : x = <<"object", k, name>> /\ n = Len(c) + 1 /\ d = Append(c, x)
  OBVIOUS
<1>2. d[n] = x /\ Len(d) = n /\ n \in Nat \ {0}
  BY <1>1, AppendedSequence, SequenceShape
<1>3. n \in 1 .. Len(d)
  BY <1>2
<1>4. IsFilter(d[n]) \/ d[n][3] # NoName
  BY <1>1, <1>3 DEF Named, Deeper
<1>. QED
  BY <1>1, <1>2, <1>4 DEF IsFilter

LEMMA ApplyCreateNests == ASSUME IInv, CInv, NInv, ApplyCreate PROVE NInv'
<1>1. PICK b, k, asked, ctx : b = line.ctx /\ k = Signal[3] /\ asked = Signal[4] /\ ctx = Deeper(line.ctx, Signal[3], Signal[4])
  OBVIOUS
<1>2. PICK S : S = Expand(ctx)
  OBVIOUS
<1>3. PICK name : name = IF Signal[4] = NoName THEN Last(Called(CHOOSE o \in S : TRUE)[2]) ELSE Signal[4]
  <2>1. PICK chosen : chosen = Last(Called(CHOOSE o \in S : TRUE)[2])
    OBVIOUS
  <2>2. \E name : name = IF Signal[4] = NoName THEN chosen ELSE Signal[4]
    OBVIOUS
  <2>. QED
    BY <2>1, <2>2
<1>4. PICK new, looked, known, again, old, made, restored, same :
         /\ new = Append(line.ctx, NewItem(S)) /\ looked = Looked(S) /\ known = NowKnown(S)
         /\ again = KnownAgain(S) /\ old = Remembered(S) /\ made = Made(S) /\ restored = RestoredIn(S) /\ same = db
  OBVIOUS
<1>5. ctx = Append(line.ctx, <<"object", Signal[3], Signal[4]>>) /\ new = Deeper(b, k, name) /\ ctx = Deeper(b, k, asked)
  BY <1>1, <1>3, <1>4 DEF Deeper, NewItem
<1>6. Shape /\ line.phase = "apply" /\ InPasses /\ Signal[1] \in {"create", "enter"}
  BY DEF IInv, ApplyCreate, Applying, InPasses
<1>7. \/ Signal[1] = "enter" /\ Named(ctx) /\ AllExist(S) /\ Performed(ctx, looked, same) /\ UNCHANGED past
      \/ /\ Signal[1] = "create" \/ ~Named(ctx) \/ ~AllExist(S)
         /\ \/ /\ NamesLast(S) /\ past' = [past EXCEPT !.taint = @ \/ Untold(S)]
               /\ (CanEnter(S) /\ Performed(new, known, made)) \/ NotPerformed(b, known, made, TRUE)
            \/ NotRestored(ctx, S)
            \/ "gone" \in Refusals(S) /\ IsRestored(ctx, S) /\ Performed(ctx, again, restored)
            \/ NotPerformed(b, old, same, TRUE)
            \/ Error(old) \/ Faulty(old)
  BY <1>1, <1>2, <1>4, <1>5 DEF ApplyCreate
<1>8. /\ IsSequence(b) /\ KindsNest(b) /\ KindsNest(ctx) /\ KindsNest(new)
      /\ KindsNest(Deeper(b, k, asked)) /\ KindsNest(Deeper(b, k, name))
  <2>1. name = Signal[4] \/ Signal[4] = NoName
    BY <1>3
  <2>. QED
    BY <1>1, <1>5, <1>6, <2>1, CreateHere
<1>9. Nesting /\ DbShape(same) /\ DataOf(same) /\ DataOf(db)
  BY <1>4, <1>6 DEF Shape, NInv
<1>10. cli.changeset => S = ExpandIn(db.work, Deeper(b, k, asked))
  BY <1>2, <1>5, ViewHere
<1>11. cli.changeset => k \in Kinds /\ Depth[k] \in Nat /\ Typed(S, k)
  BY <1>8, <1>9, <1>10, NextTyped DEF DataOf
<1>12. ASSUME PastKept, cli.changeset, past'.stood, ~past'.taint PROVE ~past.taint /\ Held(db.work, b)
  <2>1. Trusted
    BY <1>12 DEF Trusted, PastKept
  <2>. QED
    BY <1>1, <1>6, <1>12, <2>1, HeldEntering DEF Trusted
<1>13. CASE Signal[1] = "enter" /\ Named(ctx) /\ AllExist(S) /\ Performed(ctx, looked, same) /\ UNCHANGED past
  <2>1. PastKept
    BY <1>6, <1>13, KeepsPast
  <2>2. asked # NoName
    BY <1>5, <1>8, <1>13, NamedDeeper
  <2>3. ASSUME cli.changeset, past'.stood, ~past'.taint PROVE Held(same.work, ctx)
    BY <1>4, <1>5, <1>6, <1>8, <1>9, <1>10, <1>12, <1>13, <2>1, <2>2, <2>3, EnteredStands
  <2>. QED
    BY <1>6, <1>8, <1>9, <1>13, <2>3, PerformedNests
<1>14. CASE ~cli.changeset
  <2>1. Signal[1] = "enter"
    BY <1>6, <1>14, HarmlessSignal DEF Harmless
  <2>2. Named(ctx) /\ AllExist(S)
    BY <1>2, <1>5, <1>6, <1>14, <2>1, EnteredThere
  <2>. QED
    BY <1>7, <1>13, <2>1, <2>2
<1>15. CASE /\ cli.changeset /\ NamesLast(S) /\ past' = [past EXCEPT !.taint = @ \/ Untold(S)]
            /\ (CanEnter(S) /\ Performed(new, known, made)) \/ NotPerformed(b, known, made, TRUE)
  <2>1. PastKept
    BY <1>6, <1>15, KeepsPast
  <2>2. DbShape(made)
    BY <1>4, <1>6, MadeShape
  <2>3. DataOf(made)
    BY <1>4, <1>6, <1>9, <1>11, <1>15, MadeData
  <2>4. CASE CanEnter(S) /\ Performed(new, known, made)
    <3>1. ASSUME cli.changeset, past'.stood, ~past'.taint PROVE Held(made.work, new)
      <4>1. \/ asked # NoName /\ name = asked
            \/ asked = NoName /\ Cardinality(S) = 1 /\ name = Last(Called(CHOOSE o \in S : TRUE)[2])
        BY <1>1, <1>3, <2>4 DEF CanEnter
      <4>2. ~past.taint /\ Held(db.work, b)
        BY <1>12, <2>1, <3>1
      <4>3. Held(Made(S).work, Deeper(b, k, name))
        BY <1>6, <1>8, <1>9, <1>10, <1>15, <4>1, <4>2, MadeStands
      <4>. QED
        BY <1>4, <1>5, <4>3
    <3>. QED
      BY <1>6, <1>8, <2>2, <2>3, <2>4, <3>1, PerformedNests
  <2>5. CASE NotPerformed(b, known, made, TRUE)
    BY <1>6, <1>8, <1>9, <2>2, <2>3, <2>5, NotPerformedNests
  <2>. QED
    BY <1>15, <2>4, <2>5
<1>16. CASE NotRestored(ctx, S)
  BY <1>6, <1>16, NotRestoredNests
<1>17. CASE cli.changeset /\ "gone" \in Refusals(S) /\ IsRestored(ctx, S) /\ Performed(ctx, again, restored)
  <2>1. PastKept /\ \E x : S \subseteq {x}
    BY <1>2, <1>6, <1>17, KeepsPast, ExpandOne DEF IsRestored
  <2>2. DbShape(restored)
    BY <1>4, <1>6, RestoredShape
  <2>3. DataOf(restored)
    BY <1>4, <1>6, <1>9, <1>11, <1>17, RestoredData
  <2>4. ASSUME cli.changeset, past'.stood, ~past'.taint PROVE Held(restored.work, ctx)
    <3>1. ~past.taint /\ Held(db.work, b)
      BY <1>12, <2>1, <2>4
    <3>2. Held(RestoredIn(S).work, Deeper(b, k, asked))
      BY <1>6, <1>8, <1>9, <1>10, <1>17, <2>1, <3>1, RestoredStands
    <3>. QED
      BY <1>4, <1>5, <3>2
  <2>. QED
    BY <1>6, <1>8, <1>17, <2>2, <2>3, <2>4, PerformedNests
<1>18. CASE NotPerformed(b, old, same, TRUE)
  BY <1>6, <1>8, <1>9, <1>18, NotPerformedNests
<1>19. CASE Error(old) \/ Faulty(old)
  BY <1>6, <1>9, <1>19, ThrownNests
<1>. QED
  BY <1>7, <1>13, <1>14, <1>15, <1>16, <1>17, <1>18, <1>19

-----------------------------------------------------------------------------
(* Contained objects and attributes: the items of the context stay.        *)
LEMMA ContainedTyped ==
    ASSUME NEW v, IsData(v), NEW ctx, IsSequence(ctx), KindsNest(ctx), ctx # <<>>, NEW k, Depth[k] = Depth[LastKind(ctx)],
           NEW S, S = {<<k, o[2]>> : o \in ExpandIn(v, ctx)}
    PROVE  Typed(S, k)
<1>1. PICK E, j : E = ExpandIn(v, ctx) /\ j = LastKind(ctx)
  OBVIOUS
<1>2. Typed(E, j)
  BY <1>1, ExpandTyped
<1>3. PICK f : f = [o \in E |-> <<k, o[2]>>]
  OBVIOUS
<1>4. DOMAIN f = E /\ S = {f[o] : o \in E}
  <2>1. DOMAIN f = E /\ \A o \in E : f[o] = <<k, o[2]>>
    BY <1>3
  <2>2. PICK F : F = {f[o] : o \in E}
    OBVIOUS
  <2>3. \A x : x \in S <=> \E o \in E : x = <<k, o[2]>>
    BY <1>1
  <2>4. \A x : x \in F <=> \E o \in E : x = f[o]
    BY <2>2
  <2>5. ASSUME NEW x PROVE x \in S <=> x \in F
    <3>1. ASSUME NEW o \in E PROVE f[o] = <<k, o[2]>>
      BY ONLY <2>1
    <3>. QED
      BY ONLY <2>3, <2>4, <3>1
  <2>. QED
    BY <2>1, <2>2, <2>5
<1>5. IsFiniteSet(S)
  BY <1>2, <1>4, ImageFinite DEF Typed
<1>6. ASSUME NEW o \in S PROVE o = <<k, o[2]>> /\ IsSequence(o[2]) /\ Len(o[2]) = Depth[k] + 1
  <2>1. PICK t \in E : o = <<k, t[2]>>
    BY <1>1, <1>6
  <2>2. IsSequence(t[2]) /\ Len(t[2]) = Depth[j] + 1
    BY <1>2 DEF Typed
  <2>. QED
    BY <1>1, <2>1, <2>2
<1>. QED
  BY <1>5, <1>6 DEF Typed

LEMMA AdjustedKind ==
    ASSUME NEW ctx, IsSequence(ctx), ctx # <<>>, NEW k
    PROVE  IsSequence(Adjusted(ctx, k)) /\ Adjusted(ctx, k) # <<>> /\ LastKind(Adjusted(ctx, k)) = k
<1>1. PICK n, d : n = Len(ctx) /\ d = Adjusted(ctx, k)
  OBVIOUS
<1>2. n \in Nat \ {0} /\ DOMAIN ctx = 1 .. n /\ n \in 1 .. n
  BY <1>1, TailOfSequence, SequenceShape
<1>3. d = [ctx EXCEPT ![n] = <<@[1], k, @[3]>>]
  BY <1>1 DEF Adjusted
<1>4. DOMAIN d = 1 .. n /\ d = [i \in 1 .. n |-> d[i]] /\ d[n][2] = k
  BY <1>2, <1>3
<1>5. IsSequence(d) /\ Len(d) = n
  BY <1>2, <1>4, SequenceOf
<1>6. d # <<>>
  BY <1>2, <1>5
<1>7. LastKind(d) = k
  BY <1>2, <1>4, <1>5, <1>6, LastKindOf
<1>. QED
  BY <1>1, <1>5, <1>6, <1>7

LEMMA ApplyContainedNests == ASSUME IInv, CInv, NInv, ApplyContained PROVE NInv'
<1>1. PICK S, k, b : S = Targets(line.ctx, Signal[3]) /\ k = Signal[3] /\ b = line.ctx
  OBVIOUS
<1>2. PICK known, again, old, made, restored :
         /\ known = NowKnown(S) /\ again = KnownAgain(S) /\ old = Remembered(S)
         /\ made = Made(S) /\ restored = RestoredIn(S)
  OBVIOUS
<1>3. Shape /\ InPasses /\ line.phase = "apply" /\ Signal[1] \in {"set", "add"}
  BY DEF IInv, ApplyContained, Applying, InPasses
<1>4. cli.changeset
  BY <1>3, HarmlessSignal DEF Harmless
<1>5. \/ /\ cli' = [cli EXCEPT !.known = known] /\ db' = made /\ UNCHANGED line
         /\ NamesLast(S) /\ past' = [past EXCEPT !.taint = @ \/ Untold(S)]
      \/ NotRestored(b, S)
      \/ /\ IsRestored(b, S)
         /\ cli' = [cli EXCEPT !.known = again] /\ db' = restored /\ UNCHANGED line
      \/ Error(old) \/ Faulty(old)
  BY <1>1, <1>2 DEF ApplyContained
<1>6. b # <<>> /\ IsSequence(b) /\ KindsNest(b) /\ k \in Kinds /\ Depth[k] \in Nat /\ Depth[k] = Depth[LastKind(b)]
  <2>1. Signal[1] \in {"set", "no", "add", "remove"}
    BY <1>3
  <2>. QED
    BY <1>1, <1>3, <2>1, AttributeNow
<1>7. DataOf(db) /\ Nesting
  BY DEF NInv
<1>8. PICK v : v = db.work /\ IsData(v)
  BY <1>7 DEF DataOf
<1>9. Typed(S, k)
  <2>1. S = {<<k, o[2]>> : o \in ExpandIn(v, b)}
    BY <1>1, <1>4, <1>8 DEF Targets, Expand, View
  <2>. QED
    BY <1>6, <1>8, <2>1, ContainedTyped
<1>10. ASSUME NEW d, DataOf(d), SameBelow(v, d.work, Depth[k]), v.objs \subseteq d.work.objs, PastKept,
              cli.changeset, past'.stood, ~past'.taint
       PROVE  Held(d.work, line.ctx)
  <2>1. Trusted /\ Signal[1] # "left"
    BY <1>3, <1>10 DEF Trusted, PastKept
  <2>2. Held(v, b)
    BY <1>1, <1>3, <1>8, <2>1, HeldNow
  <2>3. PICK w : w = d.work /\ IsData(w)
    BY <1>10 DEF DataOf
  <2>4. SameBelow(v, w, Depth[LastKind(b)]) /\ v.objs \subseteq w.objs
    BY <1>6, <1>10, <2>3
  <2>. QED
    BY <1>1, <1>6, <1>8, <2>2, <2>3, <2>4, HeldGrows
<1>11. CASE /\ cli' = [cli EXCEPT !.known = known] /\ db' = made /\ UNCHANGED line
            /\ NamesLast(S) /\ past' = [past EXCEPT !.taint = @ \/ Untold(S)]
  <2>1. PastKept
    BY <1>3, <1>11, KeepsPast
  <2>2. DataOf(made) /\ SameBelow(v, made.work, Depth[k]) /\ v.objs \subseteq made.work.objs
    BY <1>2, <1>3, <1>6, <1>7, <1>8, <1>9, <1>11, MadeData
  <2>. QED
    BY <1>3, <1>10, <1>11, <2>1, <2>2, StayNests
<1>12. CASE NotRestored(b, S)
  BY <1>3, <1>12, NotRestoredNests
<1>13. CASE /\ IsRestored(b, S)
            /\ cli' = [cli EXCEPT !.known = again] /\ db' = restored /\ UNCHANGED line
  <2>1. PastKept
    BY <1>3, <1>13, KeepsPast DEF IsRestored
  <2>2. DataOf(restored) /\ SameBelow(v, restored.work, Depth[k]) /\ v.objs \subseteq restored.work.objs
    BY <1>2, <1>3, <1>6, <1>7, <1>8, <1>9, RestoredData
  <2>. QED
    BY <1>3, <1>10, <1>13, <2>1, <2>2, StayNests
<1>14. CASE Error(old) \/ Faulty(old)
  BY <1>3, <1>7, <1>14, ThrownNests
<1>. QED
  BY <1>5, <1>11, <1>12, <1>13, <1>14

LEMMA WrittenShape == ASSUME Shape, NEW S, NEW a, NEW there PROVE DbShape(Written(S, a, there))
<1>1. PICK T : Written(S, a, there) = [db EXCEPT !.work = [db.work EXCEPT !.set = T]]
  <2>1. PICK new : new = {<<o, a>> : o \in S}
    OBVIOUS
  <2>2. Written(S, a, there) = [db EXCEPT !.work = [db.work EXCEPT !.set = IF there THEN @ \cup new ELSE @ \ new]]
    BY <2>1 DEF Written, Working
  <2>. QED
    BY <2>2
<1>2. DbShape(db)
  BY DEF Shape
<1>. QED
  BY <1>1, <1>2 DEF DbShape, DbFields, ViewFields

LEMMA ApplyAttributeNests == ASSUME IInv, CInv, NInv, ApplyAttribute PROVE NInv'
<1>1. PICK S, k, ctx, a, writes :
         /\ S = Changed(line.ctx, Signal[3]) /\ writes = (Signal[1] \in {"set", "add"})
         /\ k = Signal[3] /\ ctx = line.ctx /\ a = Signal[4][1]
  OBVIOUS
<1>2. PICK known, d : known = cli.known /\ d = Written(S, a, writes)
  OBVIOUS
<1>3. Shape /\ InPasses /\ line.phase = "apply" /\ Signal[1] \in {"set", "no", "add", "remove"} /\ Signal[1] # "left"
  BY DEF IInv, ApplyAttribute, Applying, InPasses
<1>4. cli.changeset
  BY <1>3, HarmlessSignal DEF Harmless
<1>5. (S \subseteq View.objs /\ Performed(ctx, known, d) /\ UNCHANGED past) \/ Error(known) \/ Faulty(known)
  BY <1>1, <1>2 DEF ApplyAttribute
<1>6. ctx # <<>> /\ IsSequence(ctx) /\ KindsNest(ctx) /\ k \in Kinds /\ Depth[k] \in Nat /\ Depth[k] = Depth[LastKind(ctx)]
  BY <1>1, <1>3, AttributeNow
<1>7. DataOf(db) /\ Nesting
  BY DEF NInv
<1>8. PICK v : v = db.work /\ IsData(v)
  BY <1>7 DEF DataOf
<1>9. CASE S \subseteq View.objs /\ Performed(ctx, known, d) /\ UNCHANGED past
  <2>1. S \subseteq db.work.objs
    BY <1>4, <1>9 DEF View
  <2>2. \A o \in S : o[1] = k
    <3>1. PICK c : c = IF k = LastKind(ctx) THEN ctx ELSE Adjusted(ctx, k)
      OBVIOUS
    <3>2. IsSequence(c) /\ c # <<>> /\ LastKind(c) = k
      BY <1>6, <3>1, AdjustedKind
    <3>3. S = ExpandIn(v, c)
      BY <1>1, <1>4, <1>8, <3>1 DEF Changed, Expand, View
    <3>. QED
      BY <1>8, <3>2, <3>3, ExpandKind
  <2>3. DataOf(d) /\ SameBelow(v, d.work, Depth[k]) /\ v.objs \subseteq d.work.objs
    BY <1>2, <1>3, <1>6, <1>7, <1>8, <2>1, <2>2, WrittenData
  <2>4. DbShape(d)
    BY <1>2, <1>3, WrittenShape
  <2>5. ASSUME cli.changeset, past'.stood, ~past'.taint PROVE Held(d.work, ctx)
    <3>1. Trusted
      BY <1>3, <1>9, <2>5, KeepsPast DEF Trusted, PastKept
    <3>2. Held(v, ctx)
      BY <1>1, <1>3, <1>8, <3>1, HeldNow
    <3>3. PICK w : w = d.work /\ IsData(w)
      BY <2>3 DEF DataOf
    <3>4. SameBelow(v, w, Depth[LastKind(ctx)]) /\ v.objs \subseteq w.objs
      BY <1>6, <2>3, <3>3
    <3>. QED
      BY <1>6, <1>8, <3>2, <3>3, <3>4, HeldGrows
  <2>. QED
    BY <1>3, <1>6, <1>9, <2>3, <2>4, <2>5, PerformedNests
<1>10. CASE Error(known) \/ Faulty(known)
  BY <1>3, <1>7, <1>10, ThrownNests
<1>. QED
  BY <1>5, <1>9, <1>10

-----------------------------------------------------------------------------
(***************************************************************************)
(* delete and rename: nothing above the last item of the context moves.    *)
(***************************************************************************)
LEMMA TakenDeep ==
    ASSUME NEW v, IsData(v), NEW ctx, IsSequence(ctx), KindsNest(ctx)
    PROVE  \E n \in Nat : Below(Front(ctx), n) /\ \A o \in ExpandIn(v, ctx) : Len(o[2]) \in Nat /\ n < Len(o[2])
<1>1. CASE ctx = <<>>
  <2>1. Front(<<>>) = <<>>
    BY DEF Front
  <2>2. Below(Front(ctx), 0)
    BY <1>1, <2>1, EmptySequence DEF Below
  <2>3. ExpandIn(v, ctx) = {}
    BY <1>1, ExpandEmpty
  <2>. QED
    BY <2>2, <2>3
<1>2. CASE ctx # <<>>
  <2>1. PICK n : n = Depth[LastKind(ctx)]
    OBVIOUS
  <2>2. Below(Front(ctx), n) /\ n \in Nat
    BY <1>2, <2>1, BelowLast
  <2>3. \A o \in ExpandIn(v, ctx) : Len(o[2]) = n + 1
    BY <1>2, <2>1, ExpandTyped DEF Typed
  <2>. QED
    BY <2>2, <2>3
<1>. QED
  BY <1>1, <1>2

LEMMA TakenHeld ==
    ASSUME IInv, NInv, line.phase = "apply", Takes(Signal), Trusted, NEW n \in Nat, Below(Front(line.ctx), n),
           NEW d, DataOf(d), SameBelow(db.work, d.work, n)
    PROVE  Len(line.todo) # 1 /\ AllLeft(Tail(line.todo)) /\ Held(d.work, Front(line.ctx))
<1>1. Len(line.todo) # 1 /\ AllLeft(Tail(line.todo))
  BY TakingNow
<1>2. PICK v, w, c : v = db.work /\ w = d.work /\ c = Front(line.ctx)
  OBVIOUS
<1>3. Signal[1] # "left"
  BY DEF Takes
<1>4. IsSequence(line.ctx) /\ Held(db.work, line.ctx) /\ IsData(v) /\ IsData(w)
  BY <1>2, <1>3, HeldNow DEF IInv, Shape, LineShape, NInv, DataOf
<1>5. IsSequence(c) /\ Held(v, c)
  BY <1>2, <1>4, HeldFront
<1>6. Held(w, c)
  BY <1>2, <1>4, <1>5, HeldLasts
<1>. QED
  BY <1>1, <1>2, <1>6

LEMMA DeletedShape == ASSUME Shape, NEW T PROVE DbShape(Deleted(T))
<1>1. PICK v : v = Without(db.work, T)
  OBVIOUS
<1>2. DOMAIN v = ViewFields
  BY <1>1 DEF Without, ViewFields
<1>3. Deleted(T) = [[db EXCEPT !.work = v] EXCEPT !.gone = Both(@, Only(db.work, T))]
  BY <1>1 DEF Deleted, Working
<1>4. DbShape(db)
  BY DEF Shape
<1>. QED
  BY <1>2, <1>3, <1>4 DEF DbShape, DbFields

LEMMA ApplyDeleteNests == ASSUME IInv, CInv, NInv, ApplyDelete PROVE NInv'
<1>1. PICK S, T : S = Expand(line.ctx) /\ T = Removing(S \cup Nested(S))
  OBVIOUS
<1>2. PICK ctx, back, known, told, d, same :
         /\ ctx = line.ctx /\ back = line.backup /\ known = DeleteKnown(S) /\ told = Told(cli.known, Nested(S), TRUE)
         /\ d = Deleted(T) /\ same = db
  OBVIOUS
<1>3. Shape /\ InPasses /\ line.phase = "apply" /\ Signal[1] = "delete" /\ Takes(Signal)
  BY DEF IInv, ApplyDelete, Applying, InPasses, Takes
<1>4. cli.changeset
  BY <1>3, HarmlessSignal DEF Harmless
<1>5. \/ Performed(ctx, known, d) /\ UNCHANGED past
      \/ NotPerformed(back, told, same, FALSE)
      \/ Error(known) \/ Faulty(known)
  BY <1>1, <1>2 DEF ApplyDelete, DeleteKnown
<1>6. /\ DataOf(db) /\ Nesting /\ KindsNest(ctx) /\ KindsNest(back) /\ IsSequence(ctx)
      /\ DbShape(same) /\ DataOf(same)
  BY <1>2, <1>3 DEF NInv, Nesting, Shape, LineShape
<1>7. PICK v : v = db.work /\ IsData(v)
  BY <1>6 DEF DataOf
<1>8. PICK n \in Nat : Below(Front(ctx), n) /\ \A o \in ExpandIn(v, ctx) : Len(o[2]) \in Nat /\ n < Len(o[2])
  BY <1>6, <1>7, TakenDeep
<1>9. ASSUME NEW o \in T PROVE ~(Len(o[2]) <= n)
  <2>1. o \in S \/ o \in Nested(S)
    BY <1>1, <1>9 DEF Removing
  <2>2. \A t \in S : Len(t[2]) \in Nat /\ n < Len(t[2])
    BY <1>1, <1>2, <1>4, <1>7, <1>8 DEF Expand, View
  <2>3. CASE o \in S
    BY <2>2, <2>3
  <2>4. CASE o \in Nested(S)
    <3>1. PICK t \in S : o \in v.objs /\ Len(t[2]) < Len(o[2])
      BY <1>4, <1>7, <2>4 DEF Nested, View, IsUnder
    <3>2. Len(o[2]) \in Nat
      BY <1>7, <3>1, DataObject, SequenceShape
    <3>. QED
      BY <2>2, <3>1, <3>2
  <2>. QED
    BY <2>1, <2>3, <2>4
<1>10. DataOf(d) /\ SameBelow(db.work, d.work, n)
  BY <1>2, <1>3, <1>6, <1>9, DeletedData
<1>11. CASE Performed(ctx, known, d) /\ UNCHANGED past
  <2>1. DbShape(d)
    BY <1>2, <1>3, DeletedShape
  <2>2. ASSUME cli.changeset, past'.stood, ~past'.taint
        PROVE  Len(line.todo) # 1 /\ AllLeft(Tail(line.todo)) /\ Held(d.work, Front(ctx))
    <3>1. Trusted
      BY <1>3, <1>11, <2>2, KeepsPast DEF Trusted, PastKept
    <3>. QED
      BY <1>2, <1>3, <1>8, <1>10, <3>1, TakenHeld
  <2>. QED
    BY <1>3, <1>6, <1>10, <1>11, <2>1, <2>2, PerformedNests
<1>12. CASE NotPerformed(back, told, same, FALSE)
  BY <1>3, <1>6, <1>12, NotPerformedNests
<1>13. CASE Error(known) \/ Faulty(known)
  BY <1>3, <1>6, <1>13, ThrownNests
<1>. QED
  BY <1>5, <1>11, <1>12, <1>13

LEMMA ApplyRenameNests == ASSUME IInv, CInv, NInv, ApplyRename PROVE NInv'
<1>1. PICK S, name : S = Expand(line.ctx) /\ name = Signal[4]
  OBVIOUS
<1>2. PICK T, w : /\ T = S \/ T = S \cup Connected(S)
                  /\ w = Renamed(db.work, T, name)
                  /\ \/ /\ CanRename(db.work, T, name)
                        /\ Performed(line.ctx, KnownRenamed(T, name), Working(w))
                        /\ past' = [past EXCEPT !.taint = @ \/ Nested(T) # {}]
                     \/ Error(KnownRenamed(T, name)) \/ Faulty(KnownRenamed(T, name))
  BY <1>1 DEF ApplyRename
<1>3. PICK ctx, known, d : ctx = line.ctx /\ known = KnownRenamed(T, name) /\ d = Working(w)
  OBVIOUS
<1>4. Shape /\ InPasses /\ line.phase = "apply" /\ Signal[1] = "rename" /\ Takes(Signal)
  BY DEF IInv, ApplyRename, Applying, InPasses, Takes
<1>5. cli.changeset
  BY <1>4, HarmlessSignal DEF Harmless
<1>6. DataOf(db) /\ Nesting /\ KindsNest(ctx) /\ IsSequence(ctx) /\ name # NoName
  BY <1>1, <1>3, <1>4, TakingNow DEF NInv, Nesting, Shape, LineShape, NestedSignal
<1>7. PICK v : v = db.work /\ IsData(v)
  BY <1>6 DEF DataOf
<1>8. PICK n \in Nat : Below(Front(ctx), n) /\ \A o \in ExpandIn(v, ctx) : Len(o[2]) \in Nat /\ n < Len(o[2])
  BY <1>6, <1>7, TakenDeep
<1>9. ASSUME NEW o \in T PROVE ~(Len(o[2]) <= n)
  <2>1. \A t \in S : Len(t[2]) \in Nat /\ n < Len(t[2])
    BY <1>1, <1>3, <1>5, <1>7, <1>8 DEF Expand, View
  <2>2. o \in S \/ \E t \in S : o[2] = t[2]
    BY <1>2, <1>9 DEF Connected, AreConnected
  <2>. QED
    BY <2>1, <2>2
<1>10. CASE CanRename(db.work, T, name) /\ Performed(ctx, known, d) /\ past' = [past EXCEPT !.taint = @ \/ Nested(T) # {}]
  <2>1. T \subseteq v.objs
    BY <1>7, <1>10 DEF CanRename
  <2>2. IsData(w) /\ SameBelow(v, w, n)
    BY <1>2, <1>6, <1>7, <1>9, <2>1, RenamedData
  <2>3. DbShape(d) /\ d.live = db.live /\ d.gone = db.gone /\ d.work = w
    <3>1. DOMAIN w = ViewFields
      BY <1>2 DEF Renamed, ViewFields
    <3>2. d = [db EXCEPT !.work = w] /\ DbShape(db)
      BY <1>3, <1>4 DEF Working, Shape
    <3>. QED
      BY <3>1, <3>2 DEF DbShape, DbFields
  <2>4. DataOf(d) /\ SameBelow(db.work, d.work, n)
    BY <1>6, <1>7, <2>2, <2>3 DEF DataOf
  <2>5. ASSUME cli.changeset, past'.stood, ~past'.taint
        PROVE  Len(line.todo) # 1 /\ AllLeft(Tail(line.todo)) /\ Held(d.work, Front(ctx))
    <3>1. Trusted
      BY <1>4, <1>10, <2>5, KeepsPast DEF Trusted, PastKept
    <3>. QED
      BY <1>3, <1>4, <1>8, <2>4, <3>1, TakenHeld
  <2>. QED
    BY <1>4, <1>6, <1>10, <2>3, <2>4, <2>5, PerformedNests
<1>11. CASE Error(known) \/ Faulty(known)
  BY <1>4, <1>6, <1>11, ThrownNests
<1>. QED
  BY <1>2, <1>3, <1>10, <1>11

LEMMA ApplyNests == ASSUME IInv, CInv, NInv, Apply PROVE NInv'
BY ApplyLeftNests, ApplyFilterNests, ApplyShowNests, ApplyCreateNests, ApplyContainedNests, ApplyAttributeNests,
   ApplyDeleteNests, ApplyRenameNests DEF Apply

-----------------------------------------------------------------------------
(* The first pass: a signal is confirmed, or the line ends.                *)
Heeded ==
    /\ line.phase = "confirm" /\ PastKept
    /\ \/ \E known, auto : Confirmed(known, auto)
       \/ \E known, failed : Refused(known, failed)
       \/ NoSignals \/ Crashes

LEMMA ConfirmHeeds == ASSUME Shape, Confirm PROVE Heeded
<1>1. PICK known, auto : known = cli.known /\ auto = line.auto
  OBVIOUS
<1>2. UNCHANGED past => PastKept
  BY KeepsPast
<1>3. \A S : Agreed(S) => PastKept
  BY KeepsPast
<1>4. past' = [past EXCEPT !.sure = TRUE] => PastKept
  BY KeepsPast
<1>5. ASSUME ConfirmReading \/ ConfirmLeft \/ ConfirmRename PROVE Heeded
  <2>1. line.phase = "confirm"
    BY <1>5 DEF ConfirmReading, ConfirmLeft, ConfirmRename, Confirming
  <2>2. \/ Confirmed(known, auto) /\ UNCHANGED past
        \/ Confirmed(known, FALSE) /\ UNCHANGED past
        \/ Refused(known, TRUE)
    BY <1>1, <1>5 DEF ConfirmReading, ConfirmLeft, ConfirmRename
  <2>. QED
    BY <1>2, <2>1, <2>2 DEF Heeded, Refused
<1>6. ASSUME ConfirmCreate PROVE Heeded
  <2>1. line.phase = "confirm"
    BY <1>6 DEF ConfirmCreate, Confirming
  <2>2. PICK S : S = Expand(Signal[2])
    OBVIOUS
  <2>3. (Confirmed(known, auto) /\ Agreed(S)) \/ Refused(known, TRUE)
    BY <1>1, <1>6, <2>2 DEF ConfirmCreate
  <2>. QED
    BY <1>2, <1>3, <2>1, <2>3 DEF Heeded, Refused
<1>7. ASSUME ConfirmEntered PROVE Heeded
  <2>1. line.phase = "confirm"
    BY <1>7 DEF ConfirmEntered, Confirming
  <2>2. PICK S, T : S = (IF Named(Signal[2]) THEN Expand(Signal[2]) ELSE {}) /\ T = Expand(Signal[2])
    OBVIOUS
  <2>3. PICK k : k = Looked(S)
    OBVIOUS
  <2>4. \/ Confirmed(known, TRUE) /\ UNCHANGED past
        \/ Confirmed(known, FALSE) /\ UNCHANGED past
        \/ Confirmed(k, FALSE) /\ UNCHANGED past
        \/ Confirmed(k, TRUE) /\ Agreed(T)
        \/ Refused(k, TRUE) \/ Refused(k, FALSE)
        \/ Crashes /\ UNCHANGED past
    BY <1>1, <1>7, <2>2, <2>3 DEF ConfirmEntered, Crashes
  <2>. QED
    BY <1>2, <1>3, <2>1, <2>4 DEF Heeded, Refused
<1>8. ASSUME ConfirmSet PROVE Heeded
  <2>1. line.phase = "confirm"
    BY <1>8 DEF ConfirmSet, Confirming
  <2>2. PICK S : S = Targets(Signal[2], Signal[3])
    OBVIOUS
  <2>3. PICK k : k = Looked(IF Named(Signal[2]) THEN S ELSE {})
    OBVIOUS
  <2>4. \/ Confirmed(known, auto) /\ UNCHANGED past
        \/ Confirmed(k, auto) /\ UNCHANGED past
        \/ Confirmed(k, auto) /\ Agreed(S)
        \/ Refused(known, TRUE) \/ Refused(k, FALSE)
        \/ Crashes /\ UNCHANGED past
    BY <1>1, <1>8, <2>2, <2>3 DEF ConfirmSet, Crashes
  <2>. QED
    BY <1>2, <1>3, <2>1, <2>4 DEF Heeded, Refused
<1>9. ASSUME ConfirmRemove PROVE Heeded
  <2>1. line.phase = "confirm"
    BY <1>9 DEF ConfirmRemove, Confirming
  <2>2. PICK S : S = IF Signal[3] = LastKind(Signal[2]) \/ ~Named(Signal[2]) THEN {} ELSE Targets(Signal[2], Signal[3])
    OBVIOUS
  <2>3. PICK k, j : k = Looked(S) /\ j = IF cli.changeset THEN Looked(S) ELSE cli.known
    OBVIOUS
  <2>4. (Confirmed(k, auto) /\ UNCHANGED past) \/ Refused(j, TRUE)
    BY <1>1, <1>9, <2>2, <2>3 DEF ConfirmRemove
  <2>. QED
    BY <1>2, <2>1, <2>4 DEF Heeded, Refused
<1>10. ASSUME ConfirmDelete PROVE Heeded
  <2>1. line.phase = "confirm"
    BY <1>10 DEF ConfirmDelete, Confirming
  <2>2. \/ Refused(known, TRUE) \/ Refused(known, FALSE)
        \/ Confirmed(known, auto) /\ UNCHANGED past
        \/ Confirmed(known, auto) /\ past' = [past EXCEPT !.sure = TRUE]
    BY <1>1, <1>10 DEF ConfirmDelete
  <2>. QED
    BY <1>2, <1>4, <2>1, <2>2 DEF Heeded, Refused
<1>11. ASSUME NoSignals PROVE Heeded
  BY <1>2, <1>11 DEF NoSignals, Heeded
<1>. QED
  BY <1>5, <1>6, <1>7, <1>8, <1>9, <1>10, <1>11 DEF Confirm

LEMMA ConfirmNests == ASSUME IInv, NInv, Confirm PROVE NInv'
<1>1. Shape /\ Heeded /\ Nesting /\ DataOf(db) /\ PassStands
  BY ConfirmHeeds DEF IInv, NInv
<1>2. line.phase = "confirm" /\ PastKept /\ InPasses
  BY <1>1 DEF Heeded, InPasses
<1>3. ASSUME cli.changeset, past'.stood, ~past'.taint PROVE Held(db.work, line.ctx)
  <2>1. Trusted
    BY <1>2, <1>3 DEF Trusted, PastKept
  <2>. QED
    BY <1>1, <1>2, <2>1 DEF PassStands
<1>4. KindsNest(line.ctx) /\ KindsNest(line.backup) /\ IsRest(line.sig)
  BY <1>1, <1>2 DEF Nesting
<1>5. PICK d : d = db /\ DbShape(d) /\ DataOf(d)
  BY <1>1 DEF Shape
<1>6. ASSUME NEW known, NEW auto, Confirmed(known, auto) PROVE NInv'
  <2>1. \/ line' = [line EXCEPT !.phase = "apply", !.todo = line.sig, !.auto = auto]
        \/ line' = [line EXCEPT !.todo = Tail(@), !.auto = auto]
    BY <1>6 DEF Confirmed
  <2>2. cli' = [cli EXCEPT !.known = known] /\ db' = d
    BY <1>5, <1>6 DEF Confirmed
  <2>3. cli'.ctx = cli.ctx /\ cli'.before = cli.before /\ cli'.changeset = cli.changeset
    BY <1>1, <2>2 DEF Shape, CliShape, CliFields
  <2>4. /\ line'.ctx = line.ctx /\ line'.backup = line.backup /\ line'.sig = line.sig
        /\ line'.phase \in {"confirm", "apply"} /\ (line'.phase = "apply" => line'.todo = line.sig)
    BY <1>1, <1>2, <2>1 DEF Shape, LineShape, LineFields
  <2>5. DataOf(db)'
    BY <1>5, <2>2 DEF DataOf
  <2>6. Nesting'
    BY <1>1, <1>4, <2>3, <2>4 DEF Nesting
  <2>7. PassStands'
    BY <1>3, <1>5, <2>2, <2>3, <2>4 DEF PassStands, Trusted
  <2>8. PromptStands'
    BY <2>4 DEF PromptStands
  <2>. QED
    BY <2>5, <2>6, <2>7, <2>8 DEF NInv
<1>7. ASSUME NEW known, NEW failed, Refused(known, failed) PROVE NInv'
  <2>1. PICK c, end, ctx :
           c = [cli EXCEPT !.ctx = line.ctx, !.known = known, !.failed = @ \/ failed] /\ end = "refused" /\ ctx = line.ctx
    OBVIOUS
  <2>2. EndOfLine(c, d, end, ctx)
    BY <1>5, <1>7, <2>1 DEF Refused
  <2>3. DOMAIN c = CliFields /\ KindsNest(c.ctx) /\ KindsNest(c.before)
    BY <1>1, <1>4, <2>1 DEF Shape, CliShape, CliFields, Nesting
  <2>4. end # "performed"
    BY <2>1
  <2>. QED
    BY <1>1, <1>5, <2>2, <2>3, <2>4, EndNests
<1>8. ASSUME NoSignals PROVE NInv'
  <2>1. PICK c, end, ctx : c = [cli EXCEPT !.ctx = line.ctx] /\ end = "performed" /\ ctx = line.ctx
    OBVIOUS
  <2>2. EndOfLine(c, d, end, ctx)
    BY <1>5, <1>8, <2>1 DEF NoSignals
  <2>3. DOMAIN c = CliFields /\ c.ctx = line.ctx /\ c.before = cli.before /\ c.changeset = cli.changeset
    BY <1>1, <2>1 DEF Shape, CliShape, CliFields
  <2>4. c.changeset /\ past'.stood /\ ~past'.taint => Held(d.work, c.ctx)
    BY <1>3, <1>5, <2>3
  <2>5. KindsNest(c.ctx) /\ KindsNest(c.before)
    BY <1>1, <1>4, <2>3 DEF Nesting
  <2>. QED
    BY <1>1, <1>5, <2>2, <2>3, <2>4, <2>5, EndNests
<1>9. ASSUME Crashes PROVE NInv'
  <2>1. line'.phase = "prompt" /\ line'.end = "error" /\ cli'.ctx = <<>> /\ cli'.before = cli.before /\ db' = db
    BY <1>1, <1>9, CrashShapes
  <2>2. KindsNest(<<>>)
    BY EmptySequence DEF KindsNest
  <2>3. KindsNest(cli'.ctx) /\ KindsNest(cli'.before)
    BY <1>1, <2>1, <2>2 DEF Nesting
  <2>. QED
    BY <1>1, <2>1, <2>3, EndedNests
<1>. QED
  BY <1>1, <1>6, <1>7, <1>8, <1>9 DEF Heeded

-----------------------------------------------------------------------------
(* A line is read: the contexts the parser makes nest, and the context the *)
(* passes start from is the one whose objects were looked for.             *)
LEMMA ReadNests ==
    ASSUME Shape, Nesting, DataOf(db), NEW l, WellMade(l), NEW c, CliShape(c), c.ctx = cli.ctx,
           c.changeset = cli.changeset, KindsNest(c.before), ReadWith(l, c), past'.stood = Stands(cli.ctx)
    PROVE  NInv'
<1>1. PICK there : there = (IF c.changeset THEN db.work ELSE db.live).objs
  OBVIOUS
<1>2. PICK r, d, e : /\ r = ParseLine(c.ctx, l, there)
                     /\ d = (IF c.changeset THEN db ELSE Froze(db))
                     /\ e = (IF c.changeset THEN c ELSE [ClearCache(c) EXCEPT !.stable = TRUE])
  OBVIOUS
<1>3. Parsed(r, e, d)
  BY <1>1, <1>2 DEF ReadWith
<1>4. DOMAIN e = CliFields /\ e.changeset = cli.changeset /\ e.ctx = cli.ctx /\ KindsNest(e.before)
  <2>1. CASE c.changeset
    BY <1>2, <2>1 DEF CliShape
  <2>2. CASE ~c.changeset
    <3>1. e = [ClearCache(c) EXCEPT !.stable = TRUE]
      BY <1>2, <2>2
    <3>. QED
      BY <3>1 DEF ClearCache, CliShape, CliFields
  <2>. QED
    BY <2>1, <2>2
<1>5. DbShape(d) /\ DataOf(d) /\ d.work = db.work
  BY <1>2 DEF Froze, Shape, DbShape, DbFields, DataOf
<1>6. IsSequence(cli.ctx) /\ KindsNest(cli.ctx)
  BY DEF Shape, CliShape, Nesting
<1>7. KindsNest(r.ctx) /\ IsRest(r.sig)
  BY <1>2, <1>6, LinesNest DEF IsRest
<1>8. CASE r.ok
  <2>1. /\ line' = [line EXCEPT !.phase = "confirm", !.sig = r.sig, !.todo = r.sig, !.ctx = e.ctx, !.backup = e.ctx,
                       !.parsed = r.ctx, !.auto = FALSE, !.end = "none"]
        /\ cli' = [e EXCEPT !.ctx = r.ctx] /\ db' = d
    BY <1>3, <1>8 DEF Parsed
  <2>2. line'.phase = "confirm" /\ line'.sig = r.sig /\ line'.ctx = e.ctx /\ line'.backup = e.ctx
    BY <2>1 DEF Shape, LineShape, LineFields
  <2>3. cli'.changeset = cli.changeset /\ cli'.ctx = r.ctx /\ cli'.before = e.before
    BY <1>4, <2>1 DEF CliFields
  <2>4. Nesting'
    BY <1>4, <1>6, <1>7, <2>2, <2>3 DEF Nesting
  <2>5. PassStands'
    <3>1. SUFFICES ASSUME cli.changeset, past'.stood PROVE Held(db.work, cli.ctx)
      BY <1>4, <1>5, <2>1, <2>2, <2>3 DEF PassStands, Trusted
    <3>2. Stands(cli.ctx) /\ View = db.work
      BY <3>1, ViewInside
    <3>. QED
      BY <1>6, <3>2, StandsWhen DEF Held
  <2>6. DataOf(db)' /\ PromptStands'
    BY <1>5, <2>1, <2>2 DEF DataOf, PromptStands
  <2>. QED
    BY <2>4, <2>5, <2>6 DEF NInv
<1>9. CASE ~r.ok
  <2>1. PICK f, end, ctx : f = [e EXCEPT !.ctx = r.ctx, !.failed = TRUE] /\ end = "malformed" /\ ctx = r.ctx
    OBVIOUS
  <2>2. EndOfLine(f, d, end, ctx)
    BY <1>3, <1>9, <2>1 DEF Parsed
  <2>3. DOMAIN f = CliFields /\ KindsNest(f.ctx) /\ KindsNest(f.before) /\ end # "performed"
    BY <1>4, <1>7, <2>1 DEF CliFields
  <2>. QED
    BY <1>5, <2>2, <2>3, EndNests
<1>. QED
  BY <1>8, <1>9

LEMMA NewLineStood == Shape => NewLine.stood = Stands(cli.ctx) /\ DOMAIN NewLine = PastFields
BY DEF Shape, NewLine, PastFields

LEMMA LinesKeepNesting == IInv /\ NInv /\ ((\E l \in Lines : TypeLine(l)) \/ FileLine) => NInv'
<1>1. ASSUME IInv, NInv, NEW l \in Lines, TypeLine(l) PROVE NInv'
  <2>1. Shape /\ Nesting /\ DataOf(db)
    BY <1>1 DEF IInv, NInv
  <2>2. PICK c : c = [cli EXCEPT !.before = cli.ctx, !.failed = FALSE]
    OBVIOUS
  <2>3. ReadWith(l, c) /\ past' = [NewLine EXCEPT !.typed = @ + 1]
    BY <1>1, <2>2 DEF TypeLine
  <2>4. CliShape(c) /\ c.ctx = cli.ctx /\ c.changeset = cli.changeset /\ c.before = cli.ctx
    BY <2>1, <2>2 DEF Shape, CliShape, CliFields
  <2>5. past'.stood = Stands(cli.ctx)
    BY <2>1, <2>3, NewLineStood DEF PastFields
  <2>6. KindsNest(c.before)
    BY <2>1, <2>4 DEF Nesting
  <2>. QED
    BY <2>1, <2>3, <2>4, <2>5, <2>6, LinesAssumption, ReadNests
<1>2. ASSUME IInv, NInv, FileLine PROVE NInv'
  <2>1. Shape /\ Nesting /\ DataOf(db)
    BY <1>2 DEF IInv, NInv
  <2>2. PICK l, c : l = Head(line.rest) /\ c = cli
    OBVIOUS
  <2>3. ReadWith(l, c) /\ past' = NewLine
    BY <1>2, <2>2 DEF FileLine
  <2>4. CliShape(c) /\ KindsNest(c.before)
    BY <2>1, <2>2 DEF Shape, Nesting
  <2>5. WellMade(l)
    BY <1>2, <2>1, <2>2, HeadWellMade DEF FileLine
  <2>6. past'.stood = Stands(cli.ctx)
    BY <2>1, <2>3, NewLineStood
  <2>. QED
    BY <2>1, <2>2, <2>3, <2>4, <2>5, <2>6, ReadNests
<1>. QED
  BY <1>1, <1>2

-----------------------------------------------------------------------------
(* The commands, the files and another session: none of them performs a    *)
(* line, and what they leave of the context is empty or as it was.         *)
LEMMA EndedEnds ==
    ASSUME Shape, NEW name, Command(name), NEW end, line' = Ended(end) PROVE line'.phase \in {"prompt", "file"} /\ line'.end = end
<1>1. line'.phase \in {"prompt", "file"}
  BY EndedRests DEF Resting
<1>2. DOMAIN NextLine = LineFields /\ DOMAIN AtPrompt = LineFields
  BY PromptShape DEF NextLine, Shape, LineShape, LineFields
<1>3. line'.end = end
  BY <1>2 DEF Ended, LineFields
<1>. QED
  BY <1>1, <1>3

LEMMA CommandNests ==
    ASSUME Shape, NEW name, Command(name), NEW end, end # "performed", line' = Ended(end),
           KindsNest(cli'.ctx), KindsNest(cli'.before), DataOf(db')
    PROVE  NInv'
BY EndedEnds, EndedNests

\* A session that may be what a command makes of it.
Settled(c, d) == DOMAIN c = CliFields /\ KindsNest(c.ctx) /\ KindsNest(c.before) /\ DataOf(d)

LEMMA ReturnsNests ==
    ASSUME Shape, NEW name, Command(name), NEW true, NEW c, NEW d, Settled(c, d), Returns(true, c, d) PROVE NInv'
<1>1. cli' = [c EXCEPT !.failed = InFile /\ ~true] /\ db' = d /\ line' = Ended("none")
  BY DEF Returns
<1>2. cli'.ctx = c.ctx /\ cli'.before = c.before
  BY <1>1 DEF Settled, CliFields
<1>. QED
  BY <1>1, <1>2, CommandNests DEF Settled

LEMMA RaisesNests ==
    ASSUME Shape, NEW name, Command(name), NEW c, NEW d, Settled(c, d), Raises(c, d) PROVE NInv'
<1>1. /\ cli' = [ClearCache(c) EXCEPT !.failed = InFile, !.ctx = IF InFile THEN <<>> ELSE @] /\ db' = d
      /\ line' = Ended("error")
  BY DEF Raises
<1>2. cli'.ctx \in {<<>>, c.ctx} /\ cli'.before = c.before
  BY <1>1 DEF ClearCache, Settled, CliFields
<1>3. KindsNest(cli'.ctx)
  BY <1>2, EmptyNests DEF Settled
<1>. QED
  BY <1>1, <1>2, <1>3, CommandNests DEF Settled

\* Whatever way a command ends.
Closes(c, d) == (\E true \in BOOLEAN : Returns(true, c, d)) \/ Failed(c, d) \/ Raises(c, d)

LEMMA ClosesNests ==
    ASSUME Shape, NEW name, Command(name), NEW c, NEW d, Settled(c, d), Closes(c, d) PROVE NInv'
BY ReturnsNests, RaisesNests DEF Closes, Failed

LEMMA SettledNow ==
    ASSUME Shape, Nesting
    PROVE  \A d : DataOf(d) => /\ Settled(cli, d) /\ Settled(Attaching, d) /\ Settled(Leaving, d)
                               /\ Settled(InChangeset(Attaching), d) /\ Settled(Outside(Leaving), d)
<1>1. ASSUME NEW b, NEW e, e = [ClearCache(cli) EXCEPT !.stable = b]
      PROVE  DOMAIN e = CliFields /\ e.ctx = cli.ctx /\ e.before = cli.before
  BY <1>1 DEF Shape, CliShape, CliFields, ClearCache
<1>2. ASSUME NEW e, DOMAIN e = CliFields
      PROVE  /\ DOMAIN InChangeset(e) = CliFields /\ InChangeset(e).ctx = e.ctx /\ InChangeset(e).before = e.before
             /\ DOMAIN Outside(e) = CliFields /\ Outside(e).ctx = <<>> /\ Outside(e).before = e.before
  BY <1>2 DEF CliFields, InChangeset, Outside
<1>3. /\ DOMAIN Attaching = CliFields /\ Attaching.ctx = cli.ctx /\ Attaching.before = cli.before
      /\ DOMAIN Leaving = CliFields /\ Leaving.ctx = cli.ctx /\ Leaving.before = cli.before
  BY <1>1 DEF Attaching, Leaving
<1>4. /\ DOMAIN InChangeset(Attaching) = CliFields /\ InChangeset(Attaching).ctx = cli.ctx
      /\ InChangeset(Attaching).before = cli.before
      /\ DOMAIN Outside(Leaving) = CliFields /\ Outside(Leaving).ctx = <<>> /\ Outside(Leaving).before = cli.before
  BY <1>2, <1>3
<1>5. DOMAIN cli = CliFields /\ KindsNest(cli.ctx) /\ KindsNest(cli.before)
  BY DEF Shape, CliShape, Nesting
<1>. QED
  BY <1>3, <1>4, <1>5, EmptyNests DEF Settled

\* The data that commands leave.
LEMMA DataNow ==
    ASSUME Shape, DataOf(db)
    PROVE  /\ DataOf([db EXCEPT !.work = db.live, !.gone = NoData, !.pending = TRUE, !.obsolete = FALSE])
           /\ DataOf([db EXCEPT !.live = db.work, !.pending = FALSE]) /\ DataOf([db EXCEPT !.pending = FALSE])
           /\ DataOf(Thawed(db)) /\ DataOf(Froze(db))
<1>1. IsData(NoData)
  BY FS_EmptySet DEF IsData, NoData
<1>. QED
  BY <1>1 DEF DataOf, Thawed, Froze, Shape, DbShape, DbFields

LEMMA CommandsNest == IInv /\ NInv /\ Commands => NInv'
<1>. SUFFICES ASSUME IInv, NInv, Commands PROVE NInv'
  OBVIOUS
<1>1. Shape /\ Nesting /\ DataOf(db)
  BY DEF IInv, NInv
<1>2. PICK at, leave, in, out, now, started, given, dropped, thawed, froze :
         /\ at = Attaching /\ leave = Leaving /\ in = InChangeset(Attaching) /\ out = Outside(Leaving) /\ now = db
         /\ started = [db EXCEPT !.work = db.live, !.gone = NoData, !.pending = TRUE, !.obsolete = FALSE]
         /\ given = [db EXCEPT !.live = db.work, !.pending = FALSE] /\ dropped = [db EXCEPT !.pending = FALSE]
         /\ thawed = Thawed(db) /\ froze = Froze(db)
  OBVIOUS
<1>3. DataOf(now) /\ DataOf(started) /\ DataOf(given) /\ DataOf(dropped) /\ DataOf(thawed) /\ DataOf(froze)
  BY <1>1, <1>2, DataNow
<1>4. \A d \in {now, started, given, dropped, thawed, froze} :
         Settled(cli, d) /\ Settled(at, d) /\ Settled(leave, d) /\ Settled(in, d) /\ Settled(out, d)
  BY <1>1, <1>2, <1>3, SettledNow
<1>5. ASSUME NEW c, c = [cli EXCEPT !.force = c.force, !.known = c.known] PROVE Settled(c, now)
  <2>1. DOMAIN c = CliFields /\ c.ctx = cli.ctx /\ c.before = cli.before
    BY <1>1, <1>5 DEF Shape, CliShape, CliFields
  <2>. QED
    BY <1>1, <1>3, <2>1 DEF Settled, Nesting
<1>. USE DEF Done
<1>6. ASSUME Start PROVE NInv'
  <2>1. Closes(at, now) \/ Closes(in, started)
    BY <1>2, <1>6 DEF Start, Closes
  <2>. QED
    BY <1>1, <1>4, <1>6, <2>1, ClosesNests DEF Start
<1>7. ASSUME Resume PROVE NInv'
  <2>1. Closes(at, now) \/ Closes(in, now)
    BY <1>2, <1>7 DEF Resume, Closes
  <2>. QED
    BY <1>1, <1>4, <1>7, <2>1, ClosesNests DEF Resume
<1>8. ASSUME Commit PROVE NInv'
  <2>1. Closes(leave, now) \/ Closes(out, given)
    BY <1>2, <1>8 DEF Commit, Closes
  <2>. QED
    BY <1>1, <1>4, <1>8, <2>1, ClosesNests DEF Commit
<1>9. ASSUME Detach PROVE NInv'
  <2>1. Closes(leave, now) \/ Closes(out, now)
    BY <1>2, <1>9 DEF Detach, Closes
  <2>. QED
    BY <1>1, <1>4, <1>9, <2>1, ClosesNests DEF Detach
<1>10. ASSUME Abort PROVE NInv'
  <2>1. Closes(leave, now) \/ Closes(out, dropped)
    BY <1>2, <1>10 DEF Abort, Closes
  <2>. QED
    BY <1>1, <1>4, <1>10, <2>1, ClosesNests DEF Abort
<1>11. ASSUME NonInteractive PROVE NInv'
  <2>1. PICK c : c = [cli EXCEPT !.force = ~@]
    OBVIOUS
  <2>2. c = [cli EXCEPT !.force = c.force, !.known = c.known]
    BY <1>1, <2>1 DEF Shape, CliShape, CliFields
  <2>3. Closes(c, now)
    BY <1>2, <1>11, <2>1 DEF NonInteractive, Closes
  <2>. QED
    BY <1>1, <1>5, <1>11, <2>2, <2>3, ClosesNests DEF NonInteractive
<1>12. ASSUME Context PROVE NInv'
  <2>1. PICK c : c = [cli EXCEPT !.known = Told(@, Matched(cli.ctx), TRUE)]
    OBVIOUS
  <2>2. c = [cli EXCEPT !.force = c.force, !.known = c.known]
    BY <1>1, <2>1 DEF Shape, CliShape, CliFields
  <2>3. Closes(c, now)
    BY <1>2, <1>12, <2>1 DEF Context, Closes
  <2>. QED
    BY <1>1, <1>5, <1>12, <2>2, <2>3, ClosesNests DEF Context
<1>13. ASSUME Dump PROVE NInv'
  <2>1. PICK c : c = [cli EXCEPT !.known = Told(@, View.objs, TRUE)]
    OBVIOUS
  <2>2. c = [cli EXCEPT !.force = c.force, !.known = c.known]
    BY <1>1, <2>1 DEF Shape, CliShape, CliFields
  <2>3. Closes(c, now) \/ Closes(cli, now) \/ Closes(leave, thawed) \/ Closes(at, froze)
    BY <1>2, <1>13, <2>1 DEF Dump, Closes
  <2>. QED
    BY <1>1, <1>4, <1>5, <1>13, <2>2, <2>3, ClosesNests DEF Dump
<1>14. ASSUME NotNow PROVE NInv'
  <2>1. Closes(cli, now) \/ Closes(at, now)
    BY <1>2, <1>14 DEF NotNow, Closes
  <2>. QED
    BY <1>1, <1>4, <1>14, <2>1, ClosesNests DEF NotNow
<1>. QED
  BY <1>6, <1>7, <1>8, <1>9, <1>10, <1>11, <1>12, <1>13, <1>14 DEF Commands

LEMMA FilesNest == IInv /\ NInv /\ ((\E b \in Batches : Batch(b)) \/ (\E x \in Scripts : Execute(x)) \/ FileEnds) => NInv'
<1>. SUFFICES ASSUME IInv, NInv, (\E b \in Batches : Batch(b)) \/ (\E x \in Scripts : Execute(x)) \/ FileEnds PROVE NInv'
  OBVIOUS
<1>1. Shape /\ Nesting /\ DataOf(db)
  BY DEF IInv, NInv
<1>2. db' = db /\ cli'.ctx = <<>> /\ cli'.before = cli.before
  <2>1. CASE FileEnds
    BY <1>1, <2>1 DEF FileEnds, Shape, CliShape, CliFields
  <2>2. CASE ~FileEnds
    <3>1. cli' = [cli EXCEPT !.quiet = TRUE, !.ctx = <<>>, !.failed = FALSE] /\ db' = db
      BY <2>2 DEF Batch, Execute, Reading
    <3>. QED
      BY <1>1, <3>1 DEF Shape, CliShape, CliFields
  <2>. QED
    BY <2>1, <2>2
<1>3. line'.phase \in {"prompt", "file"}
  <2>1. \/ \E end : line' = [AtPrompt EXCEPT !.end = end]
        \/ \E file, lines : line' = [AtPrompt EXCEPT !.phase = "file", !.file = file, !.rest = lines]
    BY DEF Batch, Execute, Reading, FileEnds
  <2>. QED
    BY <2>1, PromptShape DEF LineFields
<1>4. KindsNest(cli'.ctx) /\ KindsNest(cli'.before) /\ Held(db'.work, cli'.ctx)
  BY <1>1, <1>2, EmptyNests, HeldEmpty DEF Nesting
<1>. QED
  BY <1>1, <1>2, <1>3, <1>4, EndedNests

LEMMA OtherCommitNests == IInv /\ NInv /\ OtherCommit => NInv'
<1>. SUFFICES ASSUME IInv, NInv, OtherCommit PROVE NInv'
  OBVIOUS
<1>1. PICK v \in Views : db' = [db EXCEPT !.live = v, !.obsolete = @ \/ db.pending]
  BY DEF OtherCommit
<1>2. past' = [past EXCEPT !.faults = @ + 1] /\ UNCHANGED <<cli, line>>
  BY DEF OtherCommit
<1>3. /\ db'.work = db.work /\ db'.live = v /\ db'.gone = db.gone
      /\ past'.taint = past.taint /\ past'.stood = past.stood
  BY <1>1, <1>2 DEF IInv, Shape, DbShape, DbFields, PastFields
<1>4. DataOf(db)'
  BY <1>3, ViewsAssumption DEF NInv, DataOf
<1>5. Nesting' /\ PassStands' /\ PromptStands'
  BY <1>2, <1>3 DEF NInv, Nesting, InPasses, PassStands, PromptStands, Trusted
<1>. QED
  BY <1>4, <1>5 DEF NInv

-----------------------------------------------------------------------------
(* Every session starts without a context, and goes on in ones that nest.  *)
LEMMA NestingStarts == Init => NInv
<1>. SUFFICES ASSUME Init PROVE NInv
  OBVIOUS
<1>1. PICK v \in Views : db = [live |-> v, work |-> v, seen |-> v, gone |-> NoData, pending |-> FALSE,
                               obsolete |-> FALSE, frozen |-> FALSE]
  BY DEF Init
<1>2. IsData(NoData)
  BY FS_EmptySet DEF IsData, NoData
<1>3. DataOf(db)
  BY <1>1, <1>2, ViewsAssumption DEF DataOf
<1>4. cli.ctx = <<>> /\ cli.before = <<>> /\ ~cli.changeset
  BY DEF Init
<1>5. line.phase = "prompt"
  BY PromptShape DEF Init
<1>6. Nesting
  BY <1>4, <1>5, EmptyNests DEF Nesting, InPasses
<1>7. PassStands /\ PromptStands
  BY <1>4 DEF PassStands, PromptStands, Trusted
<1>. QED
  BY <1>3, <1>6, <1>7 DEF NInv

LEMMA NestingInductive == IInv /\ CInv /\ NInv /\ [Next \/ Stops]_vars => NInv'
<1>. SUFFICES ASSUME IInv, CInv, NInv, [Next \/ Stops]_vars PROVE NInv'
  OBVIOUS
<1>1. CASE Next
  BY <1>1, LinesKeepNesting, FilesNest, CommandsNest, ConfirmNests, ApplyNests, OtherCommitNests DEF Next, Handle
<1>2. CASE UNCHANGED vars
  BY <1>2 DEF vars, NInv, DataOf, Nesting, InPasses, PassStands, PromptStands, Trusted
<1>. QED
  BY <1>1, <1>2 DEF Stops

(* Whatever is typed, the context in which the prompt is shown nests; and  *)
(* a line that was performed in a changeset, in a context whose objects    *)
(* exist, ends in one whose objects exist: what it created, restored,      *)
(* renamed or deleted on the way was followed by the context.              *)
THEOREM ContextsAreThere == Spec => []ContextExists
<1>1. IInv /\ CInv /\ NInv => ContextExists
  <2>1. SUFFICES ASSUME IInv, NInv, line.phase = "prompt"
                 PROVE  /\ KindsNest(cli.ctx)
                        /\ line.end = "performed" /\ Trusted => Stands(cli.ctx)
    BY DEF ContextExists, Trusted
  <2>2. KindsNest(cli.ctx)
    BY <2>1 DEF NInv, Nesting
  <2>3. ASSUME line.end = "performed", Trusted PROVE Stands(cli.ctx)
    <3>1. Held(db.work, cli.ctx)
      BY <2>1, <2>3 DEF NInv, PromptStands
    <3>2. IsSequence(cli.ctx) /\ View = db.work
      BY <2>1, <2>3, ViewInside DEF IInv, Shape, CliShape, Trusted
    <3>. QED
      BY <3>1, <3>2, StandsWhen DEF Held
  <2>. QED
    BY <2>2, <2>3
<1>2. IInv /\ CInv /\ NInv /\ [Next \/ Stops]_vars => IInv' /\ CInv' /\ NInv'
  BY Inductive, CacheInductive, NestingInductive
<1>3. Init => IInv /\ CInv /\ NInv
  BY Starts, CacheStarts, NestingStarts
<1>. QED
  BY <1>1, <1>2, <1>3, PTL DEF Spec

-----------------------------------------------------------------------------
(***************************************************************************)
(* What the second pass works on, compared with what the first has asked   *)
(* about.  The objects of its context, in the data as they are now, are    *)
(* those of the parser's context in the data the line began with, under    *)
(* names the server has given; and when the contexts are the same, they    *)
(* are among those.                                                        *)
(***************************************************************************)
Meant(q, o) == Len(q[2]) = Len(o[2]) /\ Covers(q, o)
Narrower(v, c, w, b, i) ==
    /\ \A o \in Narrowing(w, b)[i] : \E q \in Narrowing(v, c)[i] : Meant(q, o)
    /\ (\A j \in 1 .. i : b[j] = c[j]) => Narrowing(w, b)[i] \subseteq Narrowing(v, c)[i]
Narrowly(v, c, w, b) == Len(b) = Len(c) /\ \A i \in 1 .. Len(b) : Narrower(v, c, w, b, i)

LEMMA MeantSelf == ASSUME NEW o, IsSequence(o[2]) PROVE Meant(o, o)
<1>1. Len(o[2]) \in Nat
  BY SequenceShape
<1>. QED
  BY <1>1 DEF Meant, Covers

LEMMA CoversMeant ==
    ASSUME NEW p, NEW q, NEW o, IsSequence(p[2]), IsSequence(q[2]), Covers(p, q), Meant(q, o)
    PROVE  Covers(p, o)
<1>1. Len(p[2]) \in Nat /\ Len(q[2]) \in Nat /\ Len(q[2]) = Len(o[2]) /\ Len(p[2]) <= Len(q[2])
  BY SequenceShape DEF Meant, Covers
<1>2. ASSUME NEW i \in 1 .. Len(p[2]) PROVE p[2][i] \in {o[2][i], NoName}
  <2>1. i \in 1 .. Len(q[2])
    BY <1>1
  <2>2. p[2][i] \in {q[2][i], NoName} /\ q[2][i] \in {o[2][i], NoName}
    BY <2>1 DEF Meant, Covers
  <2>. QED
    BY <2>2
<1>3. Len(p[2]) = Len(o[2]) => p[1] = o[1]
  BY <1>1 DEF Meant, Covers
<1>. QED
  BY <1>1, <1>2, <1>3 DEF Covers

LEMMA MeantNext ==
    ASSUME NEW p, NEW q, IsSequence(p), IsSequence(q), Len(q) = Len(p), \A i \in 1 .. Len(q) : q[i] \in {p[i], NoName},
           NEW m, NEW n, n \in {m, NoName}, NEW k
    PROVE  Meant(<<k, Append(q, n)>>, <<k, Append(p, m)>>)
<1>1. PICK r, s, l : r = Append(q, n) /\ s = Append(p, m) /\ l = Len(q)
  OBVIOUS
<1>2. /\ IsSequence(r) /\ Len(r) = l + 1 /\ r[l + 1] = n /\ l \in Nat
      /\ \A i \in 1 .. l : r[i] = q[i]
  BY <1>1, AppendedSequence, SequenceShape
<1>3. /\ IsSequence(s) /\ Len(s) = l + 1 /\ s[l + 1] = m
      /\ \A i \in 1 .. l : s[i] = p[i]
  BY <1>1, AppendedSequence, SequenceShape
<1>4. ASSUME NEW i \in 1 .. (l + 1) PROVE r[i] \in {s[i], NoName}
  <2>1. i \in 1 .. l \/ i = l + 1
    BY <1>2
  <2>. QED
    BY <1>1, <1>2, <1>3, <2>1
<1>5. PICK x, y : x = <<k, r>> /\ y = <<k, s>>
  OBVIOUS
<1>6. x[1] = y[1] /\ x[2] = r /\ y[2] = s
  BY <1>5
<1>7. Meant(x, y)
  BY <1>2, <1>3, <1>4, <1>6 DEF Meant, Covers
<1>. QED
  BY <1>1, <1>5, <1>7

LEMMA SelfNarrowly ==
    ASSUME NEW v, IsData(v), NEW c, IsSequence(c), KindsNest(c) PROVE Narrowly(v, c, v, c)
<1>1. ASSUME NEW i \in 1 .. Len(c), NEW o \in Narrowing(v, c)[i] PROVE Meant(o, o)
  <2>1. Typed(Narrowing(v, c)[i], c[i][2])
    BY NarrowingTyped
  <2>2. IsSequence(o[2])
    BY <2>1 DEF Typed
  <2>. QED
    BY <2>2, MeantSelf
<1>. QED
  BY <1>1 DEF Narrowly, Narrower

\* One item less, and one more.
LEMMA FrontNarrowly ==
    ASSUME NEW v, NEW w, NEW c, NEW b, IsSequence(c), IsSequence(b), c # <<>>, Narrowly(v, c, w, b)
    PROVE  Narrowly(v, Front(c), w, Front(b))
<1>1. PICK d, e, m : d = Front(c) /\ e = Front(b) /\ m = Len(c) - 1
  OBVIOUS
<1>2. IsSequence(d) /\ Len(d) = m /\ m \in Nat /\ m <= Len(c) /\ m <= Len(d) /\ \A i \in 1 .. m : d[i] = c[i] /\ i \in 1 .. Len(c)
  BY <1>1, FrontOfSequence
<1>3. b # <<>> /\ Len(b) = Len(c)
  <2>1. Len(b) = Len(c)
    BY DEF Narrowly
  <2>. QED
    BY <1>1, <1>2, <2>1, EmptySequence
<1>4. IsSequence(e) /\ Len(e) = m /\ m <= Len(b) /\ m <= Len(e) /\ \A i \in 1 .. m : e[i] = b[i]
  BY <1>1, <1>2, <1>3, FrontOfSequence
<1>5. ASSUME NEW i \in 1 .. m PROVE Narrower(v, d, w, e, i)
  <2>1. Narrowing(v, d)[i] = Narrowing(v, c)[i]
    BY <1>2, NarrowingStart
  <2>2. Narrowing(w, e)[i] = Narrowing(w, b)[i]
    BY <1>2, <1>4, NarrowingStart
  <2>3. Narrower(v, c, w, b, i)
    BY <1>2, <1>3 DEF Narrowly
  <2>4. \A j \in 1 .. i : j \in 1 .. m
    BY <1>2
  <2>5. (\A j \in 1 .. i : e[j] = d[j]) => (\A j \in 1 .. i : b[j] = c[j])
    BY <1>2, <1>4, <2>4
  <2>. QED
    BY <2>1, <2>2, <2>3, <2>5 DEF Narrower
<1>. QED
  BY <1>1, <1>2, <1>4, <1>5 DEF Narrowly

LEMMA LastNarrowly ==
    ASSUME NEW v, NEW w, NEW c, NEW b, IsSequence(c), IsSequence(b), Narrowly(v, c, w, b), NEW x, NEW y,
           \A o \in ExpandIn(w, Append(b, x)) : \E q \in ExpandIn(v, Append(c, y)) : Meant(q, o),
           Append(b, x) = Append(c, y) => ExpandIn(w, Append(b, x)) \subseteq ExpandIn(v, Append(c, y))
    PROVE  Narrowly(v, Append(c, y), w, Append(b, x))
<1>1. PICK d, e, m : d = Append(c, y) /\ e = Append(b, x) /\ m = Len(c)
  OBVIOUS
<1>2. IsSequence(d) /\ Len(d) = m + 1 /\ m \in Nat /\ m <= Len(c) /\ m <= Len(d) /\ \A i \in 1 .. m : d[i] = c[i]
  BY <1>1, AppendedSequence, SequenceShape
<1>3. IsSequence(e) /\ Len(e) = m + 1 /\ Len(b) = m /\ m <= Len(b) /\ m <= Len(e) /\ \A i \in 1 .. m : e[i] = b[i]
  BY <1>1, <1>2, AppendedSequence, SequenceShape DEF Narrowly
<1>4. ASSUME NEW i \in 1 .. m PROVE Narrower(v, d, w, e, i)
  <2>1. Narrowing(v, d)[i] = Narrowing(v, c)[i]
    BY <1>2, NarrowingStart
  <2>2. Narrowing(w, e)[i] = Narrowing(w, b)[i]
    BY <1>2, <1>3, NarrowingStart
  <2>3. Narrower(v, c, w, b, i)
    BY <1>3 DEF Narrowly
  <2>4. \A j \in 1 .. i : j \in 1 .. m
    BY <1>2
  <2>5. (\A j \in 1 .. i : e[j] = d[j]) => (\A j \in 1 .. i : b[j] = c[j])
    BY <1>2, <1>3, <2>4
  <2>. QED
    BY <2>1, <2>2, <2>3, <2>5 DEF Narrower
<1>5. Narrower(v, d, w, e, m + 1)
  <2>1. d # <<>> /\ e # <<>>
    BY <1>2, <1>3
  <2>2. ExpandIn(v, d) = Narrowing(v, d)[m + 1] /\ ExpandIn(w, e) = Narrowing(w, e)[m + 1]
    BY <1>2, <1>3, <2>1, ExpandsAt
  <2>3. (\A j \in 1 .. (m + 1) : e[j] = d[j]) => e = d
    BY <1>2, <1>3, SameSequences
  <2>. QED
    BY <1>1, <2>2, <2>3 DEF Narrower
<1>6. \A i \in 1 .. (m + 1) : i \in 1 .. m \/ i = m + 1
  BY <1>2
<1>. QED
  BY <1>1, <1>2, <1>3, <1>4, <1>5, <1>6 DEF Narrowly

\* What the whole contexts stand for.
LEMMA ExpandMeant ==
    ASSUME NEW v, NEW w, NEW c, NEW b, IsSequence(c), IsSequence(b), Narrowly(v, c, w, b)
    PROVE  /\ \A o \in ExpandIn(w, b) : \E q \in ExpandIn(v, c) : Meant(q, o)
           /\ b = c => ExpandIn(w, b) \subseteq ExpandIn(v, c)
<1>1. Len(b) = Len(c)
  BY DEF Narrowly
<1>2. CASE b = <<>>
  <2>1. ExpandIn(w, b) = {}
    BY <1>2, ExpandEmpty
  <2>. QED
    BY <2>1
<1>3. CASE b # <<>>
  <2>1. c # <<>>
    BY <1>1, <1>3, EmptySequence
  <2>2. Len(b) \in 1 .. Len(b) /\ ExpandIn(w, b) = Narrowing(w, b)[Len(b)] /\ ExpandIn(v, c) = Narrowing(v, c)[Len(b)]
    BY <1>1, <1>3, <2>1, ExpandsAt
  <2>3. Narrower(v, c, w, b, Len(b))
    BY <2>2 DEF Narrowly
  <2>. QED
    BY <2>2, <2>3 DEF Narrower
<1>. QED
  BY <1>2, <1>3

LEMMA StemsMeant ==
    ASSUME NEW v, IsData(v), NEW w, IsData(w), NEW c, NEW b, IsSequence(c), IsSequence(b), KindsNest(c), KindsNest(b),
           Narrowly(v, c, w, b)
    PROVE  /\ \A p \in Stems(w, b) : \E q \in Stems(v, c) : Len(q) = Len(p) /\ \A i \in 1 .. Len(q) : q[i] \in {p[i], NoName}
           /\ b = c => Stems(w, b) \subseteq Stems(v, c)
<1>1. Len(b) = Len(c)
  BY DEF Narrowly
<1>2. CASE b = <<>>
  <2>1. c = <<>>
    BY <1>1, <1>2, EmptySequence
  <2>2. Stems(w, b) = {<<>>} /\ Stems(v, c) = {<<>>}
    BY <1>2, <2>1 DEF Stems
  <2>3. \A i \in 1 .. Len(<<>>) : FALSE
    OBVIOUS
  <2>. QED
    BY <2>2, <2>3
<1>3. CASE b # <<>>
  <2>1. c # <<>>
    BY <1>1, <1>3, EmptySequence
  <2>2. Stems(w, b) = {t[2] : t \in ExpandIn(w, b)} /\ Stems(v, c) = {t[2] : t \in ExpandIn(v, c)}
    BY <1>3, <2>1 DEF Stems
  <2>3. ASSUME NEW p \in Stems(w, b)
        PROVE \E q \in Stems(v, c) : Len(q) = Len(p) /\ \A i \in 1 .. Len(q) : q[i] \in {p[i], NoName}
    <3>1. PICK o \in ExpandIn(w, b) : p = o[2]
      BY <2>2
    <3>2. PICK t \in ExpandIn(v, c) : Meant(t, o)
      BY ExpandMeant
    <3>3. t[2] \in Stems(v, c)
      BY <2>2
    <3>4. Len(t[2]) = Len(p) /\ \A i \in 1 .. Len(t[2]) : t[2][i] \in {p[i], NoName}
      BY <3>1, <3>2 DEF Meant, Covers
    <3>. QED
      BY <3>3, <3>4
  <2>4. b = c => Stems(w, b) \subseteq Stems(v, c)
    <3>1. b = c => ExpandIn(w, b) \subseteq ExpandIn(v, c)
      BY ExpandMeant
    <3>. QED
      BY <2>2, <3>1
  <2>. QED
    BY <2>3, <2>4
<1>. QED
  BY <1>2, <1>3

LEMMA NextNarrowly ==
    ASSUME NEW v, IsData(v), NEW w, IsData(w), NEW c, NEW b, IsSequence(c), IsSequence(b), KindsNest(c), KindsNest(b),
           Narrowly(v, c, w, b), NEW k, NEW name, NEW asked, asked \in {name, NoName}
    PROVE  Narrowly(v, Deeper(c, k, asked), w, Deeper(b, k, name))
<1>1. PICK x, y : x = <<"object", k, name>> /\ y = <<"object", k, asked>>
  OBVIOUS
<1>2. Deeper(c, k, asked) = Append(c, y) /\ Deeper(b, k, name) = Append(b, x)
  BY <1>1 DEF Deeper
<1>3. ASSUME NEW o \in ExpandIn(w, Deeper(b, k, name)) PROVE \E q \in ExpandIn(v, Deeper(c, k, asked)) : Meant(q, o)
  <2>1. PICK p \in Stems(w, b) : o = <<k, Append(p, name)>>
    BY NextObjects
  <2>2. PICK q \in Stems(v, c) : Len(q) = Len(p) /\ \A i \in 1 .. Len(q) : q[i] \in {p[i], NoName}
    BY StemsMeant
  <2>3. IsSequence(p) /\ IsSequence(q)
    BY StemsAre
  <2>4. <<k, Append(q, asked)>> \in ExpandIn(v, Deeper(c, k, asked))
    BY StemObjects
  <2>5. Meant(<<k, Append(q, asked)>>, o)
    BY <2>1, <2>2, <2>3, MeantNext
  <2>. QED
    BY <2>4, <2>5
<1>4. ASSUME Append(b, x) = Append(c, y), NEW o \in ExpandIn(w, Deeper(b, k, name)) PROVE o \in ExpandIn(v, Deeper(c, k, asked))
  <2>1. b = c /\ x = y
    <3>1. PICK d, e : d = Append(b, x) /\ e = Append(c, y)
      OBVIOUS
    <3>2. Last(d) = x /\ Front(d) = b /\ Last(e) = y /\ Front(e) = c
      BY <3>1, EndsOf
    <3>. QED
      BY <1>4, <3>1, <3>2
  <2>2. PICK p \in Stems(w, b) : o = <<k, Append(p, name)>>
    BY NextObjects
  <2>3. p \in Stems(v, c)
    BY <2>1, StemsMeant
  <2>4. name = asked
    BY <1>1, <2>1
  <2>. QED
    BY <2>2, <2>3, <2>4, StemObjects
<1>5. \A o \in ExpandIn(w, Append(b, x)) : \E q \in ExpandIn(v, Append(c, y)) : Meant(q, o)
  BY <1>2, <1>3
<1>6. Append(b, x) = Append(c, y) => ExpandIn(w, Append(b, x)) \subseteq ExpandIn(v, Append(c, y))
  BY <1>2, <1>4
<1>. QED
  BY <1>2, <1>5, <1>6, LastNarrowly

-----------------------------------------------------------------------------
(***************************************************************************)
(* A change of the data: among the objects with more names than those of   *)
(* the context's items; or among those of its last item, which must not    *)
(* gain any by it.                                                         *)
(***************************************************************************)
LEMMA LastsNarrowly ==
    ASSUME NEW v, NEW w, NEW u, IsData(w), IsData(u), NEW n \in Nat, SameBelow(w, u, n),
           NEW c, NEW b, IsSequence(b), Below(b, n), Narrowly(v, c, w, b)
    PROVE  Narrowly(v, c, u, b)
<1>1. ASSUME NEW i \in 1 .. Len(b) PROVE Narrower(v, c, u, b, i)
  <2>1. Narrowing(w, b)[i] = Narrowing(u, b)[i]
    BY NarrowingLasts
  <2>. QED
    BY <2>1 DEF Narrowly, Narrower
<1>. QED
  BY <1>1 DEF Narrowly

LEMMA FrontLasts ==
    ASSUME NEW w, NEW u, IsData(w), IsData(u), NEW b, IsSequence(b), KindsNest(b), b # <<>>,
           SameBelow(w, u, Depth[LastKind(b)]), NEW i \in 1 .. (Len(b) - 1)
    PROVE  Narrowing(w, b)[i] = Narrowing(u, b)[i]
<1>1. PICK e, m : e = Front(b) /\ m = Len(b) - 1
  OBVIOUS
<1>2. IsSequence(e) /\ Len(e) = m /\ m \in Nat /\ m <= Len(b) /\ m <= Len(e) /\ \A j \in 1 .. m : b[j] = e[j]
  <2>1. /\ Len(b) \in Nat \ {0} /\ IsSequence(Front(b)) /\ Len(Front(b)) = Len(b) - 1
        /\ \A j \in 1 .. (Len(b) - 1) : Front(b)[j] = b[j]
    BY ONLY IsSequence(b), b # <<>>, FrontOfSequence
  <2>. QED
    BY <1>1, <2>1
<1>3. i \in 1 .. m /\ i \in 1 .. Len(e)
  BY <1>1, <1>2
<1>4. Narrowing(w, b)[i] = Narrowing(w, e)[i] /\ Narrowing(u, b)[i] = Narrowing(u, e)[i]
  BY <1>2, <1>3, NarrowingStart
<1>5. Below(e, Depth[LastKind(b)]) /\ Depth[LastKind(b)] \in Nat
  BY <1>1, BelowLast
<1>6. Narrowing(w, e)[i] = Narrowing(u, e)[i]
  BY <1>2, <1>3, <1>5, NarrowingLasts
<1>. QED
  BY <1>4, <1>6

LEMMA StayNarrowly ==
    ASSUME NEW v, NEW w, NEW u, IsData(w), IsData(u), NEW c, NEW b, IsSequence(b), KindsNest(b), b # <<>>,
           SameBelow(w, u, Depth[LastKind(b)]), ExpandIn(u, b) \subseteq ExpandIn(w, b), Narrowly(v, c, w, b)
    PROVE  Narrowly(v, c, u, b)
<1>1. Len(b) \in Nat
  BY SequenceShape
<1>2. ASSUME NEW i \in 1 .. Len(b) PROVE Narrower(v, c, u, b, i)
  <2>1. Narrowing(u, b)[i] \subseteq Narrowing(w, b)[i]
    <3>1. CASE i = Len(b)
      BY <3>1, ExpandsAt
    <3>2. CASE i # Len(b)
      <4>1. i \in 1 .. (Len(b) - 1)
        BY <1>1, <3>2
      <4>. QED
        BY <4>1, FrontLasts
    <3>. QED
      BY <3>1, <3>2
  <2>. QED
    BY <2>1 DEF Narrowly, Narrower
<1>. QED
  BY <1>2 DEF Narrowly

\* What the last item stands for, by what the one before it does.
LEMMA LastStep ==
    ASSUME NEW w, NEW u, IsData(w), IsData(u), NEW b, IsSequence(b), KindsNest(b), b # <<>>,
           SameBelow(w, u, Depth[LastKind(b)])
    PROVE  \E before : /\ ExpandIn(w, b) = StepAt(w, b, Len(b), before)
                       /\ ExpandIn(u, b) = StepAt(u, b, Len(b), before)
<1>1. PICK n, p, q : n = Len(b) /\ p = Narrowing(w, b)[n - 1] /\ q = Narrowing(u, b)[n - 1]
  OBVIOUS
<1>2. n \in 1 .. Len(b) /\ ExpandIn(w, b) = Narrowing(w, b)[n] /\ ExpandIn(u, b) = Narrowing(u, b)[n]
  BY <1>1, ExpandsAt
<1>3. ExpandIn(w, b) = StepAt(w, b, n, p) /\ ExpandIn(u, b) = StepAt(u, b, n, q)
  BY <1>1, <1>2, NarrowingAt
<1>4. CASE n = 1
  BY <1>1, <1>3, <1>4, FirstStep
<1>5. CASE n # 1
  <2>1. n - 1 \in 1 .. (Len(b) - 1)
    BY <1>1, <1>2, <1>5, SequenceShape
  <2>2. p = q
    BY <1>1, <2>1, FrontLasts
  <2>. QED
    BY <1>1, <1>3, <2>2
<1>. QED
  BY <1>4, <1>5

LEMMA LastShrinks ==
    ASSUME NEW w, NEW u, IsData(w), IsData(u), NEW b, IsSequence(b), KindsNest(b), b # <<>>,
           SameBelow(w, u, Depth[LastKind(b)]), NEW f, f = b[Len(b)][3],
           IsFilter(b[Len(b)]) =>
             \A o \in u.objs : o[1] = LastKind(b) /\ Matches(u, o, f) => o \in w.objs /\ Matches(w, o, f)
    PROVE  ExpandIn(u, b) \subseteq ExpandIn(w, b)
<1>1. PICK before : ExpandIn(w, b) = StepAt(w, b, Len(b), before) /\ ExpandIn(u, b) = StepAt(u, b, Len(b), before)
  BY LastStep
<1>2. PICK n, k : n = Len(b) /\ k = b[n][2] /\ LastKind(b) = k
  BY LastKindOf
<1>3. CASE IsFilter(b[n])
  <2>1. /\ ExpandIn(w, b) = {o \in w.objs : o[1] = k /\ Matches(w, o, f) /\ (n = 1 \/ \E t \in before : IsUnder(o, t))}
        /\ ExpandIn(u, b) = {o \in u.objs : o[1] = k /\ Matches(u, o, f) /\ (n = 1 \/ \E t \in before : IsUnder(o, t))}
    BY <1>1, <1>2, <1>3 DEF StepAt
  <2>. QED
    BY <1>2, <1>3, <2>1
<1>4. CASE ~IsFilter(b[n])
  BY <1>1, <1>2, <1>4 DEF StepAt
<1>. QED
  BY <1>3, <1>4

LEMMA LastMatches ==
    ASSUME NEW w, NEW b, IsSequence(b), b # <<>>, IsFilter(b[Len(b)]), NEW o \in ExpandIn(w, b)
    PROVE  Matches(w, o, b[Len(b)][3])
<1>1. PICK n, before : n = Len(b) /\ before = Narrowing(w, b)[n - 1]
  OBVIOUS
<1>2. n \in 1 .. Len(b) /\ ExpandIn(w, b) = Narrowing(w, b)[n]
  BY <1>1, ExpandsAt
<1>3. o \in StepAt(w, b, n, before)
  BY <1>1, <1>2, NarrowingAt
<1>. QED
  BY <1>1, <1>3 DEF StepAt

-----------------------------------------------------------------------------
(* Contained objects that are created have another kind than the context;  *)
(* those that are restored have no filter to match; and an attribute that  *)
(* is written was given to what its filter had matched.                    *)
LEMMA CalledKind ==
    ASSUME NEW o, IsNew(o) => \E i \in DOMAIN AutoNames : IsFree(o, i)
    PROVE  Called(o)[1] = o[1]
<1>1. CASE ~IsNew(o)
  BY <1>1 DEF Called
<1>2. CASE IsNew(o)
  <2>1. PICK j \in DOMAIN AutoNames : Called(o) = AutoNamed(o, j)
    BY <1>2, CalledNew
  <2>. QED
    BY <2>1 DEF AutoNamed
<1>. QED
  BY <1>1, <1>2

LEMMA MadeStays ==
    ASSUME Shape, DataOf(db), NEW k \in Kinds, Depth[k] \in Nat, NEW S, Typed(S, k), NamesLast(S),
           NEW b, IsSequence(b), KindsNest(b), b # <<>>, Depth[k] = Depth[LastKind(b)], k # LastKind(b)
    PROVE  ExpandIn(Made(S).work, b) \subseteq ExpandIn(db.work, b)
<1>1. PICK w, u, f, j : w = db.work /\ u = Made(S).work /\ f = b[Len(b)][3] /\ j = LastKind(b)
  OBVIOUS
<1>2. IsData(w) /\ IsData(u) /\ SameBelow(w, u, Depth[LastKind(b)])
  BY <1>1, MadeData DEF DataOf
<1>3. u.objs = w.objs \cup {Called(o) : o \in ToCreate(S)}
  BY <1>1, MadeObjects
<1>4. u.set = w.set
  <2>1. PICK T : T = {Called(o) : o \in ToCreate(S)}
    OBVIOUS
  <2>2. Made(S) = [db EXCEPT !.work = [db.work EXCEPT !.objs = @ \cup T]]
    BY <2>1 DEF Made, Working, With
  <2>. QED
    BY <1>1, <2>2 DEF Shape, DbShape, DbFields, ViewFields
<1>5. ASSUME NEW o \in u.objs, o[1] = j PROVE o \in w.objs
  <2>1. SUFFICES ASSUME NEW p \in ToCreate(S), o = Called(p) PROVE FALSE
    BY <1>3
  <2>2. p \in S
    BY ToCreateSome
  <2>3. p[1] = k /\ (IsNew(p) => \E i \in DOMAIN AutoNames : IsFree(p, i))
    BY <2>2 DEF Typed, NamesLast
  <2>4. o[1] = k
    BY <2>1, <2>3, CalledKind
  <2>. QED
    BY <1>1, <1>5, <2>4
<1>6. ASSUME NEW o \in u.objs, o[1] = LastKind(b), Matches(u, o, f) PROVE o \in w.objs /\ Matches(w, o, f)
  BY <1>1, <1>4, <1>5, <1>6 DEF Matches
<1>7. ExpandIn(u, b) \subseteq ExpandIn(w, b)
  BY <1>1, <1>2, <1>6, LastShrinks
<1>. QED
  BY <1>1, <1>7

LEMMA NamedStays == ASSUME NEW b, ~HasFilter(b), NEW v, NEW w PROVE ExpandIn(v, b) = ExpandIn(w, b)
BY DEF ExpandIn

LEMMA ChangedMatches ==
    ASSUME NEW w, NEW b, IsSequence(b), b # <<>>, NEW k, NEW f, f = b[Len(b)][3], IsFilter(b[Len(b)]),
           NEW o \in ExpandIn(w, IF k = LastKind(b) THEN b ELSE Adjusted(b, k))
    PROVE  Matches(w, o, f)
<1>1. CASE k = LastKind(b)
  BY <1>1, LastMatches
<1>2. CASE k # LastKind(b)
  <2>1. PICK n, d : n = Len(b) /\ d = Adjusted(b, k)
    OBVIOUS
  <2>2. n \in 1 .. Len(b) /\ DOMAIN b = 1 .. Len(b)
    BY <2>1, LastKindOf, SequenceShape
  <2>3. d = [b EXCEPT ![n] = <<@[1], k, @[3]>>]
    BY <2>1 DEF Adjusted
  <2>4. IsSequence(d) /\ d # <<>>
    BY <2>1, AdjustedKind
  <2>5. DOMAIN d = DOMAIN b /\ d[n] = <<b[n][1], k, b[n][3]>>
    BY <2>2, <2>3
  <2>6. Len(d) = n /\ IsFilter(d[n]) /\ d[n][3] = f
    <3>1. Len(d) \in Nat /\ n \in Nat /\ 1 .. Len(d) = 1 .. n
      BY <2>1, <2>2, <2>4, <2>5, SequenceShape
    <3>2. Len(d) = n
      BY <2>2, <3>1
    <3>. QED
      BY <2>1, <2>5, <3>2 DEF IsFilter
  <2>7. o \in ExpandIn(w, d)
    BY <1>2, <2>1
  <2>. QED
    BY <2>4, <2>6, <2>7, LastMatches
<1>. QED
  BY <1>1, <1>2

LEMMA WrittenStays ==
    ASSUME Shape, DataOf(db), cli.changeset, NEW b, IsSequence(b), KindsNest(b), b # <<>>,
           NEW k, Depth[k] \in Nat, Depth[k] = Depth[LastKind(b)],
           NEW S, S = Changed(b, k), S \subseteq db.work.objs, \A o \in S : o[1] = k, NEW a, NEW there
    PROVE  ExpandIn(Written(S, a, there).work, b) \subseteq ExpandIn(db.work, b)
<1>1. PICK w, u, f, j : w = db.work /\ u = Written(S, a, there).work /\ f = b[Len(b)][3] /\ j = LastKind(b)
  OBVIOUS
<1>2. IsData(w) /\ IsData(u) /\ SameBelow(w, u, Depth[LastKind(b)])
  BY <1>1, WrittenData DEF DataOf
<1>3. PICK new : new = {<<o, a>> : o \in S}
  OBVIOUS
<1>4. u.objs = w.objs /\ u.set \subseteq w.set \cup new
  <2>1. Written(S, a, there) = [db EXCEPT !.work = [db.work EXCEPT !.set = IF there THEN @ \cup new ELSE @ \ new]]
    BY <1>3 DEF Written, Working
  <2>. QED
    BY <1>1, <2>1 DEF Shape, DbShape, DbFields, ViewFields
<1>5. ASSUME NEW o \in u.objs, Matches(u, o, f), IsFilter(b[Len(b)]) PROVE Matches(w, o, f)
  <2>1. CASE f = <<>>
    BY <2>1 DEF Matches
  <2>2. CASE f # <<>>
    <3>1. PICK x, s : x = <<f[1], o[2]>> /\ s = <<x, f[2]>>
      OBVIOUS
    <3>2. s \in u.set
      BY <1>5, <2>2, <3>1 DEF Matches
    <3>3. CASE s \in w.set
      BY <3>1, <3>3 DEF Matches
    <3>4. CASE s \in new
      <4>1. PICK y \in S : s = <<y, a>>
        BY <1>3, <3>4
      <4>2. x = y /\ x[1] = f[1] /\ x[2] = o[2]
        BY <3>1, <4>1
      <4>3. S = ExpandIn(w, IF k = LastKind(b) THEN b ELSE Adjusted(b, k))
        BY <1>1, ViewHere DEF Changed
      <4>4. Matches(w, y, f)
        BY <1>1, <1>5, <4>1, <4>3, ChangedMatches
      <4>5. <<<<f[1], y[2]>>, f[2]>> \in w.set
        BY <2>2, <4>4 DEF Matches
      <4>. QED
        BY <4>2, <4>5 DEF Matches
    <3>. QED
      BY <1>4, <3>2, <3>3, <3>4
  <2>. QED
    BY <2>1, <2>2
<1>6. IsFilter(b[Len(b)]) => \A o \in u.objs : o[1] = LastKind(b) /\ Matches(u, o, f) => o \in w.objs /\ Matches(w, o, f)
  BY <1>4, <1>5
<1>7. ExpandIn(u, b) \subseteq ExpandIn(w, b)
  BY <1>1, <1>2, <1>6, LastShrinks
<1>. QED
  BY <1>1, <1>7

-----------------------------------------------------------------------------
(***************************************************************************)
(* What the user was asked about.  The first pass has heard of every       *)
(* object that a signal may create, or has found it; the second works on   *)
(* objects that were meant there, in the data as it has made them.         *)
(***************************************************************************)
Sure(o) == \E q \in past.asked : IsSequence(q[2]) /\ Covers(q, o)
SureAll(S) == \A o \in S : Sure(o)
Within(v, s) == {<<s[3], o[2]>> : o \in ExpandIn(v, s[2])}
Answered(v, s) ==
    /\ s[1] \in {"create", "enter"} =>
         \/ SureAll(ExpandIn(v, s[2]))
         \/ s[1] = "enter" /\ Named(s[2]) /\ AllExist(ExpandIn(v, s[2]))
    /\ s[1] \in {"set", "add"} /\ s[3] # LastKind(s[2]) => SureAll(Within(v, s)) \/ (Named(s[2]) /\ AllExist(Within(v, s)))
Looks(s) == s[1] \in {"left", "filter", "show"}
Watched == cli.changeset /\ Asks /\ ~LateFilter
Hearing(v, sig, k, cs) ==
    /\ v = db.work /\ sig = line.sig
    /\ k \in 0 .. (Len(sig) - 1) /\ Behind(k) /\ Along(line.backup, sig, cs) /\ KindsNest(cs[k])
    /\ \A i \in 1 .. k : Answered(v, sig[i])
    /\ line.auto => cs[k] # <<>> /\ SureAll(ExpandIn(v, cs[k]))
Here(v, w, b, sig, k, cs) ==
    /\ w = db.work /\ b = line.ctx /\ sig = line.sig
    /\ k \in 0 .. (Len(sig) - 1) /\ Behind(k) /\ Along(line.backup, sig, cs) /\ KindsNest(cs[k])
    /\ \A i \in (k + 1) .. Len(sig) : Answered(v, sig[i])
    /\ IsData(v) /\ Narrowly(v, cs[k], w, b) /\ SameContext(b, cs[k])
    /\ (\A i \in 1 .. (k + 1) : Looks(sig[i])) => w = v /\ b = cs[k]
Hears == line.phase = "confirm" /\ line.todo # <<>> /\ Watched => \E v, sig, k, cs : Hearing(v, sig, k, cs)
Works == line.phase = "apply" /\ Watched /\ ~AllLeft(line.todo) => \E v, w, b, sig, k, cs : Here(v, w, b, sig, k, cs)
UInv == Hears /\ Works

\* What was heard stays so as long as the data only grow, and the cache does not forget.
Keeps(known) ==
    /\ DOMAIN cli.known \subseteq DOMAIN known
    /\ \A o \in DOMAIN known : cli.stable /\ Exists(o) => known[o]
Lasting ==
    /\ past.asked \subseteq past'.asked
    /\ cli'.changeset = cli.changeset /\ cli'.stable = cli.stable /\ db.work.objs \subseteq db'.work.objs
    /\ Keeps(cli'.known)

LEMMA ExistsLasts == ASSUME cli.changeset, Lasting, NEW o, Exists(o) PROVE Exists(o)'
<1>1. View = db.work /\ View' = db'.work
  BY DEF Lasting, View
<1>2. CASE cli.stable /\ o \in DOMAIN cli'.known
  <2>1. cli'.known[o] /\ cli'.stable
    BY <1>2 DEF Lasting, Keeps
  <2>. QED
    BY <1>2, <2>1 DEF Exists, Knows
<1>3. CASE ~(cli.stable /\ o \in DOMAIN cli'.known)
  <2>1. ~Knows(o) /\ ~Knows(o)'
    BY <1>3 DEF Lasting, Keeps, Knows
  <2>2. o \in db.work.objs
    BY <1>1, <2>1 DEF Exists
  <2>3. o \in db'.work.objs
    BY <2>2 DEF Lasting
  <2>. QED
    BY <1>1, <2>1, <2>3 DEF Exists
<1>. QED
  BY <1>2, <1>3

LEMMA SureLasts == ASSUME Lasting, NEW S, SureAll(S) PROVE SureAll(S)'
BY DEF Lasting, SureAll, Sure

LEMMA AllExistLasts == ASSUME cli.changeset, Lasting, NEW S, AllExist(S) PROVE AllExist(S)'
BY ExistsLasts DEF AllExist

LEMMA AnsweredLasts == ASSUME cli.changeset, Lasting, NEW v, NEW s, Answered(v, s) PROVE Answered(v, s)'
<1>1. PICK S, T : S = ExpandIn(v, s[2]) /\ T = Within(v, s)
  OBVIOUS
<1>2. (SureAll(S) => SureAll(S)') /\ (SureAll(T) => SureAll(T)')
  BY SureLasts
<1>3. (AllExist(S) => AllExist(S)') /\ (AllExist(T) => AllExist(T)')
  BY AllExistLasts
<1>. QED
  BY <1>1, <1>2, <1>3 DEF Answered

LEMMA KnownKeeps == Keeps(cli.known)
BY DEF Keeps, Exists, Knows

LEMMA LookedKeeps == ASSUME NEW S PROVE Keeps(Looked(S))
BY DEF Keeps, Looked, Exists, Knows

LEMMA ToldKeeps == ASSUME NEW known, Keeps(known), NEW S PROVE Keeps(Told(known, S, TRUE))
BY DEF Keeps, Told

LEMMA CreatingKeeps == ASSUME NEW S PROVE Keeps(Remembered(S)) /\ Keeps(NowKnown(S)) /\ Keeps(KnownAgain(S))
<1>1. Keeps(Looked(S)) /\ Keeps(cli.known)
  BY LookedKeeps, KnownKeeps
<1>2. Keeps(Remembered(S))
  BY <1>1, ToldKeeps DEF Remembered
<1>3. Keeps(NowKnown(S))
  BY <1>1, <1>2, ToldKeeps DEF NowKnown
<1>4. Keeps(KnownAgain(S))
  BY <1>1, ToldKeeps DEF KnownAgain
<1>. QED
  BY <1>2, <1>3, <1>4

-----------------------------------------------------------------------------
(* What an answer stands for stands for what is nested in it.              *)
LEMMA CoversUnder ==
    ASSUME NEW q, NEW t, NEW o, IsSequence(q[2]), IsSequence(t[2]), IsSequence(o[2]), Len(t[2]) < Len(o[2]),
           \A i \in 1 .. Len(t[2]) : t[2][i] = o[2][i], Covers(q, t)
    PROVE  Covers(q, o)
<1>1. Len(q[2]) \in Nat /\ Len(t[2]) \in Nat /\ Len(o[2]) \in Nat /\ Len(q[2]) <= Len(t[2])
  BY SequenceShape DEF Covers
<1>2. Len(q[2]) <= Len(o[2]) /\ Len(q[2]) # Len(o[2])
  BY <1>1
<1>3. ASSUME NEW i \in 1 .. Len(q[2]) PROVE q[2][i] \in {o[2][i], NoName}
  <2>1. i \in 1 .. Len(t[2])
    BY <1>1
  <2>. QED
    BY <2>1 DEF Covers
<1>. QED
  BY <1>2, <1>3 DEF Covers

LEMMA AutoUnder ==
    ASSUME NEW v, IsData(v), NEW c, IsSequence(c), KindsNest(c), c # <<>>, SureAll(ExpandIn(v, c)),
           NEW s, s[1] # "left", NEW d, After(c, s, d)
    PROVE  d # <<>> /\ SureAll(ExpandIn(v, d))
<1>1. \A t \in ExpandIn(v, c) : IsSequence(t[2])
  BY ExpandTyped DEF Typed
<1>2. CASE s[1] \in {"enter", "create"}
  <2>1. PICK k, n : d = Deeper(c, k, n)
    BY <1>2 DEF After, Deeper
  <2>2. ASSUME NEW o \in ExpandIn(v, d) PROVE Sure(o)
    <3>1. PICK p \in Stems(v, c) : o = <<k, Append(p, n)>>
      BY <2>1, <2>2, NextObjects
    <3>2. PICK t \in ExpandIn(v, c) : p = t[2]
      BY <3>1 DEF Stems
    <3>3. PICK q \in past.asked : IsSequence(q[2]) /\ Covers(q, t)
      BY DEF SureAll, Sure
    <3>4. PICK e : e = Append(p, n)
      OBVIOUS
    <3>5. IsSequence(p) /\ IsSequence(e) /\ Len(e) = Len(p) + 1 /\ Len(p) \in Nat /\ \A i \in 1 .. Len(p) : e[i] = p[i]
      BY <1>1, <3>2, <3>4, AppendedSequence, SequenceShape
    <3>6. o[2] = e
      BY <3>1, <3>4
    <3>7. Covers(q, o)
      BY <1>1, <3>2, <3>3, <3>5, <3>6, CoversUnder
    <3>. QED
      BY <3>3, <3>7 DEF Sure
  <2>3. d # <<>>
    BY <2>1, DeeperIs
  <2>. QED
    BY <2>2, <2>3 DEF SureAll
<1>3. CASE s[1] = "filter"
  <2>1. PICK x, m : x = <<"filter", s[3], s[4]>> /\ d = Append(c, x) /\ m = Len(c)
    BY <1>3 DEF After
  <2>2. /\ IsSequence(d) /\ Len(d) = m + 1 /\ d[m + 1] = x /\ m \in Nat /\ m <= Len(c) /\ m <= Len(d)
        /\ \A i \in 1 .. m : d[i] = c[i]
    BY <2>1, AppendedSequence, SequenceShape
  <2>3. m \in 1 .. m /\ m + 1 # 1 /\ (m + 1) - 1 = m /\ m + 1 \in 1 .. Len(d)
    <3>1. m # 0
      BY <2>1, EmptySequence
    <3>. QED
      BY <2>2, <3>1
  <2>4. d # <<>>
    BY <2>2
  <2>5. Narrowing(v, d)[m] = ExpandIn(v, c)
    <3>1. Narrowing(v, d)[m] = Narrowing(v, c)[m]
      BY <2>2, <2>3, NarrowingStart
    <3>. QED
      BY <2>1, <3>1, ExpandsAt
  <2>6. PICK j : j = m + 1
    OBVIOUS
  <2>7. ExpandIn(v, d) = StepAt(v, d, j, ExpandIn(v, c))
    <3>1. ExpandIn(v, d) = Narrowing(v, d)[j]
      BY <2>2, <2>4, <2>6, ExpandsAt
    <3>2. Narrowing(v, d)[j] = StepAt(v, d, j, Narrowing(v, d)[j - 1])
      BY <2>2, <2>3, <2>6, NarrowingAt
    <3>. QED
      BY <2>3, <2>5, <2>6, <3>1, <3>2
  <2>8. IsFilter(d[j]) /\ j # 1
    BY <2>1, <2>2, <2>3, <2>6 DEF IsFilter
  <2>9. ASSUME NEW o \in ExpandIn(v, d) PROVE Sure(o)
    <3>1. o \in v.objs /\ \E t \in ExpandIn(v, c) : IsUnder(o, t)
      BY <2>7, <2>8, <2>9 DEF StepAt
    <3>2. PICK t \in ExpandIn(v, c) : IsUnder(o, t)
      BY <3>1
    <3>3. PICK q \in past.asked : IsSequence(q[2]) /\ Covers(q, t)
      BY DEF SureAll, Sure
    <3>4. PICK n, e, p : n = Len(t[2]) /\ e = o[2] /\ p = t[2]
      OBVIOUS
    <3>5. IsSequence(e) /\ IsSequence(p) /\ n < Len(e) /\ p = SubSeq(e, 1, n) /\ n \in Nat /\ Len(e) \in Nat
      BY <1>1, <3>1, <3>2, <3>4, DataObject, SequenceShape DEF IsUnder
    <3>6. n <= Len(e)
      BY <3>5
    <3>7. \A i \in 1 .. n : p[i] = e[i]
      BY <3>5, <3>6, StartOfSequence
    <3>8. Covers(q, o)
      BY <3>3, <3>4, <3>5, <3>7, CoversUnder
    <3>. QED
      BY <3>3, <3>8 DEF Sure
  <2>. QED
    BY <2>4, <2>9 DEF SureAll
<1>4. CASE s[1] \notin {"left", "enter", "create", "filter"}
  BY <1>4 DEF After
<1>. QED
  BY <1>2, <1>3, <1>4

\* The contexts between the signals nest.
LEMMA CarriesNest ==
    ASSUME NEW c, IsSequence(c), KindsNest(c), NEW s, NestedSignal(s), NEW d, After(c, s, d)
    PROVE  KindsNest(d)
<1>1. CASE s[1] = "left"
  BY <1>1, FrontNests DEF After
<1>2. CASE s[1] \in {"enter", "create"}
  BY <1>2 DEF After, NestedSignal
<1>3. CASE s[1] = "filter"
  BY <1>3 DEF After, NestedSignal
<1>4. CASE s[1] \notin {"left", "enter", "create", "filter"}
  BY <1>4 DEF After
<1>. QED
  BY <1>1, <1>2, <1>3, <1>4

LEMMA Between ==
    ASSUME Shape, IsRest(line.sig), NEW sig, sig = line.sig, NEW k \in 0 .. (Len(sig) - 1), Behind(k),
           NEW cs, Along(line.backup, sig, cs), KindsNest(cs[k])
    PROVE  /\ IsSequence(sig) /\ Len(sig) \in Nat /\ k \in Nat /\ k + 1 \in 1 .. Len(sig) /\ k < Len(sig)
           /\ Len(line.todo) = Len(sig) - k /\ Signal = sig[k + 1]
           /\ Tail(line.todo) = SubSeq(sig, (k + 1) + 1, Len(sig))
           /\ IsSequence(cs[k]) /\ IsSequence(cs[k + 1]) /\ After(cs[k], Signal, cs[k + 1]) /\ KindsNest(cs[k + 1])
           /\ NestedSignal(Signal)
<1>1. IsSequence(sig) /\ Len(sig) \in Nat
  BY SequenceShape DEF Shape, LineShape
<1>2. k \in Nat /\ k < Len(sig) /\ k + 1 \in 1 .. Len(sig) /\ (k + 1) - 1 = k /\ k \in 0 .. Len(sig) /\ k + 1 \in 0 .. Len(sig)
  BY <1>1
<1>3. /\ Len(line.todo) = Len(sig) - k /\ Signal = sig[k + 1]
      /\ Tail(line.todo) = SubSeq(sig, (k + 1) + 1, Len(sig))
  BY <1>1, <1>2, SignalsLeft DEF Behind, Signal
<1>4. IsSequence(cs[k]) /\ IsSequence(cs[k + 1]) /\ After(cs[k], Signal, cs[k + 1])
  <2>1. After(cs[(k + 1) - 1], sig[k + 1], cs[k + 1]) /\ IsSequence(cs[k]) /\ IsSequence(cs[k + 1])
    BY <1>2 DEF Along
  <2>. QED
    BY <1>2, <1>3, <2>1
<1>5. NestedSignal(Signal)
  BY <1>2, <1>3 DEF IsRest
<1>6. KindsNest(cs[k + 1])
  <2>1. PICK c, s, d : c = cs[k] /\ s = Signal /\ d = cs[k + 1]
    OBVIOUS
  <2>. QED
    BY <1>4, <1>5, <2>1, CarriesNest
<1>. QED
  BY <1>1, <1>2, <1>3, <1>4, <1>5, <1>6

-----------------------------------------------------------------------------
(***************************************************************************)
(* The first pass: each signal that is confirmed is answered.              *)
(***************************************************************************)
LEMMA Unwatched == ASSUME line'.phase \notin {"confirm", "apply"} \/ ~Watched' PROVE UInv'
BY DEF UInv, Hears, Works

LEMMA ConfirmedLasts ==
    ASSUME Shape, NEW known, NEW auto, Confirmed(known, auto), Keeps(known), past.asked \subseteq past'.asked
    PROVE  /\ Lasting /\ db' = db /\ (Watched' => Watched)
           /\ line'.sig = line.sig /\ line'.backup = line.backup /\ line'.ctx = line.ctx /\ line'.auto = auto
           /\ Len(line.todo) = 1 => line'.phase = "apply" /\ line'.todo = line.sig
           /\ Len(line.todo) # 1 => line'.phase = line.phase /\ line'.todo = Tail(line.todo)
<1>1. cli' = [cli EXCEPT !.known = known] /\ db' = db
  BY DEF Confirmed
<1>2. /\ cli'.known = known /\ cli'.changeset = cli.changeset /\ cli'.stable = cli.stable
      /\ cli'.quiet = cli.quiet /\ cli'.force = cli.force
  BY <1>1 DEF Shape, CliShape, CliFields
<1>3. Lasting
  BY <1>1, <1>2 DEF Lasting
<1>4. /\ line'.sig = line.sig /\ line'.backup = line.backup /\ line'.ctx = line.ctx /\ line'.auto = auto
      /\ Len(line.todo) = 1 => line'.phase = "apply" /\ line'.todo = line.sig
      /\ Len(line.todo) # 1 => line'.phase = line.phase /\ line'.todo = Tail(line.todo)
  BY DEF Confirmed, Shape, LineShape, LineFields
<1>5. Watched' => Watched
  BY <1>2, <1>4 DEF Watched, Asks, LateFilter
<1>. QED
  BY <1>1, <1>3, <1>4, <1>5

LEMMA ConfirmedSure ==
    ASSUME IInv, NInv, UInv, line.phase = "confirm", line.todo # <<>>,
           NEW known, NEW auto, Confirmed(known, auto), Keeps(known), past.asked \subseteq past'.asked,
           NEW v, v = db.work, NEW s, s = Signal,
           Watched => Answered(v, s)' \/ (line.auto /\ s[1] = "enter"),
           auto => (line.auto /\ s[1] # "left") \/ (s[1] = "enter" /\ SureAll(ExpandIn(v, s[2]))')
    PROVE  UInv'
<1>1. Shape
  BY DEF IInv
<1>2. /\ Lasting /\ db' = db /\ (Watched' => Watched)
      /\ line'.sig = line.sig /\ line'.backup = line.backup /\ line'.ctx = line.ctx /\ line'.auto = auto
      /\ Len(line.todo) = 1 => line'.phase = "apply" /\ line'.todo = line.sig
      /\ Len(line.todo) # 1 => line'.phase = line.phase /\ line'.todo = Tail(line.todo)
  BY <1>1, ConfirmedLasts
<1>3. SUFFICES ASSUME Watched PROVE UInv'
  BY <1>2, Unwatched
<1>4. PICK u, sig, k, cs : Hearing(u, sig, k, cs)
  BY <1>3 DEF UInv, Hears
<1>5. /\ u = v /\ sig = line.sig /\ k \in 0 .. (Len(sig) - 1) /\ Behind(k) /\ Along(line.backup, sig, cs) /\ KindsNest(cs[k])
      /\ \A i \in 1 .. k : Answered(v, sig[i])
      /\ line.auto => cs[k] # <<>> /\ SureAll(ExpandIn(v, cs[k]))
  BY <1>4 DEF Hearing
<1>6. IsRest(line.sig) /\ IsData(v) /\ cli.changeset /\ KindsNest(line.backup)
  BY <1>3 DEF NInv, Nesting, InPasses, DataOf, Watched
<1>7. /\ IsSequence(sig) /\ Len(sig) \in Nat /\ k \in Nat /\ k + 1 \in 1 .. Len(sig) /\ k < Len(sig)
      /\ Len(line.todo) = Len(sig) - k /\ s = sig[k + 1]
      /\ Tail(line.todo) = SubSeq(sig, (k + 1) + 1, Len(sig))
      /\ IsSequence(cs[k]) /\ IsSequence(cs[k + 1]) /\ After(cs[k], s, cs[k + 1]) /\ KindsNest(cs[k + 1])
  BY <1>1, <1>5, <1>6, Between
<1>8. PICK c, d : c = cs[k] /\ d = cs[k + 1]
  OBVIOUS
<1>9. ASSUME line.auto, s[1] # "left" PROVE d # <<>> /\ SureAll(ExpandIn(v, d))'
  <2>1. IsSequence(c) /\ KindsNest(c) /\ c # <<>> /\ SureAll(ExpandIn(v, c)) /\ After(c, s, d)
    BY <1>5, <1>7, <1>8, <1>9
  <2>2. d # <<>> /\ SureAll(ExpandIn(v, d))
    BY <1>6, <1>9, <2>1, AutoUnder
  <2>3. PICK S : S = ExpandIn(v, d)
    OBVIOUS
  <2>4. SureAll(S) => SureAll(S)'
    BY <1>2, SureLasts
  <2>. QED
    BY <2>2, <2>3, <2>4
<1>10. s[1] = "enter" => d # <<>> /\ s[2] = d
  <2>1. SUFFICES ASSUME s[1] = "enter" PROVE d # <<>> /\ s[2] = d
    OBVIOUS
  <2>2. d = Deeper(c, s[3], s[4]) /\ s[2] = d
    BY <1>7, <1>8, <2>1 DEF After, Deeper
  <2>. QED
    BY <1>7, <1>8, <2>2, DeeperIs
<1>11. auto => d # <<>> /\ SureAll(ExpandIn(v, d))'
  BY <1>9, <1>10
<1>12. Answered(v, s)'
  <2>1. CASE Answered(v, s)'
    BY <2>1
  <2>2. CASE line.auto /\ s[1] = "enter"
    <3>1. SureAll(ExpandIn(v, s[2]))'
      BY <1>9, <1>10, <2>2
    <3>. QED
      BY <2>2, <3>1 DEF Answered
  <2>. QED
    BY <1>3, <2>1, <2>2
<1>13. ASSUME NEW i \in 1 .. (k + 1) PROVE Answered(v, sig[i])'
  <2>1. CASE i = k + 1
    BY <1>7, <1>12, <2>1
  <2>2. CASE i # k + 1
    <3>1. PICK t : t = sig[i]
      OBVIOUS
    <3>2. i \in 1 .. k
      BY <1>7, <2>2
    <3>3. Answered(v, t)
      BY <1>5, <3>1, <3>2
    <3>4. Answered(v, t)'
      BY <1>2, <1>6, <3>3, AnsweredLasts
    <3>. QED
      BY <3>1, <3>4
  <2>. QED
    BY <2>1, <2>2
<1>14. CASE Len(line.todo) = 1
  <2>1. k + 1 = Len(sig) /\ 0 \in 0 .. (Len(sig) - 1)
    <3>1. Len(sig) - k = 1
      BY <1>7, <1>14
    <3>. QED
      BY <1>7, <3>1
  <2>2. \A i \in (0 + 1) .. Len(sig) : i \in 1 .. (k + 1)
    BY <2>1
  <2>3. PICK b, e : b = line.ctx /\ e = cs[0]
    OBVIOUS
  <2>4. e = line.backup /\ b = e /\ IsSequence(e) /\ KindsNest(e)
    <3>1. line.ctx = line.backup
      BY DEF IInv, Confirms
    <3>2. IsSequence(line.backup) /\ e = line.backup
      BY <1>1, <1>5, <2>3 DEF Shape, LineShape, Along
    <3>. QED
      BY <1>6, <2>3, <3>1, <3>2
  <2>5. Narrowly(v, e, v, b) /\ SameContext(b, e)
    BY <1>6, <2>4, SelfNarrowly, SameContextSelf
  <2>6. Behind(0)'
    BY <1>2, <1>5, <1>7, <1>14, AllSignals DEF Behind
  <2>7. Here(v, v, b, sig, 0, cs)'
    BY <1>2, <1>5, <1>6, <1>13, <2>1, <2>2, <2>3, <2>4, <2>5, <2>6 DEF Here
  <2>8. line'.phase = "apply"
    BY <1>2, <1>14
  <2>. QED
    BY <2>7, <2>8 DEF UInv, Hears, Works
<1>15. CASE Len(line.todo) # 1
  <2>1. k + 1 \in 0 .. (Len(sig) - 1)
    <3>1. Len(sig) - k # 1
      BY <1>7, <1>15
    <3>. QED
      BY <1>7, <3>1
  <2>2. Behind(k + 1)'
    BY <1>2, <1>5, <1>7, <1>15 DEF Behind
  <2>3. Hearing(v, sig, k + 1, cs)'
    BY <1>2, <1>5, <1>7, <1>8, <1>11, <1>13, <2>1, <2>2 DEF Hearing
  <2>4. line'.phase = "confirm"
    BY <1>2, <1>15
  <2>. QED
    BY <2>3, <2>4 DEF UInv, Hears, Works
<1>. QED
  BY <1>14, <1>15

LEMMA HeardNow ==
    ASSUME IInv, NInv, UInv, line.phase = "confirm", line.todo # <<>>, Watched
    PROVE  /\ NestedSignal(Signal)
           /\ \E c, d : IsSequence(c) /\ KindsNest(c) /\ IsSequence(d) /\ KindsNest(d) /\ After(c, Signal, d)
<1>1. Shape /\ IsRest(line.sig)
  BY DEF IInv, NInv, Nesting, InPasses
<1>2. PICK v, sig, k, cs : Hearing(v, sig, k, cs)
  BY DEF UInv, Hears
<1>3. sig = line.sig /\ k \in 0 .. (Len(sig) - 1) /\ Behind(k) /\ Along(line.backup, sig, cs) /\ KindsNest(cs[k])
  BY <1>2 DEF Hearing
<1>4. /\ IsSequence(cs[k]) /\ IsSequence(cs[k + 1]) /\ After(cs[k], Signal, cs[k + 1]) /\ KindsNest(cs[k + 1])
      /\ NestedSignal(Signal)
  BY <1>1, <1>3, Between
<1>. QED
  BY <1>3, <1>4

\* What the user agrees to is sure.
LEMMA AgreedTo == ASSUME Shape, NEW S, Agreed(S), \A o \in S : IsSequence(o[2]) PROVE SureAll(S)' /\ past.asked \subseteq past'.asked
<1>1. past'.asked = past.asked \cup S
  BY DEF Agreed, Shape, PastFields
<1>2. ASSUME NEW o \in S PROVE Covers(o, o) /\ o \in past'.asked /\ IsSequence(o[2])
  BY <1>1, MeantSelf DEF Meant
<1>3. \A o \in S : \E q \in past'.asked : IsSequence(q[2]) /\ Covers(q, o)
  BY <1>2
<1>. QED
  BY <1>1, <1>3 DEF SureAll, Sure

LEMMA WithinTyped ==
    ASSUME NEW v, IsData(v), NEW s, IsSequence(s[2]), KindsNest(s[2]), s[2] # <<>>
    PROVE  (\A o \in ExpandIn(v, s[2]) : IsSequence(o[2])) /\ (\A o \in Within(v, s) : IsSequence(o[2]))
<1>1. \A o \in ExpandIn(v, s[2]) : IsSequence(o[2])
  BY ExpandTyped DEF Typed
<1>. QED
  BY <1>1 DEF Within

LEMMA SignalsContext ==
    ASSUME NEW c, IsSequence(c), KindsNest(c), NEW d, IsSequence(d), KindsNest(d), NEW s, After(c, s, d),
           s[1] \in {"create", "enter", "set", "add", "no", "remove"}
    PROVE  IsSequence(s[2]) /\ KindsNest(s[2]) /\ s[2] # <<>>
<1>1. CASE s[1] \in {"create", "enter"}
  <2>1. d = Deeper(c, s[3], s[4]) /\ s[2] = d
    BY <1>1 DEF After, Deeper
  <2>. QED
    BY <2>1, DeeperIs
<1>2. CASE s[1] \in {"set", "add", "no", "remove"}
  BY <1>2 DEF After
<1>. QED
  BY <1>1, <1>2

LEMMA ConfirmPlainSure ==
    ASSUME IInv, NInv, UInv, ConfirmReading \/ ConfirmLeft \/ ConfirmRemove \/ ConfirmDelete \/ ConfirmRename,
           NEW known, NEW auto, Confirmed(known, auto), Keeps(known), past'.asked = past.asked,
           auto => line.auto /\ Signal[1] # "left"
    PROVE  UInv'
<1>1. PICK v, s : v = db.work /\ s = Signal
  OBVIOUS
<1>2. s[1] \in {"filter", "show", "left", "no", "remove", "delete", "rename"} /\ line.phase = "confirm" /\ line.todo # <<>>
  BY <1>1 DEF ConfirmReading, ConfirmLeft, ConfirmRemove, ConfirmDelete, ConfirmRename, Confirming
<1>3. Answered(v, s)'
  BY <1>2 DEF Answered
<1>. QED
  BY <1>1, <1>2, <1>3, ConfirmedSure

LEMMA RefusedSure == ASSUME Shape, (\E known, failed : Refused(known, failed)) \/ NoSignals PROVE UInv'
<1>1. PICK end, ctx : line' = Back(end, ctx)
  BY DEF Refused, NoSignals, EndOfLine
<1>. QED
  BY <1>1, BackEnded, Unwatched

LEMMA CrashSure == ASSUME Shape, Crashes PROVE UInv'
<1>1. line'.phase = "prompt"
  BY CrashShapes
<1>. QED
  BY <1>1, Unwatched

LEMMA ConfirmCreateSure == ASSUME IInv, NInv, UInv, ConfirmCreate PROVE UInv'
<1>1. PICK v, s, S, T : v = db.work /\ s = Signal /\ S = Expand(s[2]) /\ T = ExpandIn(v, s[2])
  OBVIOUS
<1>2. Shape /\ IsData(v) /\ s[1] = "create" /\ line.phase = "confirm" /\ line.todo # <<>>
  BY <1>1 DEF ConfirmCreate, Confirming, IInv, NInv, DataOf
<1>3. CASE cli.changeset
  <2>1. Confirmed(cli.known, line.auto) /\ Agreed(S) /\ S = T
    BY <1>1, <1>3, ViewHere DEF ConfirmCreate
  <2>2. past.asked \subseteq past'.asked
    BY <1>2, <2>1 DEF Agreed, Shape, PastFields
  <2>3. ASSUME Watched PROVE Answered(v, s)'
    <3>1. PICK c, d : IsSequence(c) /\ KindsNest(c) /\ IsSequence(d) /\ KindsNest(d) /\ After(c, s, d)
      BY <1>1, <1>2, <2>3, HeardNow
    <3>2. \A o \in T : IsSequence(o[2])
      BY <1>1, <1>2, <3>1, SignalsContext, WithinTyped
    <3>3. SureAll(T)'
      BY <1>2, <2>1, <3>2, AgreedTo
    <3>. QED
      BY <1>1, <1>2, <3>3 DEF Answered
  <2>. QED
    BY <1>1, <1>2, <2>1, <2>2, <2>3, KnownKeeps, ConfirmedSure
<1>4. CASE ~cli.changeset
  BY <1>2, <1>4, RefusedSure DEF ConfirmCreate
<1>. QED
  BY <1>3, <1>4

LEMMA ConfirmEnteredSure == ASSUME IInv, NInv, UInv, ConfirmEntered PROVE UInv'
<1>1. PICK v, s, S, T, known :
         /\ v = db.work /\ s = Signal /\ T = Expand(s[2]) /\ S = (IF Named(s[2]) THEN T ELSE {})
         /\ known = IF cli.changeset /\ ~Asks THEN cli.known ELSE Looked(S)
  OBVIOUS
<1>2. Shape /\ IsData(v) /\ s[1] = "enter" /\ line.phase = "confirm" /\ line.todo # <<>>
  BY <1>1 DEF ConfirmEntered, Confirming, IInv, NInv, DataOf
<1>3. \/ line.auto /\ Confirmed(cli.known, TRUE) /\ UNCHANGED past
      \/ Refused(Looked(S), TRUE)
      \/ ((Named(s[2]) /\ AllExist(S)) \/ ~Asks) /\ Confirmed(known, FALSE) /\ UNCHANGED past
      \/ cli.changeset /\ Confirmed(Looked(S), TRUE) /\ Agreed(T)
      \/ Refused(Looked(S), FALSE) \/ Crashes
  BY <1>1 DEF ConfirmEntered
<1>4. Keeps(cli.known) /\ Keeps(Looked(S)) /\ Keeps(known)
  BY <1>1, KnownKeeps, LookedKeeps
<1>5. cli.changeset => T = ExpandIn(v, s[2])
  BY <1>1, ViewHere
<1>6. CASE line.auto /\ Confirmed(cli.known, TRUE) /\ UNCHANGED past
  BY <1>1, <1>2, <1>4, <1>6, ConfirmedSure
<1>7. CASE ((Named(s[2]) /\ AllExist(S)) \/ ~Asks) /\ Confirmed(known, FALSE) /\ UNCHANGED past
  <2>1. ASSUME Watched PROVE Answered(v, s)'
    <3>1. cli.changeset /\ Named(s[2]) /\ AllExist(S) /\ S = ExpandIn(v, s[2])
      BY <1>1, <1>5, <1>7, <2>1 DEF Watched
    <3>2. Lasting
      BY <1>2, <1>4, <1>7, ConfirmedLasts
    <3>3. AllExist(S)'
      BY <3>1, <3>2, AllExistLasts
    <3>. QED
      BY <1>2, <3>1, <3>3 DEF Answered
  <2>. QED
    BY <1>1, <1>2, <1>4, <1>7, <2>1, ConfirmedSure
<1>8. CASE cli.changeset /\ Confirmed(Looked(S), TRUE) /\ Agreed(T)
  <2>1. past.asked \subseteq past'.asked
    BY <1>2, <1>8 DEF Agreed, Shape, PastFields
  <2>2. CASE Watched
    <3>1. PICK c, d : IsSequence(c) /\ KindsNest(c) /\ IsSequence(d) /\ KindsNest(d) /\ After(c, s, d)
      BY <1>1, <1>2, <2>2, HeardNow
    <3>2. \A o \in T : IsSequence(o[2])
      BY <1>2, <1>5, <1>8, <3>1, SignalsContext, WithinTyped
    <3>3. SureAll(T)' /\ T = ExpandIn(v, s[2])
      BY <1>2, <1>5, <1>8, <3>2, AgreedTo
    <3>4. Answered(v, s)' /\ SureAll(ExpandIn(v, s[2]))'
      BY <1>2, <3>3 DEF Answered
    <3>. QED
      BY <1>1, <1>2, <1>4, <1>8, <2>1, <3>4, ConfirmedSure
  <2>3. CASE ~Watched
    <3>1. ~Watched'
      BY <1>2, <1>4, <1>8, <2>1, <2>3, ConfirmedLasts
    <3>. QED
      BY <3>1, Unwatched
  <2>. QED
    BY <2>2, <2>3
<1>. QED
  BY <1>2, <1>3, <1>6, <1>7, <1>8, RefusedSure, CrashSure

LEMMA ConfirmSetSure == ASSUME IInv, NInv, UInv, ConfirmSet PROVE UInv'
<1>1. PICK v, s, S, seen :
         v = db.work /\ s = Signal /\ S = Targets(s[2], s[3]) /\ seen = Looked(IF Named(s[2]) THEN S ELSE {})
  OBVIOUS
<1>2. Shape /\ IsData(v) /\ s[1] \in {"set", "add"} /\ line.phase = "confirm" /\ line.todo # <<>>
  BY <1>1 DEF ConfirmSet, Confirming, IInv, NInv, DataOf
<1>3. \/ Refused(cli.known, TRUE)
      \/ (s[3] = LastKind(s[2]) \/ ~Asks) /\ Confirmed(cli.known, line.auto) /\ UNCHANGED past
      \/ cli.changeset /\ Named(s[2]) /\ AllExist(S) /\ Confirmed(seen, line.auto) /\ UNCHANGED past
      \/ cli.changeset /\ Confirmed(seen, line.auto) /\ Agreed(S)
      \/ Refused(seen, FALSE) \/ Crashes
  BY <1>1 DEF ConfirmSet
<1>4. Keeps(cli.known) /\ Keeps(seen)
  BY <1>1, KnownKeeps, LookedKeeps
<1>5. cli.changeset => S = Within(v, s)
  <2>1. SUFFICES ASSUME cli.changeset PROVE S = Within(v, s)
    OBVIOUS
  <2>2. Expand(s[2]) = ExpandIn(v, s[2])
    BY <1>1, <2>1, ViewHere
  <2>. QED
    BY <1>1, <2>2 DEF Targets, Within
<1>6. CASE (s[3] = LastKind(s[2]) \/ ~Asks) /\ Confirmed(cli.known, line.auto) /\ UNCHANGED past
  <2>1. Watched => Answered(v, s)'
    BY <1>2, <1>6 DEF Watched, Answered
  <2>. QED
    BY <1>1, <1>2, <1>4, <1>6, <2>1, ConfirmedSure
<1>7. CASE cli.changeset /\ Named(s[2]) /\ AllExist(S) /\ Confirmed(seen, line.auto) /\ UNCHANGED past
  <2>1. Lasting
    BY <1>2, <1>4, <1>7, ConfirmedLasts
  <2>2. AllExist(S)' /\ S = Within(v, s)
    BY <1>5, <1>7, <2>1, AllExistLasts
  <2>3. Answered(v, s)'
    BY <1>2, <1>7, <2>2 DEF Answered
  <2>. QED
    BY <1>1, <1>2, <1>4, <1>7, <2>3, ConfirmedSure
<1>8. CASE cli.changeset /\ Confirmed(seen, line.auto) /\ Agreed(S)
  <2>1. past.asked \subseteq past'.asked
    BY <1>2, <1>8 DEF Agreed, Shape, PastFields
  <2>2. ASSUME Watched PROVE Answered(v, s)'
    <3>1. PICK c, d : IsSequence(c) /\ KindsNest(c) /\ IsSequence(d) /\ KindsNest(d) /\ After(c, s, d)
      BY <1>1, <1>2, <2>2, HeardNow
    <3>2. \A o \in S : IsSequence(o[2])
      BY <1>2, <1>5, <1>8, <3>1, SignalsContext, WithinTyped
    <3>3. SureAll(S)' /\ S = Within(v, s)
      BY <1>2, <1>5, <1>8, <3>2, AgreedTo
    <3>. QED
      BY <1>2, <3>3 DEF Answered
  <2>. QED
    BY <1>1, <1>2, <1>4, <1>8, <2>1, <2>2, ConfirmedSure
<1>. QED
  BY <1>2, <1>3, <1>6, <1>7, <1>8, RefusedSure, CrashSure

LEMMA ConfirmSure == ASSUME IInv, NInv, UInv, Confirm PROVE UInv'
<1>1. Shape /\ Keeps(cli.known)
  BY KnownKeeps DEF IInv
<1>2. ASSUME ConfirmReading \/ ConfirmLeft \/ ConfirmRename PROVE UInv'
  <2>1. \/ Confirmed(cli.known, line.auto) /\ UNCHANGED past /\ Signal[1] # "left"
        \/ Confirmed(cli.known, FALSE) /\ UNCHANGED past
        \/ Refused(cli.known, TRUE)
    BY <1>2 DEF ConfirmReading, ConfirmLeft, ConfirmRename, Confirming
  <2>. QED
    BY <1>1, <1>2, <2>1, ConfirmPlainSure, RefusedSure
<1>3. ASSUME ConfirmRemove PROVE UInv'
  <2>1. PICK S : S = IF Signal[3] = LastKind(Signal[2]) \/ ~Named(Signal[2]) THEN {} ELSE Targets(Signal[2], Signal[3])
    OBVIOUS
  <2>2. PICK k, j : k = Looked(S) /\ j = IF cli.changeset THEN Looked(S) ELSE cli.known
    OBVIOUS
  <2>3. Signal[1] # "left" /\ ((Confirmed(k, line.auto) /\ UNCHANGED past) \/ Refused(j, TRUE))
    BY <1>3, <2>1, <2>2 DEF ConfirmRemove, Confirming
  <2>4. Keeps(k)
    BY <2>2, LookedKeeps
  <2>. QED
    BY <1>1, <1>3, <2>3, <2>4, ConfirmPlainSure, RefusedSure
<1>4. ASSUME ConfirmDelete PROVE UInv'
  <2>1. \/ Signal[1] # "left" /\ Confirmed(cli.known, line.auto) /\ (UNCHANGED past \/ past' = [past EXCEPT !.sure = TRUE])
        \/ Refused(cli.known, TRUE) \/ Refused(cli.known, FALSE)
    BY <1>4 DEF ConfirmDelete, Confirming
  <2>2. UNCHANGED past \/ past' = [past EXCEPT !.sure = TRUE] => past'.asked = past.asked
    BY <1>1 DEF Shape, PastFields
  <2>. QED
    BY <1>1, <1>4, <2>1, <2>2, ConfirmPlainSure, RefusedSure
<1>. QED
  BY <1>1, <1>2, <1>3, <1>4, ConfirmCreateSure, ConfirmEnteredSure, ConfirmSetSure, RefusedSure DEF Confirm

-----------------------------------------------------------------------------
(***************************************************************************)
(* The second pass: it stays with what was meant.                          *)
(***************************************************************************)
LEMMA HereNow ==
    ASSUME IInv, NInv, UInv, line.phase = "apply", Watched, ~AllLeft(line.todo)
    PROVE  \E v, w, b, sig, k, cs : Here(v, w, b, sig, k, cs)
BY DEF UInv, Works

LEMMA HereIs ==
    ASSUME IInv, NInv, line.phase = "apply", NEW v, NEW w, NEW b, NEW sig, NEW k, NEW cs, Here(v, w, b, sig, k, cs)
    PROVE  /\ w = db.work /\ b = line.ctx /\ sig = line.sig
           /\ IsData(v) /\ IsData(w) /\ IsSequence(b) /\ KindsNest(b)
           /\ IsSequence(cs[k]) /\ KindsNest(cs[k]) /\ SameContext(b, cs[k]) /\ Narrowly(v, cs[k], w, b)
           /\ IsSequence(cs[k + 1]) /\ KindsNest(cs[k + 1]) /\ After(cs[k], Signal, cs[k + 1])
           /\ IsSequence(sig) /\ Len(sig) \in Nat /\ k \in Nat /\ k + 1 \in 1 .. Len(sig) /\ k < Len(sig)
           /\ Len(line.todo) = Len(sig) - k /\ Signal = sig[k + 1] /\ NestedSignal(Signal)
           /\ Tail(line.todo) = SubSeq(sig, (k + 1) + 1, Len(sig))
           /\ \A i \in (k + 1) .. Len(sig) : Answered(v, sig[i])
           /\ (\A i \in 1 .. (k + 1) : Looks(sig[i])) => w = v /\ b = cs[k]
<1>1. Shape /\ IsRest(line.sig) /\ IsData(db.work) /\ IsSequence(line.ctx) /\ KindsNest(line.ctx)
  BY DEF IInv, NInv, Nesting, InPasses, DataOf, Shape, LineShape
<1>2. /\ w = db.work /\ b = line.ctx /\ sig = line.sig
      /\ k \in 0 .. (Len(sig) - 1) /\ Behind(k) /\ Along(line.backup, sig, cs) /\ KindsNest(cs[k])
      /\ \A i \in (k + 1) .. Len(sig) : Answered(v, sig[i])
      /\ IsData(v) /\ Narrowly(v, cs[k], w, b) /\ SameContext(b, cs[k])
      /\ (\A i \in 1 .. (k + 1) : Looks(sig[i])) => w = v /\ b = cs[k]
  BY DEF Here
<1>3. /\ IsSequence(sig) /\ Len(sig) \in Nat /\ k \in Nat /\ k + 1 \in 1 .. Len(sig) /\ k < Len(sig)
      /\ Len(line.todo) = Len(sig) - k /\ Signal = sig[k + 1]
      /\ Tail(line.todo) = SubSeq(sig, (k + 1) + 1, Len(sig))
      /\ IsSequence(cs[k]) /\ IsSequence(cs[k + 1]) /\ After(cs[k], Signal, cs[k + 1]) /\ KindsNest(cs[k + 1])
      /\ NestedSignal(Signal)
  BY <1>1, <1>2, Between
<1>. QED
  BY <1>1, <1>2, <1>3

LEMMA EndsSure == ASSUME Shape, \E end, ctx : line' = Back(end, ctx) PROVE UInv'
BY BackEnded, Unwatched

LEMMA ThrownSure == ASSUME Shape, NEW known, Error(known) \/ Faulty(known) PROVE UInv'
<1>1. PICK end, ctx : end = "error" /\ ctx = line.ctx
  OBVIOUS
<1>2. line' = Back(end, ctx)
  BY <1>1 DEF Error, Faulty, Throw
<1>. QED
  BY <1>2, EndsSure

LEMMA NotPerformedSure ==
    ASSUME Shape, NEW ctx, NEW known, NEW d, NEW failed, NotPerformed(ctx, known, d, failed) PROVE UInv'
<1>1. line' = Back("notPerformed", ctx)
  BY DEF NotPerformed, EndOfLine
<1>. QED
  BY <1>1, EndsSure

\* Nothing is left to do but to leave.
LEMMA LeavesSure ==
    ASSUME Shape, line.phase = "apply", NEW ctx, NEW known, NEW d, Performed(ctx, known, d), Len(line.todo) = 1 \/ AllLeft(Tail(line.todo))
    PROVE  UInv'
<1>1. CASE Len(line.todo) = 1
  <2>1. line' = Back("performed", ctx)
    BY <1>1 DEF Performed, EndOfLine
  <2>. QED
    BY <2>1, EndsSure
<1>2. CASE Len(line.todo) # 1 /\ AllLeft(Tail(line.todo))
  <2>1. line' = [line EXCEPT !.todo = Tail(@), !.ctx = ctx]
    BY <1>2 DEF Performed
  <2>2. line'.phase = "apply" /\ line'.todo = Tail(line.todo)
    BY <2>1 DEF Shape, LineShape, LineFields
  <2>. QED
    BY <1>2, <2>2 DEF UInv, Hears, Works, AllLeft
<1>. QED
  BY <1>1, <1>2

\* The contexts stay equal after a signal that only looks.
LEMMA LooksSame ==
    ASSUME NEW c, NEW s, Looks(s) \/ s[1] \notin {"enter", "create"}, NEW d, After(c, s, d), NEW e, Stepped(c, s, e)
    PROVE  e = d
<1>1. s[1] \in {"left", "filter"} \/ s[1] \notin {"left", "enter", "create", "filter"}
  BY DEF Looks
<1>2. CASE s[1] = "left"
  BY <1>2 DEF After, Stepped
<1>3. CASE s[1] = "filter"
  BY <1>3 DEF After, Stepped
<1>4. CASE s[1] \notin {"left", "enter", "create", "filter"}
  BY <1>4 DEF After, Stepped
<1>. QED
  BY <1>1, <1>2, <1>3, <1>4

LEMMA PerformedSure ==
    ASSUME IInv, NInv, UInv, line.phase = "apply", NEW ctx, NEW known, NEW d, Performed(ctx, known, d),
           Stepped(line.ctx, Signal, ctx), Keeps(known), past.asked \subseteq past'.asked,
           Watched => /\ db.work.objs \subseteq d.work.objs /\ (Looks(Signal) => d.work = db.work)
                      /\ \A v, w, b, sig, k, cs : Here(v, w, b, sig, k, cs) => Narrowly(v, cs[k + 1], d.work, ctx)
    PROVE  UInv'
<1>1. Shape /\ line.todo # <<>> /\ IsSequence(line.todo) /\ Len(line.todo) \in Nat \ {0}
  BY TodoNow DEF IInv
<1>2. SUFFICES ASSUME Len(line.todo) # 1, ~AllLeft(Tail(line.todo)) PROVE UInv'
  BY <1>1, LeavesSure
<1>3. line' = [line EXCEPT !.todo = Tail(@), !.ctx = ctx] /\ cli' = [cli EXCEPT !.known = known] /\ db' = d
  BY <1>2 DEF Performed
<1>4. /\ line'.phase = "apply" /\ line'.todo = Tail(line.todo) /\ line'.ctx = ctx
      /\ line'.sig = line.sig /\ line'.backup = line.backup
      /\ cli'.known = known /\ cli'.changeset = cli.changeset /\ cli'.stable = cli.stable
      /\ cli'.quiet = cli.quiet /\ cli'.force = cli.force
  BY <1>1, <1>3 DEF Shape, LineShape, LineFields, CliShape, CliFields
<1>5. Watched' => Watched
  BY <1>4 DEF Watched, Asks, LateFilter
<1>6. SUFFICES ASSUME Watched PROVE UInv'
  BY <1>5, Unwatched
<1>7. Lasting /\ cli.changeset
  BY <1>3, <1>4, <1>6 DEF Lasting, Watched
<1>8. ~AllLeft(line.todo)
  <2>1. SUFFICES ASSUME AllLeft(line.todo) PROVE AllLeft(Tail(line.todo))
    BY <1>2
  <2>2. PICK t, n : t = Tail(line.todo) /\ n = Len(line.todo)
    OBVIOUS
  <2>3. IsSequence(t) /\ Len(t) = n - 1 /\ n \in Nat \ {0} /\ \A i \in 1 .. (n - 1) : t[i] = line.todo[i + 1] /\ i + 1 \in 1 .. n
    BY <1>1, <2>2, TailOfSequence
  <2>4. t # <<>>
    <3>1. n - 1 # 0
      BY <1>2, <2>2, <2>3
    <3>. QED
      BY ONLY <2>3, <3>1
  <2>. QED
    BY <2>1, <2>2, <2>3, <2>4 DEF AllLeft
<1>9. PICK v, w, b, sig, k, cs : Here(v, w, b, sig, k, cs)
  BY <1>6, <1>8, HereNow
<1>10. PICK c, e, u, s : c = cs[k] /\ e = cs[k + 1] /\ u = d.work /\ s = Signal
  OBVIOUS
<1>11. /\ w = db.work /\ b = line.ctx /\ sig = line.sig
       /\ IsData(v) /\ IsSequence(b) /\ IsSequence(c) /\ SameContext(b, c)
       /\ IsSequence(e) /\ KindsNest(e) /\ After(c, s, e)
       /\ IsSequence(sig) /\ Len(sig) \in Nat /\ k \in Nat /\ k + 1 \in 1 .. Len(sig) /\ k < Len(sig)
       /\ Len(line.todo) = Len(sig) - k /\ s = sig[k + 1]
       /\ Tail(line.todo) = SubSeq(sig, (k + 1) + 1, Len(sig))
       /\ \A i \in (k + 1) .. Len(sig) : Answered(v, sig[i])
       /\ (\A i \in 1 .. (k + 1) : Looks(sig[i])) => w = v /\ b = c
  <2>1. IInv /\ NInv /\ line.phase = "apply"
    OBVIOUS
  <2>2. /\ w = db.work /\ b = line.ctx /\ sig = line.sig
        /\ IsData(v) /\ IsSequence(b) /\ IsSequence(cs[k]) /\ SameContext(b, cs[k])
        /\ IsSequence(cs[k + 1]) /\ KindsNest(cs[k + 1]) /\ After(cs[k], Signal, cs[k + 1])
        /\ IsSequence(sig) /\ Len(sig) \in Nat /\ k \in Nat /\ k + 1 \in 1 .. Len(sig) /\ k < Len(sig)
        /\ Len(line.todo) = Len(sig) - k /\ Signal = sig[k + 1]
        /\ Tail(line.todo) = SubSeq(sig, (k + 1) + 1, Len(sig))
    BY ONLY <2>1, <1>9, HereIs
  <2>3. /\ \A i \in (k + 1) .. Len(sig) : Answered(v, sig[i])
        /\ (\A i \in 1 .. (k + 1) : Looks(sig[i])) => w = v /\ b = cs[k]
    BY <1>9 DEF Here
  <2>. QED
    BY ONLY <2>2, <2>3, <1>10
<1>12. Narrowly(v, e, u, ctx) /\ Along(line.backup, sig, cs) /\ (Looks(s) => u = w)
  BY <1>6, <1>9, <1>10, <1>11 DEF Here
<1>13. Stepped(b, s, ctx)
  BY <1>10, <1>11
<1>14. SameContext(ctx, e)
  BY ONLY <1>11, <1>13, SteppedSame
<1>15. k + 1 \in 0 .. (Len(sig) - 1)
  <2>1. Len(sig) - k # 1
    BY <1>2, <1>11
  <2>. QED
    BY <1>11, <2>1
<1>16. ASSUME NEW i \in ((k + 1) + 1) .. Len(sig) PROVE Answered(v, sig[i])'
  <2>1. PICK t : t = sig[i]
    OBVIOUS
  <2>2. i \in (k + 1) .. Len(sig)
    BY <1>11
  <2>3. Answered(v, t)
    BY <1>11, <2>1, <2>2
  <2>4. Answered(v, t)'
    BY <1>7, <2>3, AnsweredLasts
  <2>. QED
    BY <2>1, <2>4
<1>17. ASSUME \A i \in 1 .. ((k + 1) + 1) : Looks(sig[i]) PROVE u = v /\ ctx = e
  <2>1. Looks(s) /\ \A i \in 1 .. (k + 1) : Looks(sig[i])
    <3>1. \A i \in 1 .. (k + 1) : i \in 1 .. ((k + 1) + 1)
      BY <1>11
    <3>. QED
      BY <1>11, <1>17, <3>1
  <2>2. w = v /\ b = c /\ u = w
    BY <1>11, <1>12, <2>1
  <2>3. Stepped(c, s, ctx)
    BY <1>13, <2>2
  <2>4. ctx = e
    BY <1>11, <2>1, <2>3, LooksSame
  <2>. QED
    BY <2>2, <2>4
<1>18. Behind(k + 1)'
  BY <1>4, <1>11 DEF Behind
<1>19. Here(v, u, ctx, sig, k + 1, cs)'
  BY <1>3, <1>4, <1>10, <1>11, <1>12, <1>14, <1>15, <1>16, <1>17, <1>18 DEF Here
<1>. QED
  BY <1>4, <1>19 DEF UInv, Hears, Works

LEMMA ApplyLeftSure == ASSUME IInv, NInv, UInv, ApplyLeft PROVE UInv'
<1>1. PICK ctx, known, d : ctx = Front(line.ctx) /\ known = cli.known /\ d = db
  OBVIOUS
<1>2. line.phase = "apply" /\ Signal[1] = "left" /\ Performed(ctx, known, d) /\ past' = past
  BY <1>1 DEF ApplyLeft, Applying
<1>3. Keeps(known) /\ Stepped(line.ctx, Signal, ctx) /\ past.asked \subseteq past'.asked
  BY <1>1, <1>2, KnownKeeps DEF Stepped
<1>4. ASSUME NEW v, NEW w, NEW b, NEW sig, NEW k, NEW cs, Here(v, w, b, sig, k, cs)
      PROVE  Narrowly(v, cs[k + 1], d.work, ctx)
  <2>1. PICK c, e, s : c = cs[k] /\ e = cs[k + 1] /\ s = Signal
    OBVIOUS
  <2>2. /\ w = db.work /\ b = line.ctx /\ IsSequence(b) /\ IsSequence(c) /\ Narrowly(v, c, w, b) /\ After(c, s, e)
    BY <1>2, <1>4, <2>1, HereIs
  <2>3. c # <<>> /\ e = Front(c)
    BY <1>2, <2>1, <2>2 DEF After
  <2>4. Narrowly(v, Front(c), w, Front(b))
    BY ONLY <2>2, <2>3, FrontNarrowly
  <2>. QED
    BY <1>1, <2>1, <2>2, <2>3, <2>4
<1>5. Watched => /\ db.work.objs \subseteq d.work.objs /\ (Looks(Signal) => d.work = db.work)
                 /\ \A v, w, b, sig, k, cs : Here(v, w, b, sig, k, cs) => Narrowly(v, cs[k + 1], d.work, ctx)
  BY <1>1, <1>4
<1>. QED
  BY <1>2, <1>3, <1>5, PerformedSure

LEMMA ApplyFilterSure == ASSUME IInv, NInv, UInv, ApplyFilter PROVE UInv'
<1>1. PICK ctx, known, d : ctx = Narrowed /\ known = Told(cli.known, Matched(Narrowed), TRUE) /\ d = db
  OBVIOUS
<1>2. /\ Shape /\ line.phase = "apply" /\ Signal[1] = "filter" /\ past' = past
      /\ NotPerformed(line.ctx, cli.known, db, FALSE) \/ Performed(ctx, known, d)
  BY <1>1 DEF ApplyFilter, Applying, IInv
<1>3. Keeps(known) /\ Stepped(line.ctx, Signal, ctx) /\ past.asked \subseteq past'.asked
  BY <1>1, <1>2, KnownKeeps, ToldKeeps DEF Stepped, Narrowed
<1>4. ASSUME Watched, NEW v, NEW w, NEW b, NEW sig, NEW k, NEW cs, Here(v, w, b, sig, k, cs)
      PROVE  Narrowly(v, cs[k + 1], d.work, ctx)
  <2>1. PICK c, e, s : c = cs[k] /\ e = cs[k + 1] /\ s = Signal
    OBVIOUS
  <2>2. /\ w = db.work /\ b = line.ctx /\ sig = line.sig /\ IsData(v) /\ IsSequence(e) /\ KindsNest(e) /\ After(c, s, e)
        /\ IsSequence(sig) /\ Len(sig) \in Nat /\ k \in Nat /\ k + 1 \in 1 .. Len(sig) /\ s = sig[k + 1]
        /\ ((\A i \in 1 .. (k + 1) : Looks(sig[i])) => w = v /\ b = c)
    BY <1>2, <1>4, <2>1, HereIs
  <2>3. ASSUME NEW i \in 1 .. (k + 1) PROVE Looks(sig[i])
    <3>1. k + 1 \in DOMAIN line.sig /\ (k + 1) - 1 = k
      BY <2>2, SequenceShape
    <3>2. line.sig[k + 1][1] = "filter"
      BY <1>2, <2>1, <2>2
    <3>3. \A j \in 1 .. k : line.sig[j][1] \in {"left", "filter", "show"}
      BY <1>4, <3>1, <3>2 DEF Watched, LateFilter
    <3>4. i \in 1 .. k \/ i = k + 1
      BY <2>2
    <3>. QED
      BY <2>2, <3>2, <3>3, <3>4 DEF Looks
  <2>4. w = v /\ b = c
    BY <2>2, <2>3
  <2>5. Stepped(c, s, ctx) /\ s[1] = "filter"
    BY <1>2, <1>3, <2>1, <2>2, <2>4
  <2>6. ctx = e
    BY <2>2, <2>5, LooksSame DEF Looks
  <2>7. Narrowly(v, e, v, e)
    BY <2>2, SelfNarrowly
  <2>. QED
    BY <1>1, <2>1, <2>2, <2>4, <2>6, <2>7
<1>5. Watched => /\ db.work.objs \subseteq d.work.objs /\ (Looks(Signal) => d.work = db.work)
                 /\ \A v, w, b, sig, k, cs : Here(v, w, b, sig, k, cs) => Narrowly(v, cs[k + 1], d.work, ctx)
  BY <1>1, <1>4
<1>6. CASE Performed(ctx, known, d)
  BY <1>2, <1>3, <1>5, <1>6, PerformedSure
<1>7. CASE NotPerformed(line.ctx, cli.known, db, FALSE)
  BY <1>2, <1>7, NotPerformedSure
<1>. QED
  BY <1>2, <1>6, <1>7

\* The signals that leave the context as it is.
LEMMA StandsStill ==
    ASSUME IInv, NInv, UInv, line.phase = "apply", NEW ctx, ctx = line.ctx, NEW known, NEW d, Performed(ctx, known, d),
           Signal[1] \in {"show", "set", "no", "add", "remove"}, Keeps(known), past.asked \subseteq past'.asked,
           Watched => /\ db.work.objs \subseteq d.work.objs /\ (Looks(Signal) => d.work = db.work)
                      /\ \A v, c : Narrowly(v, c, db.work, ctx) => Narrowly(v, c, d.work, ctx)
    PROVE  UInv'
<1>1. Stepped(line.ctx, Signal, ctx)
  BY DEF Stepped
<1>2. ASSUME Watched, NEW v, NEW w, NEW b, NEW sig, NEW k, NEW cs, Here(v, w, b, sig, k, cs)
      PROVE  Narrowly(v, cs[k + 1], d.work, ctx)
  <2>1. PICK c, e, s : c = cs[k] /\ e = cs[k + 1] /\ s = Signal
    OBVIOUS
  <2>2. w = db.work /\ b = line.ctx /\ Narrowly(v, c, w, b) /\ After(c, s, e)
    BY <1>2, <2>1, HereIs
  <2>3. e = c
    BY <2>1, <2>2 DEF After
  <2>4. Narrowly(v, c, db.work, ctx)
    BY <2>2
  <2>. QED
    BY <1>2, <2>1, <2>3, <2>4
<1>3. Watched => /\ db.work.objs \subseteq d.work.objs /\ (Looks(Signal) => d.work = db.work)
                 /\ \A v, w, b, sig, k, cs : Here(v, w, b, sig, k, cs) => Narrowly(v, cs[k + 1], d.work, ctx)
  BY <1>2
<1>. QED
  BY <1>1, <1>3, PerformedSure

LEMMA ApplyShowSure == ASSUME IInv, NInv, UInv, ApplyShow PROVE UInv'
<1>1. PICK ctx, S, d : ctx = line.ctx /\ S = Nested(Expand(line.ctx)) \cup Connected(Expand(line.ctx)) /\ d = db
  OBVIOUS
<1>2. PICK known : known = Told(cli.known, S, TRUE)
  OBVIOUS
<1>3. /\ Shape /\ line.phase = "apply" /\ Signal[1] = "show"
      /\ \/ Performed(ctx, known, d) /\ past' = past
         \/ Error(cli.known) \/ Faulty(cli.known)
  BY <1>1, <1>2 DEF ApplyShow, Applying, IInv
<1>4. Keeps(known)
  BY <1>2, KnownKeeps, ToldKeeps
<1>5. CASE Performed(ctx, known, d) /\ past' = past
  BY <1>1, <1>3, <1>4, <1>5, StandsStill
<1>. QED
  BY <1>3, <1>5, ThrownSure

LEMMA TakingSure == ASSUME IInv, NInv, UInv, ApplyDelete \/ ApplyRename PROVE UInv'
<1>1. PICK ctx, known, d, told, same, T :
         /\ Shape /\ line.phase = "apply" /\ Takes(Signal)
         /\ \/ Performed(ctx, known, d)
            \/ NotPerformed(line.backup, told, same, FALSE)
            \/ Error(known) \/ Faulty(known)
  <2>1. CASE ApplyDelete
    <3>1. PICK S, U : S = Expand(line.ctx) /\ U = Removing(S \cup Nested(S))
      OBVIOUS
    <3>2. PICK ctx, known, d, told, same :
             ctx = line.ctx /\ known = DeleteKnown(S) /\ told = Told(cli.known, Nested(S), TRUE) /\ d = Deleted(U) /\ same = db
      OBVIOUS
    <3>3. /\ line.phase = "apply" /\ Signal[1] = "delete"
          /\ Performed(ctx, known, d) \/ NotPerformed(line.backup, told, same, FALSE) \/ Error(known) \/ Faulty(known)
      BY <2>1, <3>1, <3>2 DEF ApplyDelete, DeleteKnown, Applying
    <3>. QED
      BY <3>3 DEF IInv, Takes
  <2>2. CASE ApplyRename
    <3>1. PICK S, name : S = Expand(line.ctx) /\ name = Signal[4]
      OBVIOUS
    <3>2. PICK U, w : /\ w = Renamed(db.work, U, name)
                      /\ \/ Performed(line.ctx, KnownRenamed(U, name), Working(w))
                         \/ Error(KnownRenamed(U, name)) \/ Faulty(KnownRenamed(U, name))
      BY <2>2, <3>1 DEF ApplyRename
    <3>3. line.phase = "apply" /\ Signal[1] = "rename"
      BY <2>2 DEF ApplyRename, Applying
    <3>. QED
      BY <3>2, <3>3 DEF IInv, Takes
  <2>. QED
    BY <2>1, <2>2
<1>2. AllLeft(Tail(line.todo))
  BY <1>1, TakingNow
<1>. QED
  BY <1>1, <1>2, LeavesSure, NotPerformedSure, ThrownSure

LEMMA CreateNarrowly ==
    ASSUME IInv, NInv, line.phase = "apply", Signal[1] \in {"create", "enter"},
           NEW v, NEW w, NEW b, NEW sig, NEW k, NEW cs, Here(v, w, b, sig, k, cs),
           NEW u, IsData(u), SameBelow(w, u, Depth[Signal[3]]), NEW name, name = Signal[4] \/ Signal[4] = NoName
    PROVE  Narrowly(v, cs[k + 1], u, Deeper(b, Signal[3], name))
<1>1. PICK c, e, s, j, asked : c = cs[k] /\ e = cs[k + 1] /\ s = Signal /\ j = Signal[3] /\ asked = Signal[4]
  OBVIOUS
<1>2. /\ w = db.work /\ b = line.ctx /\ IsData(v) /\ IsData(w) /\ IsSequence(b) /\ KindsNest(b)
      /\ IsSequence(c) /\ KindsNest(c) /\ Narrowly(v, c, w, b) /\ After(c, s, e)
  BY <1>1, HereIs
<1>3. e = Deeper(c, j, asked)
  <2>1. e = Append(c, <<"object", s[3], s[4]>>)
    BY <1>1, <1>2 DEF After
  <2>. QED
    BY <1>1, <2>1 DEF Deeper
<1>4. PICK x : x = <<"object", j, name>>
  OBVIOUS
<1>5. KindsNest(Append(b, x)) /\ x[2] = j
  <2>1. KindsNest(Deeper(b, j, name))
    BY <1>1, <1>2, CreateHere
  <2>. QED
    BY <1>4, <2>1 DEF Deeper
<1>6. Below(b, Depth[j]) /\ Depth[j] \in Nat
  BY <1>2, <1>5, BelowNext
<1>7. Narrowly(v, c, u, b)
  <2>1. SameBelow(w, u, Depth[j])
    BY <1>1
  <2>. QED
    BY ONLY <1>2, <1>6, <2>1, LastsNarrowly, IsData(u)
<1>8. asked \in {name, NoName}
  BY <1>1
<1>9. Narrowly(v, Deeper(c, j, asked), u, Deeper(b, j, name))
  BY ONLY <1>2, <1>7, <1>8, NextNarrowly, IsData(u)
<1>. QED
  BY <1>1, <1>3, <1>9

LEMMA ApplyCreateSure == ASSUME IInv, CInv, NInv, UInv, ApplyCreate PROVE UInv'
<1>1. PICK b, k, asked, ctx : b = line.ctx /\ k = Signal[3] /\ asked = Signal[4] /\ ctx = Deeper(line.ctx, Signal[3], Signal[4])
  OBVIOUS
<1>2. PICK S : S = Expand(ctx)
  OBVIOUS
<1>3. PICK name : name = IF Signal[4] = NoName THEN Last(Called(CHOOSE o \in S : TRUE)[2]) ELSE Signal[4]
  <2>1. PICK chosen : chosen = Last(Called(CHOOSE o \in S : TRUE)[2])
    OBVIOUS
  <2>2. \E name : name = IF Signal[4] = NoName THEN chosen ELSE Signal[4]
    OBVIOUS
  <2>. QED
    BY <2>1, <2>2
<1>4. PICK new, looked, known, again, old, made, restored, same :
         /\ new = Append(line.ctx, NewItem(S)) /\ looked = Looked(S) /\ known = NowKnown(S)
         /\ again = KnownAgain(S) /\ old = Remembered(S) /\ made = Made(S) /\ restored = RestoredIn(S) /\ same = db
  OBVIOUS
<1>5. ctx = Append(line.ctx, <<"object", Signal[3], Signal[4]>>) /\ new = Deeper(b, k, name) /\ ctx = Deeper(b, k, asked)
  BY <1>1, <1>3, <1>4 DEF Deeper, NewItem
<1>6. Shape /\ line.phase = "apply" /\ Signal[1] \in {"create", "enter"} /\ DataOf(db)
  BY DEF IInv, NInv, ApplyCreate, Applying
<1>7. \/ Performed(ctx, looked, same) /\ UNCHANGED past
      \/ /\ NamesLast(S) /\ past' = [past EXCEPT !.taint = @ \/ Untold(S)]
         /\ Performed(new, known, made) \/ NotPerformed(b, known, made, TRUE)
      \/ NotRestored(ctx, S)
      \/ IsRestored(ctx, S) /\ Performed(ctx, again, restored)
      \/ NotPerformed(b, old, same, TRUE)
      \/ Error(old) \/ Faulty(old)
  BY <1>1, <1>2, <1>4, <1>5 DEF ApplyCreate
<1>8. KindsNest(b) /\ IsSequence(b) /\ KindsNest(Deeper(b, k, asked)) /\ (name = asked \/ asked = NoName)
  BY <1>1, <1>3, <1>6, CreateHere
<1>9. cli.changeset => k \in Kinds /\ Depth[k] \in Nat /\ Typed(S, k)
  <2>1. cli.changeset => S = ExpandIn(db.work, Deeper(b, k, asked))
    BY <1>2, <1>5, ViewHere
  <2>. QED
    BY <1>6, <1>8, <2>1, NextTyped DEF DataOf
<1>10. Keeps(looked) /\ Keeps(known) /\ Keeps(again)
  BY <1>4, LookedKeeps, CreatingKeeps
<1>11. Stepped(line.ctx, Signal, ctx) /\ Stepped(line.ctx, Signal, new) /\ ~Looks(Signal)
  <2>1. new = Append(line.ctx, <<"object", Signal[3], name>>)
    BY <1>1, <1>5 DEF Deeper
  <2>. QED
    BY <1>1, <1>5, <1>6, <1>8, <2>1 DEF Stepped, Looks
<1>12. ASSUME NEW d, DataOf(d), SameBelow(db.work, d.work, Depth[k]), NEW n, n = asked \/ asked = NoName,
              NEW v, NEW w, NEW here, NEW sig, NEW i, NEW cs, Here(v, w, here, sig, i, cs)
       PROVE  Narrowly(v, cs[i + 1], d.work, Deeper(b, k, n))
  <2>1. PICK u : u = d.work /\ IsData(u)
    BY <1>12 DEF DataOf
  <2>2. w = db.work /\ here = b
    BY <1>1, <1>12 DEF Here
  <2>3. SameBelow(w, u, Depth[Signal[3]]) /\ (n = Signal[4] \/ Signal[4] = NoName)
    BY <1>1, <1>12, <2>1, <2>2
  <2>4. Narrowly(v, cs[i + 1], u, Deeper(here, Signal[3], n))
    BY <1>6, <1>12, <2>1, <2>3, CreateNarrowly
  <2>. QED
    BY <1>1, <2>1, <2>2, <2>4
<1>13. CASE Performed(ctx, looked, same) /\ UNCHANGED past
  <2>1. DataOf(same) /\ SameBelow(db.work, same.work, Depth[k])
    BY <1>4, <1>6 DEF SameBelow
  <2>2. \A v, w, here, sig, i, cs : Here(v, w, here, sig, i, cs) => Narrowly(v, cs[i + 1], same.work, ctx)
    BY <1>5, <1>12, <2>1
  <2>3. db.work.objs \subseteq same.work.objs
    BY <1>4
  <2>. QED
    BY <1>6, <1>10, <1>11, <1>13, <2>2, <2>3, PerformedSure
<1>14. CASE /\ NamesLast(S) /\ past' = [past EXCEPT !.taint = @ \/ Untold(S)]
            /\ Performed(new, known, made) \/ NotPerformed(b, known, made, TRUE)
  <2>1. past'.asked = past.asked
    BY <1>6, <1>14 DEF Shape, PastFields
  <2>2. ASSUME Watched
        PROVE  /\ db.work.objs \subseteq made.work.objs
               /\ \A v, w, here, sig, i, cs : Here(v, w, here, sig, i, cs) => Narrowly(v, cs[i + 1], made.work, new)
    <3>1. cli.changeset
      BY <2>2 DEF Watched
    <3>2. DataOf(made) /\ SameBelow(db.work, made.work, Depth[k]) /\ db.work.objs \subseteq made.work.objs
      BY <1>4, <1>6, <1>9, <1>14, <3>1, MadeData
    <3>. QED
      BY <1>5, <1>8, <1>12, <3>2
  <2>3. CASE Performed(new, known, made)
    BY <1>6, <1>10, <1>11, <2>1, <2>2, <2>3, PerformedSure
  <2>4. CASE NotPerformed(b, known, made, TRUE)
    BY <1>6, <2>4, NotPerformedSure
  <2>. QED
    BY <1>14, <2>3, <2>4
<1>15. CASE NotRestored(ctx, S)
  <2>1. NotPerformed(line.ctx, old, same, FALSE) \/ NotPerformed(line.ctx, cli.known, same, FALSE)
    BY <1>4, <1>15 DEF NotRestored
  <2>. QED
    BY <1>6, <2>1, NotPerformedSure
<1>16. CASE IsRestored(ctx, S) /\ Performed(ctx, again, restored)
  <2>1. past.asked \subseteq past'.asked
    BY <1>6, <1>16 DEF IsRestored, Agreed, Shape, PastFields
  <2>2. ASSUME Watched
        PROVE  /\ db.work.objs \subseteq restored.work.objs
               /\ \A v, w, here, sig, i, cs : Here(v, w, here, sig, i, cs) => Narrowly(v, cs[i + 1], restored.work, ctx)
    <3>1. cli.changeset
      BY <2>2 DEF Watched
    <3>2. DataOf(restored) /\ SameBelow(db.work, restored.work, Depth[k]) /\ db.work.objs \subseteq restored.work.objs
      BY <1>4, <1>6, <1>9, <3>1, RestoredData
    <3>. QED
      BY <1>5, <1>12, <3>2
  <2>. QED
    BY <1>6, <1>10, <1>11, <1>16, <2>1, <2>2, PerformedSure
<1>17. CASE NotPerformed(b, old, same, TRUE)
  BY <1>6, <1>17, NotPerformedSure
<1>18. CASE Error(old) \/ Faulty(old)
  BY <1>6, <1>18, ThrownSure
<1>. QED
  BY <1>7, <1>13, <1>14, <1>15, <1>16, <1>17, <1>18

\* A contained object was created: the attribute is next.
LEMMA StayedSure ==
    ASSUME IInv, NInv, UInv, line.phase = "apply", Signal[1] \in {"set", "add"},
           NEW known, NEW d, cli' = [cli EXCEPT !.known = known], db' = d, line' = line,
           Keeps(known), past.asked \subseteq past'.asked,
           Watched => /\ db.work.objs \subseteq d.work.objs
                      /\ \A v, c : Narrowly(v, c, db.work, line.ctx) => Narrowly(v, c, d.work, line.ctx)
    PROVE  UInv'
<1>1. /\ cli'.known = known /\ cli'.changeset = cli.changeset /\ cli'.stable = cli.stable
      /\ cli'.quiet = cli.quiet /\ cli'.force = cli.force
  BY DEF IInv, Shape, CliShape, CliFields
<1>2. Watched' => Watched
  BY <1>1 DEF Watched, Asks, LateFilter
<1>3. CASE Watched /\ ~AllLeft(line.todo)
  <2>1. PICK v, w, b, sig, k, cs : Here(v, w, b, sig, k, cs)
    BY <1>3, HereNow
  <2>2. Lasting /\ cli.changeset
    BY <1>1, <1>3 DEF Lasting, Watched
  <2>3. PICK u, s : u = d.work /\ s = Signal
    OBVIOUS
  <2>4. /\ k + 1 \in 1 .. Len(sig) /\ k \in Nat /\ Len(sig) \in Nat /\ s = sig[k + 1]
    BY <2>1, <2>3, HereIs
  <2>5. /\ w = db.work /\ b = line.ctx /\ sig = line.sig
        /\ k \in 0 .. (Len(sig) - 1) /\ Behind(k) /\ Along(line.backup, sig, cs) /\ KindsNest(cs[k])
        /\ \A i \in (k + 1) .. Len(sig) : Answered(v, sig[i])
        /\ IsData(v) /\ Narrowly(v, cs[k], w, b) /\ SameContext(b, cs[k])
    BY <2>1 DEF Here
  <2>6. Narrowly(v, cs[k], u, b)
    BY <1>3, <2>3, <2>5
  <2>7. ASSUME NEW i \in (k + 1) .. Len(sig) PROVE Answered(v, sig[i])'
    <3>1. PICK t : t = sig[i]
      OBVIOUS
    <3>2. Answered(v, t)
      BY <2>5, <3>1
    <3>3. Answered(v, t)'
      BY <2>2, <3>2, AnsweredLasts
    <3>. QED
      BY <3>1, <3>3
  <2>8. ~Looks(sig[k + 1]) /\ k + 1 \in 1 .. (k + 1)
    BY <2>3, <2>4 DEF Looks
  <2>9. Behind(k)'
    BY <2>5 DEF Behind
  <2>10. Here(v, u, b, sig, k, cs)'
    BY <2>3, <2>5, <2>6, <2>7, <2>8, <2>9 DEF Here
  <2>. QED
    BY <2>10 DEF UInv, Hears, Works
<1>4. CASE ~(Watched /\ ~AllLeft(line.todo))
  BY <1>2, <1>4 DEF UInv, Hears, Works, AllLeft
<1>. QED
  BY <1>3, <1>4

LEMMA ApplyContainedSure == ASSUME IInv, CInv, NInv, UInv, ApplyContained PROVE UInv'
<1>1. PICK S, k, b : S = Targets(line.ctx, Signal[3]) /\ k = Signal[3] /\ b = line.ctx
  OBVIOUS
<1>2. PICK known, again, old, made, restored, same :
         /\ known = NowKnown(S) /\ again = KnownAgain(S) /\ old = Remembered(S)
         /\ made = Made(S) /\ restored = RestoredIn(S) /\ same = db
  OBVIOUS
<1>3. Shape /\ line.phase = "apply" /\ Signal[1] \in {"set", "add"} /\ k # LastKind(b) /\ DataOf(db)
  BY <1>1 DEF IInv, NInv, ApplyContained, Applying
<1>4. cli.changeset
  BY <1>3, HarmlessSignal DEF Harmless
<1>5. \/ /\ cli' = [cli EXCEPT !.known = known] /\ db' = made /\ line' = line
         /\ NamesLast(S) /\ past' = [past EXCEPT !.taint = @ \/ Untold(S)]
      \/ NotRestored(b, S)
      \/ IsRestored(b, S) /\ cli' = [cli EXCEPT !.known = again] /\ db' = restored /\ line' = line
      \/ Error(old) \/ Faulty(old)
  BY <1>1, <1>2 DEF ApplyContained
<1>6. b # <<>> /\ IsSequence(b) /\ KindsNest(b) /\ k \in Kinds /\ Depth[k] \in Nat /\ Depth[k] = Depth[LastKind(b)]
  <2>1. Signal[1] \in {"set", "no", "add", "remove"}
    BY <1>3
  <2>. QED
    BY <1>1, <1>3, <2>1, AttributeNow
<1>7. PICK w : w = db.work /\ IsData(w)
  BY <1>3 DEF DataOf
<1>8. Typed(S, k)
  <2>1. S = {<<k, o[2]>> : o \in ExpandIn(w, b)}
    BY <1>1, <1>4, <1>7 DEF Targets, Expand, View
  <2>. QED
    BY <1>6, <1>7, <2>1, ContainedTyped
<1>9. ASSUME NEW d, DataOf(d), SameBelow(w, d.work, Depth[k]), ExpandIn(d.work, b) \subseteq ExpandIn(w, b)
      PROVE  \A v, c : Narrowly(v, c, db.work, line.ctx) => Narrowly(v, c, d.work, line.ctx)
  <2>1. PICK u : u = d.work /\ IsData(u)
    BY <1>9 DEF DataOf
  <2>2. SameBelow(w, u, Depth[LastKind(b)]) /\ ExpandIn(u, b) \subseteq ExpandIn(w, b)
    BY <1>6, <1>9, <2>1
  <2>3. \A v, c : Narrowly(v, c, w, b) => Narrowly(v, c, u, b)
    BY <1>6, <1>7, <2>1, <2>2, StayNarrowly
  <2>. QED
    BY <1>1, <1>7, <2>1, <2>3
<1>10. CASE /\ cli' = [cli EXCEPT !.known = known] /\ db' = made /\ line' = line
            /\ NamesLast(S) /\ past' = [past EXCEPT !.taint = @ \/ Untold(S)]
  <2>1. past'.asked = past.asked
    BY <1>3, <1>10 DEF Shape, PastFields
  <2>2. DataOf(made) /\ SameBelow(w, made.work, Depth[k]) /\ w.objs \subseteq made.work.objs
    BY <1>2, <1>3, <1>6, <1>7, <1>8, <1>10, MadeData
  <2>3. ExpandIn(made.work, b) \subseteq ExpandIn(w, b)
    BY <1>2, <1>3, <1>6, <1>7, <1>8, <1>10, MadeStays
  <2>4. \A v, c : Narrowly(v, c, db.work, line.ctx) => Narrowly(v, c, made.work, line.ctx)
    BY <1>9, <2>2, <2>3
  <2>5. Keeps(known)
    BY <1>2, CreatingKeeps
  <2>. QED
    BY <1>3, <1>7, <1>10, <2>1, <2>2, <2>4, <2>5, StayedSure
<1>11. CASE NotRestored(b, S)
  <2>1. NotPerformed(line.ctx, old, same, FALSE) \/ NotPerformed(line.ctx, cli.known, same, FALSE)
    BY <1>2, <1>11 DEF NotRestored
  <2>. QED
    BY <1>3, <2>1, NotPerformedSure
<1>12. CASE IsRestored(b, S) /\ cli' = [cli EXCEPT !.known = again] /\ db' = restored /\ line' = line
  <2>1. past.asked \subseteq past'.asked
    BY <1>3, <1>12 DEF IsRestored, Agreed, Shape, PastFields
  <2>2. DataOf(restored) /\ SameBelow(w, restored.work, Depth[k]) /\ w.objs \subseteq restored.work.objs
    BY <1>2, <1>3, <1>6, <1>7, <1>8, RestoredData
  <2>3. ExpandIn(restored.work, b) = ExpandIn(w, b)
    BY <1>12, NamedStays DEF IsRestored
  <2>4. \A v, c : Narrowly(v, c, db.work, line.ctx) => Narrowly(v, c, restored.work, line.ctx)
    BY <1>9, <2>2, <2>3
  <2>5. Keeps(again)
    BY <1>2, CreatingKeeps
  <2>. QED
    BY <1>3, <1>7, <1>12, <2>1, <2>2, <2>4, <2>5, StayedSure
<1>13. CASE Error(old) \/ Faulty(old)
  BY <1>3, <1>13, ThrownSure
<1>. QED
  BY <1>5, <1>10, <1>11, <1>12, <1>13

LEMMA ApplyAttributeSure == ASSUME IInv, CInv, NInv, UInv, ApplyAttribute PROVE UInv'
<1>1. PICK S, k, ctx, a, writes :
         /\ S = Changed(line.ctx, Signal[3]) /\ writes = (Signal[1] \in {"set", "add"})
         /\ k = Signal[3] /\ ctx = line.ctx /\ a = Signal[4][1]
  OBVIOUS
<1>2. PICK known, d : known = cli.known /\ d = Written(S, a, writes)
  OBVIOUS
<1>3. Shape /\ line.phase = "apply" /\ Signal[1] \in {"set", "no", "add", "remove"} /\ DataOf(db) /\ ~Looks(Signal)
  BY DEF IInv, NInv, ApplyAttribute, Applying, Looks
<1>4. cli.changeset
  BY <1>3, HarmlessSignal DEF Harmless
<1>5. (S \subseteq View.objs /\ Performed(ctx, known, d) /\ UNCHANGED past) \/ Error(known) \/ Faulty(known)
  BY <1>1, <1>2 DEF ApplyAttribute
<1>6. ctx # <<>> /\ IsSequence(ctx) /\ KindsNest(ctx) /\ k \in Kinds /\ Depth[k] \in Nat /\ Depth[k] = Depth[LastKind(ctx)]
  BY <1>1, <1>3, AttributeNow
<1>7. PICK w : w = db.work /\ IsData(w)
  BY <1>3 DEF DataOf
<1>8. CASE S \subseteq View.objs /\ Performed(ctx, known, d) /\ UNCHANGED past
  <2>1. S \subseteq db.work.objs
    BY <1>4, <1>8 DEF View
  <2>2. \A o \in S : o[1] = k
    <3>1. PICK c : c = IF k = LastKind(ctx) THEN ctx ELSE Adjusted(ctx, k)
      OBVIOUS
    <3>2. IsSequence(c) /\ c # <<>> /\ LastKind(c) = k
      BY <1>6, <3>1, AdjustedKind
    <3>3. S = ExpandIn(w, c)
      BY <1>1, <1>4, <1>7, <3>1 DEF Changed, Expand, View
    <3>. QED
      BY <1>7, <3>2, <3>3, ExpandKind
  <2>3. DataOf(d) /\ SameBelow(w, d.work, Depth[k]) /\ w.objs \subseteq d.work.objs
    BY <1>2, <1>3, <1>6, <1>7, <2>1, <2>2, WrittenData
  <2>4. ExpandIn(d.work, ctx) \subseteq ExpandIn(w, ctx)
    <3>1. S = Changed(ctx, k)
      BY <1>1
    <3>2. ExpandIn(Written(S, a, writes).work, ctx) \subseteq ExpandIn(db.work, ctx)
      BY <1>3, <1>4, <1>6, <2>1, <2>2, <3>1, WrittenStays
    <3>. QED
      BY <1>2, <1>7, <3>2
  <2>5. PICK u : u = d.work /\ IsData(u)
    BY <2>3 DEF DataOf
  <2>6. SameBelow(w, u, Depth[LastKind(ctx)]) /\ ExpandIn(u, ctx) \subseteq ExpandIn(w, ctx)
    BY <1>6, <2>3, <2>4, <2>5
  <2>7. \A v, c : Narrowly(v, c, w, ctx) => Narrowly(v, c, u, ctx)
    BY <1>6, <1>7, <2>5, <2>6, StayNarrowly
  <2>8. Watched => /\ db.work.objs \subseteq d.work.objs /\ (Looks(Signal) => d.work = db.work)
                   /\ \A v, c : Narrowly(v, c, db.work, ctx) => Narrowly(v, c, d.work, ctx)
    BY <1>3, <1>7, <2>3, <2>5, <2>7
  <2>9. Keeps(known) /\ past.asked \subseteq past'.asked
    BY <1>2, <1>8, KnownKeeps
  <2>10. Signal[1] \in {"show", "set", "no", "add", "remove"}
    BY <1>3
  <2>. QED
    BY <1>1, <1>3, <1>8, <2>8, <2>9, <2>10, StandsStill
<1>9. CASE Error(known) \/ Faulty(known)
  BY <1>3, <1>9, ThrownSure
<1>. QED
  BY <1>5, <1>8, <1>9

LEMMA ApplySure == ASSUME IInv, CInv, NInv, UInv, Apply PROVE UInv'
BY ApplyLeftSure, ApplyFilterSure, ApplyShowSure, ApplyCreateSure, ApplyContainedSure, ApplyAttributeSure, TakingSure DEF Apply

-----------------------------------------------------------------------------
(* A line is read: nothing is answered yet, and nothing is behind.         *)
LEMMA ReadSure ==
    ASSUME Shape, IInv', NInv', NEW l, NEW c, ReadWith(l, c) PROVE UInv'
<1>1. PICK r, e, d : Parsed(r, e, d)
  <2>1. PICK r : r = ParseLine(c.ctx, l, (IF c.changeset THEN db.work ELSE db.live).objs)
    OBVIOUS
  <2>2. Parsed(r, c, db) \/ Parsed(r, [ClearCache(c) EXCEPT !.stable = TRUE], Froze(db))
    BY <2>1 DEF ReadWith
  <2>. QED
    BY <2>2
<1>2. CASE r.ok
  <2>1. line' = [line EXCEPT !.phase = "confirm", !.sig = r.sig, !.todo = r.sig, !.ctx = e.ctx, !.backup = e.ctx,
                    !.parsed = r.ctx, !.auto = FALSE, !.end = "none"]
    BY <1>1, <1>2 DEF Parsed
  <2>2. line'.phase = "confirm" /\ line'.todo = line'.sig /\ line'.auto = FALSE
    BY <2>1 DEF Shape, LineShape, LineFields
  <2>3. SUFFICES ASSUME line'.todo # <<>> PROVE UInv'
    BY <2>2 DEF UInv, Hears, Works
  <2>4. IsSequence(line'.sig) /\ Len(line'.sig) \in Nat /\ IsSequence(line'.backup) /\ KindsNest(line'.backup)
    <3>1. IsSequence(line'.sig) /\ IsSequence(line'.backup)
      BY DEF IInv, Shape, LineShape
    <3>2. KindsNest(line'.backup)
      BY <2>2 DEF NInv, Nesting, InPasses
    <3>. QED
      BY <3>1, <3>2, SequenceShape
  <2>5. PICK cs : Along(line'.backup, line'.sig, cs)
    BY <2>2 DEF IInv, Confirms, Leads
  <2>6. PICK v, sig : v = db'.work /\ sig = line'.sig
    OBVIOUS
  <2>7. 0 \in 0 .. (Len(sig) - 1) /\ 1 .. 0 = {}
    <3>1. Len(sig) # 0
      BY <2>2, <2>3, <2>4, <2>6, EmptySequence
    <3>. QED
      BY <2>4, <2>6, <3>1
  <2>8. Behind(0)'
    BY <2>2, <2>4, AllSignals DEF Behind
  <2>9. KindsNest(cs[0])
    BY <2>4, <2>5 DEF Along
  <2>10. Hearing(v, sig, 0, cs)'
    BY <2>2, <2>5, <2>6, <2>7, <2>8, <2>9 DEF Hearing
  <2>. QED
    BY <2>2, <2>10 DEF UInv, Hears, Works
<1>3. CASE ~r.ok
  <2>1. PICK end, ctx : line' = Back(end, ctx)
    BY <1>1, <1>3 DEF Parsed, EndOfLine
  <2>. QED
    BY <2>1, EndsSure
<1>. QED
  BY <1>2, <1>3

LEMMA LinesSure == ASSUME IInv, IInv', NInv', (\E l \in Lines : TypeLine(l)) \/ FileLine PROVE UInv'
<1>1. Shape
  BY DEF IInv
<1>2. PICK l, c : ReadWith(l, c)
  BY DEF TypeLine, FileLine
<1>. QED
  BY <1>1, <1>2, ReadSure

\* The commands and the files end the line; another session takes no part in it.
LEMMA CommandsSure == ASSUME IInv, Commands PROVE UInv'
<1>1. \E name, end : Command(name) /\ line' = Ended(end)
  BY DEF Commands, Start, Resume, Commit, Detach, Abort, NonInteractive, Context, Dump, NotNow, Done, Returns, Failed, Raises
<1>2. line'.phase \in {"prompt", "file"}
  BY <1>1, EndedEnds DEF IInv
<1>. QED
  BY <1>2, Unwatched

LEMMA FilesSure == ASSUME (\E b \in Batches : Batch(b)) \/ (\E x \in Scripts : Execute(x)) \/ FileEnds PROVE UInv'
<1>1. line'.phase \in {"prompt", "file"}
  <2>1. \/ \E end : line' = [AtPrompt EXCEPT !.end = end]
        \/ \E file, lines : line' = [AtPrompt EXCEPT !.phase = "file", !.file = file, !.rest = lines]
    BY DEF Batch, Execute, Reading, FileEnds
  <2>. QED
    BY <2>1, PromptShape DEF LineFields
<1>. QED
  BY <1>1, Unwatched

LEMMA StillSure ==
    ASSUME UInv, line' = line, cli' = cli, past'.asked = past.asked, db'.work = db.work PROVE UInv'
<1>1. Watched' => Watched
  BY DEF Watched, Asks, LateFilter
<1>2. SUFFICES ASSUME Watched PROVE UInv'
  BY <1>1, Unwatched
<1>3. Lasting /\ cli.changeset
  BY <1>2, KnownKeeps DEF Lasting, Watched
<1>4. ASSUME NEW S, SureAll(S) PROVE SureAll(S)'
  BY <1>3, <1>4, SureLasts
<1>5. ASSUME NEW v, NEW sig, NEW k, NEW cs, Hearing(v, sig, k, cs) PROVE Hearing(v, sig, k, cs)'
  <2>1. ASSUME NEW i \in 1 .. k PROVE Answered(v, sig[i])'
    <3>1. PICK t : t = sig[i]
      OBVIOUS
    <3>2. Answered(v, t)
      BY <1>5, <3>1 DEF Hearing
    <3>3. Answered(v, t)'
      BY <1>3, <3>2, AnsweredLasts
    <3>. QED
      BY <3>1, <3>3
  <2>2. line.auto => SureAll(ExpandIn(v, cs[k]))'
    BY <1>4, <1>5 DEF Hearing
  <2>. QED
    BY <1>5, <2>1, <2>2 DEF Hearing, Behind
<1>6. ASSUME NEW v, NEW w, NEW b, NEW sig, NEW k, NEW cs, Here(v, w, b, sig, k, cs) PROVE Here(v, w, b, sig, k, cs)'
  <2>1. ASSUME NEW i \in (k + 1) .. Len(sig) PROVE Answered(v, sig[i])'
    <3>1. PICK t : t = sig[i]
      OBVIOUS
    <3>2. Answered(v, t)
      BY <1>6, <3>1 DEF Here
    <3>3. Answered(v, t)'
      BY <1>3, <3>2, AnsweredLasts
    <3>. QED
      BY <3>1, <3>3
  <2>. QED
    BY <1>6, <2>1 DEF Here, Behind
<1>7. Hears'
  BY <1>2, <1>5 DEF UInv, Hears
<1>8. Works'
  BY <1>2, <1>6 DEF UInv, Works, AllLeft
<1>. QED
  BY <1>7, <1>8 DEF UInv

LEMMA OtherCommitSure == ASSUME IInv, UInv, OtherCommit PROVE UInv'
<1>1. PICK v \in Views : db' = [db EXCEPT !.live = v, !.obsolete = @ \/ db.pending]
  BY DEF OtherCommit
<1>2. past' = [past EXCEPT !.faults = @ + 1] /\ line' = line /\ cli' = cli
  BY DEF OtherCommit
<1>3. db'.work = db.work /\ past'.asked = past.asked
  BY <1>1, <1>2 DEF IInv, Shape, DbShape, DbFields, PastFields
<1>. QED
  BY <1>2, <1>3, StillSure

LEMMA UnaskedStarts == Init => UInv
<1>1. Init => line.phase = "prompt"
  BY PromptShape DEF Init
<1>. QED
  BY <1>1 DEF UInv, Hears, Works

LEMMA UnaskedInductive == IInv /\ CInv /\ NInv /\ UInv /\ [Next \/ Stops]_vars => UInv'
<1>. SUFFICES ASSUME IInv, CInv, NInv, UInv, [Next \/ Stops]_vars PROVE UInv'
  OBVIOUS
<1>1. IInv' /\ NInv'
  BY Inductive, NestingInductive
<1>2. CASE Next
  BY <1>1, <1>2, LinesSure, CommandsSure, FilesSure, ConfirmSure, ApplySure, OtherCommitSure DEF Next, Handle
<1>3. CASE UNCHANGED vars
  BY <1>3, StillSure DEF vars
<1>. QED
  BY <1>2, <1>3 DEF Stops

-----------------------------------------------------------------------------
(***************************************************************************)
(* What a step creates: what the user was asked about, under the names the *)
(* server gives, and what is restored, which the user agrees to then.      *)
(***************************************************************************)
LEMMA CoversCalled ==
    ASSUME NEW r, NEW p, IsSequence(r[2]), IsSequence(p[2]), p[2] # <<>>, Covers(r, p),
           IsNew(p) => \E i \in DOMAIN AutoNames : IsFree(p, i)
    PROVE  Covers(r, Called(p))
<1>1. CASE ~IsNew(p)
  BY <1>1 DEF Called
<1>2. CASE IsNew(p)
  <2>1. PICK j \in DOMAIN AutoNames : Called(p) = AutoNamed(p, j)
    BY <1>2, CalledNew
  <2>2. PICK s, f, n, name, a : s = p[2] /\ f = Front(p[2]) /\ n = Len(p[2]) - 1 /\ name = AutoNames[j] /\ a = Append(f, name)
    OBVIOUS
  <2>3. /\ IsSequence(f) /\ Len(f) = n /\ n \in Nat /\ Len(s) = n + 1
        /\ \A i \in 1 .. n : f[i] = s[i]
    <3>1. IsSequence(s) /\ s # <<>>
      BY <2>2
    <3>2. /\ Len(s) \in Nat \ {0} /\ IsSequence(Front(s)) /\ Len(Front(s)) = Len(s) - 1
          /\ \A i \in 1 .. (Len(s) - 1) : Front(s)[i] = s[i]
      BY ONLY <3>1, FrontOfSequence
    <3>. QED
      BY <2>2, <3>2
  <2>4. IsSequence(a) /\ Len(a) = n + 1 /\ \A i \in 1 .. n : a[i] = f[i]
    BY <2>2, <2>3, AppendedSequence
  <2>5. s[n + 1] = NoName
    BY <1>2, <2>2, <2>3 DEF IsNew, Last
  <2>6. Called(p)[1] = p[1] /\ Called(p)[2] = a
    BY <2>1, <2>2 DEF AutoNamed
  <2>7. Len(r[2]) \in Nat /\ Len(r[2]) <= n + 1
    BY <2>2, <2>3, SequenceShape DEF Covers
  <2>8. ASSUME NEW i \in 1 .. Len(r[2]) PROVE r[2][i] \in {a[i], NoName}
    <3>1. r[2][i] \in {s[i], NoName}
      BY <2>2 DEF Covers
    <3>2. i \in 1 .. n \/ i = n + 1
      BY <2>3, <2>7
    <3>3. CASE i \in 1 .. n
      BY <2>3, <2>4, <3>1, <3>3
    <3>4. CASE i = n + 1
      BY <2>5, <3>1, <3>4
    <3>. QED
      BY <3>2, <3>3, <3>4
  <2>9. Len(r[2]) = Len(a) => r[1] = p[1]
    BY <2>2, <2>3, <2>4 DEF Covers
  <2>. QED
    BY <2>4, <2>6, <2>7, <2>8, <2>9 DEF Covers
<1>. QED
  BY <1>1, <1>2

LEMMA MadeAsked ==
    ASSUME Shape, NEW S, NamesLast(S), SureAll(S), \A o \in S : IsSequence(o[2]) /\ o[2] # <<>>
    PROVE  \A o \in Made(S).work.objs \ db.work.objs : Covered(o)
<1>. SUFFICES ASSUME NEW o \in Made(S).work.objs \ db.work.objs PROVE Covered(o)
  OBVIOUS
<1>1. PICK p \in ToCreate(S) : o = Called(p)
  BY MadeObjects
<1>2. p \in S
  BY ToCreateSome
<1>3. PICK r \in past.asked : IsSequence(r[2]) /\ Covers(r, p)
  BY <1>2 DEF SureAll, Sure
<1>4. IsNew(p) => \E i \in DOMAIN AutoNames : IsFree(p, i)
  BY <1>2 DEF NamesLast
<1>5. Covers(r, o)
  BY <1>1, <1>2, <1>3, <1>4, CoversCalled
<1>. QED
  BY <1>5 DEF Covered

LEMMA RestoredAsked ==
    ASSUME Shape, NEW S, Agreed(S) PROVE \A o \in RestoredIn(S).work.objs \ db.work.objs : o \in past'.asked
<1>1. past'.asked = past.asked \cup S
  BY DEF Agreed, Shape, PastFields
<1>. QED
  BY <1>1, RestoredObjects

\* What the objects that were meant are covered by covers them.
LEMMA MeantSure ==
    ASSUME NEW S, NEW T, SureAll(T), \A q \in T : IsSequence(q[2]), \A o \in S : \E q \in T : Meant(q, o)
    PROVE  SureAll(S)
<1>. SUFFICES ASSUME NEW o \in S PROVE Sure(o)
  BY DEF SureAll
<1>1. PICK q \in T : Meant(q, o)
  OBVIOUS
<1>2. PICK r \in past.asked : IsSequence(r[2]) /\ Covers(r, q)
  BY DEF SureAll, Sure
<1>3. Covers(r, o)
  BY <1>1, <1>2, CoversMeant
<1>. QED
  BY <1>2, <1>3 DEF Sure

LEMMA TypedNames == ASSUME NEW k, Depth[k] \in Nat, NEW S, Typed(S, k) PROVE \A o \in S : IsSequence(o[2]) /\ o[2] # <<>>
<1>. SUFFICES ASSUME NEW o \in S PROVE IsSequence(o[2]) /\ o[2] # <<>>
  OBVIOUS
<1>1. IsSequence(o[2]) /\ Len(o[2]) = Depth[k] + 1
  BY DEF Typed
<1>2. Len(o[2]) # 0
  BY <1>1
<1>. QED
  BY <1>1, <1>2

\* Where the second pass is, when it is at a signal that does more than leave.
LEMMA HereAt ==
    ASSUME IInv, NInv, UInv, line.phase = "apply", Watched, Signal[1] # "left"
    PROVE  \E v, w, b, sig, k, cs : Here(v, w, b, sig, k, cs)
<1>1. Len(line.todo) \in Nat \ {0} /\ Signal = line.todo[1]
  BY TodoNow
<1>2. 1 \in 1 .. Len(line.todo)
  BY <1>1
<1>3. ~AllLeft(line.todo)
  BY <1>1, <1>2 DEF AllLeft
<1>. QED
  BY <1>3, HereNow

LEMMA CreatesSure ==
    ASSUME IInv, CInv, NInv, UInv, line.phase = "apply", Asks, ~LateFilter, Signal[1] \in {"create", "enter"},
           NEW ctx, ctx = Append(line.ctx, <<"object", Signal[3], Signal[4]>>), NEW S, S = Expand(ctx),
           Signal[1] = "create" \/ ~Named(ctx) \/ ~AllExist(S)
    PROVE  SureAll(S) /\ \A o \in S : IsSequence(o[2]) /\ o[2] # <<>>
<1>1. cli.changeset
  <2>1. SUFFICES ASSUME ~cli.changeset PROVE FALSE
    OBVIOUS
  <2>2. Signal[1] = "enter"
    BY <2>1, HarmlessSignal DEF Harmless
  <2>3. Named(ctx) /\ AllExist(S)
    BY <2>1, <2>2, EnteredThere
  <2>. QED
    BY <2>2, <2>3
<1>2. PICK v, w, b, sig, i, cs : Here(v, w, b, sig, i, cs)
  BY <1>1, HereAt DEF Watched
<1>3. PICK c, e, s, k, name : c = cs[i] /\ e = cs[i + 1] /\ s = Signal /\ k = Signal[3] /\ name = Signal[4]
  OBVIOUS
<1>4. /\ w = db.work /\ b = line.ctx /\ IsData(v) /\ IsData(w) /\ IsSequence(b) /\ KindsNest(b)
      /\ IsSequence(c) /\ SameContext(b, c) /\ IsSequence(e) /\ KindsNest(e) /\ After(c, s, e)
      /\ Len(sig) \in Nat /\ i \in Nat /\ i + 1 \in 1 .. Len(sig) /\ s = sig[i + 1]
  <2>1. IInv /\ NInv /\ line.phase = "apply"
    OBVIOUS
  <2>2. /\ w = db.work /\ b = line.ctx /\ IsData(v) /\ IsData(w) /\ IsSequence(b) /\ KindsNest(b)
        /\ IsSequence(cs[i]) /\ SameContext(b, cs[i]) /\ IsSequence(cs[i + 1]) /\ KindsNest(cs[i + 1])
        /\ After(cs[i], Signal, cs[i + 1])
        /\ Len(sig) \in Nat /\ i \in Nat /\ i + 1 \in 1 .. Len(sig) /\ Signal = sig[i + 1]
    BY ONLY <2>1, <1>2, HereIs
  <2>. QED
    BY ONLY <1>3, <2>2
<1>5. Answered(v, s)
  <2>1. i + 1 \in (i + 1) .. Len(sig)
    BY <1>4
  <2>. QED
    BY <1>2, <1>4, <2>1 DEF Here
<1>6. ctx = Deeper(b, k, name) /\ e = Append(c, <<"object", k, name>>) /\ s[2] = e
  BY <1>3, <1>4 DEF After, Deeper
<1>7. S = ExpandIn(w, ctx)
  BY <1>1, <1>4, ViewHere
<1>8. KindsNest(ctx) /\ IsSequence(ctx) /\ Typed(S, k) /\ Depth[k] \in Nat
  <2>1. KindsNest(Deeper(b, k, name))
    BY <1>3, <1>4, CreateHere
  <2>2. /\ IsSequence(Deeper(b, k, name)) /\ k \in Kinds /\ Depth[k] \in Nat
        /\ Typed(ExpandIn(w, Deeper(b, k, name)), k)
    BY ONLY <1>4, <2>1, DeeperIs, NextTyped
  <2>. QED
    BY <1>6, <1>7, <2>1, <2>2
<1>9. Narrowly(v, e, w, ctx)
  <2>1. SameBelow(w, w, Depth[Signal[3]])
    BY DEF SameBelow
  <2>2. Narrowly(v, cs[i + 1], w, Deeper(b, Signal[3], Signal[4]))
    BY <1>2, <1>4, <2>1, CreateNarrowly
  <2>. QED
    BY <1>3, <1>6, <2>2
<1>10. PICK T : T = ExpandIn(v, e)
  OBVIOUS
<1>11. (\A o \in S : \E q \in T : Meant(q, o)) /\ (ctx = e => S \subseteq T)
  <2>1. IsSequence(e) /\ IsSequence(ctx)
    BY <1>4, <1>8
  <2>2. /\ \A o \in ExpandIn(w, ctx) : \E q \in ExpandIn(v, e) : Meant(q, o)
        /\ ctx = e => ExpandIn(w, ctx) \subseteq ExpandIn(v, e)
    BY ONLY <1>9, <2>1, ExpandMeant
  <2>. QED
    BY ONLY <1>7, <1>10, <2>2
<1>12. e # <<>>
  <2>1. IsSequence(c) /\ e = Deeper(c, k, name)
    BY <1>4, <1>6 DEF Deeper
  <2>. QED
    BY ONLY <2>1, DeeperIs
<1>13. \A q \in T : IsSequence(q[2])
  BY <1>4, <1>10, <1>12, ExpandTyped DEF Typed
<1>14. SureAll(T)
  <2>1. SureAll(T) \/ (s[1] = "enter" /\ Named(e) /\ AllExist(T))
    BY <1>3, <1>5, <1>6, <1>10 DEF Answered
  <2>2. SUFFICES ASSUME s[1] = "enter", Named(e), AllExist(T) PROVE FALSE
    BY <2>1
  <2>3. PICK x : x = <<"object", k, name>>
    OBVIOUS
  <2>4. e = Append(c, x)
    BY <1>6, <2>3
  <2>5. b = c
    BY <1>4, <2>2, <2>4, SameWhenNamed
  <2>6. ctx = e
    BY <1>6, <2>3, <2>4, <2>5 DEF Deeper
  <2>7. AllExist(S)
    BY <1>11, <2>2, <2>6 DEF AllExist
  <2>. QED
    BY <1>3, <2>2, <2>6, <2>7
<1>. QED
  BY <1>8, <1>11, <1>13, <1>14, MeantSure, TypedNames

LEMMA SameLastKind ==
    ASSUME NEW b, NEW c, IsSequence(b), IsSequence(c), c # <<>>, SameContext(b, c) PROVE LastKind(b) = LastKind(c)
<1>1. Len(b) = Len(c) /\ Len(c) \in 1 .. Len(c) /\ LastKind(c) = c[Len(c)][2]
  BY LastKindOf DEF SameContext
<1>2. b # <<>>
  BY <1>1, EmptySequence
<1>3. LastKind(b) = b[Len(c)][2]
  BY <1>1, <1>2, LastKindOf
<1>4. PICK x, y : x = b[Len(c)] /\ y = c[Len(c)]
  OBVIOUS
<1>5. x = y \/ SubSeq(x, 1, 2) = SubSeq(y, 1, 2)
  BY <1>1, <1>4 DEF SameContext
<1>6. \A z : SubSeq(z, 1, 2)[2] = z[2]
  OBVIOUS
<1>7. SubSeq(x, 1, 2) = SubSeq(y, 1, 2) => x[2] = y[2]
  BY <1>6
<1>. QED
  BY <1>1, <1>3, <1>4, <1>5, <1>7

LEMMA SameNamed ==
    ASSUME NEW b, NEW c, IsSequence(b), IsSequence(c), SameContext(b, c), Named(c) PROVE b = c
<1>1. Len(b) = Len(c)
  BY DEF SameContext
<1>2. \A i \in 1 .. Len(b) : b[i] = c[i]
  BY <1>1 DEF SameContext, Named
<1>. QED
  BY <1>1, <1>2, SameSequences

LEMMA ContainedSure ==
    ASSUME IInv, CInv, NInv, UInv, line.phase = "apply", Asks, ~LateFilter, Signal[1] \in {"set", "add"},
           Signal[3] # LastKind(line.ctx), NEW S, S = Targets(line.ctx, Signal[3]), ~AllExist(S)
    PROVE  SureAll(S) /\ \A o \in S : IsSequence(o[2]) /\ o[2] # <<>>
<1>1. cli.changeset
  BY HarmlessSignal DEF Harmless
<1>2. PICK v, w, b, sig, i, cs : Here(v, w, b, sig, i, cs)
  BY <1>1, HereAt DEF Watched
<1>3. PICK c, e, s, k : c = cs[i] /\ e = cs[i + 1] /\ s = Signal /\ k = Signal[3]
  OBVIOUS
<1>4. /\ w = db.work /\ b = line.ctx /\ sig = line.sig /\ IsData(w) /\ IsSequence(b)
      /\ IsSequence(c) /\ SameContext(b, c) /\ Narrowly(v, c, w, b) /\ After(c, s, e)
      /\ IsSequence(sig) /\ Len(sig) \in Nat /\ i \in Nat /\ i + 1 \in 1 .. Len(sig) /\ s = sig[i + 1]
  <2>1. IInv /\ NInv /\ line.phase = "apply"
    OBVIOUS
  <2>2. /\ w = db.work /\ b = line.ctx /\ sig = line.sig /\ IsData(w) /\ IsSequence(b)
        /\ IsSequence(cs[i]) /\ SameContext(b, cs[i]) /\ Narrowly(v, cs[i], w, b) /\ After(cs[i], Signal, cs[i + 1])
        /\ IsSequence(sig) /\ Len(sig) \in Nat /\ i \in Nat /\ i + 1 \in 1 .. Len(sig) /\ Signal = sig[i + 1]
    BY ONLY <2>1, <1>2, HereIs
  <2>. QED
    BY ONLY <1>3, <2>2
<1>5. Answered(v, s)
  <2>1. i + 1 \in (i + 1) .. Len(sig)
    BY <1>4
  <2>. QED
    BY <1>2, <1>4, <2>1 DEF Here
<1>6. s[2] = c /\ c # <<>>
  BY <1>3, <1>4 DEF After
<1>7. k # LastKind(c) /\ s[3] = k
  BY <1>3, <1>4, <1>6, SameLastKind
<1>8. /\ \A o \in ExpandIn(w, b) : \E q \in ExpandIn(v, c) : Meant(q, o)
      /\ b = c => ExpandIn(w, b) \subseteq ExpandIn(v, c)
  BY ONLY <1>4, ExpandMeant
<1>9. PICK T : T = Within(v, s)
  OBVIOUS
<1>10. S = {<<k, o[2]>> : o \in ExpandIn(w, b)} /\ T = {<<k, q[2]>> : q \in ExpandIn(v, c)}
  BY <1>1, <1>3, <1>4, <1>6, <1>7, <1>9, ViewHere DEF Targets, Within
<1>11. \A o \in S : \E q \in T : Meant(q, o)
  <2>1. SUFFICES ASSUME NEW o \in ExpandIn(w, b) PROVE \E q \in T : Meant(q, <<k, o[2]>>)
    BY <1>10
  <2>2. PICK q \in ExpandIn(v, c) : Meant(q, o)
    BY <1>8
  <2>3. Meant(<<k, q[2]>>, <<k, o[2]>>)
    BY <2>2 DEF Meant, Covers
  <2>. QED
    BY <1>10, <2>3
<1>12. \A q \in T : IsSequence(q[2])
  <2>1. IsData(v) /\ KindsNest(c)
    BY <1>2, <1>3 DEF Here
  <2>. QED
    BY <1>4, <1>6, <1>9, <2>1, WithinTyped
<1>13. SureAll(S)
  <2>1. SureAll(T) \/ (Named(c) /\ AllExist(T))
    BY <1>3, <1>5, <1>6, <1>7, <1>9 DEF Answered
  <2>2. SUFFICES ASSUME Named(c), AllExist(T) PROVE FALSE
    BY <1>11, <1>12, <2>1, MeantSure
  <2>3. b = c
    BY <1>4, <2>2, SameNamed
  <2>4. S \subseteq T
    BY <1>8, <1>10, <2>3
  <2>. QED
    BY <2>2, <2>4 DEF AllExist
<1>14. Depth[k] \in Nat /\ Typed(S, k)
  <2>1. /\ b # <<>> /\ IsSequence(b) /\ KindsNest(b) /\ Depth[k] \in Nat /\ Depth[k] = Depth[LastKind(b)]
    BY <1>3, <1>4, AttributeNow
  <2>2. S = {<<k, o[2]>> : o \in ExpandIn(w, b)}
    BY <1>10
  <2>. QED
    BY <1>4, <2>1, <2>2, ContainedTyped
<1>. QED
  BY <1>13, <1>14, TypedNames

-----------------------------------------------------------------------------
\* What the work is after a step of the second pass.
LEMMA WorkThen ==
    ASSUME NEW d, DbShape(d), NEW ctx, NEW known, Performed(ctx, known, d) \/ \E failed : NotPerformed(ctx, known, d, failed)
    PROVE  db'.work = d.work
<1>1. db' = d \/ db' = Thawed(d)
  BY DEF Performed, NotPerformed, EndOfLine
<1>2. Thawed(d).work = d.work
  BY DEF Thawed, DbShape, DbFields
<1>. QED
  BY <1>1, <1>2

LEMMA NothingNew ==
    ASSUME Shape, ApplyLeft \/ ApplyFilter \/ ApplyShow \/ ApplyAttribute \/ ApplyDelete
    PROVE  db'.work.objs \subseteq db.work.objs
<1>1. PICK now : now = db /\ DbShape(now)
  BY DEF Shape
<1>2. CASE ApplyLeft
  <2>1. PICK ctx, known : Performed(ctx, known, now)
    BY <1>1, <1>2 DEF ApplyLeft
  <2>. QED
    BY <1>1, <2>1, WorkThen
<1>3. CASE ApplyFilter
  <2>1. PICK ctx, known : Performed(ctx, known, now) \/ NotPerformed(ctx, known, now, FALSE)
    BY <1>1, <1>3 DEF ApplyFilter
  <2>. QED
    BY <1>1, <2>1, WorkThen
<1>4. CASE ApplyShow
  <2>1. PICK ctx, known : Performed(ctx, known, now) \/ Error(cli.known) \/ Faulty(cli.known)
    BY <1>1, <1>4 DEF ApplyShow
  <2>. QED
    BY <1>1, <2>1, WorkThen, ErrorMild
<1>5. CASE ApplyAttribute
  <2>1. PICK S, a, writes, new : /\ Performed(line.ctx, cli.known, Written(S, a, writes)) \/ Error(cli.known) \/ Faulty(cli.known)
                                 /\ new = {<<o, a>> : o \in S}
    <3>1. PICK S, a, writes : Performed(line.ctx, cli.known, Written(S, a, writes)) \/ Error(cli.known) \/ Faulty(cli.known)
      BY <1>5 DEF ApplyAttribute
    <3>. QED
      BY <3>1
  <2>2. PICK d : d = Written(S, a, writes)
    OBVIOUS
  <2>3. d = [db EXCEPT !.work = [db.work EXCEPT !.set = IF writes THEN @ \cup new ELSE @ \ new]]
    BY <2>1, <2>2 DEF Written, Working
  <2>4. DbShape(d) /\ d.work.objs = db.work.objs
    BY <1>1, <2>3 DEF DbShape, DbFields, ViewFields
  <2>. QED
    BY <2>1, <2>2, <2>4, WorkThen, ErrorMild
<1>6. CASE ApplyDelete
  <2>1. PICK S, N, gone : S = Expand(line.ctx) /\ N = Nested(S) /\ gone = Removing(S \cup N)
    OBVIOUS
  <2>2. PICK d, v : d = Deleted(gone) /\ v = Without(db.work, gone)
    OBVIOUS
  <2>3. PICK known, told : /\ known = Told(Told(Looked(S), N, TRUE), gone, FALSE) /\ told = Told(cli.known, N, TRUE)
    OBVIOUS
  <2>4. \/ Performed(line.ctx, known, d) \/ NotPerformed(line.backup, told, now, FALSE)
        \/ Error(known) \/ Faulty(known)
    BY <1>1, <1>6, <2>1, <2>2, <2>3 DEF ApplyDelete
  <2>5. DOMAIN v = ViewFields /\ v.objs \subseteq db.work.objs
    BY <2>2 DEF Without, ViewFields
  <2>6. d = [[db EXCEPT !.work = v] EXCEPT !.gone = Both(@, Only(db.work, gone))]
    BY <2>2 DEF Deleted, Working
  <2>7. DbShape(d) /\ d.work = v
    BY <1>1, <2>5, <2>6 DEF DbShape, DbFields
  <2>. QED
    BY <1>1, <2>4, <2>5, <2>7, WorkThen, ErrorMild
<1>. QED
  BY <1>2, <1>3, <1>4, <1>5, <1>6

\* What a step creates was asked about, or is now.
WasAsked(o) == Covered(o) \/ o \in past'.asked

LEMMA SameWork == ASSUME db'.work = db.work PROVE \A o \in db'.work.objs \ db.work.objs : WasAsked(o)
OBVIOUS

LEMMA NotRestoredWork == ASSUME Shape, NEW ctx, NEW S, NotRestored(ctx, S) PROVE db'.work = db.work
<1>1. PICK now : now = db /\ DbShape(now)
  BY DEF Shape
<1>2. PICK old : old = Remembered(S)
  OBVIOUS
<1>3. NotPerformed(line.ctx, old, now, FALSE) \/ NotPerformed(line.ctx, cli.known, now, FALSE)
  BY <1>1, <1>2 DEF NotRestored
<1>. QED
  BY <1>1, <1>3, WorkThen

LEMMA CreateAsked ==
    ASSUME IInv, CInv, NInv, UInv, Asks, ~LateFilter, ApplyCreate
    PROVE  \A o \in db'.work.objs \ db.work.objs : WasAsked(o)
<1>1. PICK ctx, new, now : /\ ctx = Append(line.ctx, <<"object", Signal[3], Signal[4]>>) /\ now = db /\ DbShape(now)
                           /\ new = Append(line.ctx, NewItem(Expand(ctx)))
  BY DEF IInv, Shape
<1>2. PICK S : S = Expand(ctx)
  OBVIOUS
<1>3. PICK looked, known, again, old, made, restored :
         /\ looked = Looked(S) /\ known = NowKnown(S) /\ again = KnownAgain(S) /\ old = Remembered(S)
         /\ made = Made(S) /\ restored = RestoredIn(S)
  OBVIOUS
<1>4. Shape /\ line.phase = "apply" /\ Signal[1] \in {"create", "enter"} /\ DbShape(made) /\ DbShape(restored)
  BY <1>3, MadeShape, RestoredShape DEF IInv, ApplyCreate, Applying
<1>5. \/ Performed(ctx, looked, now)
      \/ /\ Signal[1] = "create" \/ ~Named(ctx) \/ ~AllExist(S)
         /\ \/ NamesLast(S) /\ (Performed(new, known, made) \/ NotPerformed(line.ctx, known, made, TRUE))
            \/ NotRestored(ctx, S)
            \/ IsRestored(ctx, S) /\ Performed(ctx, again, restored)
            \/ NotPerformed(line.ctx, old, now, TRUE)
            \/ Error(old) \/ Faulty(old)
  BY <1>1, <1>2, <1>3 DEF ApplyCreate
<1>6. ASSUME Performed(ctx, looked, now) \/ NotPerformed(line.ctx, old, now, TRUE) PROVE db'.work = db.work
  BY <1>1, <1>6, WorkThen
<1>7. ASSUME Error(old) \/ Faulty(old) PROVE db'.work = db.work
  BY <1>4, <1>7, ErrorMild
<1>8. CASE /\ Signal[1] = "create" \/ ~Named(ctx) \/ ~AllExist(S)
           /\ NamesLast(S) /\ (Performed(new, known, made) \/ NotPerformed(line.ctx, known, made, TRUE))
  <2>1. SureAll(S) /\ \A o \in S : IsSequence(o[2]) /\ o[2] # <<>>
    BY <1>1, <1>2, <1>4, <1>8, CreatesSure
  <2>2. db'.work = made.work
    BY <1>4, <1>8, WorkThen
  <2>3. \A o \in Made(S).work.objs \ db.work.objs : Covered(o)
    BY <1>4, <1>8, <2>1, MadeAsked
  <2>. QED
    BY <1>3, <2>2, <2>3 DEF WasAsked
<1>9. CASE IsRestored(ctx, S) /\ Performed(ctx, again, restored)
  <2>1. db'.work = restored.work
    BY <1>4, <1>9, WorkThen
  <2>2. \A o \in RestoredIn(S).work.objs \ db.work.objs : o \in past'.asked
    BY <1>4, <1>9, RestoredAsked DEF IsRestored
  <2>. QED
    BY <1>3, <2>1, <2>2 DEF WasAsked
<1>. QED
  BY <1>4, <1>5, <1>6, <1>7, <1>8, <1>9, NotRestoredWork, SameWork

LEMMA ContainedAsked ==
    ASSUME IInv, CInv, NInv, UInv, Asks, ~LateFilter, ApplyContained
    PROVE  \A o \in db'.work.objs \ db.work.objs : WasAsked(o)
<1>1. PICK S : S = Targets(line.ctx, Signal[3])
  OBVIOUS
<1>2. PICK old, made, restored : old = Remembered(S) /\ made = Made(S) /\ restored = RestoredIn(S)
  OBVIOUS
<1>3. /\ Shape /\ line.phase = "apply" /\ Signal[1] \in {"set", "add"} /\ Signal[3] # LastKind(line.ctx) /\ ~AllExist(S)
  BY <1>1 DEF IInv, ApplyContained, Applying
<1>4. \/ NamesLast(S) /\ db' = made
      \/ NotRestored(line.ctx, S)
      \/ IsRestored(line.ctx, S) /\ db' = restored
      \/ Error(old) \/ Faulty(old)
  BY <1>1, <1>2 DEF ApplyContained
<1>5. CASE NamesLast(S) /\ db' = made
  <2>1. SureAll(S) /\ \A o \in S : IsSequence(o[2]) /\ o[2] # <<>>
    BY <1>1, <1>3, ContainedSure
  <2>2. \A o \in Made(S).work.objs \ db.work.objs : Covered(o)
    BY <1>3, <1>5, <2>1, MadeAsked
  <2>. QED
    BY <1>2, <1>5, <2>2 DEF WasAsked
<1>6. CASE IsRestored(line.ctx, S) /\ db' = restored
  <2>1. \A o \in RestoredIn(S).work.objs \ db.work.objs : o \in past'.asked
    BY <1>3, <1>6, RestoredAsked DEF IsRestored
  <2>. QED
    BY <1>2, <1>6, <2>1 DEF WasAsked
<1>7. ASSUME Error(old) \/ Faulty(old) PROVE db'.work = db.work
  BY <1>3, <1>7, ErrorMild
<1>8. ASSUME NotRestored(line.ctx, S) PROVE db'.work = db.work
  <2>1. PICK b : b = line.ctx
    OBVIOUS
  <2>. QED
    BY <1>3, <1>8, <2>1, NotRestoredWork
<1>. QED
  BY <1>4, <1>5, <1>6, <1>7, <1>8, SameWork

LEMMA UnaskedStep ==
    ASSUME IInv, CInv, NInv, UInv, [Next \/ Stops]_vars,
           line.phase = "apply", Asks, Signal[1] # "rename", ~LateFilter
    PROVE  \A o \in db'.work.objs \ db.work.objs : WasAsked(o)
<1>1. CASE db'.work = db.work
  BY <1>1, SameWork
<1>2. CASE db'.work # db.work
  <2>1. Next /\ db' # db
    BY <1>2 DEF Stops, vars
  <2>2. ~Confirm
    BY <2>1 DEF Confirm, ConfirmReading, ConfirmLeft, ConfirmCreate, ConfirmEntered, ConfirmSet, ConfirmRemove,
           ConfirmDelete, ConfirmRename, Confirming, NoSignals
  <2>3. ~Commands
    <3>1. \A name : ~Command(name)
      BY DEF Command, AtThePrompt
    <3>. QED
      BY <3>1 DEF Commands, Start, Resume, Commit, Detach, Abort, NonInteractive, Context, Dump, NotNow
  <2>4. ~(\E l \in Lines : TypeLine(l)) /\ ~(\E b \in Batches : Batch(b)) /\ ~(\E x \in Scripts : Execute(x))
    BY DEF TypeLine, Batch, Execute, AtThePrompt
  <2>5. ~FileLine /\ ~FileEnds
    BY DEF FileLine, FileEnds
  <2>6. ~OtherCommit
    <3>1. DbShape(db)
      BY DEF IInv, Shape
    <3>. QED
      BY <1>2, <3>1 DEF OtherCommit, DbShape, DbFields
  <2>7. Apply
    BY <2>1, <2>2, <2>3, <2>4, <2>5, <2>6 DEF Next, Handle
  <2>8. ~ApplyRename
    BY DEF ApplyRename, Applying
  <2>9. ASSUME ApplyLeft \/ ApplyFilter \/ ApplyShow \/ ApplyAttribute \/ ApplyDelete
        PROVE  \A o \in db'.work.objs \ db.work.objs : WasAsked(o)
    <3>1. db'.work.objs \subseteq db.work.objs
      BY <2>9, NothingNew DEF IInv
    <3>. QED
      BY <3>1
  <2>. QED
    BY <2>7, <2>8, <2>9, CreateAsked, ContainedAsked DEF Apply
<1>. QED
  BY <1>1, <1>2

(* An interactive session creates nothing the user has not typed create    *)
(* for or agreed to, whatever the lines, the data and the names the server *)
(* gives: what the second pass creates from its own context is covered by  *)
(* what the first has asked about in the parser's, apart from the filters  *)
(* that NothingUnasked leaves out.                                         *)
THEOREM NothingIsUnasked == Spec => NothingUnasked
<1>1. IInv /\ CInv /\ NInv /\ UInv /\ [Next \/ Stops]_vars =>
        [line.phase = "apply" /\ Asks /\ Signal[1] # "rename" /\ ~LateFilter =>
           \A o \in db'.work.objs \ db.work.objs : Covered(o) \/ o \in past'.asked]_vars
  BY UnaskedStep DEF WasAsked
<1>2. IInv /\ CInv /\ NInv /\ UInv /\ [Next \/ Stops]_vars => IInv' /\ CInv' /\ NInv' /\ UInv'
  BY Inductive, CacheInductive, NestingInductive, UnaskedInductive
<1>3. Init => IInv /\ CInv /\ NInv /\ UInv
  BY Starts, CacheStarts, NestingStarts, UnaskedStarts
<1>. QED
  BY <1>1, <1>2, <1>3, PTL DEF Spec, NothingUnasked
=============================================================================
