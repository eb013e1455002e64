----------------------------- MODULE CliSession -----------------------------
(***************************************************************************)
(* One user of deska-cli: the loop that reads lines (UserInterface::run),  *)
(* the two passes over the signals of a line (SignalsHandler: all of them  *)
(* are confirmed, then they are applied one by one), what each signal does *)
(* (UserInterface), the cache of existing objects (DbInteraction), the     *)
(* commands that change the mode of the session and batch files.           *)
(*                                                                         *)
(* Around it: the server, which keeps the live data, the changeset of this *)
(* session (one at a time) and what a frozen view sees, and other sessions *)
(* that commit.  An object is <<kind, path>>; an attribute is set or not.  *)
(* What a handler asks and tells the server is one step: what it reads     *)
(* cannot change meanwhile, in a changeset and in a frozen view.           *)
(***************************************************************************)
EXTENDS CliParser, FiniteSets

CONSTANTS
  Lines,        \* the lines a user may type
  Batches,      \* the files for the command batch, as sequences of lines
  Scripts,      \* the files for execute: lines, and commands, the token <<name>>
  Views,        \* the data the session may find: [objs, set]
  AutoNames,    \* the names the server gives to objects it has to name, in order
  MaxLines,     \* bound: lines and commands typed
  MaxFaults     \* bound: calls the server refuses for no reason seen here,
                \* and commits of other sessions

ASSUME LinesAssumption ==
  /\ \A l \in Lines : WellMade(l)
  /\ \A f \in Batches \cup Scripts : f \in Seq({f[i] : i \in DOMAIN f}) /\ \A i \in DOMAIN f : WellMade(f[i])
(* What data are: an object has a name, and one more for each kind that    *)
(* its own is embedded into.                                               *)
IsObject(o) ==
  /\ o = <<o[1], o[2]>> /\ o[1] \in Kinds /\ o[2] \in Seq({o[2][i] : i \in DOMAIN o[2]})
  /\ Len(o[2]) = Depth[o[1]] + 1 /\ Last(o[2]) # NoName
IsData(v) ==
  /\ v = [objs |-> v.objs, set |-> v.set] /\ IsFiniteSet(v.objs)
  /\ \A o \in v.objs : IsObject(o)
  /\ \A s \in v.set : s = <<s[1], s[2]>> /\ IsObject(s[1])
ASSUME ViewsAssumption == \A v \in Views : IsData(v)
ASSUME NamesAssumption ==
  /\ AutoNames \in Seq({AutoNames[i] : i \in DOMAIN AutoNames})
  /\ \A i \in DOMAIN AutoNames : AutoNames[i] # NoName

(* A definition that is followed by one with a shorter name is that one    *)
(* with a plausible bug in it: it shows that the properties notice the bug *)
(* and no behaviour uses it (AllExistAny, ThrowKeepsCache,                 *)
(* ConfirmSetUnasked, ApplyLeftStays, FileEndsQuiet).                      *)
VARIABLES
  db,       \* [live, work, seen, gone: views, pending, obsolete, frozen]
  cli,      \* [ctx, before: contexts, changeset, quiet, force, failed, stable, known]
  line,     \* the line being handled, or the last one
  past      \* what the properties need of the past, and the bounds' counters
vars == <<db, cli, line, past>>

-----------------------------------------------------------------------------
(* The data, as the server shows it to this session.                       *)
View == IF cli.changeset THEN db.work ELSE IF db.frozen THEN db.seen ELSE db.live
IsUnder(o, top) ==
  /\ Len(top[2]) < Len(o[2]) /\ top[2] = SubSeq(o[2], 1, Len(top[2]))
  /\ top[1] = KindsUp(o[1], Len(o[2]))[Len(top[2])]
Nested(S)  == {o \in View.objs : \E top \in S : IsUnder(o, top)}
AreConnected(c, o) ==
  o[2] = c[2] /\ o # c /\ (o[1] \in ContainedRecursively[c[1]] \/ o[1] \in ContainableIn(c[1]))
Connected(S) == {o \in View.objs : \E c \in S : AreConnected(c, o)}

(* expandContextStack: the objects a context stands for in the data v.  A  *)
(* filter is <<>> (all) or <<k, a>>: attribute a of kind k is set.         *)
Matches(v, o, f) == f = <<>> \/ <<<<f[1], o[2]>>, f[2]>> \in v.set
Narrowing(v, ctx) ==       \* what the context stands for up to each item
  LET step[i \in 1..Len(ctx)] ==
        LET k == ctx[i][2]
        IN  IF IsFilter(ctx[i])
              THEN {o \in v.objs : o[1] = k /\ Matches(v, o, ctx[i][3]) /\ (i = 1 \/ \E t \in step[i - 1] : IsUnder(o, t))}
            ELSE IF i = 1 THEN {<<k, <<ctx[i][3]>>>>} ELSE {<<k, Append(t[2], ctx[i][3])>> : t \in step[i - 1]}
  IN  step
ExpandIn(v, ctx) ==
  CASE ctx = <<>> -> {}
    [] ctx # <<>> /\ ~HasFilter(ctx) -> {<<LastKind(ctx), PathOf(ctx)>>}
    [] OTHER -> Narrowing(v, ctx)[Len(ctx)]
Expand(ctx) == ExpandIn(View, ctx)

(* What an expansion remembers: the objects its filters have matched, not  *)
(* those it has stepped to from there, which need not exist.  (Only        *)
(* ApplyFilter and Context, which do nothing else to the cache, tell it:   *)
(* the other handlers go by what they look for.)                           *)
Matched(ctx) == UNION {Expand(SubSeq(ctx, 1, i)) : i \in {j \in 1..Len(ctx) : IsFilter(ctx[j])}}

(* The objects of kind k contained in those of the context; and the        *)
(* context with its last kind replaced, which is what a change of an       *)
(* attribute of a contained object is sent to.                             *)
Targets(ctx, k)  == {<<k, o[2]>> : o \in Expand(ctx)}
Adjusted(ctx, k) == [ctx EXCEPT ![Len(ctx)] = <<@[1], k, @[3]>>]

(* objectExists, and what it leaves in the cache (also when the view is    *)
(* not stable); a lookup of several objects is taken to look at them all.  *)
Knows(o)  == cli.stable /\ o \in DOMAIN cli.known
Exists(o) == IF Knows(o) THEN cli.known[o] ELSE o \in View.objs
Named(ctx)  == \A i \in 1..Len(ctx) : IsFilter(ctx[i]) \/ ctx[i][3] # NoName
AllExistAny(S) == S = {} \/ \E o \in S : Exists(o)
AllExist(S) == \A o \in S : Exists(o)
Looked(S)   == [o \in DOMAIN cli.known \cup S |-> IF o \in S THEN Exists(o) ELSE cli.known[o]]
Told(known, S, b) ==
  IF cli.stable THEN [o \in DOMAIN known \cup S |-> IF o \in S THEN b ELSE known[o]] ELSE known

-----------------------------------------------------------------------------
(* What the server does with a change, and when it does not.               *)
IsNew(o)      == Last(o[2]) = NoName
With(v, S)    == [v EXCEPT !.objs = @ \cup S]
NoData == [objs |-> {}, set |-> {}]
Both(v, w)    == [objs |-> v.objs \cup w.objs, set |-> v.set \cup w.set]
Only(v, S)    == [objs |-> v.objs \cap S, set |-> {s \in v.set : s[1] \in S}]
Without(v, S) == [objs |-> v.objs \ S, set |-> {s \in v.set : s[1] \notin S}]
Moved(o, S, name) ==       \* where o is after the objects of S were renamed
  LET Path(top) == Front(top[2]) \o <<name>> \o SubSeq(o[2], Len(top[2]) + 1, Len(o[2]))
  IN  IF \E top \in S : o = top \/ IsUnder(o, top)
      THEN <<o[1], Path(CHOOSE top \in S : o = top \/ IsUnder(o, top))>> ELSE o
Renamed(v, S, name) == [objs |-> {Moved(o, S, name) : o \in v.objs},
                        set  |-> {<<Moved(s[1], S, name), s[2]>> : s \in v.set}]
CanRename(v, S, name) ==
  /\ S \subseteq v.objs /\ Cardinality({Moved(o, S, name) : o \in S}) = Cardinality(S)
  /\ \A o \in S : Moved(o, S, name) \notin v.objs
HasParent(o) ==
  o[1] \in DOMAIN EmbeddedInto => <<EmbeddedInto[o[1]], Front(o[2])>> \in View.objs
CanFail == past.faults < MaxFaults

(* The name the server gives to a new object: the first it has not used.   *)
(* (Bound: as long as one is left.)                                        *)
AutoNamed(o, i) == <<o[1], Append(Front(o[2]), AutoNames[i])>>
IsFree(o, i) == i \in DOMAIN AutoNames /\ AutoNamed(o, i) \notin View.objs \cup db.gone.objs
Called(o) ==
  IF IsNew(o) THEN AutoNamed(o, CHOOSE i \in DOMAIN AutoNames : IsFree(o, i) /\ \A j \in 1..(i - 1) : ~IsFree(o, j)) ELSE o
NamesLast(S) == \A o \in S : IsNew(o) => \E i \in DOMAIN AutoNames : IsFree(o, i)

-----------------------------------------------------------------------------
Nothing == [o \in {} |-> TRUE]
AtPrompt == [phase |-> "prompt", sig |-> <<>>, todo |-> <<>>, ctx |-> <<>>, parsed |-> <<>>, backup |-> <<>>,
             auto |-> FALSE, end |-> "none", file |-> "none", rest |-> <<>>]
InFile == line.file # "none"

Init ==
  /\ \E v \in Views : db = [live |-> v, work |-> v, seen |-> v, gone |-> NoData, pending |-> FALSE,
                           obsolete |-> FALSE, frozen |-> FALSE]
  /\ \E force \in BOOLEAN :
       cli = [ctx |-> <<>>, before |-> <<>>, changeset |-> FALSE, quiet |-> FALSE, force |-> force,
              failed |-> FALSE, stable |-> FALSE, known |-> Nothing]
  /\ line = AtPrompt
  /\ past = [typed |-> 0, faults |-> 0, asked |-> {}, sure |-> FALSE, taint |-> FALSE, unlocked |-> FALSE, stood |-> TRUE]

Asks == ~cli.quiet /\ ~cli.force
ClearCache(c) == [c EXCEPT !.known = Nothing]
Attaching  == [ClearCache(cli) EXCEPT !.stable = TRUE]
Leaving    == [ClearCache(cli) EXCEPT !.stable = FALSE]
InChangeset(c) == [c EXCEPT !.changeset = TRUE]
Outside(c) == [c EXCEPT !.changeset = FALSE, !.ctx = <<>>]
Froze(d)      == [d EXCEPT !.frozen = TRUE, !.seen = d.live]
Thawed(d)     == [d EXCEPT !.frozen = FALSE]
NextLine == [line EXCEPT !.phase = IF InFile THEN "file" ELSE "prompt", !.rest = IF InFile THEN Tail(@) ELSE @]
Back(end, ctx) == [NextLine EXCEPT !.end = end, !.todo = <<>>, !.ctx = ctx]

(* The end of a line: outside a changeset the view is unfrozen.            *)
EndOfLine(c, d, end, ctx) ==
  /\ line' = Back(end, ctx)
  /\ IF c.changeset THEN cli' = c /\ db' = d
     ELSE cli' = [ClearCache(c) EXCEPT !.stable = FALSE] /\ db' = Thawed(d)

(* An exception: the loop clears the cache and takes the context back, but *)
(* leaves a frozen view frozen; a batch file stops and does neither, and   *)
(* execute stops without a context.                                        *)
ThrowKeepsCache(known) ==
  /\ UNCHANGED db
  /\ line' = Back("error", line.ctx)
  /\ cli' = IF InFile THEN [cli EXCEPT !.failed = TRUE, !.known = known]
            ELSE [cli EXCEPT !.ctx = cli.before, !.known = known]
Throw(known) ==
  /\ UNCHANGED db
  /\ line' = Back("error", line.ctx)
  /\ cli' = CASE line.file = "batch"   -> [cli EXCEPT !.failed = TRUE, !.known = known]
              [] line.file = "execute" -> [ClearCache(cli) EXCEPT !.failed = TRUE, !.ctx = <<>>]
              [] OTHER                 -> [ClearCache(cli) EXCEPT !.ctx = cli.before]

-----------------------------------------------------------------------------
(* A line is parsed; its signals are kept until the parser is done.  The   *)
(* parser asks the server itself, never the cache of DbInteraction.        *)
Parsed(r, c, d) ==
  IF r.ok
    THEN /\ line' = [line EXCEPT !.phase = "confirm", !.sig = r.sig, !.todo = r.sig, !.ctx = c.ctx, !.backup = c.ctx,
                       !.parsed = r.ctx, !.auto = FALSE, !.end = "none"]
         /\ cli' = [c EXCEPT !.ctx = r.ctx] /\ db' = d
  ELSE EndOfLine([c EXCEPT !.ctx = r.ctx, !.failed = TRUE], d, "malformed", r.ctx)
Stands(ctx) == Named(ctx) /\ \A i \in 1..Len(ctx) : Expand(SubSeq(ctx, 1, i)) \subseteq View.objs
NewLine == [past EXCEPT !.asked = {}, !.sure = FALSE, !.stood = Stands(cli.ctx), !.taint = @ /\ cli.changeset]

\* Outside a changeset the view is frozen for the line.
ReadWith(l, c) ==
  LET r == ParseLine(c.ctx, l, (IF c.changeset THEN db.work ELSE db.live).objs)
  IN  IF c.changeset THEN Parsed(r, c, db) ELSE Parsed(r, [ClearCache(c) EXCEPT !.stable = TRUE], Froze(db))
TypeLine(l) ==
  /\ line.phase = "prompt" /\ past.typed < MaxLines
  /\ ReadWith(l, [cli EXCEPT !.before = cli.ctx, !.failed = FALSE])
  /\ past' = [NewLine EXCEPT !.typed = @ + 1]

-----------------------------------------------------------------------------
(* The first pass: every signal is confirmed, with the context the parser  *)
(* had.  The first one that is not ends the line; nothing was done yet.    *)
Confirmed(known, auto) ==
  /\ line' = IF Len(line.todo) = 1 THEN [line EXCEPT !.phase = "apply", !.todo = line.sig, !.auto = auto]
             ELSE [line EXCEPT !.todo = Tail(@), !.auto = auto]
  /\ cli' = [cli EXCEPT !.known = known]
  /\ UNCHANGED db
Refused(known, failed) ==
  /\ EndOfLine([cli EXCEPT !.ctx = line.ctx, !.known = known, !.failed = @ \/ failed], db, "refused", line.ctx)
  /\ UNCHANGED past
Agreed(S) == past' = [past EXCEPT !.asked = @ \cup S]
Signal == Head(line.todo)
Confirming(kinds) == line.phase = "confirm" /\ line.todo # <<>> /\ Signal[1] \in kinds

\* confirmObjectsFilter, confirmFunctionShow
ConfirmReading ==
  /\ Confirming({"filter", "show"}) /\ Confirmed(cli.known, line.auto) /\ UNCHANGED past
ConfirmLeft ==
  /\ Confirming({"left"}) /\ Confirmed(cli.known, FALSE) /\ UNCHANGED past
ConfirmCreate ==
  /\ Confirming({"create"})
  /\ IF cli.changeset THEN Confirmed(cli.known, line.auto) /\ Agreed(Expand(Signal[2])) ELSE Refused(cli.known, TRUE)

(* A question in a context where an object has no name yet cannot be put   *)
(* together: looking for what is connected throws std::logic_error, which  *)
(* nobody catches.  deska-cli ends there, and is started again; the        *)
(* changeset it was in stays pending.                                      *)
UnnamedLast(ctx) == ~HasFilter(ctx) /\ Named(Front(ctx)) /\ ~Named(ctx)
UnnamedOnTheWay(ctx) ==
  /\ HasFilter(ctx)
  /\ \E i \in 1..(Len(ctx) - 1) : ~IsFilter(ctx[i]) /\ ctx[i][3] = NoName /\ Expand(SubSeq(ctx, 1, i)) # {}
Crashes ==
  /\ cli' = [Outside(Leaving) EXCEPT !.quiet = FALSE]
  /\ line' = [AtPrompt EXCEPT !.end = "error"] /\ UNCHANGED <<db, past>>

ConfirmEntered ==
  LET ctx == Signal[2]
      S   == IF Named(ctx) THEN Expand(ctx) ELSE {}
      there == Named(ctx) /\ AllExist(S)
  IN  /\ Confirming({"enter"})
      /\ CASE line.auto -> Confirmed(cli.known, TRUE) /\ UNCHANGED past
           [] ~line.auto /\ ~cli.changeset /\ ~there -> Refused(Looked(S), TRUE)
           [] ~line.auto /\ (there \/ (cli.changeset /\ ~Asks)) ->
                Confirmed(IF cli.changeset /\ ~Asks THEN cli.known ELSE Looked(S), FALSE) /\ UNCHANGED past
           [] ~line.auto /\ cli.changeset /\ Asks /\ UnnamedOnTheWay(ctx) -> Crashes
           [] OTHER -> \/ Confirmed(Looked(S), TRUE) /\ Agreed(Expand(ctx))
                       \/ Refused(Looked(S), FALSE)

\* confirmSetAttribute, confirmSetAttributeInsert
ConfirmSetUnasked ==
  /\ Confirming({"set", "add"})
  /\ IF cli.changeset THEN Confirmed(cli.known, line.auto) /\ UNCHANGED past ELSE Refused(cli.known, TRUE)
ConfirmSet ==
  LET ctx  == Signal[2]
      S    == Targets(ctx, Signal[3])
      seen == Looked(IF Named(ctx) THEN S ELSE {})
  IN  /\ Confirming({"set", "add"})
      /\ CASE ~cli.changeset -> Refused(cli.known, TRUE)
           [] cli.changeset /\ (Signal[3] = LastKind(ctx) \/ ~Asks) -> Confirmed(cli.known, line.auto) /\ UNCHANGED past
           [] cli.changeset /\ Signal[3] # LastKind(ctx) /\ Asks /\ Named(ctx) /\ AllExist(S) ->
                Confirmed(seen, line.auto) /\ UNCHANGED past
           [] cli.changeset /\ Signal[3] # LastKind(ctx) /\ Asks /\ UnnamedLast(ctx) -> Crashes
           [] OTHER -> \/ Confirmed(seen, line.auto) /\ Agreed(S)
                       \/ Refused(seen, FALSE)

\* confirmRemoveAttribute, confirmSetAttributeRemove
ConfirmRemove ==
  LET ctx == Signal[2]
      own == Signal[3] = LastKind(ctx)
      S   == IF own \/ ~Named(ctx) THEN {} ELSE Targets(ctx, Signal[3])
  IN  /\ Confirming({"no", "remove"})
      /\ IF cli.changeset /\ (own \/ Named(ctx)) /\ AllExist(S) THEN Confirmed(Looked(S), line.auto) /\ UNCHANGED past
         ELSE Refused(IF cli.changeset THEN Looked(S) ELSE cli.known, TRUE)

ConfirmDelete ==
  /\ Confirming({"delete"})
  /\ CASE ~cli.changeset -> Refused(cli.known, TRUE)
       [] cli.changeset /\ ~Asks -> Confirmed(cli.known, line.auto) /\ UNCHANGED past
       [] OTHER -> \/ Confirmed(cli.known, line.auto) /\ past' = [past EXCEPT !.sure = TRUE]
                   \/ Refused(cli.known, FALSE)
ConfirmRename ==
  /\ Confirming({"rename"})
  /\ IF cli.changeset THEN Confirmed(cli.known, line.auto) /\ UNCHANGED past ELSE Refused(cli.known, TRUE)

\* A line without signals: nothing to confirm, nothing to apply.
NoSignals ==
  /\ line.phase = "confirm" /\ line.todo = <<>>
  /\ EndOfLine([cli EXCEPT !.ctx = line.ctx], db, "performed", line.ctx) /\ UNCHANGED past
Confirm ==
  \/ ConfirmReading \/ ConfirmLeft \/ ConfirmCreate \/ ConfirmEntered \/ ConfirmSet
  \/ ConfirmRemove \/ ConfirmDelete \/ ConfirmRename \/ NoSignals

-----------------------------------------------------------------------------
(* The second pass: the signals are applied, with a context of its own     *)
(* that follows what the server has really done.  A signal that is not     *)
(* performed ends the line; what was done before it stays done.            *)
Performed(ctx, known, d) ==
  IF Len(line.todo) = 1 THEN EndOfLine([cli EXCEPT !.ctx = ctx, !.known = known], d, "performed", ctx)
  ELSE /\ line' = [line EXCEPT !.todo = Tail(@), !.ctx = ctx]
       /\ cli' = [cli EXCEPT !.known = known] /\ db' = d
NotPerformed(ctx, known, d, failed) ==
  EndOfLine([cli EXCEPT !.ctx = ctx, !.known = known, !.failed = @ \/ failed], d, "notPerformed", ctx)
Applying(kinds) == line.phase = "apply" /\ Signal[1] \in kinds
Working(v) == [db EXCEPT !.work = v]
Faulty(known) ==
  /\ CanFail /\ Throw(known) /\ past' = [past EXCEPT !.faults = @ + 1, !.taint = line.file = "batch"]
Error(known) == Throw(known) /\ past' = [past EXCEPT !.taint = line.file = "batch"]

ApplyLeftStays ==
  /\ Applying({"left"}) /\ UNCHANGED past
  /\ Performed(line.ctx, cli.known, db)
ApplyLeft ==
  /\ Applying({"left"}) /\ UNCHANGED past
  /\ Performed(Front(line.ctx), cli.known, db)
Narrowed == Append(line.ctx, <<"filter", Signal[3], Signal[4]>>)
ApplyFilter ==
  LET S == Expand(Narrowed)
  IN  /\ Applying({"filter"}) /\ UNCHANGED past
      /\ IF S = {} THEN NotPerformed(line.ctx, cli.known, db, FALSE) ELSE Performed(Narrowed, Told(cli.known, Matched(Narrowed), TRUE), db)
ApplyShow ==
  LET S == Expand(line.ctx)
      known == Told(cli.known, Nested(S) \cup Connected(S), TRUE)
  IN  /\ Applying({"show"})
      /\ \/ S \subseteq View.objs /\ Performed(line.ctx, known, db) /\ UNCHANGED past
         \/ ~(S \subseteq View.objs) /\ Error(cli.known)
         \/ Faulty(cli.known)

(* createObject for the objects S of a context: one by a call of its own,  *)
(* several in a batch of those that are not known to exist, which are      *)
(* remembered as existing before the server is asked.                      *)
ToCreate(S) == IF Cardinality(S) = 1 THEN S ELSE {o \in S : ~Exists(o)}
Remembered(S) ==
  IF Cardinality(S) = 1 THEN cli.known ELSE Told(Looked(S), ToCreate(S), TRUE)
Refusals(S) ==
  {"there" : o \in ToCreate(S) \cap View.objs} \cup {"gone" : o \in ToCreate(S) \cap db.gone.objs}
    \cup {"parent" : o \in {q \in ToCreate(S) : ~HasParent(q)}}

\* Made(S): the objects are there, with the names the server gave them.
Made(S) == Working(With(db.work, {Called(o) : o \in ToCreate(S)}))
NowKnown(S) == IF Cardinality(S) = 1 THEN Told(cli.known, S, TRUE) ELSE Remembered(S)
Untold(S) == \E o \in ToCreate(S) : IsNew(o) /\ Called(o) \in DOMAIN cli.known

(* An object deleted in this changeset is not created again: it may be     *)
(* restored, when it is the only one and the context has no filter.        *)
(* It comes back with the values it had, not with what was nested in it.   *)
Undeleted(S) == [Working(Both(db.work, Only(db.gone, S))) EXCEPT !.gone = Without(@, S)]
NotRestored(ctx, S) ==
  \/ /\ HasFilter(ctx) /\ NotPerformed(line.ctx, Remembered(S), db, FALSE)
     /\ past' = [past EXCEPT !.taint = @ \/ Cardinality(S) # 1]
  \/ ~HasFilter(ctx) /\ Asks /\ NotPerformed(line.ctx, cli.known, db, FALSE) /\ UNCHANGED past
IsRestored(ctx, S) == ~HasFilter(ctx) /\ Agreed(S)
KnownAgain(S)      == IF AllExist(S) THEN Looked(S) ELSE Told(Looked(S), S, TRUE)
RestoredIn(S)      == IF AllExist(S) THEN db ELSE Undeleted(S)

\* The new item of the context has the name the server has returned.
NewItem(S) ==
  <<"object", Signal[3], IF Signal[4] = NoName THEN Last(Called(CHOOSE o \in S : TRUE)[2]) ELSE Signal[4]>>

\* There is no item for several objects whose names the server has chosen.
CanEnter(S) == Signal[4] # NoName \/ Cardinality(S) = 1

\* createObject and categoryEntered.
ApplyCreate ==
  LET ctx == Append(line.ctx, <<"object", Signal[3], Signal[4]>>)
      S   == Expand(ctx)
  IN  /\ Applying({"create", "enter"})
      /\ \/ /\ Signal[1] = "enter" /\ Named(ctx) /\ AllExist(S)
            /\ Performed(ctx, Looked(S), db) /\ UNCHANGED past
         \/ /\ Signal[1] = "create" \/ ~Named(ctx) \/ ~AllExist(S)
            /\ \/ /\ Refusals(S) = {} /\ NamesLast(S) /\ past' = [past EXCEPT !.taint = @ \/ Untold(S)]
                  /\ IF CanEnter(S)
                     THEN Performed(Append(line.ctx, NewItem(S)), NowKnown(S), Made(S))
                     ELSE NotPerformed(line.ctx, NowKnown(S), Made(S), TRUE)
               \/ "gone" \in Refusals(S) /\ NotRestored(ctx, S)
               \/ "gone" \in Refusals(S) /\ IsRestored(ctx, S) /\ Performed(ctx, KnownAgain(S), RestoredIn(S))
               \/ /\ "there" \in Refusals(S)
                  /\ IF Signal[1] = "create"
                     THEN NotPerformed(line.ctx, Remembered(S), db, TRUE) /\ past' = [past EXCEPT !.taint = @ \/ Cardinality(S) # 1]
                     ELSE Error(Remembered(S))
               \/ "parent" \in Refusals(S) /\ Error(Remembered(S))
               \/ Faulty(Remembered(S))

(* An attribute of a contained object: the object is created first.        *)
ApplyContained ==
  LET S == Targets(line.ctx, Signal[3])
      Again(known, d) == cli' = [cli EXCEPT !.known = known] /\ db' = d /\ UNCHANGED line
  IN  /\ Applying({"set", "add"}) /\ Signal[3] # LastKind(line.ctx) /\ ~AllExist(S)
      /\ \/ /\ Refusals(S) = {} /\ NamesLast(S)
            /\ Again(NowKnown(S), Made(S)) /\ past' = [past EXCEPT !.taint = @ \/ Untold(S)]
         \/ "gone" \in Refusals(S) /\ NotRestored(line.ctx, S)
         \/ "gone" \in Refusals(S) /\ IsRestored(line.ctx, S) /\ Again(KnownAgain(S), RestoredIn(S))
         \/ ("there" \in Refusals(S) \/ "parent" \in Refusals(S)) /\ Error(Remembered(S))
         \/ Faulty(Remembered(S))

\* What a change of an attribute of kind k is sent to.  The contained objects exist: those of no
\* and remove did when the first pass looked, and its line has not taken them away since.
Changed(ctx, k) == Expand(IF k = LastKind(ctx) THEN ctx ELSE Adjusted(ctx, k))
Written(S, a, there) ==
  LET new == {<<o, a>> : o \in S}
  IN  Working([db.work EXCEPT !.set = IF there THEN @ \cup new ELSE @ \ new])

IsThere(ctx, k) == k = LastKind(ctx) \/ AllExist(Targets(ctx, k))
ApplyAttribute ==
  LET k == Signal[3]
      S == Changed(line.ctx, k)
      writes == Signal[1] \in {"set", "add"}
  IN  /\ Applying({"set", "add", "no", "remove"})
      /\ IsThere(line.ctx, k)
      /\ \/ S \subseteq View.objs /\ Performed(line.ctx, cli.known, Written(S, Signal[4][1], writes)) /\ UNCHANGED past
         \/ ~(S \subseteq View.objs) /\ Error(cli.known)
         \/ Faulty(cli.known)

(* delete: what is nested in the objects goes with them, if the user       *)
(* agrees again; what is not known to exist is left out.                   *)
Removing(S) == {o \in S : Exists(o)}
Deleted(S)  == [Working(Without(db.work, S)) EXCEPT !.gone = Both(@, Only(db.work, S))]
ApplyDelete ==
  LET S == Expand(line.ctx)
      N == Nested(S)
      gone  == Removing(S \cup N)
      known == Told(Told(Looked(S), N, TRUE), gone, FALSE)
  IN  /\ Applying({"delete"})
      /\ \/ gone \subseteq View.objs /\ Performed(line.ctx, known, Deleted(gone)) /\ UNCHANGED past
         \/ N # {} /\ Asks /\ NotPerformed(line.backup, Told(cli.known, N, TRUE), db, FALSE) /\ UNCHANGED past
         \/ ~(gone \subseteq View.objs) /\ Error(known)
         \/ Faulty(known)

(* rename: the connected objects are renamed too, if the user agrees.  The *)
(* objects nested in a renamed one move with it, in the database.          *)
KnownRenamed(T, name) ==
  LET new == {Moved(t, T, name) : t \in T}
  IN  Told(Told(cli.known, T, FALSE), new, TRUE)
ApplyRename ==
  LET S == Expand(line.ctx)
      C == Connected(S)
      Renames(T) ==
        LET now == KnownRenamed(T, Signal[4])
        IN  \/ /\ CanRename(db.work, T, Signal[4])
               /\ Performed(line.ctx, now, Working(Renamed(db.work, T, Signal[4])))
               /\ past' = [past EXCEPT !.taint = @ \/ Nested(T) # {}]
            \/ ~CanRename(db.work, T, Signal[4]) /\ Error(now)
            \/ Faulty(now)
  IN  /\ Applying({"rename"})
      /\ Renames(S) \/ (C # {} /\ Asks /\ Renames(S \cup C))

Apply ==
  \/ ApplyLeft \/ ApplyFilter \/ ApplyShow \/ ApplyCreate \/ ApplyContained \/ ApplyAttribute
  \/ ApplyDelete \/ ApplyRename

-----------------------------------------------------------------------------
(* The commands that are not parsed as lines: each is typed at the prompt, *)
(* or stands in a file that is executed.                                   *)
CommandNames == {"start", "resume", "commit", "detach", "abort", "nonInteractive", "context", "dump"}
IsCommand(l) == Len(l) = 1 /\ l[1][1] \in CommandNames
AtThePrompt == line.phase = "prompt" /\ past.typed < MaxLines
Command(name) ==
  \/ AtThePrompt
  \/ line.phase = "file" /\ line.file = "execute" /\ line.rest # <<>> /\ ~cli.failed /\ Head(line.rest) = <<<<name>>>>
Ended(end) == IF InFile THEN [NextLine EXCEPT !.end = end] ELSE [AtPrompt EXCEPT !.end = end]
Counted == IF InFile THEN NewLine ELSE [NewLine EXCEPT !.typed = @ + 1]

\* A file goes on after a command that returns true only.
Returns(true, c, d) ==
  /\ cli' = [c EXCEPT !.failed = InFile /\ ~true] /\ db' = d
  /\ line' = Ended("none")
  /\ past' = [Counted EXCEPT !.taint = past.taint /\ c.known # Nothing]
Done(c, d) == Returns(TRUE, c, d)
\* An exception; the prompt takes the context back, which no command has changed yet, a file clears it.
Raises(c, d) ==
  /\ cli' = [ClearCache(c) EXCEPT !.failed = InFile, !.ctx = IF InFile THEN <<>> ELSE @] /\ db' = d
  /\ line' = Ended("error")
Failed(c, d) ==
  /\ CanFail /\ Raises(c, d)
  /\ past' = [Counted EXCEPT !.faults = @ + 1, !.taint = FALSE]

\* In a view that is still frozen the server refuses both.
Start ==
  /\ Command("start") /\ ~cli.changeset
  /\ IF db.frozen THEN Raises(Attaching, db) /\ past' = [Counted EXCEPT !.taint = FALSE]
     ELSE \/ Done(InChangeset(Attaching), [db EXCEPT !.work = db.live, !.gone = NoData, !.pending = TRUE, !.obsolete = FALSE])
          \/ Failed(Attaching, db)
Resume ==
  /\ Command("resume") /\ ~cli.changeset /\ db.pending
  /\ IF db.frozen THEN Raises(Attaching, db) /\ past' = [Counted EXCEPT !.taint = FALSE]
     ELSE Done(InChangeset(Attaching), db) \/ Failed(Attaching, db)
\* A refused commit is caught, or not: the session stays in the changeset, its cache off.
Commit ==
  /\ Command("commit") /\ cli.changeset
  /\ IF db.obsolete THEN Returns(FALSE, Leaving, db)
     ELSE Done(Outside(Leaving), [db EXCEPT !.live = db.work, !.pending = FALSE]) \/ Failed(Leaving, db)
Detach ==
  /\ Command("detach") /\ cli.changeset
  /\ Done(Outside(Leaving), db) \/ Failed(Leaving, db)
Abort ==
  /\ Command("abort") /\ cli.changeset
  /\ Done(Outside(Leaving), [db EXCEPT !.pending = FALSE]) \/ Failed(Leaving, db)
NonInteractive ==
  /\ Command("nonInteractive") /\ Done([cli EXCEPT !.force = ~@], db)
\* context objects
Context ==
  /\ Command("context") /\ (InFile \/ HasFilter(cli.ctx))
  /\ Done([cli EXCEPT !.known = Told(@, Matched(cli.ctx), TRUE)], db)
\* A failing dump leaves the view frozen.
Dump ==
  /\ Command("dump")
  /\ IF cli.changeset
     THEN Done([cli EXCEPT !.known = Told(cli.known, View.objs, TRUE)], db) \/ Failed(cli, db)
     ELSE Done(Leaving, Thawed(db)) \/ Failed(Attaching, Froze(db))

\* What needs a changeset, or none, only says so; a file stops there.
NotNow ==
  /\ InFile
  /\ \/ cli.changeset /\ (Command("start") \/ Command("resume"))
     \/ ~cli.changeset /\ (Command("commit") \/ Command("detach") \/ Command("abort"))
     \/ ~db.pending /\ Command("resume")
  /\ Returns(FALSE, IF cli.changeset \/ ~Command("resume") THEN cli ELSE Attaching, db)

(* batch: the lines of a file, unconfirmed and in a locked changeset.  If  *)
(* it cannot be locked, the session is left non-interactive.  execute:     *)
(* lines and commands, unconfirmed, with no lock and in no changeset but   *)
(* what its commands start or the session is in.                           *)
Reading(file, lines) ==
  /\ cli' = [cli EXCEPT !.quiet = TRUE, !.ctx = <<>>, !.failed = FALSE]
  /\ line' = [AtPrompt EXCEPT !.phase = "file", !.file = file, !.rest = lines]
  /\ past' = [NewLine EXCEPT !.typed = @ + 1] /\ UNCHANGED db
Batch(lines) ==
  /\ AtThePrompt /\ cli.changeset
  /\ \/ Reading("batch", lines)
     \/ /\ CanFail /\ UNCHANGED db
        /\ cli' = [cli EXCEPT !.quiet = TRUE, !.ctx = <<>>, !.failed = FALSE]
        /\ line' = [AtPrompt EXCEPT !.end = "refused"]
        /\ past' = [NewLine EXCEPT !.typed = @ + 1, !.faults = @ + 1, !.unlocked = TRUE]
Execute(lines) == AtThePrompt /\ Reading("execute", lines)
FileLine ==
  /\ line.phase = "file" /\ line.rest # <<>> /\ ~cli.failed
  /\ line.file = "execute" => ~IsCommand(Head(line.rest))
  /\ ReadWith(Head(line.rest), cli) /\ past' = NewLine
FileEndsQuiet ==
  /\ line.phase = "file" /\ (line.rest = <<>> \/ cli.failed)
  /\ cli' = [cli EXCEPT !.ctx = <<>>]
  /\ line' = [AtPrompt EXCEPT !.end = IF cli.failed THEN "error" ELSE "performed"]
  /\ past' = [past EXCEPT !.unlocked = FALSE] /\ UNCHANGED db
FileEnds ==
  /\ line.phase = "file" /\ (line.rest = <<>> \/ cli.failed)
  /\ cli' = [cli EXCEPT !.quiet = FALSE, !.ctx = <<>>]
  /\ line' = [AtPrompt EXCEPT !.end = IF cli.failed THEN "error" ELSE "performed"]
  /\ past' = [past EXCEPT !.unlocked = FALSE] /\ UNCHANGED db

\* Another session commits.
OtherCommit ==
  /\ CanFail
  /\ \E v \in Views \ {db.live} : db' = [db EXCEPT !.live = v, !.obsolete = @ \/ db.pending]
  /\ past' = [past EXCEPT !.faults = @ + 1] /\ UNCHANGED <<cli, line>>

Commands == Start \/ Resume \/ Commit \/ Detach \/ Abort \/ NonInteractive \/ Context \/ Dump \/ NotNow
Handle == Confirm \/ Apply \/ FileLine \/ FileEnds
Next == (\E l \in Lines : TypeLine(l)) \/ (\E b \in Batches : Batch(b)) \/ (\E x \in Scripts : Execute(x)) \/ Commands \/ Handle \/ OtherCommit
Stops == line.phase = "prompt" /\ past.typed = MaxLines /\ UNCHANGED vars
Spec == Init /\ [][Next \/ Stops]_vars

-----------------------------------------------------------------------------
(* What the cache tells a handler is so: a line is never handled with an   *)
(* answer that the data have made wrong.  Left out (past.taint) are the    *)
(* paths on which DbInteraction does leave it wrong: a rename of an object *)
(* with nested ones, a batch that was refused and whose refusal was        *)
(* caught, and a new object whose name the server chose.                   *)
CacheTells ==
  (line.phase \in {"confirm", "apply"} /\ cli.stable /\ ~past.taint) =>
     \A o \in DOMAIN cli.known : IsNew(o) \/ (cli.known[o] <=> o \in View.objs)

(* An interactive session creates nothing the user has not typed create    *)
(* for or agreed to, although the questions are asked in the first pass,   *)
(* about the parser's context, and the work is done in the second.  What   *)
(* was agreed to stands for itself, under the names the server gives, and  *)
(* for what the line nests in it.  Left out are the lines that change      *)
(* something and then enter a filter: the questions are about what it      *)
(* matched before the change, the work is done on what it matches after    *)
(* it.                                                                     *)
LateFilter ==
  \E j \in DOMAIN line.sig : line.sig[j][1] = "filter" /\ \E i \in 1..(j - 1) : line.sig[i][1] \notin {"left", "filter", "show"}
Covers(q, o) ==
  /\ Len(q[2]) <= Len(o[2]) /\ \A i \in 1..Len(q[2]) : q[2][i] \in {o[2][i], NoName}
  /\ Len(q[2]) = Len(o[2]) => q[1] = o[1]
Covered(o) == \E q \in past.asked : Covers(q, o)
NothingUnasked ==
  [][line.phase = "apply" /\ Asks /\ Signal[1] # "rename" /\ ~LateFilter =>
       \A o \in db'.work.objs \ db.work.objs : Covered(o) \/ o \in past'.asked]_vars

(* Objects vanish unconfirmed only in a file, in a session forced to       *)
(* be non-interactive, and after a batch file that could not be locked.    *)
DeletesAreConfirmed ==
  [][line.phase = "apply" /\ Signal[1] # "rename" /\ ~(db.work.objs \subseteq db'.work.objs) =>
       past.sure \/ cli.force \/ InFile \/ past.unlocked]_vars

(* When a line was performed, the context of the second pass, which the    *)
(* prompt shows, is the one the parser had computed, but for names the     *)
(* server gave.                                                            *)
SameContext(c, d) ==
  /\ Len(c) = Len(d)
  /\ \A i \in 1..Len(c) : c[i] = d[i] \/ (~IsFilter(d[i]) /\ d[i][3] = NoName /\ SubSeq(c[i], 1, 2) = SubSeq(d[i], 1, 2))
ContextsAgree ==
  (line.phase = "prompt" /\ line.end = "performed" /\ line.sig # <<>>) => SameContext(line.ctx, line.parsed)

(* The kinds of the context nest, at the prompt too after lines that were  *)
(* malformed, refused or half performed.  And a line performed in a        *)
(* changeset, in a context whose objects exist, ends in one whose objects  *)
(* exist.  (start and resume keep the context of another view, so that its *)
(* objects may be gone.)                                                   *)
ContextExists ==
  line.phase = "prompt" =>
    /\ KindsNest(cli.ctx)
    /\ line.end = "performed" /\ cli.changeset /\ past.stood /\ ~past.taint => Stands(cli.ctx)

(* A line changes only objects that the context in which it stands when it *)
(* gives an attribute represents, or that are contained in these.          *)
ChangesStayInContext ==
  [][line.phase = "apply" /\ IsAttribute(Signal) =>
       \A s \in (db.work.set \ db'.work.set) \cup (db'.work.set \ db.work.set) :
         s[1] \in Targets(line.ctx, Signal[3])]_vars
=============================================================================
