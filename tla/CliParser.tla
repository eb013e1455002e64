------------------------------ MODULE CliParser ------------------------------
(***************************************************************************)
(* What deska-cli makes of one line: the grammars of src/deska/cli/        *)
(* Parser_p*.cpp, built from the scheme of the database, and the loop that *)
(* calls one after another as the context goes deeper.  A line is a        *)
(* sequence of tokens                                                      *)
(*   <<"create">>  <<"delete">>  <<"show">>  <<"rename">>  <<"end">>       *)
(*   <<"object", kind, names>>     kind name, or kind parent->name         *)
(*   <<"filter", kind, filter>>    all kind, or kind where (filter)        *)
(*   <<"new", kind>>               new kind                                *)
(*   <<"set", a, v>> <<"no", a>> <<"add", a, v>> <<"remove", a, v>>        *)
(*   <<"word", text>>              a word that is no keyword               *)
(* A context is a sequence of items <<"object", kind, name>> or            *)
(* <<"filter", kind, filter>>; a signal is a tuple whose second member is  *)
(* the context the parser had when it emitted it (<<"left">> has none).    *)
(***************************************************************************)
EXTENDS Naturals, SequencesExt

CONSTANTS
  Kinds,           \* the kinds of the scheme
  EmbeddedInto,    \* from embedded kinds to the kinds they are embedded into
  ContainsKind,    \* pairs <<kind, kind it contains>>
  Attributes,      \* from kinds to their attributes, those of relations too
  Sets             \* the attributes whose type is identifier_set

NoName == ""       \* the name of an object the server is to name
Top    == ""       \* what a grammar outside any context is named by

-----------------------------------------------------------------------------
(* The relations of the scheme, as the constructor gathers them.           *)
EmbedsIn(k)    == {j \in DOMAIN EmbeddedInto : EmbeddedInto[j] = k}
ContainedIn(k) == {c[2] : c \in {d \in ContainsKind : d[1] = k}}
ContainableIn(k) == {c[1] : c \in {d \in ContainsKind : d[2] = k}}

Depth == LET d[k \in Kinds] == IF k \in DOMAIN EmbeddedInto THEN 1 + d[EmbeddedInto[k]] ELSE 0 IN d
Above == LET a[k \in Kinds] == IF k \in DOMAIN EmbeddedInto THEN {EmbeddedInto[k]} \cup a[EmbeddedInto[k]] ELSE {} IN a

(* A kind is embedded into at most one, and the embedding makes no circle: *)
(* every kind has a depth.  Contained objects have the name of the one     *)
(* that contains them, and with it the depth.                              *)
ASSUME SchemeAssumption ==
  /\ Top \notin Kinds /\ DOMAIN EmbeddedInto \subseteq Kinds
  /\ \A k \in DOMAIN EmbeddedInto : EmbeddedInto[k] \in Kinds
  /\ \A k \in Kinds : Depth[k] \in Nat /\ Depth[k] = IF k \in DOMAIN EmbeddedInto THEN 1 + Depth[EmbeddedInto[k]] ELSE 0
  /\ \A c \in ContainsKind : c[1] \in Kinds /\ c[2] \in Kinds /\ Depth[c[1]] = Depth[c[2]]

(* An attribute that stands for the relation with a contained or a         *)
(* containing kind has the name of that kind and cannot be written.        *)
RoAttributes(k) == ContainedIn(k) \cup ContainableIn(k)

EmbedsRecursively    == [k \in Kinds |-> {j \in Kinds : k \in Above[j]}]
ContainedRecursively ==
  [k \in Kinds |-> ContainedIn(k) \cup UNION {ContainedIn(c) : c \in ContainedIn(k)}]

(* The attributes a line may set in a context whose last kind is k, and    *)
(* the kind the parser tells with them: the one added last.                *)
Settable == [k \in Kinds |-> UNION {Attributes[j] \ RoAttributes(j) : j \in {k} \cup ContainedRecursively[k]}]
AttrKinds(k, a) ==
  LET cs == {c \in ContainedRecursively[k] : a \in Attributes[c] \ RoAttributes(c)}
  IN  IF cs = {} THEN {k} ELSE cs
AttrKind(k, a) == CHOOSE c \in AttrKinds(k, a) : TRUE

(* The kinds the grammar of kind k admits by name, through a filter and    *)
(* after "new".                                                            *)
Contexts  == Kinds \cup {Top}
KindsOnly == [k \in Contexts |->
  IF k = Top THEN Kinds ELSE UNION {EmbedsRecursively[j] : j \in {k} \cup ContainedIn(k)}]
KindsFilters   == [k \in Contexts |-> IF k = Top THEN Kinds ELSE EmbedsIn(k)]
KindsConstruct == [k \in Contexts |-> IF k = Top THEN {} ELSE UNION {EmbedsIn(j) : j \in {k} \cup ContainedIn(k)}]

-----------------------------------------------------------------------------
LastKind(ctx) == IF ctx = <<>> THEN Top ELSE Last(ctx)[2]
IsFilter(item) == item[1] = "filter"
HasFilter(ctx) == \E i \in 1..Len(ctx) : IsFilter(ctx[i])
PathOf(ctx) == [i \in 1..Len(ctx) |-> ctx[i][3]]     \* contextStackToPath

(* Each item is of a kind that the one before may hold: one embedded into  *)
(* its kind, or into a kind that contains it or is contained in it.        *)
MayHold(j, k) ==
  k \in DOMAIN EmbeddedInto /\ j \in {EmbeddedInto[k]} \cup ContainedIn(EmbeddedInto[k]) \cup ContainableIn(EmbeddedInto[k])
KindsNest(ctx) ==
  \A i \in 1..Len(ctx) :
    /\ ctx[i][2] \in Kinds
    /\ IF i = 1 THEN IsFilter(ctx[i]) \/ ctx[i][2] \notin DOMAIN EmbeddedInto ELSE MayHold(ctx[i - 1][2], ctx[i][2])

(* What the tokens of a line are made of.  An object has a name at least.  *)
WellMadeToken(tok) ==
  /\ tok[1] = "word" => tok[2] # NoName
  /\ tok[1] = "object" => tok[3] \in Seq({tok[3][i] : i \in DOMAIN tok[3]}) /\ tok[3] # <<>>
  /\ tok[1] = "filter" => tok = <<"filter", tok[2], tok[3]>>
WellMade(l) == l \in Seq({l[i] : i \in DOMAIN l}) /\ \A i \in DOMAIN l : WellMadeToken(l[i])

FunctionWords == {"create", "delete", "show", "rename"}
Mode(line) == IF line # <<>> /\ line[1][1] \in FunctionWords THEN line[1][1] ELSE "standard"

(* Which tokens the grammar called in a mode takes in the context: what    *)
(* each grammar takes in a context whose last kind is k, and their         *)
(* alternatives.                                                           *)
IsAttribute(tok) == tok[1] \in {"set", "no", "add", "remove"}
ObjectFits(k, tok)  == tok[1] = "object" /\ tok[2] \in KindsOnly[k]
FilterFits(k, tok)  == tok[1] = "filter" /\ tok[2] \in KindsFilters[k]
NewFits(k, tok)     == tok[1] = "new" /\ tok[2] \in KindsConstruct[k]
ValueFits(k, tok)   == tok[1] = "set" /\ tok[2] \in Settable[k]
RemovalFits(k, tok) == tok[1] = "no" /\ tok[2] \in Settable[k]
MemberFits(k, tok)  == tok[1] \in {"add", "remove"} /\ tok[2] \in Sets /\ tok[2] \in Attributes[k] \cup Settable[k]
AttributeFits(k, tok) == ValueFits(k, tok) \/ RemovalFits(k, tok) \/ MemberFits(k, tok)
KindFits(k, mode, tok) ==
  \/ ObjectFits(k, tok)
  \/ FilterFits(k, tok) /\ (mode # "create" \/ k = Top)
  \/ NewFits(k, tok) /\ mode # "create"
Fits(ctx, mode, tok) ==
  LET k == LastKind(ctx)
  IN  \/ KindFits(k, mode, tok)
      \/ k # Top /\ mode = "standard" /\ (AttributeFits(k, tok) \/ tok[1] = "end")

-----------------------------------------------------------------------------
(* The state of the parser in a line: the context, the signals emitted,    *)
(* whether the last grammar took one kind and nothing else (singleKind),   *)
(* whether the token before was an attribute taken by the same grammar,    *)
(* and how the parsing stands.                                             *)
Started(ctx) == [ctx |-> ctx, sig |-> <<>>, single |-> FALSE, attr |-> FALSE, done |-> 0, stop |-> "no"]

(* categoryEntered: the names of kind parent->name belong to the kinds it  *)
(* is embedded into, and the depth and the last context have to agree.     *)
KindsUp(k, n) == LET u[i \in 1..n] == IF i = 1 THEN k ELSE EmbeddedInto[u[i - 1]] IN Reverse(u)
Nests(ctx, k, names) ==
  /\ Len(ctx) + Len(names) - 1 = Depth[k]
  /\ LET outer == KindsUp(k, Len(names))[1]
     IN  outer \in DOMAIN EmbeddedInto =>
           LastKind(ctx) \in {EmbeddedInto[outer]} \cup ContainedIn(EmbeddedInto[outer])

Entered(p, mode, k, names) ==
  LET ks == KindsUp(k, Len(names))
      items == [i \in 1..Len(names) |-> <<"object", ks[i], names[i]>>]
      sigs  == [i \in 1..Len(names) |->
                  <<IF i = Len(names) /\ mode = "create" THEN "create" ELSE "enter",
                    p.ctx \o SubSeq(items, 1, i), ks[i], names[i]>>]
  IN  IF Nests(p.ctx, k, names)
      THEN [p EXCEPT !.ctx = @ \o items, !.sig = @ \o sigs]
      ELSE [p EXCEPT !.stop = "nesting"]
Pushed(p, signal, item) ==
  [p EXCEPT !.ctx = Append(@, item), !.sig = Append(@, <<signal, Append(p.ctx, item), item[2], item[3]>>)]
Left(p) == [p EXCEPT !.ctx = Front(@), !.sig = Append(@, <<"left">>)]

Taken(p, mode, tok) ==
  CASE tok[1] = "object" -> Entered(p, mode, tok[2], tok[3])
    [] tok[1] = "filter" -> Pushed(p, "filter", tok)
    [] tok[1] = "new"    -> Pushed(p, "create", <<"object", tok[2], NoName>>)
    [] tok[1] = "end"    -> Left(p)
    [] OTHER -> [p EXCEPT !.sig = Append(@, <<tok[1], p.ctx, AttrKind(LastKind(p.ctx), tok[2]), Tail(tok)>>)]

(* show, delete and rename look for each object as soon as it is parsed,   *)
(* among those that are there, pairs <<kind, path>>.                       *)
IsMissing(ctx, mode, there) ==
  /\ mode \in {"show", "delete", "rename"} /\ ~HasFilter(ctx)
  /\ <<Last(ctx)[2], PathOf(ctx)>> \notin there

LookedFor(p, mode, there) ==
  IF p.stop = "no" /\ IsMissing(p.ctx, mode, there) THEN [p EXCEPT !.stop = "missing"] ELSE p
Token(p, mode, tok, there) ==
  IF p.stop # "no" THEN p
  ELSE IF ~Fits(p.ctx, mode, tok) THEN [p EXCEPT !.stop = "grammar", !.single = FALSE]
  ELSE LookedFor([Taken(p, mode, tok) EXCEPT !.done = @ + 1, !.attr = IsAttribute(tok),
                    !.single = ~IsAttribute(tok) /\ tok[1] # "end" /\ ~p.attr], mode, there)

(* The new name of rename: what is left when the grammars have stopped.    *)
NewName(p, rest, deeper) ==
  IF ~deeper \/ p.stop \in {"nesting", "missing"} THEN IF p.stop = "no" THEN [p EXCEPT !.stop = "grammar"] ELSE p
  ELSE IF rest # <<>> /\ rest[1][1] = "word" /\ Len(rest) = 1
    THEN [p EXCEPT !.stop = "no", !.sig = Append(@, <<"rename", p.ctx, LastKind(p.ctx), rest[1][2]>>)]
  ELSE [p EXCEPT !.stop = "name"]

(* The objects of an inline definition are left again; the context stays   *)
(* where a line that only named objects has put it.                        *)
LeaveInline(p, mode, n) ==
  IF mode = "standard" /\ p.single THEN p
  ELSE [p EXCEPT !.ctx = IF Len(@) > n THEN SubSeq(@, 1, n) ELSE @,
                 !.sig = @ \o [i \in 1..(IF Len(p.ctx) > n THEN Len(p.ctx) - n ELSE 0) |-> <<"left">>]]

(* parseLineImpl up to the end of the input: what the grammars made of the *)
(* line.  This is all that a dry run for completion does.                  *)
Outcome(p, mode, toks, n) ==
  IF toks = <<>> /\ mode \in FunctionWords
    THEN IF mode = "show" THEN [p EXCEPT !.sig = <<<<"show", p.ctx>>>>] ELSE [p EXCEPT !.stop = "noDefinition"]
  ELSE IF mode = "rename" THEN NewName(p, SubSeq(toks, p.done + 1, Len(toks)), Len(p.ctx) > n)
  ELSE IF mode \in {"show", "delete"} /\ p.stop = "no" THEN [p EXCEPT !.sig = Append(@, <<mode, p.ctx>>)]
  ELSE p
ReadLine(ctx, line, there) ==
  LET mode == Mode(line)
      toks == IF mode = "standard" THEN line ELSE Tail(line)
      after[i \in 0..Len(toks)] == IF i = 0 THEN Started(ctx) ELSE Token(after[i - 1], mode, toks[i], there)
  IN  Outcome(after[Len(toks)], mode, toks, Len(ctx))

(* What the line does to the context, the signals it emits and whether it  *)
(* is well formed.  The signals of a line that is not are never handled,   *)
(* the context it leaves behind is.                                        *)
Result(p) == [ok |-> p.stop = "no", ctx |-> p.ctx, sig |-> IF p.stop = "no" THEN p.sig ELSE <<>>, why |-> p.stop]
ParseLine(ctx, line, there) == Result(LeaveInline(ReadLine(ctx, line, there), Mode(line), Len(ctx)))
=============================================================================
