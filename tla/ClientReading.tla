---------------------------- MODULE ClientReading ----------------------------
(***************************************************************************)
(* What deska-cli and the client library read and write, one text after    *)
(* another: done holds the last one, what went in and what came out.  To   *)
(* the JSON of JsonRoundTrip this adds the lines of the user, completed or *)
(* refused (LineReading), the filters of the command log (LogFilter), and  *)
(* what is printed (ScreenTexts, ValueTexts, ObjectTexts).                 *)
(***************************************************************************)
EXTENDS JsonRoundTrip, LineReading, LogFilter, ScreenTexts, ValueTexts, ObjectTexts

CONSTANTS
  Places,        \* the contexts the user is in
  Begun,         \* the lines as far as there are whole tokens of them
  Universe,      \* the tokens a line may go on with
  Typing,        \* beginnings of words
  LogLines,      \* what the user writes after log
  Identifiers,   \* from the objects to their identifiers in the history, in some orders
  NamePlaces,    \* from local names to their place in the order of names
  ChangeLists,   \* the answers of the diffing functions, each consistent
  Stores,        \* the data of the objects
  TextLines, Widths, Strings, TypedTexts,
  StoredValues,  \* values of attributes the database may hold
  TypedValues    \* texts a user may write for them

(* The words a token begins with, and the tokens that begin with them.     *)
HeadsOf(tok) == {SubSeq(Words(tok), 1, n) : n \in 1..Len(Words(tok))} \cup {<<>>}
Heads == UNION {HeadsOf(tok) : tok \in Universe}
TokensAfter == [h \in Heads |-> {tok \in Universe : IsPrefix(h, Words(tok))}]
Unfinished == {h \in Heads : Len(h) <= 5 /\ \E tok \in TokensAfter[h] : Len(Words(tok)) > Len(h)}

IsCondition(tok) == tok[1] = "filter" /\ tok[3] # <<>>
Takes(p, mode, tok) ==
  /\ Token([p EXCEPT !.stop = "no"], mode, tok, Instances).stop \in {"no", "missing"}
  /\ IsCondition(tok) => ConditionFits(tok[2], tok[3][1])
Reached(ctx, line) == ReadLine(ctx, line, Instances)

-----------------------------------------------------------------------------
(* A head is tried to the end of its condition at the beginning of a line, *)
(* and to its second word after other tokens.                              *)
HeadsAfter(line) == IF line = <<>> THEN Unfinished ELSE {h \in Unfinished : Len(h) <= 1}
Complete ==
  \E ctx \in Places, line \in Begun :
    /\ Reached(ctx, line).stop # "grammar"
    /\ \E head \in HeadsAfter(line), before \in {"standard", "create"} :
         /\ before = "create" => line = <<>> /\ head = <<>>
         /\ \E text \in Typing :
              done' = <<"offers", ctx, before, line, head,
                        Completions(Offers(ctx, before, line, head), Tokens(line, head), text), text>>
(* The first word is that of a command: the parser has nothing to offer.   *)
CompleteCommand ==
  \E p \in CommandPatterns : \E n \in 1..(Len(p) - 1), text \in Typing :
    done' = <<"arguments", SubSeq(p, 1, n), text, Completions({}, SubSeq(p, 1, n), text)>>

(* After the head stands a word that no rule takes, unless a string is     *)
(* what is awaited there.                                                  *)
AwaitsString(head) ==
  \/ Len(head) = 5
  \/ Len(head) = 1 /\ head[1][1] \notin Kinds \cup {"all", "new", "no", "add", "remove"}
Refuse ==
  \E ctx \in Places, line \in Begun :
    LET p == Reached(ctx, line) IN
    /\ p.stop # "grammar"
    /\ \E head \in HeadsAfter(line) :
         /\ ~AwaitsString(head) /\ (p.stop \in {"nesting", "missing"} => head = <<>>)
         /\ done' = <<"refused", ctx, line, head, Told(LineComplaints(ctx, line, head, TRUE))>>

SelectLog ==
  \E o \in Instances, path \in {i[2] : i \in Instances} \cup {<<"z">>, <<"z", "x">>}, uids \in Identifiers :
    /\ IsWholePath(o[1], path)
    /\ done' = <<"log", o, path, uids,
                 [op \in DOMAIN Comparisons \ {"CONTAINS", "NOT_CONTAINS"} |-> Holds(LogFilterOf(<<"kind", o[1], op, path>>), o, NamePlaces, uids)]>>
RefuseLog == \E f \in LogLines : Refused(f) /\ done' = <<"log refused", f, LogTold(f)>>

ShowDiff == \E changes \in ChangeLists : done' = <<"diff", changes, PrintDiff(changes)>>
ShowObjects ==
  \E data \in Stores :
    \/ done' = <<"dumped", data, ObjectsOf(data), DumpText(data)>>
    \/ \E o \in ObjectsOf(data) : done' = <<"shown", data, {o}, ShowObject(data, o)>>
    \/ \E k \in Kinds : done' = <<"filtered", data, InstancesIn(data, k), ShowFiltered(data, InstancesIn(data, k))>>
    \/ done' = <<"listed", data, {}, ShowTop(data)>>
WrapText ==
  \E text \in TextLines, width \in Widths, full \in Widths :
    done' = <<"wrapped", text, width, full, Wrapped(text, width, full)>>
KeepHistory ==
  \E lines \in TypedTexts, limit \in 1..3 :
    LET h == TypedLines(lines, limit) IN done' = <<"history", lines, limit, h, LoadHistory(h, limit)>>
PrintString == \E s \in Strings : done' = <<"string", s, ReadString(PrettyPrint(s))>>
PrintValue  == \E v \in StoredValues : done' = <<"printed", v, ReadValueText(PrintedValue(v))>>
TypeValue   == \E t \in TypedValues : done' = <<"typed", t, ReadValueText(t)>>

Step ==
  \/ Convert \/ Complete \/ CompleteCommand \/ Refuse \/ SelectLog \/ RefuseLog \/ ShowDiff \/ ShowObjects
  \/ WrapText \/ KeepHistory \/ PrintString \/ PrintValue \/ TypeValue
Next == (done[1] = "none" /\ Step) \/ (done[1] # "none" /\ done' = <<"none">>)
Spec == Init /\ [][Next]_vars

-----------------------------------------------------------------------------
(* What completion offers can be entered: with each offer a token begins   *)
(* that the parser takes there.  It offers too much in six places: `new`   *)
(* and `all` while something is created inside an object, `where` after a  *)
(* kind that has no filter there, the words for changing attributes where  *)
(* all of them stand for relations, the names of objects embedded in the   *)
(* kinds that the kind of the context contains, which never nest, and the  *)
(* kinds and names in a filter over an embedded kind that was entered      *)
(* outside of the objects it is embedded in.                               *)
IsOfContained(k, j) == k # Top /\ j \in KindsOnly[k] \ EmbedsRecursively[k]
IsOutside(ctx) == ctx # <<>> /\ Len(ctx) # Depth[LastKind(ctx)] + 1
OfferedInVain(p, mode, head, w) ==
  LET k == LastKind(p.ctx) IN
  \/ Len(head) = 1 /\ IsOfContained(k, head[1][1])
  \/ IsOutside(p.ctx) /\ (head # <<>> \/ w[1] \in KindsOnly[k])
  \/ mode = "create" /\ k # Top /\ w \in {<<"new">>, <<"all">>}
  \/ w = <<"where">> /\ head[1][1] \notin KindsFilters[k]
  \/ k # Top /\ Settable[k] = {} /\ w \in {<<"no">>, <<"add">>, <<"remove">>}
AwaitsValue(head) == AwaitsString(head) \/ (Len(head) = 2 /\ head[1][1] \in {"add", "remove"})
OffersFit ==
  done[1] = "offers" =>
    LET line == done[4]  head == done[5]
        mode == IF line = <<>> THEN "standard" ELSE Mode(line)
        p == Reached(done[2], line)
        opening == line = <<>> /\ head = <<>>
        Begins(w) == LET h == IF AwaitsValue(head) THEN head ELSE Append(head, w) IN
                     h \in Heads /\ \E tok \in TokensAfter[h] : Takes(p, mode, tok)
        named == IsNamed(p) /\ Len(head) = 1       \* taken for the new name
        ofCommand == NextWords(CommandPatterns, Tokens(line, head))
    IN  named \/ \A w \in done[6] : w \in ofCommand \/ (opening /\ w[1] \in FunctionWords) \/ OfferedInVain(p, mode, head, w) \/ Begins(w)

(* Completion hides nothing that can be entered, except `all` outside any  *)
(* context in a line that already left one, and in a filter the attributes *)
(* a related kind has from the kinds it contains and, within a context,    *)
(* the attributes of the filtered kind itself.                             *)
IsUpToUser(tok, n) ==
  LET w == Words(tok)[n] IN
  \/ tok[1] = "object" /\ n = 2 /\ ~\E i \in Instances : i[1] = tok[2] /\ IsSuffix(w, i[2])
  \/ tok[1] = "set" /\ n = 2
  \/ tok[1] \in {"add", "remove"} /\ n = 3
  \/ IsCondition(tok) /\ n \in {3, 5, 6}
HiddenInFilter(ctx, w) ==
  IF Len(w) = 1 THEN ctx # <<>> ELSE w[3] \notin Attributes[w[1]] \cup {"name"}
NothingHidden ==
  done[1] = "offers" /\ Mode(done[4]) = "standard" /\ (done[4] = <<>> => done[3] = "standard") =>
    LET line == done[4]  head == done[5]
        p == Reached(done[2], line)
    IN  p.stop = "no" =>
        \A tok \in TokensAfter[head] :
          Takes(p, "standard", tok) /\ Len(Words(tok)) > Len(head) /\ ~IsUpToUser(tok, Len(head) + 1)
            /\ ~(Len(head) = 3 /\ IsCondition(tok) /\ HiddenInFilter(p.ctx, tok[3][1]))
            /\ ~(head = <<>> /\ line # <<>> /\ p.ctx = <<>> /\ Words(tok)[1] = <<"all">>)
            /\ StartsWith(Words(tok)[Len(head) + 1], done[7])
            => Words(tok)[Len(head) + 1] \in done[6]

(* What is offered and what can be entered agree, both ways                *)
(* (CliCompleter::getCompletions and the grammars of Parser_p.cpp).        *)
OffersMatch == OffersFit /\ NothingHidden

(* A refused line is told what is wrong with it: the error is about the    *)
(* place where the line stops, and what it says is expected is taken there *)
(* (except for the kinds above that never nest).  A refused filter of log  *)
(* is told what fails in it, unless a condition on the metadata is blamed  *)
(* that is fine: the grammar looked for a kind there first.                *)
RefusalsAreTold ==
  /\ done[1] = "refused" =>
       LET line == done[3]  head == done[4]  told == done[5]
           p == Reached(done[2], line)
           mode == Mode(line)
           Begins(h, w) == h \o <<<<w>>>> \in Heads /\ \E tok \in TokensAfter[h \o <<<<w>>>>] : Takes(p, mode, tok)
       IN  /\ told # OutOfRange
           /\ told = NothingExpected => ~\E tok \in Universe : tok[1] # "end" /\ Takes(p, mode, tok)
           /\ p.stop = "nesting" <=> told.type = "KIND_NESTING"
           /\ p.stop = "missing" <=> told.type = "OBJECT_NOT_FOUND"
           /\ \A w \in told.words : IsOfContained(LastKind(p.ctx), w) \/ (IsOutside(p.ctx) /\ w \in Kinds) \/ \E n \in 0..Len(head) : Begins(SubSeq(head, 1, n), w)
           /\ told.about # <<>> => \E i \in 1..Len(head) : Last(told.about) = Last(head[i])
  /\ done[1] = "log refused" =>
       \/ Fails(done[3][2])
       \/ done[3][1] = "IDENTIFIER_NESTING"
       \/ done[3][1] = "ATTRIBUTE" /\ done[3][2][1] = "metadata"

(* The filters of the log divide the objects of a kind: before, at or      *)
(* after the named one, and only the named one is at it.                   *)
FiltersPartition ==
  done[1] = "log" =>
    LET o == done[2]  path == done[3]  holds == done[5]
        known == Len(path) = 1 \/ \E i \in Instances : i[2] = Front(path) /\ i[1] = EmbeddedInto[o[1]]
    IN  /\ holds.NE <=> ~holds.EQ
        /\ Len(path) = Len(o[2]) => (holds.EQ <=> o[2] = path)
        /\ IF known THEN /\ holds.GE <=> ~holds.LT
                         /\ holds.LE <=> ~holds.GT
                         /\ holds.EQ <=> holds.GE /\ holds.LE
           ELSE ~holds.LT /\ ~holds.GT /\ ~holds.GE /\ ~holds.LE

(* The printed difference reads as what it is: one block for each object   *)
(* that went and one for each that appeared, got a name or was changed,    *)
(* with all the changes of its attributes in it and its own end, and no    *)
(* line outside the blocks.                                                *)
DiffReads ==
  done[1] = "diff" =>
    LET changes == ToSet(done[2])
        out == done[3].out
        Objects == {ObjectOf(c) : c \in changes}
        Of(o, type) == {c \in changes : c[1] = type /\ ObjectOf(c) = o}
        Is(o, type) == Of(o, type) # {}
        Gone(o) == IF Is(o, "deleteObject") THEN <<<<"-", 0, o>>, <<"-", 0, <<"end">>>>>> ELSE <<>>
        Stays(o) == Of(o, "deleteObject") # {c \in changes : ObjectOf(c) = o}
        Head1(o) == IF Is(o, "createObject") THEN <<<<"+", 0, o>>>>
                    ELSE IF Is(o, "renameObject")
                    THEN <<<<"-", 0, <<o[1], (CHOOSE c \in Of(o, "renameObject") : TRUE)[3]>>>>, <<"+", 0, o>>>>
                    ELSE <<<<" ", 0, o>>>>
        Middle(o) == {<<"-", 1, <<c[4], c[6]>>>> : c \in {d \in Of(o, "setAttribute") : d[6] # Unset}}
                       \cup {<<"+", 1, <<c[4], c[5]>>>> : c \in {d \in Of(o, "setAttribute") : d[5] # Unset}}
        Tail1(o) == <<<<IF Is(o, "createObject") THEN "+" ELSE " ", 0, <<"end">>>>>>
        Before(o) == Gone(o) \o (IF Stays(o) THEN Head1(o) ELSE <<>>)
        After(o) == IF Stays(o) THEN Tail1(o) ELSE <<>>
        Size(o) == Len(Before(o)) + Cardinality(Middle(o)) + Len(After(o))
    IN  /\ done[3].depth = 0
        /\ Len(out) = MapThenSumSet(Size, Objects)
        /\ \A o \in Objects : \E s \in 0..(Len(out) - Size(o)) :
             LET m == s + Len(Before(o))  e == m + Cardinality(Middle(o)) IN
             /\ SubSeq(out, s + 1, m) = Before(o)
             /\ {out[i] : i \in (m + 1)..e} = Middle(o)
             /\ SubSeq(out, e + 1, e + Len(After(o))) = After(o)

(* What dump and show print can be read by its depth alone, and then says  *)
(* all there is, once: whose attribute has which value and from where,     *)
(* what is nested in what and, in show, what contains what, with an end    *)
(* for every block.  Exceptions are an object without attributes and       *)
(* nested objects, which show leaves without an end, and a template with   *)
(* the name of the object, of which show does not say that it is one.      *)
ParentLine(text, i) ==
  CHOOSE j \in 0..(i - 1) :
    /\ IF text[i][1] = 0 THEN j = 0 ELSE j > 0 /\ text[j][1] = text[i][1] - 1
    /\ \A l \in (j + 1)..(i - 1) : text[l][1] >= text[i][1]
(* The objects whose block each line begins; line 0 is the whole text.     *)
Openers(text, root) ==
  LET opens[i \in 0..Len(text)] ==
        LET up == opens[ParentLine(text, i)]
        IN  CASE i = 0 -> root
              [] i > 0 /\ text[i][2] = "object" -> <<text[i][3], (IF up = <<>> THEN <<>> ELSE up[2]) \o text[i][4]>>
              [] i > 0 /\ text[i][2] = "attribute" -> <<text[i][3], up[2]>>
              [] OTHER -> <<>>
  IN  opens
LinesOf(text, what) == {i \in 1..Len(text) : text[i][2] = what}
IsEnded(text, i) ==
  LET after == {j \in (i + 1)..Len(text) : text[j][1] <= text[i][1]}
  IN  after # {} /\ text[Min(after)] = <<text[i][1], "end">>
IsEmptyBlock(text, i) == i = Len(text) \/ text[i + 1][1] <= text[i][1]
OutlineReads ==
  done[1] \in {"dumped", "shown", "filtered"} =>
    LET data == done[2]  S == done[3]  text == done[4]
        opens == Openers(text, IF done[1] = "shown" THEN CHOOSE o \in S : TRUE ELSE <<>>)
        within == [i \in 1..Len(text) |-> opens[ParentLine(text, i)]]
        Contained(o) == IF done[1] = "dumped" THEN {} ELSE {p \in ObjectsOf(data) : p[2] = o[2] /\ <<o[1], p[1]>> \in ContainsKind}
        IsPart(o, top) == Len(o[2]) > Len(top[2]) /\ SubSeq(o[2], 1, Len(top[2])) = top[2] /\ top[1] \in Above[o[1]]
        covered == UNION {{o \in ObjectsOf(data) : \E top \in Contained(s) \cup {s} : o = top \/ IsPart(o, top)} : s \in S}
        inside  == UNION {Contained(o) : o \in covered}
        headed  == (covered \ inside) \ (IF done[1] = "shown" THEN S ELSE {})
        Value(o, a) ==
          IF done[1] = "dumped" \/ data.own[o][a] # NoValue THEN <<data.own[o][a], <<>>>>
          ELSE IF data.inherited[o][a][2] = <<Last(o[2])>> THEN <<data.inherited[o][a][1], <<>>>> ELSE data.inherited[o][a]
        Back(o, a) == \E c \in covered : o \in Contained(c) /\ a = c[1] /\ Value(o, a)[1] = c[2]
        values == UNION {{<<o, a, Value(o, a)[1], Value(o, a)[2]>> : a \in {b \in Attributes[o[1]] : ~Back(o, b)}} : o \in covered}
    IN  /\ Len(text) = Cardinality(LinesOf(text, "object")) + Cardinality(LinesOf(text, "attribute")) + Cardinality(LinesOf(text, "end"))
        /\ Cardinality(LinesOf(text, "object")) = Cardinality(headed)
        /\ {opens[i] : i \in LinesOf(text, "object")} = headed
        /\ Cardinality(LinesOf(text, "attribute")) = Cardinality(values)
        /\ {<<within[i], text[i][3], text[i][4], text[i][5]>> : i \in LinesOf(text, "attribute")} = values
        /\ \A i \in LinesOf(text, "object") : IsEnded(text, i) \/ (done[1] # "dumped" /\ IsEmptyBlock(text, i))
        /\ Cardinality(LinesOf(text, "end")) <= Cardinality(headed)

(* Whatever the program prints of objects and their differences can be     *)
(* read back as what it says (UserInterfaceIO::printDiff, showObject and   *)
(* the dump).                                                              *)
PrintoutsRead == DiffReads /\ OutlineReads

(* Nothing gets lost on the way to the screen, to the file of the history  *)
(* or back: a wrapped text has all its words, in lines that fit unless one *)
(* word alone is too long, the history that is loaded is the one that was  *)
(* saved, and a printed string can be read again.  The exceptions are an   *)
(* empty string, a string with spaces and both quotes (an assertion), and  *)
(* one without spaces that begins with a quote and has another.  So can    *)
(* every other value, except the empty set, identifiers that begin with    *)
(* the word where, a number with more than six digits, a date before the   *)
(* year 1900 and an IPv6 address printed with an IPv4 address in it: a     *)
(* backup or a rebase of these fails or, for the number, changes it.  What *)
(* the user writes is taken as it is or refused, but for days that do not  *)
(* exist and a MAC address with the byte ff, which end the program.        *)
TextsAreKept ==
  /\ done[1] = "wrapped" =>
       LET limit == Limit(done[3], done[4])  out == done[5] IN
       /\ FlattenSeq(out) = FlattenSeq(done[2])
       /\ done[3] # 0 => \A i \in 1..Len(out) :
            \/ Len(out[i]) > 1 /\ MapThenSumSet(LAMBDA j : out[i][j], 1..Len(out[i])) + Len(out[i]) - 1 <= limit
            \/ Len(out[i]) = 1
            \/ out[i] = <<>> /\ i < Len(out) /\ out[i + 1][1] >= limit
  /\ done[1] = "history" => done[5] = done[4]
  /\ done[1] = "string" =>
       LET s == done[2]
           dropped == /\ s[1] \in {Quote, Apostrophe} /\ \E i \in 3..Len(s) : s[i] = s[1]
       IN  (Has(s, " ") => ~(Has(s, Quote) /\ Has(s, Apostrophe))) /\ (Has(s, " ") \/ ~dropped)
             => done[3] = [ok |-> TRUE, read |-> s, rest |-> <<>>]
  /\ done[1] = "printed" =>
       LET v == done[2]
           unreadable ==
             CASE v[1] = "identifier"     -> v[2] \in WhereNames
               [] v[1] = "identifier_set" -> v[2] = {} \/ v[2] \cap WhereNames # {}
               [] v[1] = "double"         -> Len(v[2]) > 6
               [] v[1] = "ipv6address"    -> Ipv6Text(v[2]).dotted
               [] v[1] = "date"           -> v[2][1] < 1900
               [] v[1] = "timestamp"      -> v[2][1][1] < 1900
               [] OTHER                   -> FALSE
       IN  done[3] = Ok(v) \/ unreadable
  /\ done[1] = "typed" =>
       IF done[3] = Uncaught
       THEN done[2][1] \in {"date", "timestamp", "macaddress"} /\ done[2] \notin StoredValues
       ELSE done[3] \in {Ok(done[2]), NotRead}
=============================================================================
