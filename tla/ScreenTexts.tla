----------------------------- MODULE ScreenTexts -----------------------------
(***************************************************************************)
(* What deska-cli puts on the screen and into files: the difference        *)
(* between two states of the database (UserInterfaceIO::printDiff), texts  *)
(* wrapped to the width of a line, the history of lines (ReadlineWrapper)  *)
(* and printed values that are to be read again (NonOptionalValuePretty-   *)
(* Print, PredefinedRules).  A change is a sequence of its members, as in  *)
(* JsonValues, a word of a text its length, a string a sequence of         *)
(* characters, of which the letters are all the same.                      *)
(***************************************************************************)
EXTENDS Integers, SequencesExt, TLC

CONSTANT PlaceOf       \* from <<kind, name>> to its place in the order of the kinds and then of the names

-----------------------------------------------------------------------------
(* ModificationObjectExtractor: a renamed object has its new name.         *)
ObjectOf(c) == <<c[2], IF c[1] = "renameObject" THEN c[4] ELSE c[3]>>

TypePlace == [deleteObject |-> 0, renameObject |-> 1, createObject |-> 2, setAttribute |-> 3]

(* modificationDiffComparatorLess.                                         *)
DiffLess(a, b) ==
  LET pa == PlaceOf[ObjectOf(a)]  pb == PlaceOf[ObjectOf(b)]
  IN  pa < pb \/ (pa = pb /\ TypePlace[a[1]] < TypePlace[b[1]])

(* One change: prev and next are the objects of its neighbours.  A printed *)
(* line is <<mark, depth, what>>.                                          *)
Printed(out, mark, depth, what) == Append(out, <<mark, depth, what>>)
PrintCreate(p, c, next) ==
  LET q == [p EXCEPT !.out = Printed(@, "+", p.depth, ObjectOf(c))]
  IN  IF next = ObjectOf(c) THEN [q EXCEPT !.depth = @ + 1, !.created = TRUE]
      ELSE [q EXCEPT !.out = Printed(@, "+", p.depth, <<"end">>), !.created = FALSE]
PrintDelete(p, c) ==
  [p EXCEPT !.out = Printed(Printed(@, "-", p.depth, ObjectOf(c)), "-", p.depth, <<"end">>), !.created = FALSE]
PrintRename(p, c, next) ==
  LET q == [p EXCEPT !.out = Printed(Printed(@, "-", p.depth, <<c[2], c[3]>>), "+", p.depth, ObjectOf(c)),
                     !.created = FALSE]
  IN  IF next = ObjectOf(c) THEN [q EXCEPT !.depth = @ + 1]
      ELSE [q EXCEPT !.out = Printed(@, " ", p.depth, <<"end">>)]
PrintSet(p, c, prev, next) ==
  LET head == IF prev = ObjectOf(c) THEN p
              ELSE [p EXCEPT !.out = Printed(@, " ", p.depth, ObjectOf(c)), !.depth = @ + 1]
      Value(out, mark, v) == IF v = <<"unset", "">> THEN out ELSE Printed(out, mark, head.depth, <<c[4], v>>)
      q == [head EXCEPT !.out = Value(Value(@, "-", c[6]), "+", c[5])]
  IN  IF next = ObjectOf(c) THEN q
      ELSE [q EXCEPT !.depth = @ - 1, !.created = FALSE,
                     !.out = Printed(@, IF q.created THEN "+" ELSE " ", q.depth - 1, <<"end">>)]

(* The depth is unsigned; that it is above zero where an object ends is    *)
(* asserted.                                                               *)
PrintDiff(changes) ==
  LET s == SortSeq(changes, DiffLess)
      ObjectAt(i) == IF i \in 1..Len(s) THEN ObjectOf(s[i]) ELSE <<>>
      Step(p, i) ==
        CASE s[i][1] = "createObject" -> PrintCreate(p, s[i], ObjectAt(i + 1))
          [] s[i][1] = "deleteObject" -> PrintDelete(p, s[i])
          [] s[i][1] = "renameObject" -> PrintRename(p, s[i], ObjectAt(i + 1))
          [] s[i][1] = "setAttribute" -> PrintSet(p, s[i], ObjectAt(i - 1), ObjectAt(i + 1))
      after[i \in 0..Len(s)] == IF i = 0 THEN [out |-> <<>>, depth |-> 0, created |-> FALSE] ELSE Step(after[i - 1], i)
  IN  after[Len(s)]

-----------------------------------------------------------------------------
(* wrap: the words of each line of the text put into lines of the screen.  *)
(* What the indentation leaves of the width is unsigned: below zero it is  *)
(* as good as no limit.  A word that has no room even on an empty line     *)
(* leaves that line behind (the branch that was to avoid it is dead).      *)
NoLimit == 1000000
Limit(width, full) == IF width >= full THEN width - full ELSE NoLimit
\* mutant: the spaces are not counted
LengthOfWords(line) ==
  LET sum[i \in 0..Len(line)] == IF i = 0 THEN 0 ELSE sum[i - 1] + line[i] IN sum[Len(line)]
LengthOf(line) ==
  LET sum[i \in 0..Len(line)] == IF i = 0 THEN 0 ELSE sum[i - 1] + line[i] + (IF i = 1 THEN 0 ELSE 1)
  IN  sum[Len(line)]
WrapLine(words, limit) ==
  LET Put(w, word) ==
        IF LengthOf(w.line) + word + 1 > limit
        THEN [lines |-> Append(w.lines, w.line), line |-> <<word>>]
        ELSE [w EXCEPT !.line = Append(@, word)]
      after[i \in 0..Len(words)] == IF i = 0 THEN [lines |-> <<>>, line |-> <<>>] ELSE Put(after[i - 1], words[i])
      last == after[Len(words)]
  IN  IF last.line = <<>> THEN last.lines ELSE Append(last.lines, last.line)
Wrapped(text, width, full) ==
  IF width = 0 THEN text ELSE FlattenSeq([i \in 1..Len(text) |-> WrapLine(text[i], Limit(width, full))])

-----------------------------------------------------------------------------
(* The history: a line is added unless it is empty or the one before; the  *)
(* oldest go.  The file has one line for each.                             *)
Stifled(h, limit) == IF Len(h) > limit THEN SubSeq(h, Len(h) - limit + 1, Len(h)) ELSE h
Remembered(h, line) == IF h # <<>> /\ Last(h) = line THEN h ELSE Append(h, line)
TypedLines(lines, limit) ==
  LET after[i \in 0..Len(lines)] ==
        IF i = 0 THEN <<>>
        ELSE IF lines[i] = "" THEN after[i - 1] ELSE Stifled(Remembered(after[i - 1], lines[i]), limit)
  IN  after[Len(lines)]
LoadHistory(file, limit) ==
  LET after[i \in 0..Len(file)] == IF i = 0 THEN <<>> ELSE Remembered(after[i - 1], file[i])
  IN  Stifled(after[Len(file)], limit)

-----------------------------------------------------------------------------
(* A string is printed in quotes only if there is a space in it, and read  *)
(* as tQuotedString or else as tSimpleString.                              *)
Quote == "\""
Apostrophe == "'"
Has(s, c) == \E i \in 1..Len(s) : s[i] = c
PrettyPrint(s) ==
  LET q == IF Has(s, Quote) THEN Apostrophe ELSE Quote IN
  IF Has(s, " ") THEN <<q>> \o s \o <<q>> ELSE s

(* What is read, and what is left of the text: the skipper takes the       *)
(* spaces before it.                                                       *)
Unskipped(t) == IF \A i \in 1..Len(t) : t[i] = " " THEN <<>>
                ELSE SubSeq(t, CHOOSE i \in 1..Len(t) : t[i] # " " /\ \A j \in 1..(i - 1) : t[j] = " ", Len(t))
Quoted(t, q) ==        \* where the closing quote is, or 0
  IF Len(t) < 3 \/ t[1] # q \/ t[2] = q \/ ~\E i \in 3..Len(t) : t[i] = q THEN 0
  ELSE CHOOSE i \in 3..Len(t) : t[i] = q /\ \A j \in 3..(i - 1) : t[j] # q
ReadString(text) ==
  LET t == Unskipped(text)
      close == IF Quoted(t, Quote) > 0 THEN Quoted(t, Quote) ELSE Quoted(t, Apostrophe)
      word == IF Has(t, " ") THEN (CHOOSE i \in 1..Len(t) : t[i] = " " /\ \A j \in 1..(i - 1) : t[j] # " ") - 1 ELSE Len(t)
  IN  IF t = <<>> THEN [ok |-> FALSE, read |-> <<>>, rest |-> <<>>]
      ELSE IF close > 0 THEN [ok |-> TRUE, read |-> SubSeq(t, 2, close - 1), rest |-> SubSeq(t, close + 1, Len(t))]
      ELSE [ok |-> TRUE, read |-> SubSeq(t, 1, word), rest |-> SubSeq(t, word + 1, Len(t))]
=============================================================================
