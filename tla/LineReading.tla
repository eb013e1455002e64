----------------------------- MODULE LineReading -----------------------------
(***************************************************************************)
(* What deska-cli tells about a line: the possibilities it offers when the *)
(* user asks for completion (tabCompletionPossibilities, a dry run of the  *)
(* parser) and the error it reports for a line it refuses                  *)
(* (reportParseError).  Both are read off the errors the grammars leave    *)
(* behind.  A word is a sequence of strings: <<"host">>, the path          *)
(* <<"a", "x">> for a->x, <<"host", ".", "role">> for host.role.  The head *)
(* of a token is the sequence of the words of it that are there already.   *)
(***************************************************************************)
EXTENDS CliParser

CONSTANTS
  RefersTo,     \* triples <<kind, attribute, kind>>: what the attribute names
  Booleans,     \* the attributes of type bool
  Instances,    \* the objects there are, pairs <<kind, path>>
  CommandPatterns   \* the lines of commands, sequences of words

InstancesOf(k) == {o[2] : o \in {i \in Instances : i[1] = k}}

-----------------------------------------------------------------------------
(* What a filter may speak about: the attributes of the kind and of those  *)
(* it contains, the name, and the kinds it has a relation with.            *)
FilterNames(k) == {"name"} \cup UNION {Attributes[j] : j \in {k} \cup ContainedIn(k)}
Relatives(k) ==
  EmbedsIn(k) \cup {EmbeddedInto[j] : j \in {k} \cap DOMAIN EmbeddedInto}
    \cup ContainedIn(k) \cup ContainableIn(k)
    \cup {r[3] : r \in {s \in RefersTo : s[1] = k}} \cup {r[1] : r \in {s \in RefersTo : s[3] = k}}
SetNames(k) == Sets \cap (Attributes[k] \cup Settable[k])

(* The words of a token; a filter is <<>> or one condition                 *)
(* <<word, operator, value>>.                                              *)
Words(tok) ==
  CASE tok[1] = "object" -> <<<<tok[2]>>, tok[3]>>
    [] tok[1] = "filter" /\ tok[3] = <<>> -> <<<<"all">>, <<tok[2]>>>>
    [] tok[1] = "filter" /\ tok[3] # <<>> -> <<<<tok[2]>>, <<"where">>, <<"(">>>> \o tok[3] \o <<<<")">>>>
    [] tok[1] \in {"new", "no"} -> <<<<tok[1]>>, <<tok[2]>>>>
    [] tok[1] = "set" -> <<<<tok[2]>>, tok[3]>>
    [] tok[1] \in {"add", "remove"} -> <<<<tok[1]>>, <<tok[2]>>, tok[3]>>
    [] OTHER -> <<<<tok[1]>>>>

(* FiltersParser: an attribute of the kind, or relative.attribute.         *)
ConditionFits(k, word) ==
  \/ Len(word) = 1 /\ word[1] \in FilterNames(k)
  \/ Len(word) = 3 /\ word[1] \in Relatives(k) /\ word[3] \in FilterNames(word[1])

-----------------------------------------------------------------------------
(* The errors of the grammars: words expected, or a value or a name        *)
(* awaited, at the head of the token, inside it or at the end of the line. *)
Expected(type, place, words) == [type |-> type, place |-> place, words |-> words, about |-> <<>>]
Awaited(type, place, about)  == [type |-> type, place |-> place, words |-> {}, about |-> about]
When(condition, complaints) == IF condition THEN complaints ELSE <<>>
FirstWord(head) == IF head = <<>> THEN "" ELSE head[1][1]
LastWord(head) == Last(head)[Len(Last(head))]

SettingComplaints(k, head) ==
  When(Len(head) = 1 /\ FirstWord(head) \in Settable[k], <<Awaited("VALUE_TYPE", "end", <<k, FirstWord(head)>>)>>)
    \o <<Expected("ATTRIBUTE", "head", Settable[k])>>
RemovalComplaints(k, head) ==
  When(FirstWord(head) = "no", <<Expected("ATTRIBUTE_REMOVAL", "end", Settable[k])>>)
MemberComplaints(k, head) ==
  When(FirstWord(head) \in {"add", "remove"},
       When(Len(head) = 2 /\ LastWord(head) \in SetNames(k), <<Awaited("VALUE_TYPE", "end", <<k, LastWord(head)>>)>>)
         \o <<Expected("IDENTIFIERS_SET", IF Len(head) = 1 THEN "end" ELSE "inside", SetNames(k))>>)
ObjectComplaints(k, head) ==
  When(FirstWord(head) \in KindsOnly[k],
       <<Awaited("OBJECT_NAME", IF Len(head) = 1 THEN "end" ELSE "inside", <<FirstWord(head)>>)>>)
    \o <<Expected("KIND", "head", KindsOnly[k])>>
(* The condition of a filter over k: head is kind where ( condition =      *)
ConditionComplaints(k, head) ==
  LET kind == IF Len(head) = 5 /\ Len(head[4]) = 3 THEN head[4][1] ELSE k
      place == IF Len(head) = 3 THEN "end" ELSE "inside"
  IN  When(Len(head) = 5 /\ ConditionFits(k, head[4]),
           <<Awaited("VALUE_TYPE", "end", <<kind, head[4][Len(head[4])]>>)>>)
        \o <<Expected("ATTRIBUTE", place, FilterNames(k)), Expected("KIND_FILTER", place, Relatives(k))>>
FilterComplaints(k, head) ==
  LET named == FirstWord(head) \in KindsFilters[k]
  IN  When(FirstWord(head) = "all", <<Expected("KIND_SPECIAL_FILTER", "end", KindsFilters[k])>>)
        \o When(named /\ Len(head) \in 3..5, ConditionComplaints(FirstWord(head), head))
        \o <<Expected("KIND_FILTER", IF named THEN "inside" ELSE "head", KindsFilters[k])>>
ConstructComplaints(k, head) ==
  When(FirstWord(head) = "new", <<Expected("KINDS_CONSTRUCT", "end", KindsConstruct[k])>>)

(* The handlers keep no error without an expectation, except those about   *)
(* kinds of show and delete.                                               *)
Valid(mode, c) ==
  \/ c.words # {} \/ c.about # <<>>
  \/ mode \in {"show", "delete"} /\ c.type \in {"KIND", "KIND_FILTER", "KIND_SPECIAL_FILTER"}

(* Every alternative of the grammar is tried, in this order.               *)
GrammarComplaints(ctx, mode, head) ==
  LET k == LastKind(ctx)
      all == CASE k = Top -> ObjectComplaints(k, head) \o FilterComplaints(k, head)
               [] k # Top /\ mode = "create" -> ObjectComplaints(k, head)
               [] OTHER ->
                    When(mode = "standard", SettingComplaints(k, head) \o RemovalComplaints(k, head) \o MemberComplaints(k, head))
                      \o ObjectComplaints(k, head) \o FilterComplaints(k, head) \o ConstructComplaints(k, head)
      Kept(c) == Valid(mode, c)
  IN  SelectSeq(all, Kept)

-----------------------------------------------------------------------------
(* A line of whole tokens, the head of another one and, in a line that was *)
(* entered, a word that fits nowhere.                                      *)
IsAlone(line) == Len(line) = 1 /\ line[1][1] \in FunctionWords
IsNamed(p) == p.stop = "name"      \* rename has found its object and wants the new name

LineComplaints(ctx, line, head, entered) ==
  LET p == ReadLine(ctx, line, Instances)
      mode == Mode(line)
      kinds == IF ctx = <<>> THEN Kinds ELSE EmbedsRecursively[LastKind(ctx)]
      noName == <<Expected("IDENTIFIER_NOT_FOUND", "end", {})>>
  IN  CASE p.stop = "nesting" -> <<Expected("KIND_NESTING", "head", {})>>
        [] p.stop = "missing" -> <<Expected("OBJECT_NOT_FOUND", "head", {})>>
        [] IsNamed(p) -> When(entered \/ head # <<>>, GrammarComplaints(p.ctx, mode, head)) \o noName
        [] IsAlone(line) /\ head = <<>> /\ ~entered /\ mode # "show" ->
             <<Expected("OBJECT_DEFINITION_NOT_FOUND", "end", kinds)>>
        [] OTHER -> GrammarComplaints(p.ctx, mode, head)

(* The dry run succeeds: nothing is missing, or the word after the object  *)
(* of rename passes for its new name.                                      *)
DryRunSucceeds(ctx, line, head) ==
  LET p == ReadLine(ctx, line, Instances)
  IN  IF head = <<>> THEN p.stop = "no" ELSE IsNamed(p) /\ Len(head) = 1

IsFirst(cs, i) == \A j \in 1..(i - 1) : cs[j].type # cs[i].type
FirstOf(cs, types) == {cs[i] : i \in {j \in 1..Len(cs) : cs[j].type \in types /\ IsFirst(cs, j)}}

-----------------------------------------------------------------------------
(* insertTabPossibilitiesOfCurrentContext.                                 *)
HasSets(k) == \E j \in {k} \cup ContainedIn(k) : Attributes[j] \cap Sets # {}
AttributeOffers(k) ==
  LET some == \E j \in {k} \cup ContainedRecursively[k] : Attributes[j] # {}
  IN  Settable[k] \cup (IF some THEN {"no"} ELSE {}) \cup (IF some /\ HasSets(k) THEN {"add", "remove"} ELSE {}) \cup {"end"}
ContextOffers(ctx, mode, empty) ==
  LET k == LastKind(ctx)
      changing == {"create", "delete", "rename"}
      words == IF k = Top
               THEN Kinds \cup (IF empty /\ Kinds # {} THEN changing \cup {"all"} ELSE {})
               ELSE (IF mode = "standard" THEN AttributeOffers(k) ELSE {}) \cup EmbedsRecursively[k]
                      \cup (IF EmbedsRecursively[k] = {} THEN {} ELSE {"new", "all"} \cup (IF empty THEN changing ELSE {}))
  IN  {<<w>> : w \in words \cup (IF empty THEN {"show"} ELSE {})}

(* insertTabPossibilitiesFromErrors: of each type the first error counts,  *)
(* and only if it is at the end of the line.                               *)
NameOffers(ctx, mode, cs) ==
  UNION {{SubSeq(path, Len(ctx) + 1, Len(path)) : path \in InstancesOf(c.about[1])}
           \cup (IF mode = "create" THEN {} ELSE {<<"where">>}) : c \in {d \in FirstOf(cs, {"OBJECT_NAME"}) : d.place = "end"}}

WordTypes == {"ATTRIBUTE_REMOVAL", "OBJECT_DEFINITION_NOT_FOUND", "KIND_SPECIAL_FILTER", "KIND", "KINDS_CONSTRUCT",
              "ATTRIBUTE", "IDENTIFIERS_SET"}
WordOffers(cs) == UNION {{<<w>> : w \in c.words} : c \in {d \in FirstOf(cs, WordTypes) : d.place = "end"}}

RelativeOffers(cs) ==
  UNION {UNION {{<<k, ".", a>> : a \in Attributes[k] \cup {"name"}} : k \in c.words}
           : c \in {d \in FirstOf(cs, {"KIND_FILTER"}) : d.place = "end"}}

(* The kinds whose objects an attribute of the kind may name.              *)
NamedBy(k, a) ==
  {r[3] : r \in {s \in RefersTo : s[1] = k /\ s[2] = a}} \cup ({a} \cap RoAttributes(k)) \cup (IF a = "name" THEN {k} ELSE {})
ValueOffers(cs, head) ==
  LET Offered(k, a) ==
        (IF Len(head) = 1 /\ a \in Sets THEN {} ELSE UNION {InstancesOf(j) : j \in NamedBy(k, a)})
          \cup (IF a \in Booleans THEN {<<"true">>, <<"false">>} ELSE {})
  IN  UNION {Offered(c.about[1], c.about[2]) : c \in FirstOf(cs, {"VALUE_TYPE"})}

ErrorOffers(ctx, mode, cs, head) ==
  NameOffers(ctx, mode, cs) \cup WordOffers(cs) \cup RelativeOffers(cs) \cup ValueOffers(cs, head)

(* tabCompletionPossibilities.  On an empty line nothing is parsed and the *)
(* mode is still that of the line before.                                  *)
\* mutant: the dry run does not get as far as the context it should
OffersOfOldContext(ctx, before, line, head) ==
  IF line = <<>> /\ head = <<>> THEN ContextOffers(ctx, before, TRUE)
  ELSE IF DryRunSucceeds(ctx, line, head) THEN ContextOffers(ctx, Mode(line), FALSE)
  ELSE ErrorOffers(ctx, Mode(line), LineComplaints(ctx, line, head, FALSE), head)
Offers(ctx, before, line, head) ==
  LET p == ReadLine(ctx, line, Instances)
  IN  IF line = <<>> /\ head = <<>> THEN ContextOffers(ctx, before, TRUE)
      ELSE IF DryRunSucceeds(ctx, line, head) THEN ContextOffers(p.ctx, Mode(line), FALSE)
      ELSE ErrorOffers(p.ctx, Mode(line), LineComplaints(ctx, line, head, FALSE), head)

(* What readline shows of it (CliCompleter, CompletionHelper): the cursor  *)
(* is at the end of the line, after the beginning of another word, which   *)
(* the parser does not see.  The possibilities are whole lines, those of   *)
(* the commands are fixed; parentheses are no words here.                  *)
Tokens(line, head) ==
  LET IsToken(w) == w \notin {<<"(">>, <<")">>}
  IN  SelectSeq(FlattenSeq([i \in 1..Len(line) |-> Words(line[i])]) \o head, IsToken)
StartsWith(w, text) == Len(text) <= Len(w[1]) /\ SubSeq(w[1], 1, Len(text)) = text
TokensEqual(pattern, tokens) ==
  /\ Len(tokens) <= Len(pattern)
  /\ \A i \in 1..Len(tokens) : pattern[i] \in {<<"%file">>, tokens[i]}
NextWords(patterns, tokens) ==
  {p[Len(tokens) + 1] : p \in {q \in patterns : TokensEqual(q, tokens) /\ Len(q) > Len(tokens)}}
Completions(offers, tokens, text) ==
  LET words == NextWords({Append(tokens, w) : w \in offers} \cup CommandPatterns, tokens)
  IN  IF <<"%file">> \in words THEN {<<"%file">>} ELSE {w \in words : StartsWith(w, text)}

-----------------------------------------------------------------------------
(* reportParseError: the types in the order in which they are looked for.  *)
\* mutant: a type was forgotten
ReportedWrong ==
  <<"VALUE_TYPE", "OBJECT_DEFINITION_NOT_FOUND", "IDENTIFIER_NOT_FOUND", "OBJECT_NOT_FOUND", "KIND_NESTING",
    "KINDS_CONSTRUCT", "IDENTIFIERS_SET", "ATTRIBUTE_REMOVAL", "ATTRIBUTE", "NESTING", "OBJECT_NAME",
    "KIND_FILTER">>
Reported ==
  <<"VALUE_TYPE", "OBJECT_DEFINITION_NOT_FOUND", "IDENTIFIER_NOT_FOUND", "OBJECT_NOT_FOUND", "KIND_NESTING",
    "KINDS_CONSTRUCT", "IDENTIFIERS_SET", "ATTRIBUTE_REMOVAL", "ATTRIBUTE", "NESTING", "OBJECT_NAME",
    "KIND_SPECIAL_FILTER", "KIND", "KIND_FILTER">>

NothingExpected == Expected("no attributes or nested kinds", "head", {})
OutOfRange      == Expected("std::out_of_range", "head", {})
Told(cs) ==
  LET known == {i \in 1..Len(Reported) : FirstOf(cs, {Reported[i]}) # {}}
      c == CHOOSE d \in FirstOf(cs, {Reported[CHOOSE i \in known : \A j \in known : i <= j]}) : TRUE
  IN  IF cs = <<>> THEN NothingExpected
      ELSE IF known = {} THEN OutOfRange
      ELSE IF c.type = "ATTRIBUTE" THEN [c EXCEPT !.words = @ \cup UNION {d.words : d \in FirstOf(cs, {"KIND"})}]
      ELSE c
=============================================================================
