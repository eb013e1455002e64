--------------------------- MODULE CliParserProofs ----------------------------
(***************************************************************************)
(* Proofs about CliParser, for CliCommands and CliSession: the signals it  *)
(* makes of a line lead from the context the line starts in to the one the *)
(* parser has when it is done, and the kinds of the contexts nest.         *)
(*                                                                         *)
(* First facts about sets of numbers, which come from the                  *)
(* well-foundedness of < and stand for an induction each, and about        *)
(* sequences of which no set of elements is known, as contexts, lines and  *)
(* scripts are.                                                            *)
(***************************************************************************)
EXTENDS CliParser, Integers, SequenceTheorems, WellFoundedInduction, TLAPS

\* A set of natural numbers has a least element.
THEOREM LeastElement ==
    ASSUME NEW T \in SUBSET Nat, T # {}
    PROVE  \E n \in T : \A m \in T : n <= m
<1>1. PICK n \in T : \A m \in T : ~(<<m, n>> \in OpToRel(<, Nat))
  BY NatLessThanWellFounded, WFMin
<1>2. \A m \in T : ~(m < n)
  BY <1>1 DEF OpToRel
<1> QED
  BY <1>2

\* What holds of 0, and of n + 1 when it holds of n, holds of every number.
THEOREM SetInduction ==
    ASSUME NEW S, 0 \in S, \A n \in Nat : n \in S => n + 1 \in S
    PROVE  Nat \subseteq S
<1> SUFFICES ASSUME ~(Nat \subseteq S) PROVE FALSE
  OBVIOUS
<1> DEFINE T == Nat \ S
<1>1. T # {} /\ T \in SUBSET Nat
  OBVIOUS
<1>2. PICK n \in T : \A m \in T : n <= m
  <2> HIDE DEF T
  <2> QED
    BY <1>1, LeastElement
<1>3. n \in Nat /\ n # 0 /\ n \notin S
  BY <1>2
<1>4. n - 1 \in Nat /\ ~(n <= n - 1) /\ n = (n - 1) + 1
  BY <1>3
<1>5. n - 1 \in S
  BY <1>2, <1>4
<1> QED
  BY <1>3, <1>4, <1>5

-----------------------------------------------------------------------------
(***************************************************************************)
(* Sequences of whatever there is: a specification whose data have no type *)
(* still has to know how long its sequences are and what is in them.       *)
(***************************************************************************)
IsSequence(s) == s \in Seq({s[i] : i \in DOMAIN s})

LEMMA SequenceShape ==
    ASSUME NEW s, IsSequence(s)
    PROVE  Len(s) \in Nat /\ DOMAIN s = 1 .. Len(s)
BY LenProperties DEF IsSequence

LEMMA SequenceIn ==
    ASSUME NEW s, IsSequence(s), NEW S, \A i \in DOMAIN s : s[i] \in S
    PROVE  s \in Seq(S)
<1>1. Len(s) \in Nat /\ s \in [1 .. Len(s) -> S]
  BY SequenceShape, LenProperties DEF IsSequence
<1>. QED
  BY <1>1, SeqDef

LEMMA SequenceOf ==
    ASSUME NEW n \in Nat, NEW t, DOMAIN t = 1 .. n, t = [i \in 1 .. n |-> t[i]]
    PROVE  IsSequence(t) /\ Len(t) = n
<1>. DEFINE T == {t[i] : i \in DOMAIN t}
<1>1. t \in [1 .. n -> T]
  OBVIOUS
<1>. HIDE DEF T
<1>2. t \in Seq(T)
  BY <1>1, SeqDef
<1>3. Len(t) = n
  BY <1>1, <1>2, LenProperties
<1>. QED
  BY <1>2, <1>3 DEF IsSequence, T

LEMMA SequenceFrom ==
    ASSUME NEW S, NEW s \in Seq(S)
    PROVE  IsSequence(s) /\ Len(s) \in Nat /\ DOMAIN s = 1 .. Len(s)
<1>1. Len(s) \in Nat /\ DOMAIN s = 1 .. Len(s) /\ s = [i \in 1 .. Len(s) |-> s[i]]
  BY LenProperties
<1>. QED
  BY <1>1, SequenceOf

\* The same length, and the same members.
LEMMA SameSequences ==
    ASSUME NEW s, NEW t, IsSequence(s), IsSequence(t), Len(s) = Len(t),
           \A i \in 1 .. Len(s) : s[i] = t[i]
    PROVE  s = t
<1>1. /\ s = [i \in 1 .. Len(s) |-> s[i]]
      /\ t = [i \in 1 .. Len(t) |-> t[i]]
  BY LenProperties DEF IsSequence
<1>. QED
  BY <1>1

LEMMA AppendedSequence ==
    ASSUME NEW s, IsSequence(s), NEW e
    PROVE  /\ IsSequence(Append(s, e))
           /\ Len(Append(s, e)) = Len(s) + 1
           /\ DOMAIN Append(s, e) = DOMAIN s \cup {Len(s) + 1}
           /\ \A i \in DOMAIN s : Append(s, e)[i] = s[i]
           /\ Append(s, e)[Len(s) + 1] = e
<1>. DEFINE S == {s[i] : i \in DOMAIN s} \cup {e}
<1>1. Len(s) \in Nat /\ DOMAIN s = 1 .. Len(s)
  BY SequenceShape
<1>2. s \in Seq(S) /\ e \in S
  BY SequenceIn
<1>. HIDE DEF S
<1>3. /\ Append(s, e) \in Seq(S) /\ Len(Append(s, e)) = Len(s) + 1
      /\ \A i \in 1 .. Len(s) : Append(s, e)[i] = s[i]
      /\ Append(s, e)[Len(s) + 1] = e
  BY <1>2, AppendProperties
<1>4. IsSequence(Append(s, e)) /\ DOMAIN Append(s, e) = 1 .. (Len(s) + 1)
  BY <1>3, SequenceFrom
<1>. QED
  BY <1>1, <1>3, <1>4

LEMMA JoinedSequences ==
    ASSUME NEW s, NEW t, IsSequence(s), IsSequence(t)
    PROVE  /\ IsSequence(s \o t) /\ Len(s \o t) = Len(s) + Len(t)
           /\ \A i \in 1 .. Len(s) : (s \o t)[i] = s[i]
           /\ \A i \in 1 .. Len(t) : (s \o t)[Len(s) + i] = t[i]
<1>. DEFINE S == {s[i] : i \in DOMAIN s} \cup {t[i] : i \in DOMAIN t}
<1>1. /\ Len(s) \in Nat /\ DOMAIN s = 1 .. Len(s)
      /\ Len(t) \in Nat /\ DOMAIN t = 1 .. Len(t)
  BY SequenceShape
<1>2. s \in Seq(S) /\ t \in Seq(S)
  BY SequenceIn
<1>. HIDE DEF S
<1>3. /\ s \o t \in Seq(S) /\ Len(s \o t) = Len(s) + Len(t)
      /\ \A i \in 1 .. (Len(s) + Len(t)) :
            (s \o t)[i] = IF i <= Len(s) THEN s[i] ELSE t[i - Len(s)]
  BY <1>2, ConcatProperties
<1>4. IsSequence(s \o t)
  BY <1>3, SequenceFrom
<1>5. /\ \A i \in 1 .. Len(s) : i \in 1 .. (Len(s) + Len(t)) /\ i <= Len(s)
      /\ \A i \in 1 .. Len(t) :
            /\ Len(s) + i \in 1 .. (Len(s) + Len(t)) /\ ~(Len(s) + i <= Len(s))
            /\ (Len(s) + i) - Len(s) = i
  BY <1>1
<1>. QED
  BY <1>3, <1>4, <1>5

\* The first n members, and what is left without the first n of them.
LEMMA PartOfSequence ==
    ASSUME NEW s, IsSequence(s), NEW m \in Nat, NEW n \in Nat, m <= n, n <= Len(s)
    PROVE  /\ IsSequence(SubSeq(s, m + 1, n)) /\ Len(SubSeq(s, m + 1, n)) = n - m
           /\ \A i \in 1 .. (n - m) : SubSeq(s, m + 1, n)[i] = s[m + i]
<1>1. Len(s) \in Nat /\ DOMAIN s = 1 .. Len(s) /\ n - m \in Nat
  BY SequenceShape
<1>2. SubSeq(s, m + 1, n) = [i \in 1 .. (n - m) |-> s[m + i]]
  BY <1>1
<1>. DEFINE t == [i \in 1 .. (n - m) |-> s[m + i]]
<1>3. DOMAIN t = 1 .. (n - m) /\ t = [i \in 1 .. (n - m) |-> t[i]]
  OBVIOUS
<1>4. \A i \in 1 .. (n - m) : t[i] = s[m + i]
  OBVIOUS
<1>. HIDE DEF t
<1>5. IsSequence(t) /\ Len(t) = n - m
  BY <1>1, <1>3, SequenceOf
<1>6. SubSeq(s, m + 1, n) = t
  BY <1>2 DEF t
<1>. QED
  BY <1>4, <1>5, <1>6

LEMMA StartOfSequence ==
    ASSUME NEW s, IsSequence(s), NEW n \in Nat, n <= Len(s)
    PROVE  /\ IsSequence(SubSeq(s, 1, n)) /\ Len(SubSeq(s, 1, n)) = n
           /\ \A i \in 1 .. n : SubSeq(s, 1, n)[i] = s[i]
<1>1. SubSeq(s, 1, n) = [i \in 1 .. n |-> s[i]]
  OBVIOUS
<1>. DEFINE t == [i \in 1 .. n |-> s[i]]
<1>2. DOMAIN t = 1 .. n /\ t = [i \in 1 .. n |-> t[i]] /\ \A i \in 1 .. n : t[i] = s[i]
  OBVIOUS
<1>3. SubSeq(s, 1, n) = t
  BY <1>1
<1>. HIDE DEF t
<1>. QED
  BY <1>2, <1>3, SequenceOf

LEMMA TailOfSequence ==
    ASSUME NEW s, IsSequence(s), s # <<>>
    PROVE  /\ Len(s) \in Nat \ {0} /\ Head(s) = s[1]
           /\ IsSequence(Tail(s)) /\ Len(Tail(s)) = Len(s) - 1
           /\ \A i \in 1 .. (Len(s) - 1) : Tail(s)[i] = s[i + 1]
<1>. DEFINE S == {s[i] : i \in DOMAIN s}
<1>1. s \in Seq(S) /\ Len(s) \in Nat
  BY SequenceShape DEF IsSequence
<1>. HIDE DEF S
<1>2. /\ Head(s) = s[1] /\ Tail(s) \in Seq(S) /\ Len(Tail(s)) = Len(s) - 1
      /\ \A i \in 1 .. (Len(s) - 1) : Tail(s)[i] = s[i + 1]
      /\ Len(s) # 0
  BY <1>1, HeadTailProperties, EmptySeq
<1>. QED
  BY <1>1, <1>2, SequenceFrom

LEMMA EmptySequence ==
    /\ IsSequence(<<>>) /\ Len(<<>>) = 0
    /\ \A s : IsSequence(s) /\ Len(s) = 0 => s = <<>>
<1>1. <<>> \in Seq({}) /\ {<<>>[i] : i \in DOMAIN <<>>} = {} /\ Len(<<>>) = 0
  OBVIOUS
<1>2. IsSequence(<<>>)
  BY <1>1 DEF IsSequence
<1>. QED
  BY <1>1, <1>2, SameSequences

-----------------------------------------------------------------------------
(***************************************************************************)
(* The parser: what a signal does to the context when it is applied, and   *)
(* that the signals of a line lead from the context the line starts in to  *)
(* the one the parser has when it is done.                                 *)
(***************************************************************************)
After(c, s, d) ==
    CASE s[1] = "left" -> c # <<>> /\ d = Front(c)
      [] s[1] \in {"enter", "create"} -> d = Append(c, <<"object", s[3], s[4]>>) /\ s[2] = d
      [] s[1] = "filter" -> d = Append(c, <<"filter", s[3], s[4]>>) /\ s[2] = d
      [] s[1] \in {"set", "no", "add", "remove"} -> d = c /\ s[2] = c /\ c # <<>>
      [] OTHER -> d = c

\* cs[i]: the context after i signals.
Along(c0, sig, cs) ==
    /\ cs[0] = c0
    /\ \A i \in 0 .. Len(sig) : IsSequence(cs[i])
    /\ \A i \in 1 .. Len(sig) : After(cs[i - 1], sig[i], cs[i])
Leads(c0, sig, c) == \E cs : Along(c0, sig, cs) /\ cs[Len(sig)] = c

ParserFields == {"ctx", "sig", "single", "attr", "done", "stop"}
Proper(p, c0) ==
    /\ DOMAIN p = ParserFields
    /\ IsSequence(p.ctx) /\ IsSequence(p.sig)
    /\ Leads(c0, p.sig, p.ctx)

LEMMA LeadsNowhere == ASSUME NEW c, IsSequence(c) PROVE Leads(c, <<>>, c)
<1>. DEFINE cs == [i \in {0} |-> c]
<1>1. cs[0] = c
  OBVIOUS
<1>. HIDE DEF cs
<1>2. Len(<<>>) = 0 /\ 1 .. 0 = {} /\ \A i \in 0 .. 0 : i = 0
  OBVIOUS
<1>. QED
  BY <1>1, <1>2 DEF Leads, Along

LEMMA LeadsFurther ==
    ASSUME NEW c0, NEW sig, IsSequence(sig), NEW c, Leads(c0, sig, c),
           NEW more, IsSequence(more), NEW ds, Along(c, more, ds)
    PROVE  Leads(c0, sig \o more, ds[Len(more)])
<1>1. PICK cs : Along(c0, sig, cs) /\ cs[Len(sig)] = c
  BY DEF Leads
<1>. DEFINE m == Len(sig)
            n == Len(more)
            es == [i \in 0 .. (m + n) |-> IF i <= m THEN cs[i] ELSE ds[i - m]]
<1>2. m \in Nat /\ n \in Nat
  BY SequenceShape
<1>3. /\ Len(sig \o more) = m + n
      /\ \A i \in 1 .. m : (sig \o more)[i] = sig[i]
      /\ \A i \in 1 .. n : (sig \o more)[m + i] = more[i]
  BY JoinedSequences
<1>. HIDE DEF m, n
<1>4. /\ \A i \in 0 .. m : es[i] = cs[i]
      /\ \A i \in 1 .. n : es[m + i] = ds[i]
  <2>1. \A i \in 0 .. m : i \in 0 .. (m + n) /\ i <= m
    BY <1>2
  <2>2. \A i \in 1 .. n : m + i \in 0 .. (m + n) /\ ~(m + i <= m) /\ (m + i) - m = i
    BY <1>2
  <2>. QED
    BY <2>1, <2>2
<1>5. es[m] = cs[m] /\ cs[m] = ds[0] /\ m \in 0 .. m /\ 0 \in 0 .. m
  BY <1>1, <1>2, <1>4 DEF Along, m
<1>6. \A i \in 0 .. n : es[m + i] = ds[i]
  <2>1. \A i \in 0 .. n : i = 0 \/ i \in 1 .. n
    BY <1>2
  <2>2. m + 0 = m
    BY <1>2
  <2>. QED
    BY <1>4, <1>5, <2>1, <2>2
<1>. HIDE DEF es
<1>7. es[0] = c0
  BY <1>1, <1>4, <1>5 DEF Along
<1>8. ASSUME NEW i \in 0 .. (m + n) PROVE IsSequence(es[i])
  <2>1. CASE i \in 0 .. m
    BY <1>1, <1>4, <2>1 DEF Along, m
  <2>2. CASE i - m \in 0 .. n
    <3>1. es[m + (i - m)] = ds[i - m] /\ IsSequence(ds[i - m])
      BY <1>6, <2>2 DEF Along, n
    <3>2. m + (i - m) = i
      BY <1>2
    <3>. QED
      BY <3>1, <3>2
  <2>3. i \in 0 .. m \/ i - m \in 0 .. n
    BY <1>2
  <2>. QED
    BY <2>1, <2>2, <2>3
<1>9. ASSUME NEW i \in 1 .. (m + n) PROVE After(es[i - 1], (sig \o more)[i], es[i])
  <2>1. CASE i \in 1 .. m
    <3>1. i \in 0 .. m /\ i - 1 \in 0 .. m
      BY <1>2, <2>1
    <3>. QED
      BY <1>1, <1>3, <1>4, <2>1, <3>1 DEF Along, m
  <2>2. CASE i - m \in 1 .. n
    <3>1. /\ i - m \in 0 .. n /\ (i - m) - 1 \in 0 .. n
          /\ m + (i - m) = i /\ m + ((i - m) - 1) = i - 1
      BY <1>2, <2>2
    <3>2. es[i] = ds[i - m] /\ es[i - 1] = ds[(i - m) - 1]
      BY <1>6, <3>1
    <3>3. (sig \o more)[i] = more[i - m]
      BY <1>3, <2>2, <3>1
    <3>4. After(ds[(i - m) - 1], more[i - m], ds[i - m])
      BY <2>2 DEF Along, n
    <3>. QED
      BY <3>2, <3>3, <3>4
  <2>3. i \in 1 .. m \/ i - m \in 1 .. n
    BY <1>2
  <2>. QED
    BY <2>1, <2>2, <2>3
<1>10. es[m + n] = ds[n]
  <2>1. n \in 0 .. n
    BY <1>2
  <2>. QED
    BY <1>6, <2>1
<1>11. Along(c0, sig \o more, es)
  BY <1>3, <1>7, <1>8, <1>9 DEF Along
<1>. QED
  BY <1>3, <1>10, <1>11 DEF Leads, n

LEMMA LeadsOn ==
    ASSUME NEW c0, NEW sig, IsSequence(sig), NEW c, IsSequence(c), Leads(c0, sig, c),
           NEW s, NEW d, IsSequence(d), After(c, s, d)
    PROVE  IsSequence(Append(sig, s)) /\ Leads(c0, Append(sig, s), d)
<1>. DEFINE ds == [i \in 0 .. 1 |-> IF i = 0 THEN c ELSE d]
<1>1. ds[0] = c /\ ds[1] = d
  OBVIOUS
<1>. HIDE DEF ds
<1>2. IsSequence(<<s>>) /\ Len(<<s>>) = 1 /\ <<s>>[1] = s
  <2>1. <<s>> \in Seq({s}) /\ Len(<<s>>) = 1 /\ <<s>>[1] = s
    OBVIOUS
  <2>. QED
    BY <2>1, SequenceFrom
<1>3. Along(c, <<s>>, ds)
  <2>1. /\ \A i \in 0 .. 1 : i = 0 \/ i = 1
        /\ \A i \in 1 .. 1 : i = 1 /\ i - 1 = 0
    OBVIOUS
  <2>. QED
    BY <1>1, <1>2, <2>1 DEF Along
<1>4. Append(sig, s) = sig \o <<s>>
  <2>1. IsSequence(Append(sig, s)) /\ IsSequence(sig \o <<s>>)
    BY <1>2, AppendedSequence, JoinedSequences
  <2>2. Len(sig) \in Nat /\ DOMAIN sig = 1 .. Len(sig)
    BY SequenceShape
  <2>3. /\ Len(Append(sig, s)) = Len(sig) + 1
        /\ \A i \in 1 .. Len(sig) : Append(sig, s)[i] = sig[i]
        /\ Append(sig, s)[Len(sig) + 1] = s
    BY <2>2, AppendedSequence
  <2>4. /\ Len(sig \o <<s>>) = Len(sig) + 1
        /\ \A i \in 1 .. Len(sig) : (sig \o <<s>>)[i] = sig[i]
        /\ (sig \o <<s>>)[Len(sig) + 1] = s
    BY <1>2, <2>2, JoinedSequences
  <2>5. \A i \in 1 .. (Len(sig) + 1) : i \in 1 .. Len(sig) \/ i = Len(sig) + 1
    BY <2>2
  <2>. QED
    BY <2>1, <2>3, <2>4, <2>5, SameSequences
<1>5. Leads(c0, sig \o <<s>>, ds[Len(<<s>>)])
  BY ONLY <1>2, <1>3, LeadsFurther, IsSequence(sig), Leads(c0, sig, c)
<1>6. ds[Len(<<s>>)] = d
  BY ONLY <1>1, <1>2
<1>7. IsSequence(Append(sig, s))
  BY AppendedSequence
<1>. QED
  BY ONLY <1>4, <1>5, <1>6, <1>7

LEMMA FrontOfSequence ==
    ASSUME NEW s, IsSequence(s), s # <<>>
    PROVE  /\ Len(s) \in Nat \ {0} /\ IsSequence(Front(s)) /\ Len(Front(s)) = Len(s) - 1
           /\ \A i \in 1 .. (Len(s) - 1) : Front(s)[i] = s[i]
<1>1. Len(s) \in Nat \ {0}
  BY TailOfSequence
<1>2. Len(s) - 1 \in Nat /\ Len(s) - 1 <= Len(s)
  BY <1>1
<1>. QED
  BY <1>1, <1>2, StartOfSequence DEF Front

LEMMA SameProper ==
    ASSUME NEW p, NEW c0, Proper(p, c0), NEW q, DOMAIN q = ParserFields, q.ctx = p.ctx, q.sig = p.sig
    PROVE  Proper(q, c0)
BY DEF Proper

\* A signal, and what it does to the context.
LEMMA ProperOn ==
    ASSUME NEW p, NEW c0, Proper(p, c0), NEW q, DOMAIN q = ParserFields,
           NEW s, q.sig = Append(p.sig, s), IsSequence(q.ctx), After(p.ctx, s, q.ctx)
    PROVE  Proper(q, c0)
BY LeadsOn DEF Proper

LEMMA ProperPushed ==
    ASSUME NEW p, NEW c0, Proper(p, c0), NEW signal, NEW kind, NEW x, NEW y,
           \/ signal = "filter" /\ kind = "filter"
           \/ signal = "create" /\ kind = "object"
    PROVE  Proper(Pushed(p, signal, <<kind, x, y>>), c0)
<1>. DEFINE q == Pushed(p, signal, <<kind, x, y>>)
            d == Append(p.ctx, <<kind, x, y>>)
            s == <<signal, d, x, y>>
<1>1. q.ctx = d /\ q.sig = Append(p.sig, s) /\ DOMAIN q = ParserFields
  BY DEF Pushed, Proper, ParserFields
<1>2. IsSequence(d)
  BY AppendedSequence DEF Proper
<1>3. s[1] = signal /\ s[2] = d /\ s[3] = x /\ s[4] = y
  OBVIOUS
<1>. HIDE DEF q, s
<1>4. After(p.ctx, s, d)
  BY <1>3 DEF After
<1>. HIDE DEF d
<1>5. Proper(q, c0)
  BY <1>1, <1>2, <1>4, ProperOn
<1>. QED
  BY <1>5 DEF q

LEMMA ProperLeft ==
    ASSUME NEW p, NEW c0, Proper(p, c0), p.ctx # <<>>
    PROVE  Proper(Left(p), c0)
<1>. DEFINE q == Left(p)
<1>1. q.ctx = Front(p.ctx) /\ q.sig = Append(p.sig, <<"left">>) /\ DOMAIN q = ParserFields
  BY DEF Left, Proper, ParserFields
<1>. HIDE DEF q
<1>2. IsSequence(q.ctx)
  BY <1>1, FrontOfSequence DEF Proper
<1>3. After(p.ctx, <<"left">>, q.ctx)
  BY <1>1 DEF After
<1>4. Proper(q, c0)
  BY <1>1, <1>2, <1>3, ProperOn
<1>. QED
  BY <1>4 DEF q

\* The signals of kind parent->name: one for each object on the way.
LEMMA ProperEntered ==
    ASSUME NEW p, NEW c0, Proper(p, c0), NEW mode, NEW k, NEW names, IsSequence(names)
    PROVE  Proper(Entered(p, mode, k, names), c0)
<1>. DEFINE ks == KindsUp(k, Len(names))
            n == Len(names)
            items == [i \in 1 .. Len(names) |-> <<"object", ks[i], names[i]>>]
            sigs == [i \in 1 .. Len(names) |->
                       <<IF i = Len(names) /\ mode = "create" THEN "create" ELSE "enter",
                         p.ctx \o SubSeq(items, 1, i), ks[i], names[i]>>]
            ds == [i \in 0 .. n |-> p.ctx \o SubSeq(items, 1, i)]
            q == [p EXCEPT !.ctx = @ \o items, !.sig = @ \o sigs]
<1>1. Len(names) \in Nat
  BY SequenceShape
<1>2. IsSequence(items) /\ Len(items) = n /\ IsSequence(sigs) /\ Len(sigs) = n
  <2>1. DOMAIN items = 1 .. n /\ items = [i \in 1 .. n |-> items[i]]
    OBVIOUS
  <2>2. DOMAIN sigs = 1 .. n /\ sigs = [i \in 1 .. n |-> sigs[i]]
    OBVIOUS
  <2>. HIDE DEF items, sigs
  <2>. QED
    BY <1>1, <2>1, <2>2, SequenceOf
<1>3. \A i \in 1 .. n : items[i] = <<"object", ks[i], names[i]>>
  OBVIOUS
<1>4. \A i \in 1 .. n : /\ sigs[i][1] \in {"enter", "create"} /\ sigs[i][3] = ks[i] /\ sigs[i][4] = names[i]
                       /\ sigs[i][2] = p.ctx \o SubSeq(items, 1, i)
  OBVIOUS
<1>5. \A i \in 0 .. n : ds[i] = p.ctx \o SubSeq(items, 1, i)
  OBVIOUS
<1>6. /\ q.ctx = p.ctx \o items /\ q.sig = p.sig \o sigs /\ DOMAIN q = ParserFields
  BY DEF Proper, ParserFields
<1>7. Entered(p, mode, k, names) = q \/ Entered(p, mode, k, names) = [p EXCEPT !.stop = "nesting"]
  BY DEF Entered
<1>. HIDE DEF ks, items, sigs, ds, q
<1>8. ASSUME NEW i \in 0 .. n
      PROVE  /\ IsSequence(SubSeq(items, 1, i)) /\ Len(SubSeq(items, 1, i)) = i
             /\ \A j \in 1 .. i : SubSeq(items, 1, i)[j] = items[j]
  <2>1. i \in Nat /\ i <= Len(items)
    BY <1>1, <1>2
  <2>. QED
    BY <1>2, <2>1, StartOfSequence
<1>9. IsSequence(p.ctx) /\ IsSequence(p.sig) /\ Leads(c0, p.sig, p.ctx) /\ Len(p.ctx) \in Nat
  BY SequenceShape DEF Proper
<1>10. ASSUME NEW i \in 0 .. n
       PROVE  /\ IsSequence(ds[i]) /\ Len(ds[i]) = Len(p.ctx) + i
              /\ \A j \in 1 .. Len(p.ctx) : ds[i][j] = p.ctx[j]
              /\ \A j \in 1 .. i : ds[i][Len(p.ctx) + j] = items[j]
  <2>. DEFINE t == SubSeq(items, 1, i)
  <2>1. /\ IsSequence(t) /\ Len(t) = i /\ ds[i] = p.ctx \o t
        /\ \A j \in 1 .. i : t[j] = items[j]
    BY <1>5, <1>8
  <2>. HIDE DEF t
  <2>2. /\ IsSequence(p.ctx \o t) /\ Len(p.ctx \o t) = Len(p.ctx) + Len(t)
        /\ \A j \in 1 .. Len(p.ctx) : (p.ctx \o t)[j] = p.ctx[j]
        /\ \A j \in 1 .. Len(t) : (p.ctx \o t)[Len(p.ctx) + j] = t[j]
    <3>1. IsSequence(p.ctx) /\ IsSequence(t)
      BY <1>9, <2>1
    <3>. QED
      BY ONLY <3>1, JoinedSequences
  <2>. QED
    BY <2>1, <2>2
<1>11. ds[0] = p.ctx
  <2>1. 0 \in 0 .. n /\ Len(p.ctx) + 0 = Len(p.ctx)
    BY <1>1, <1>9
  <2>. QED
    BY <1>9, <1>10, <2>1, SameSequences
<1>12. ds[n] = p.ctx \o items
  <2>1. n \in 0 .. n
    BY <1>1
  <2>2. SubSeq(items, 1, n) = items
    BY <1>2, <1>8, <2>1, SameSequences
  <2>. QED
    BY <1>5, <2>1, <2>2
<1>13. ASSUME NEW i \in 1 .. n PROVE ds[i] = Append(ds[i - 1], items[i])
  <2>1. /\ i \in 0 .. n /\ i - 1 \in 0 .. n /\ (Len(p.ctx) + (i - 1)) + 1 = Len(p.ctx) + i
        /\ Len(p.ctx) + i \in Nat
    BY <1>1, <1>9
  <2>2. /\ IsSequence(Append(ds[i - 1], items[i]))
        /\ Len(Append(ds[i - 1], items[i])) = Len(p.ctx) + i
        /\ \A j \in 1 .. (Len(p.ctx) + (i - 1)) : Append(ds[i - 1], items[i])[j] = ds[i - 1][j]
        /\ Append(ds[i - 1], items[i])[Len(p.ctx) + i] = items[i]
    <3>1. IsSequence(ds[i - 1]) /\ Len(ds[i - 1]) = Len(p.ctx) + (i - 1)
      BY <1>10, <2>1
    <3>2. DOMAIN ds[i - 1] = 1 .. (Len(p.ctx) + (i - 1))
      BY <3>1, SequenceShape
    <3>. QED
      BY <2>1, <3>1, <3>2, AppendedSequence
  <2>3. ASSUME NEW j \in 1 .. (Len(p.ctx) + i) PROVE ds[i][j] = Append(ds[i - 1], items[i])[j]
    <3>1. CASE j \in 1 .. Len(p.ctx)
      <4>1. j \in 1 .. (Len(p.ctx) + (i - 1))
        BY <1>9, <2>1, <3>1
      <4>. QED
        BY <1>10, <2>1, <2>2, <3>1, <4>1
    <3>2. CASE j - Len(p.ctx) \in 1 .. (i - 1)
      <4>1. /\ j \in 1 .. (Len(p.ctx) + (i - 1)) /\ j - Len(p.ctx) \in 1 .. i
            /\ Len(p.ctx) + (j - Len(p.ctx)) = j
        BY <1>9, <2>1, <3>2
      <4>2. ds[i - 1][Len(p.ctx) + (j - Len(p.ctx))] = items[j - Len(p.ctx)]
        BY <1>10, <2>1, <3>2
      <4>3. ds[i][Len(p.ctx) + (j - Len(p.ctx))] = items[j - Len(p.ctx)]
        BY <1>10, <2>1, <4>1
      <4>. QED
        BY <2>2, <4>1, <4>2, <4>3
    <3>3. CASE j = Len(p.ctx) + i
      <4>1. i \in 1 .. i
        BY <2>1
      <4>. QED
        BY <1>10, <2>1, <2>2, <3>3, <4>1
    <3>4. j \in 1 .. Len(p.ctx) \/ j - Len(p.ctx) \in 1 .. (i - 1) \/ j = Len(p.ctx) + i
      BY <1>9, <2>1
    <3>. QED
      BY <3>1, <3>2, <3>3, <3>4
  <2>4. IsSequence(ds[i]) /\ Len(ds[i]) = Len(p.ctx) + i
    BY <1>10, <2>1
  <2>. QED
    BY <2>2, <2>3, <2>4, SameSequences
<1>14. Along(p.ctx, sigs, ds)
  <2>1. ASSUME NEW i \in 1 .. n PROVE After(ds[i - 1], sigs[i], ds[i])
    <3>1. i \in 0 .. n
      BY <1>1
    <3>2. ds[i] = p.ctx \o SubSeq(items, 1, i)
      BY <1>5, <3>1
    <3>3. /\ sigs[i][1] \in {"enter", "create"} /\ sigs[i][3] = ks[i] /\ sigs[i][4] = names[i]
          /\ sigs[i][2] = ds[i]
      BY <1>4, <3>2
    <3>4. ds[i] = Append(ds[i - 1], <<"object", ks[i], names[i]>>)
      BY <1>3, <1>13
    <3>. QED
      BY <3>3, <3>4 DEF After
  <2>. QED
    BY <1>2, <1>10, <1>11, <2>1 DEF Along
<1>15. Leads(c0, p.sig \o sigs, ds[n])
  BY <1>2, <1>9, <1>14, LeadsFurther
<1>16. Proper(q, c0)
  BY <1>2, <1>6, <1>9, <1>12, <1>15, JoinedSequences DEF Proper
<1>17. Proper([p EXCEPT !.stop = "nesting"], c0)
  BY SameProper DEF Proper, ParserFields
<1>. QED
  BY <1>7, <1>16, <1>17

LEMMA ProperTaken ==
    ASSUME NEW p, NEW c0, Proper(p, c0), NEW mode, NEW tok, WellMadeToken(tok), Fits(p.ctx, mode, tok)
    PROVE  Proper(Taken(p, mode, tok), c0)
<1>1. CASE tok[1] = "object"
  <2>1. IsSequence(tok[3])
    BY <1>1 DEF WellMadeToken, IsSequence
  <2>2. Taken(p, mode, tok) = Entered(p, mode, tok[2], tok[3])
    BY <1>1 DEF Taken
  <2>. QED
    BY <2>1, <2>2, ProperEntered
<1>2. CASE tok[1] = "filter"
  <2>1. tok = <<"filter", tok[2], tok[3]>>
    BY <1>2 DEF WellMadeToken
  <2>2. Taken(p, mode, tok) = Pushed(p, "filter", tok)
    BY <1>2 DEF Taken
  <2>3. Proper(Pushed(p, "filter", <<"filter", tok[2], tok[3]>>), c0)
    BY ProperPushed
  <2>. QED
    BY ONLY <2>1, <2>2, <2>3
<1>3. CASE tok[1] = "new"
  <2>1. Taken(p, mode, tok) = Pushed(p, "create", <<"object", tok[2], NoName>>)
    BY <1>3 DEF Taken
  <2>. QED
    BY <2>1, ProperPushed
<1>4. CASE tok[1] = "end"
  <2>1. Taken(p, mode, tok) = Left(p)
    BY <1>4 DEF Taken
  <2>2. LastKind(p.ctx) # Top
    BY <1>4 DEF Fits, KindFits, ObjectFits, FilterFits, NewFits
  <2>3. p.ctx # <<>>
    BY <2>2 DEF LastKind
  <2>. QED
    BY <2>1, <2>3, ProperLeft
<1>5. CASE tok[1] \notin {"object", "filter", "new", "end"}
  <2>. DEFINE k == AttrKind(LastKind(p.ctx), tok[2])
              s == <<tok[1], p.ctx, k, Tail(tok)>>
              q == [p EXCEPT !.sig = Append(@, s)]
  <2>1. tok[1] \in {"set", "no", "add", "remove"}
    BY <1>5 DEF Fits, KindFits, ObjectFits, FilterFits, NewFits, AttributeFits, ValueFits, RemovalFits, MemberFits
  <2>2. Taken(p, mode, tok) = q
    BY <1>5 DEF Taken
  <2>3. DOMAIN q = ParserFields /\ q.ctx = p.ctx /\ q.sig = Append(p.sig, s)
    BY DEF Proper, ParserFields
  <2>4. s[1] = tok[1] /\ s[2] = p.ctx
    OBVIOUS
  <2>. HIDE DEF s, q
  <2>5. LastKind(p.ctx) # Top
    BY <2>1 DEF Fits, KindFits, ObjectFits, FilterFits, NewFits
  <2>6. p.ctx # <<>>
    BY <2>5 DEF LastKind
  <2>7. After(p.ctx, s, q.ctx)
    BY <2>1, <2>3, <2>4, <2>6 DEF After
  <2>8. IsSequence(q.ctx)
    BY <2>3 DEF Proper
  <2>. QED
    BY <2>2, <2>3, <2>7, <2>8, ProperOn
<1>. QED
  BY <1>1, <1>2, <1>3, <1>4, <1>5

LEMMA ProperToken ==
    ASSUME NEW p, NEW c0, Proper(p, c0), NEW mode, NEW tok, WellMadeToken(tok), NEW there
    PROVE  Proper(Token(p, mode, tok, there), c0)
<1>1. CASE p.stop # "no"
  BY <1>1 DEF Token
<1>2. CASE p.stop = "no" /\ ~Fits(p.ctx, mode, tok)
  <2>. DEFINE q == [p EXCEPT !.stop = "grammar", !.single = FALSE]
  <2>1. DOMAIN q = ParserFields /\ q.ctx = p.ctx /\ q.sig = p.sig
    BY DEF Proper, ParserFields
  <2>2. Token(p, mode, tok, there) = q
    BY <1>2 DEF Token
  <2>. HIDE DEF q
  <2>. QED
    BY <2>1, <2>2, SameProper
<1>3. CASE p.stop = "no" /\ Fits(p.ctx, mode, tok)
  <2>. DEFINE t == Taken(p, mode, tok)
              q == [t EXCEPT !.done = @ + 1, !.attr = IsAttribute(tok),
                             !.single = ~IsAttribute(tok) /\ tok[1] # "end" /\ ~p.attr]
              r == [q EXCEPT !.stop = "missing"]
  <2>1. Token(p, mode, tok, there) \in {q, r}
    BY <1>3 DEF Token, LookedFor
  <2>2. Proper(t, c0)
    BY <1>3, ProperTaken
  <2>. HIDE DEF t
  <2>3. DOMAIN q = ParserFields /\ q.ctx = t.ctx /\ q.sig = t.sig
    BY <2>2 DEF Proper, ParserFields
  <2>. HIDE DEF q
  <2>4. DOMAIN r = ParserFields /\ r.ctx = q.ctx /\ r.sig = q.sig
    BY <2>3 DEF ParserFields
  <2>. HIDE DEF r
  <2>. QED
    BY <2>1, <2>2, <2>3, <2>4, SameProper
<1>. QED
  BY <1>1, <1>2, <1>3

LEMMA ProperStarted == ASSUME NEW c, IsSequence(c) PROVE Proper(Started(c), c)
<1>1. /\ DOMAIN Started(c) = ParserFields
      /\ Started(c).ctx = c /\ Started(c).sig = <<>>
  BY DEF Started, ParserFields
<1>. QED
  BY <1>1, LeadsNowhere, EmptySequence DEF Proper

-----------------------------------------------------------------------------
(* The parser after each of the tokens, as ReadLine has it.                *)
Readings(ctx, mode, toks, there) ==
    LET after[i \in 0 .. Len(toks)] == IF i = 0 THEN Started(ctx) ELSE Token(after[i - 1], mode, toks[i], there)
    IN  after
Reads(f, n, ctx, mode, toks, there) ==
    f = [i \in 0 .. n |-> IF i = 0 THEN Started(ctx) ELSE Token(f[i - 1], mode, toks[i], there)]

LEMMA ReadingsThere ==
    ASSUME NEW ctx, NEW mode, NEW toks, NEW there, Len(toks) \in Nat
    PROVE  Reads(Readings(ctx, mode, toks, there), Len(toks), ctx, mode, toks, there)
<1>. DEFINE S == {n \in Nat : \E f : Reads(f, n, ctx, mode, toks, there)}
<1>1. 0 \in S
  <2>. DEFINE f == [i \in 0 .. 0 |-> Started(ctx)]
  <2>1. Reads(f, 0, ctx, mode, toks, there)
    BY DEF Reads
  <2>. QED
    BY <2>1
<1>2. ASSUME NEW n \in Nat, n \in S PROVE n + 1 \in S
  <2>1. PICK f : Reads(f, n, ctx, mode, toks, there)
    BY <1>2
  <2>. DEFINE g == [i \in 0 .. (n + 1) |-> IF i = n + 1 THEN Token(f[n], mode, toks[n + 1], there) ELSE f[i]]
  <2>2. g[n + 1] = Token(f[n], mode, toks[n + 1], there) /\ \A i \in 0 .. n : g[i] = f[i]
    <3>1. n + 1 \in 0 .. (n + 1) /\ \A i \in 0 .. n : i \in 0 .. (n + 1) /\ i # n + 1
      OBVIOUS
    <3>. QED
      BY <3>1
  <2>3. \A i \in 0 .. n : f[i] = IF i = 0 THEN Started(ctx) ELSE Token(f[i - 1], mode, toks[i], there)
    BY <2>1 DEF Reads
  <2>4. g = [i \in 0 .. (n + 1) |-> g[i]]
    OBVIOUS
  <2>. HIDE DEF g
  <2>5. ASSUME NEW i \in 0 .. (n + 1)
        PROVE  g[i] = IF i = 0 THEN Started(ctx) ELSE Token(g[i - 1], mode, toks[i], there)
    <3>1. CASE i = n + 1
      <4>1. i # 0 /\ i - 1 = n /\ n \in 0 .. n
        BY <3>1
      <4>. QED
        BY <2>2, <3>1, <4>1
    <3>2. CASE i \in 0 .. n /\ i # 0
      <4>1. i - 1 \in 0 .. n
        BY <3>2
      <4>. QED
        BY <2>2, <2>3, <3>2, <4>1
    <3>3. CASE i = 0
      <4>1. i \in 0 .. n
        BY <3>3
      <4>. QED
        BY <2>2, <2>3, <3>3, <4>1
    <3>4. i = n + 1 \/ (i \in 0 .. n /\ i # 0) \/ i = 0
      OBVIOUS
    <3>. QED
      BY <3>1, <3>2, <3>3, <3>4
  <2>6. Reads(g, n + 1, ctx, mode, toks, there)
    BY <2>4, <2>5 DEF Reads
  <2>. QED
    BY <2>6
<1>. HIDE DEF S
<1>3. Len(toks) \in S
  BY <1>1, <1>2, SetInduction
<1>4. \E f : Reads(f, Len(toks), ctx, mode, toks, there)
  BY <1>3 DEF S
<1>5. Readings(ctx, mode, toks, there) = CHOOSE f : Reads(f, Len(toks), ctx, mode, toks, there)
  BY DEF Readings, Reads
<1>. QED
  BY <1>4, <1>5

LEMMA ProperReadings ==
    ASSUME NEW ctx, IsSequence(ctx), NEW mode, NEW toks, Len(toks) \in Nat, NEW there,
           \A i \in 1 .. Len(toks) : WellMadeToken(toks[i])
    PROVE  Proper(Readings(ctx, mode, toks, there)[Len(toks)], ctx)
<1>. DEFINE f == Readings(ctx, mode, toks, there)
            S == {n \in Nat : n <= Len(toks) => Proper(f[n], ctx)}
<1>1. \A i \in 0 .. Len(toks) : f[i] = IF i = 0 THEN Started(ctx) ELSE Token(f[i - 1], mode, toks[i], there)
  <2>1. Reads(f, Len(toks), ctx, mode, toks, there)
    BY ReadingsThere
  <2>. HIDE DEF f
  <2>. QED
    BY <2>1 DEF Reads
<1>. HIDE DEF f
<1>2. 0 \in S
  <2>1. 0 \in 0 .. Len(toks)
    OBVIOUS
  <2>. QED
    BY <1>1, <2>1, ProperStarted
<1>3. ASSUME NEW n \in Nat, n \in S PROVE n + 1 \in S
  <2>. SUFFICES ASSUME n + 1 <= Len(toks) PROVE Proper(f[n + 1], ctx)
    OBVIOUS
  <2>1. n + 1 \in 0 .. Len(toks) /\ n + 1 # 0 /\ (n + 1) - 1 = n /\ n <= Len(toks) /\ n + 1 \in 1 .. Len(toks)
    OBVIOUS
  <2>2. f[n + 1] = Token(f[n], mode, toks[n + 1], there)
    BY <1>1, <2>1
  <2>3. Proper(f[n], ctx)
    BY <1>3, <2>1
  <2>. QED
    BY <2>1, <2>2, <2>3, ProperToken
<1>. HIDE DEF S
<1>4. Len(toks) \in S
  BY <1>2, <1>3, SetInduction
<1>. QED
  BY <1>4 DEF S, f

\* A signal that is no step of the context.
Plain(s) == s[1] \notin {"left", "enter", "create", "filter", "set", "no", "add", "remove"}
LEMMA ProperSaid ==
    ASSUME NEW p, NEW c0, Proper(p, c0), NEW q, DOMAIN q = ParserFields, q.ctx = p.ctx,
           NEW s, Plain(s), q.sig = Append(p.sig, s)
    PROVE  Proper(q, c0)
<1>1. After(p.ctx, s, q.ctx)
  BY DEF After, Plain
<1>2. IsSequence(q.ctx)
  BY DEF Proper
<1>. QED
  BY <1>1, <1>2, ProperOn

LEMMA ProperNewName ==
    ASSUME NEW p, NEW c0, Proper(p, c0), NEW rest, NEW deeper
    PROVE  Proper(NewName(p, rest, deeper), c0)
<1>. DEFINE s == <<"rename", p.ctx, LastKind(p.ctx), rest[1][2]>>
            q == [p EXCEPT !.stop = "no", !.sig = Append(@, s)]
            r == [p EXCEPT !.stop = "grammar"]
            t == [p EXCEPT !.stop = "name"]
<1>1. NewName(p, rest, deeper) \in {p, q, r, t}
  BY DEF NewName
<1>2. /\ DOMAIN q = ParserFields /\ q.ctx = p.ctx /\ q.sig = Append(p.sig, s)
      /\ DOMAIN r = ParserFields /\ r.ctx = p.ctx /\ r.sig = p.sig
      /\ DOMAIN t = ParserFields /\ t.ctx = p.ctx /\ t.sig = p.sig
  BY DEF Proper, ParserFields
<1>3. Plain(s)
  BY DEF Plain
<1>. HIDE DEF s, q, r, t
<1>4. Proper(q, c0)
  BY <1>2, <1>3, ProperSaid
<1>5. Proper(r, c0) /\ Proper(t, c0)
  BY <1>2, SameProper
<1>. QED
  BY <1>1, <1>4, <1>5

LEMMA ProperOutcome ==
    ASSUME NEW ctx, IsSequence(ctx), NEW l, WellMade(l), NEW there
    PROVE  Proper(ReadLine(ctx, l, there), ctx)
<1>. DEFINE mode == Mode(l)
            toks == IF mode = "standard" THEN l ELSE Tail(l)
            f == Readings(ctx, mode, toks, there)
            p == f[Len(toks)]
<1>1. ReadLine(ctx, l, there) = Outcome(p, mode, toks, Len(ctx))
  BY DEF ReadLine, Readings
<1>2. IsSequence(l) /\ \A i \in 1 .. Len(l) : WellMadeToken(l[i])
  BY SequenceShape DEF WellMade, IsSequence
<1>3. IsSequence(toks) /\ Len(toks) \in Nat /\ \A i \in 1 .. Len(toks) : WellMadeToken(toks[i])
  <2>1. CASE mode = "standard"
    BY <1>2, <2>1, SequenceShape
  <2>2. CASE mode # "standard"
    <3>1. l # <<>>
      BY <2>2 DEF Mode
    <3>2. /\ Len(l) \in Nat \ {0} /\ IsSequence(Tail(l)) /\ Len(Tail(l)) = Len(l) - 1
          /\ \A i \in 1 .. (Len(l) - 1) : Tail(l)[i] = l[i + 1]
      BY <1>2, <3>1, TailOfSequence
    <3>3. \A i \in 1 .. (Len(l) - 1) : i + 1 \in 1 .. Len(l)
      BY <3>2
    <3>4. Len(l) - 1 \in Nat
      BY <3>2
    <3>5. \A i \in 1 .. (Len(l) - 1) : WellMadeToken(Tail(l)[i])
      BY <1>2, <3>2, <3>3
    <3>. QED
      BY <2>2, <3>2, <3>4, <3>5
  <2>. QED
    BY <2>1, <2>2
<1>. HIDE DEF mode, toks
<1>4. Proper(p, ctx)
  BY <1>3, ProperReadings
<1>5. toks = <<>> => p = Started(ctx)
  <2>1. Reads(f, Len(toks), ctx, mode, toks, there)
    BY <1>3, ReadingsThere
  <2>2. toks = <<>> => Len(toks) = 0
    BY EmptySequence
  <2>3. 0 \in 0 .. Len(toks)
    BY <1>3
  <2>. HIDE DEF f
  <2>4. f[0] = Started(ctx)
    BY <2>1, <2>3 DEF Reads
  <2>. QED
    BY <2>2, <2>4 DEF p
<1>. HIDE DEF f, p
<1>6. CASE toks = <<>> /\ mode \in FunctionWords
  <2>. DEFINE s == <<"show", p.ctx>>
              q == [p EXCEPT !.sig = <<s>>]
              r == [p EXCEPT !.stop = "noDefinition"]
  <2>1. Outcome(p, mode, toks, Len(ctx)) \in {q, r}
    BY <1>6 DEF Outcome
  <2>2. Plain(s)
    BY DEF Plain
  <2>. HIDE DEF s
  <2>3. Append(<<>>, s) = <<s>>
    OBVIOUS
  <2>4. p.sig = <<>>
    BY <1>5, <1>6 DEF Started
  <2>5. /\ DOMAIN q = ParserFields /\ q.ctx = p.ctx /\ q.sig = <<s>>
        /\ DOMAIN r = ParserFields /\ r.ctx = p.ctx /\ r.sig = p.sig
    BY <1>4 DEF Proper, ParserFields
  <2>. HIDE DEF q, r
  <2>6. q.sig = Append(p.sig, s)
    BY <2>3, <2>4, <2>5
  <2>7. Proper(q, ctx)
    BY <1>4, <2>2, <2>5, <2>6, ProperSaid
  <2>8. Proper(r, ctx)
    BY <1>4, <2>5, SameProper
  <2>. QED
    BY <1>1, <2>1, <2>7, <2>8
<1>7. CASE ~(toks = <<>> /\ mode \in FunctionWords) /\ mode = "rename"
  <2>1. Outcome(p, mode, toks, Len(ctx)) = NewName(p, SubSeq(toks, p.done + 1, Len(toks)), Len(p.ctx) > Len(ctx))
    BY <1>7 DEF Outcome
  <2>. QED
    BY <1>1, <1>4, <2>1, ProperNewName
<1>8. CASE ~(toks = <<>> /\ mode \in FunctionWords) /\ mode # "rename"
  <2>. DEFINE s == <<mode, p.ctx>>
              q == [p EXCEPT !.sig = Append(@, s)]
  <2>1. \/ Outcome(p, mode, toks, Len(ctx)) = p
        \/ mode \in {"show", "delete"} /\ Outcome(p, mode, toks, Len(ctx)) = q
    BY <1>8 DEF Outcome
  <2>2. mode \in {"show", "delete"} => Plain(s)
    BY DEF Plain
  <2>3. DOMAIN q = ParserFields /\ q.ctx = p.ctx /\ q.sig = Append(p.sig, s)
    BY <1>4 DEF Proper, ParserFields
  <2>. HIDE DEF s, q
  <2>4. mode \in {"show", "delete"} => Proper(q, ctx)
    BY <1>4, <2>2, <2>3, ProperSaid
  <2>. QED
    BY <1>1, <1>4, <2>1, <2>4
<1>. QED
  BY <1>6, <1>7, <1>8

LEMMA ProperInline ==
    ASSUME NEW p, NEW c0, Proper(p, c0), NEW mode, NEW n \in Nat
    PROVE  Proper(LeaveInline(p, mode, n), c0)
<1>. DEFINE m == Len(p.ctx)
            h == IF m > n THEN m - n ELSE 0
            lefts == [i \in 1 .. h |-> <<"left">>]
            q == [p EXCEPT !.ctx = IF Len(@) > n THEN SubSeq(@, 1, n) ELSE @, !.sig = @ \o lefts]
            ds == [i \in 0 .. h |-> SubSeq(p.ctx, 1, m - i)]
<1>1. LeaveInline(p, mode, n) \in {p, q}
  BY DEF LeaveInline
<1>2. IsSequence(p.ctx) /\ IsSequence(p.sig) /\ Leads(c0, p.sig, p.ctx) /\ m \in Nat
  BY SequenceShape DEF Proper
<1>3. h \in Nat /\ h <= m
  BY <1>2
<1>4. IsSequence(lefts) /\ Len(lefts) = h
  <2>1. DOMAIN lefts = 1 .. h /\ lefts = [i \in 1 .. h |-> lefts[i]]
    OBVIOUS
  <2>. HIDE DEF lefts
  <2>. QED
    BY <1>3, <2>1, SequenceOf
<1>5. \A i \in 1 .. h : lefts[i] = <<"left">>
  OBVIOUS
<1>6. DOMAIN q = ParserFields /\ q.sig = p.sig \o lefts /\ q.ctx = IF m > n THEN SubSeq(p.ctx, 1, n) ELSE p.ctx
  BY DEF Proper, ParserFields
<1>7. \A i \in 0 .. h : ds[i] = SubSeq(p.ctx, 1, m - i)
  OBVIOUS
<1>. HIDE DEF lefts, q, ds
<1>8. ASSUME NEW i \in 0 .. h
      PROVE  /\ IsSequence(ds[i]) /\ Len(ds[i]) = m - i
             /\ \A j \in 1 .. (m - i) : ds[i][j] = p.ctx[j]
  <2>1. m - i \in Nat /\ m - i <= Len(p.ctx)
    BY <1>2, <1>3
  <2>2. IsSequence(p.ctx)
    BY <1>2
  <2>3. /\ IsSequence(SubSeq(p.ctx, 1, m - i)) /\ Len(SubSeq(p.ctx, 1, m - i)) = m - i
        /\ \A j \in 1 .. (m - i) : SubSeq(p.ctx, 1, m - i)[j] = p.ctx[j]
    BY ONLY <2>1, <2>2, StartOfSequence
  <2>. QED
    BY <1>7, <2>3
<1>9. ds[0] = p.ctx
  <2>1. 0 \in 0 .. h /\ m - 0 = m
    BY <1>2, <1>3
  <2>. QED
    BY <1>2, <1>8, <2>1, SameSequences
<1>10. ds[h] = q.ctx
  <2>1. h \in 0 .. h
    BY <1>3
  <2>2. CASE m > n
    <3>1. m - h = n
      BY <1>2, <2>2
    <3>. QED
      BY <1>6, <1>7, <2>1, <2>2, <3>1
  <2>3. CASE ~(m > n)
    BY <1>6, <1>9, <2>3
  <2>. QED
    BY <2>2, <2>3
<1>. HIDE DEF h
<1>11. ASSUME NEW i \in 1 .. h PROVE After(ds[i - 1], lefts[i], ds[i])
  <2>1. /\ i \in 0 .. h /\ i - 1 \in 0 .. h /\ m - (i - 1) # 0 /\ (m - (i - 1)) - 1 = m - i
        /\ \A j \in 1 .. (m - i) : j \in 1 .. (m - (i - 1))
    BY <1>2, <1>3
  <2>2. /\ IsSequence(ds[i - 1]) /\ Len(ds[i - 1]) = m - (i - 1)
        /\ \A j \in 1 .. (m - (i - 1)) : ds[i - 1][j] = p.ctx[j]
    BY <1>8, <2>1
  <2>3. ds[i - 1] # <<>>
    BY <2>1, <2>2, EmptySequence
  <2>4. /\ IsSequence(Front(ds[i - 1])) /\ Len(Front(ds[i - 1])) = m - i
        /\ \A j \in 1 .. (m - i) : Front(ds[i - 1])[j] = ds[i - 1][j]
    <3>1. /\ IsSequence(Front(ds[i - 1])) /\ Len(Front(ds[i - 1])) = Len(ds[i - 1]) - 1
          /\ \A j \in 1 .. (Len(ds[i - 1]) - 1) : Front(ds[i - 1])[j] = ds[i - 1][j]
      BY ONLY <2>2, <2>3, FrontOfSequence
    <3>. QED
      BY <2>1, <2>2, <3>1
  <2>5. /\ IsSequence(ds[i]) /\ Len(ds[i]) = m - i /\ \A j \in 1 .. (m - i) : ds[i][j] = p.ctx[j]
    BY <1>8, <2>1
  <2>6. ds[i] = Front(ds[i - 1])
    <3>1. PICK x, y, k : x = ds[i] /\ y = Front(ds[i - 1]) /\ k = m - i
      OBVIOUS
    <3>2. /\ IsSequence(x) /\ IsSequence(y) /\ Len(x) = k /\ Len(y) = k
          /\ \A j \in 1 .. k : x[j] = y[j]
      BY <2>1, <2>2, <2>4, <2>5, <3>1
    <3>3. x = y
      BY ONLY <3>2, SameSequences
    <3>. QED
      BY <3>1, <3>3
  <2>. QED
    BY <1>5, <2>3, <2>6 DEF After
<1>12. Along(p.ctx, lefts, ds)
  BY <1>4, <1>8, <1>9, <1>11 DEF Along
<1>13. Leads(c0, p.sig \o lefts, ds[Len(lefts)])
  BY ONLY <1>2, <1>4, <1>12, LeadsFurther
<1>14. IsSequence(p.sig \o lefts)
  BY <1>2, <1>4, JoinedSequences
<1>15. IsSequence(q.ctx)
  <2>1. h \in 0 .. h
    BY <1>3
  <2>. QED
    BY <1>8, <1>10, <2>1
<1>16. Proper(q, c0)
  BY <1>4, <1>6, <1>10, <1>13, <1>14, <1>15 DEF Proper
<1>. QED
  BY <1>1, <1>16

\* What the parser makes of a line: applied one after the other to the context the
\* line starts in, its signals lead to the context the parser has at the end.
THEOREM LinesLead ==
    ASSUME NEW ctx, IsSequence(ctx), NEW l, WellMade(l), NEW there
    PROVE  LET r == ParseLine(ctx, l, there)
           IN  IsSequence(r.ctx) /\ IsSequence(r.sig) /\ (r.ok => Leads(ctx, r.sig, r.ctx))
<1>. DEFINE p == LeaveInline(ReadLine(ctx, l, there), Mode(l), Len(ctx))
            r == ParseLine(ctx, l, there)
<1>1. Proper(p, ctx)
  BY ProperOutcome, ProperInline, SequenceShape
<1>2. /\ r.ctx = p.ctx /\ r.ok = (p.stop = "no")
      /\ r.sig = IF p.stop = "no" THEN p.sig ELSE <<>>
  BY DEF ParseLine, Result
<1>. HIDE DEF p, r
<1>3. IsSequence(r.ctx) /\ IsSequence(r.sig) /\ (r.ok => Leads(ctx, r.sig, r.ctx))
  BY <1>1, <1>2, EmptySequence DEF Proper
<1>. QED
  BY <1>3 DEF r

-----------------------------------------------------------------------------
(***************************************************************************)
(* A context that nests has an item for each kind that its last one is     *)
(* embedded in, or starts with a filter: the depths of its kinds grow by   *)
(* one.                                                                    *)
(***************************************************************************)
LEMMA DepthsAbove ==
    ASSUME NEW j, NEW k \in Kinds, MayHold(j, k)
    PROVE  Depth[k] \in Nat /\ Depth[j] \in Nat /\ Depth[k] = Depth[j] + 1
<1>. DEFINE e == EmbeddedInto[k]
<1>1. k \in DOMAIN EmbeddedInto /\ j \in {e} \cup ContainedIn(e) \cup ContainableIn(e)
  BY DEF MayHold
<1>2. Depth[k] \in Nat /\ e \in Kinds /\ Depth[k] = 1 + Depth[e]
  BY <1>1, SchemeAssumption
<1>3. Depth[e] \in Nat
  BY <1>2, SchemeAssumption
<1>4. Depth[j] = Depth[e]
  <2>1. CASE j = e
    BY <2>1
  <2>2. CASE j \in ContainedIn(e)
    <3>1. PICK c \in ContainsKind : c[1] = e /\ c[2] = j
      BY <2>2 DEF ContainedIn
    <3>. QED
      BY <3>1, SchemeAssumption
  <2>3. CASE j \in ContainableIn(e)
    <3>1. PICK c \in ContainsKind : c[2] = e /\ c[1] = j
      BY <2>3 DEF ContainableIn
    <3>. QED
      BY <3>1, SchemeAssumption
  <2>. QED
    BY <1>1, <2>1, <2>2, <2>3
<1>. HIDE DEF e
<1>. QED
  BY <1>2, <1>3, <1>4

LEMMA NestedDepths ==
    ASSUME NEW ctx, IsSequence(ctx), KindsNest(ctx), NEW i \in 1 .. Len(ctx)
    PROVE  /\ ctx[i][2] \in Kinds /\ Depth[ctx[i][2]] \in Nat
           /\ i # 1 => Depth[ctx[i][2]] = Depth[ctx[i - 1][2]] + 1
           /\ i = 1 /\ ~IsFilter(ctx[i]) => Depth[ctx[i][2]] = 0
           /\ \A j \in 1 .. (i - 1) : Depth[ctx[j][2]] < Depth[ctx[i][2]]
<1>1. Len(ctx) \in Nat
  BY SequenceShape
<1>2. ASSUME NEW j \in 1 .. Len(ctx)
      PROVE  /\ ctx[j][2] \in Kinds /\ Depth[ctx[j][2]] \in Nat
             /\ j # 1 => Depth[ctx[j][2]] = Depth[ctx[j - 1][2]] + 1
             /\ j = 1 /\ ~IsFilter(ctx[j]) => Depth[ctx[j][2]] = 0
  <2>1. ctx[j][2] \in Kinds
    BY DEF KindsNest
  <2>2. j # 1 => MayHold(ctx[j - 1][2], ctx[j][2])
    BY DEF KindsNest
  <2>3. j = 1 /\ ~IsFilter(ctx[j]) => ctx[j][2] \notin DOMAIN EmbeddedInto
    BY DEF KindsNest
  <2>. QED
    BY <2>1, <2>2, <2>3, DepthsAbove, SchemeAssumption
<1>. DEFINE S == {n \in Nat : n \in 1 .. Len(ctx) => \A j \in 1 .. (n - 1) : Depth[ctx[j][2]] < Depth[ctx[n][2]]}
<1>3. 0 \in S
  OBVIOUS
<1>4. ASSUME NEW n \in Nat, n \in S PROVE n + 1 \in S
  <2>1. SUFFICES ASSUME n + 1 \in 1 .. Len(ctx), NEW j \in 1 .. n PROVE Depth[ctx[j][2]] < Depth[ctx[n + 1][2]]
    OBVIOUS
  <2>2. n \in 1 .. Len(ctx) /\ n + 1 # 1 /\ (n + 1) - 1 = n
    BY <1>1, <2>1
  <2>3. /\ Depth[ctx[n + 1][2]] = Depth[ctx[n][2]] + 1 /\ Depth[ctx[n][2]] \in Nat
    BY <1>2, <2>1, <2>2
  <2>4. j = n \/ j \in 1 .. (n - 1)
    BY <2>2
  <2>5. j \in 1 .. (n - 1) => Depth[ctx[j][2]] < Depth[ctx[n][2]] /\ Depth[ctx[j][2]] \in Nat
    <3>1. SUFFICES ASSUME j \in 1 .. (n - 1) PROVE Depth[ctx[j][2]] < Depth[ctx[n][2]] /\ Depth[ctx[j][2]] \in Nat
      OBVIOUS
    <3>2. j \in 1 .. Len(ctx)
      BY <1>1, <2>2, <3>1
    <3>. QED
      BY <1>2, <1>4, <2>2, <3>1, <3>2
  <2>. QED
    BY <2>3, <2>4, <2>5
<1>. HIDE DEF S
<1>5. i \in S
  BY <1>3, <1>4, SetInduction
<1>. QED
  BY <1>2, <1>5 DEF S

LEMMA LastKindOf ==
    ASSUME NEW ctx, IsSequence(ctx)
    PROVE  /\ ctx # <<>> => Len(ctx) \in 1 .. Len(ctx) /\ LastKind(ctx) = ctx[Len(ctx)][2]
           /\ ctx = <<>> => LastKind(ctx) = Top
           /\ KindsNest(ctx) => LastKind(ctx) \in Contexts
<1>1. ctx # <<>> => Len(ctx) \in 1 .. Len(ctx)
  BY TailOfSequence
<1>2. ctx # <<>> => LastKind(ctx) = ctx[Len(ctx)][2]
  BY DEF LastKind, Last
<1>3. ctx = <<>> => LastKind(ctx) = Top
  BY DEF LastKind
<1>. QED
  BY <1>1, <1>2, <1>3 DEF KindsNest, Contexts

\* The start of a context that nests does, too.
LEMMA StartNests ==
    ASSUME NEW c, NEW d, IsSequence(c), IsSequence(d), KindsNest(d), Len(c) <= Len(d),
           \A i \in 1 .. Len(c) : c[i] = d[i]
    PROVE  KindsNest(c)
<1>1. Len(c) \in Nat /\ Len(d) \in Nat
  BY SequenceShape
<1>2. ASSUME NEW i \in 1 .. Len(c)
      PROVE  /\ c[i][2] \in Kinds
             /\ IF i = 1 THEN IsFilter(c[i]) \/ c[i][2] \notin DOMAIN EmbeddedInto ELSE MayHold(c[i - 1][2], c[i][2])
  <2>1. i \in 1 .. Len(d) /\ (i # 1 => i - 1 \in 1 .. Len(c))
    BY <1>1
  <2>2. /\ d[i][2] \in Kinds
        /\ IF i = 1 THEN IsFilter(d[i]) \/ d[i][2] \notin DOMAIN EmbeddedInto ELSE MayHold(d[i - 1][2], d[i][2])
    BY <2>1 DEF KindsNest
  <2>3. c[i] = d[i] /\ (i # 1 => c[i - 1] = d[i - 1])
    BY <2>1
  <2>. QED
    BY <2>2, <2>3
<1>. QED
  BY <1>2 DEF KindsNest

LEMMA EmptyNests == KindsNest(<<>>)
<1>1. Len(<<>>) = 0 /\ 1 .. 0 = {}
  OBVIOUS
<1>. QED
  BY <1>1 DEF KindsNest

LEMMA FrontNests == ASSUME NEW c, IsSequence(c), KindsNest(c) PROVE IsSequence(Front(c)) /\ KindsNest(Front(c))
<1>1. CASE c = <<>>
  <2>1. Front(c) = <<>>
    BY <1>1 DEF Front
  <2>. QED
    BY <2>1, EmptyNests, EmptySequence
<1>2. CASE c # <<>>
  <2>1. /\ Len(c) \in Nat \ {0} /\ IsSequence(Front(c)) /\ Len(Front(c)) = Len(c) - 1
        /\ \A i \in 1 .. (Len(c) - 1) : Front(c)[i] = c[i]
    BY <1>2, FrontOfSequence
  <2>2. Len(Front(c)) <= Len(c) /\ \A i \in 1 .. Len(Front(c)) : Front(c)[i] = c[i]
    BY <2>1
  <2>. QED
    BY <2>1, <2>2, StartNests
<1>. QED
  BY <1>1, <1>2

\* One more item.
LEMMA AppendNests ==
    ASSUME NEW c, IsSequence(c), KindsNest(c), NEW x, x[2] \in Kinds,
           c = <<>> => IsFilter(x) \/ x[2] \notin DOMAIN EmbeddedInto,
           c # <<>> => MayHold(LastKind(c), x[2])
    PROVE  KindsNest(Append(c, x))
<1>1. Len(c) \in Nat /\ DOMAIN c = 1 .. Len(c)
  BY SequenceShape
<1>. DEFINE d == Append(c, x)
<1>2. /\ IsSequence(d) /\ Len(d) = Len(c) + 1 /\ d[Len(c) + 1] = x
      /\ \A i \in 1 .. Len(c) : d[i] = c[i]
  BY ONLY <1>1, IsSequence(c), AppendedSequence
<1>. HIDE DEF d
<1>3. ASSUME NEW i \in 1 .. Len(d)
      PROVE  /\ d[i][2] \in Kinds
             /\ IF i = 1 THEN IsFilter(d[i]) \/ d[i][2] \notin DOMAIN EmbeddedInto ELSE MayHold(d[i - 1][2], d[i][2])
  <2>1. CASE i \in 1 .. Len(c)
    <3>1. i # 1 => i - 1 \in 1 .. Len(c)
      BY <1>1, <2>1
    <3>2. d[i] = c[i] /\ (i # 1 => d[i - 1] = c[i - 1])
      BY <1>2, <2>1, <3>1
    <3>3. /\ c[i][2] \in Kinds
          /\ IF i = 1 THEN IsFilter(c[i]) \/ c[i][2] \notin DOMAIN EmbeddedInto ELSE MayHold(c[i - 1][2], c[i][2])
      BY <2>1 DEF KindsNest
    <3>. QED
      BY <3>2, <3>3
  <2>2. CASE i = Len(c) + 1
    <3>1. CASE c = <<>>
      <4>1. i = 1
        BY <2>2, <3>1, EmptySequence
      <4>. QED
        BY <1>2, <2>2, <3>1, <4>1
    <3>2. CASE c # <<>>
      <4>1. Len(c) \in 1 .. Len(c) /\ LastKind(c) = c[Len(c)][2]
        BY <3>2, LastKindOf
      <4>2. i # 1 /\ i - 1 = Len(c)
        BY <1>1, <2>2, <4>1
      <4>3. d[i - 1] = c[Len(c)]
        BY <1>2, <4>1, <4>2
      <4>. QED
        BY <1>2, <2>2, <3>2, <4>1, <4>2, <4>3
    <3>. QED
      BY <3>1, <3>2
  <2>3. i \in 1 .. Len(c) \/ i = Len(c) + 1
    BY <1>1, <1>2
  <2>. QED
    BY <2>1, <2>2, <2>3
<1>4. KindsNest(d)
  BY <1>3 DEF KindsNest
<1>. QED
  BY <1>4 DEF d

-----------------------------------------------------------------------------
(* What the parser makes of a line nests too: the context, and those it    *)
(* tells with its signals.  An attribute is told with a kind of the depth  *)
(* of the context, and a new name is a name.                               *)
NestedSignal(s) ==
    /\ s[1] \in {"enter", "create", "filter"} => KindsNest(s[2])
    /\ IsAttribute(s) => s[3] \in Kinds /\ Depth[s[3]] = Depth[LastKind(s[2])]
    /\ s[1] = "rename" => s[4] # NoName
\* The signals after which the objects of the context are gone from where they were.
Takes(s) == s[1] \in {"delete", "rename"}
Sound(p) == KindsNest(p.ctx) /\ \A i \in 1 .. Len(p.sig) : NestedSignal(p.sig[i]) /\ ~Takes(p.sig[i])

LEMMA SoundOn ==
    ASSUME NEW p, IsSequence(p.sig), Sound(p), NEW q, NEW s, q.sig = Append(p.sig, s), KindsNest(q.ctx),
           NestedSignal(s), ~Takes(s)
    PROVE  Sound(q)
<1>1. /\ Len(p.sig) \in Nat /\ Len(Append(p.sig, s)) = Len(p.sig) + 1 /\ Append(p.sig, s)[Len(p.sig) + 1] = s
      /\ \A i \in 1 .. Len(p.sig) : Append(p.sig, s)[i] = p.sig[i]
  BY AppendedSequence, SequenceShape
<1>2. ASSUME NEW i \in 1 .. Len(q.sig) PROVE NestedSignal(q.sig[i]) /\ ~Takes(q.sig[i])
  <2>1. i \in 1 .. Len(p.sig) \/ i = Len(p.sig) + 1
    BY <1>1
  <2>2. CASE i \in 1 .. Len(p.sig)
    <3>1. q.sig[i] = p.sig[i]
      BY <1>1, <2>2
    <3>. QED
      BY <2>2, <3>1 DEF Sound
  <2>3. CASE i = Len(p.sig) + 1
    <3>1. q.sig[i] = s
      BY <1>1, <2>3
    <3>. QED
      BY <3>1
  <2>. QED
    BY <2>1, <2>2, <2>3
<1>. QED
  BY <1>2 DEF Sound

\* The kinds of the relations.
LEMMA ContainedDepth ==
    ASSUME NEW k \in Kinds
    PROVE  /\ \A c \in ContainedIn(k) : c \in Kinds /\ Depth[c] = Depth[k]
           /\ \A c \in ContainedRecursively[k] : c \in Kinds /\ Depth[c] = Depth[k]
<1>1. ASSUME NEW j \in Kinds, NEW c \in ContainedIn(j) PROVE c \in Kinds /\ Depth[c] = Depth[j]
  <2>1. PICK d \in ContainsKind : d[1] = j /\ d[2] = c
    BY <1>1 DEF ContainedIn
  <2>. QED
    BY <2>1, SchemeAssumption
<1>2. ASSUME NEW c \in ContainedRecursively[k] PROVE c \in Kinds /\ Depth[c] = Depth[k]
  <2>1. c \in ContainedIn(k) \/ \E d \in ContainedIn(k) : c \in ContainedIn(d)
    BY DEF ContainedRecursively
  <2>2. CASE c \in ContainedIn(k)
    BY <1>1, <2>2
  <2>3. CASE \E d \in ContainedIn(k) : c \in ContainedIn(d)
    <3>1. PICK d \in ContainedIn(k) : c \in ContainedIn(d)
      BY <2>3
    <3>2. d \in Kinds /\ Depth[d] = Depth[k]
      BY <1>1
    <3>. QED
      BY <1>1, <3>1, <3>2
  <2>. QED
    BY <2>1, <2>2, <2>3
<1>. QED
  BY <1>1, <1>2

LEMMA AttrKindDepth ==
    ASSUME NEW k \in Kinds, NEW a PROVE AttrKind(k, a) \in Kinds /\ Depth[AttrKind(k, a)] = Depth[k]
<1>. DEFINE cs == {c \in ContainedRecursively[k] : a \in Attributes[c] \ RoAttributes(c)}
<1>1. AttrKinds(k, a) = IF cs = {} THEN {k} ELSE cs
  BY DEF AttrKinds
<1>2. \A c \in cs : c \in Kinds /\ Depth[c] = Depth[k]
  BY ContainedDepth
<1>. HIDE DEF cs
<1>3. AttrKinds(k, a) # {}
  BY <1>1
<1>4. AttrKind(k, a) \in AttrKinds(k, a)
  BY <1>3 DEF AttrKind
<1>. QED
  BY <1>1, <1>2, <1>4

\* What a grammar admits after the last kind of the context.
LEMMA AdmittedKinds ==
    ASSUME NEW k \in Contexts, NEW j
    PROVE  /\ j \in KindsOnly[k] => j \in Kinds
           /\ k # Top /\ j \in KindsFilters[k] => j \in Kinds /\ MayHold(k, j)
           /\ k = Top /\ j \in KindsFilters[k] => j \in Kinds
           /\ j \in KindsConstruct[k] => k # Top /\ j \in Kinds /\ MayHold(k, j)
<1>1. k # Top => k \in Kinds
  BY DEF Contexts
<1>2. j \in KindsOnly[k] => j \in Kinds
  <2>1. KindsOnly[k] = IF k = Top THEN Kinds ELSE UNION {EmbedsRecursively[i] : i \in {k} \cup ContainedIn(k)}
    BY DEF KindsOnly
  <2>2. \A i \in Kinds : EmbedsRecursively[i] \subseteq Kinds
    BY DEF EmbedsRecursively
  <2>3. k # Top => \A i \in {k} \cup ContainedIn(k) : i \in Kinds
    BY <1>1, ContainedDepth
  <2>. QED
    BY <2>1, <2>2, <2>3
<1>3. ASSUME NEW i, j \in EmbedsIn(i) PROVE j \in DOMAIN EmbeddedInto /\ j \in Kinds /\ EmbeddedInto[j] = i
  BY <1>3, SchemeAssumption DEF EmbedsIn
<1>4. k # Top /\ j \in KindsFilters[k] => j \in Kinds /\ MayHold(k, j)
  <2>1. KindsFilters[k] = IF k = Top THEN Kinds ELSE EmbedsIn(k)
    BY DEF KindsFilters
  <2>. QED
    BY <1>3, <2>1 DEF MayHold
<1>5. k = Top /\ j \in KindsFilters[k] => j \in Kinds
  BY DEF KindsFilters
<1>6. j \in KindsConstruct[k] => k # Top /\ j \in Kinds /\ MayHold(k, j)
  <2>1. KindsConstruct[k] = IF k = Top THEN {} ELSE UNION {EmbedsIn(i) : i \in {k} \cup ContainedIn(k)}
    BY DEF KindsConstruct
  <2>2. ASSUME j \in KindsConstruct[k] PROVE k # Top /\ \E i \in {k} \cup ContainedIn(k) : j \in EmbedsIn(i)
    BY <2>1, <2>2
  <2>3. ASSUME NEW i \in ContainedIn(k) PROVE k \in ContainableIn(i)
    <3>1. PICK c \in ContainsKind : c[1] = k /\ c[2] = i
      BY DEF ContainedIn
    <3>. QED
      BY <3>1 DEF ContainableIn
  <2>. QED
    BY <1>3, <2>2, <2>3 DEF MayHold
<1>. QED
  BY <1>2, <1>4, <1>5, <1>6

\* The kinds that kind is embedded in, up to the n-th.
UpFrom(u, k, n) == u = [i \in 1 .. n |-> IF i = 1 THEN k ELSE EmbeddedInto[u[i - 1]]]

LEMMA UpThere == ASSUME NEW k, NEW n \in Nat PROVE \E u : UpFrom(u, k, n) /\ KindsUp(k, n) = Reverse(u)
<1>. DEFINE S == {m \in Nat : \E u : UpFrom(u, k, m)}
<1>1. 0 \in S
  <2>. DEFINE u == [i \in 1 .. 0 |-> k]
  <2>1. 1 .. 0 = {}
    OBVIOUS
  <2>2. UpFrom(u, k, 0)
    BY <2>1 DEF UpFrom
  <2>. QED
    BY <2>2
<1>2. ASSUME NEW m \in Nat, m \in S PROVE m + 1 \in S
  <2>1. PICK f : UpFrom(f, k, m)
    BY <1>2
  <2>. DEFINE g == [i \in 1 .. (m + 1) |-> IF i = m + 1 THEN (IF m = 0 THEN k ELSE EmbeddedInto[f[m]]) ELSE f[i]]
  <2>2. g[m + 1] = (IF m = 0 THEN k ELSE EmbeddedInto[f[m]]) /\ \A i \in 1 .. m : g[i] = f[i]
    <3>1. m + 1 \in 1 .. (m + 1) /\ \A i \in 1 .. m : i \in 1 .. (m + 1) /\ i # m + 1
      OBVIOUS
    <3>. QED
      BY <3>1
  <2>3. \A i \in 1 .. m : f[i] = IF i = 1 THEN k ELSE EmbeddedInto[f[i - 1]]
    BY <2>1 DEF UpFrom
  <2>4. g = [i \in 1 .. (m + 1) |-> g[i]]
    OBVIOUS
  <2>. HIDE DEF g
  <2>5. ASSUME NEW i \in 1 .. (m + 1) PROVE g[i] = IF i = 1 THEN k ELSE EmbeddedInto[g[i - 1]]
    <3>1. CASE i = m + 1 /\ m = 0
      BY <2>2, <3>1
    <3>2. CASE i = m + 1 /\ m # 0
      <4>1. i # 1 /\ i - 1 = m /\ m \in 1 .. m
        BY <3>2
      <4>. QED
        BY <2>2, <3>2, <4>1
    <3>3. CASE i \in 1 .. m
      <4>1. i # 1 => i - 1 \in 1 .. m
        BY <3>3
      <4>. QED
        BY <2>2, <2>3, <3>3, <4>1
    <3>. QED
      BY <3>1, <3>2, <3>3
  <2>6. UpFrom(g, k, m + 1)
    BY <2>4, <2>5 DEF UpFrom
  <2>. QED
    BY <2>6
<1>. HIDE DEF S
<1>3. n \in S
  BY <1>1, <1>2, SetInduction
<1>4. \E u : UpFrom(u, k, n)
  BY <1>3 DEF S
<1>5. KindsUp(k, n) = Reverse(CHOOSE u : UpFrom(u, k, n))
  BY DEF KindsUp, UpFrom
<1>. QED
  BY <1>4, <1>5

LEMMA KindsUpNest ==
    ASSUME NEW k \in Kinds, NEW n \in Nat, Depth[k] >= n - 1, NEW i \in 1 .. n
    PROVE  LET ks == KindsUp(k, n)
           IN  /\ ks[i] \in Kinds /\ Depth[ks[i]] = Depth[k] - (n - i)
               /\ i # 1 => ks[i] \in DOMAIN EmbeddedInto /\ ks[i - 1] = EmbeddedInto[ks[i]]
<1>1. PICK u : UpFrom(u, k, n) /\ KindsUp(k, n) = Reverse(u)
  BY UpThere
<1>2. DOMAIN u = 1 .. n /\ \A j \in 1 .. n : u[j] = IF j = 1 THEN k ELSE EmbeddedInto[u[j - 1]]
  BY <1>1 DEF UpFrom
<1>3. Len(u) = n
  <2>1. u = [j \in 1 .. n |-> u[j]]
    BY <1>1 DEF UpFrom
  <2>. QED
    BY <1>2, <2>1, SequenceOf
<1>4. \A j \in 1 .. n : KindsUp(k, n)[j] = u[(n - j) + 1]
  <2>1. Reverse(u) = [j \in 1 .. n |-> u[(n - j) + 1]]
    BY <1>3 DEF Reverse
  <2>. QED
    BY <1>1, <2>1
<1>5. Depth[k] \in Nat
  BY SchemeAssumption
<1>. DEFINE S == {m \in Nat : m + 1 \in 1 .. n => u[m + 1] \in Kinds /\ Depth[u[m + 1]] = Depth[k] - m}
<1>6. 0 \in S
  BY <1>2, <1>5
<1>7. ASSUME NEW m \in Nat, m \in S PROVE m + 1 \in S
  <2>1. SUFFICES ASSUME (m + 1) + 1 \in 1 .. n
                 PROVE  u[(m + 1) + 1] \in Kinds /\ Depth[u[(m + 1) + 1]] = Depth[k] - (m + 1)
    OBVIOUS
  <2>2. m + 1 \in 1 .. n /\ (m + 1) + 1 # 1 /\ ((m + 1) + 1) - 1 = m + 1 /\ Depth[k] - m > 0
    BY <1>5, <2>1
  <2>3. u[m + 1] \in Kinds /\ Depth[u[m + 1]] = Depth[k] - m
    BY <1>7, <2>2
  <2>4. u[m + 1] \in DOMAIN EmbeddedInto /\ Depth[u[m + 1]] = 1 + Depth[EmbeddedInto[u[m + 1]]]
    BY <2>2, <2>3, SchemeAssumption
  <2>5. EmbeddedInto[u[m + 1]] \in Kinds /\ Depth[EmbeddedInto[u[m + 1]]] \in Nat
    BY <2>4, SchemeAssumption
  <2>6. u[(m + 1) + 1] = EmbeddedInto[u[m + 1]]
    BY <1>2, <2>1, <2>2
  <2>. QED
    BY <1>5, <2>3, <2>4, <2>5, <2>6
<1>. HIDE DEF S
<1>8. ASSUME NEW m \in Nat, m + 1 \in 1 .. n PROVE u[m + 1] \in Kinds /\ Depth[u[m + 1]] = Depth[k] - m
  <2>1. m \in S
    BY <1>6, <1>7, SetInduction
  <2>. QED
    BY <1>8, <2>1 DEF S
<1>9. KindsUp(k, n)[i] = u[(n - i) + 1] /\ n - i \in Nat /\ (n - i) + 1 \in 1 .. n
  BY <1>4
<1>10. u[(n - i) + 1] \in Kinds /\ Depth[u[(n - i) + 1]] = Depth[k] - (n - i)
  BY <1>8, <1>9
<1>11. ASSUME i # 1
       PROVE  u[(n - i) + 1] \in DOMAIN EmbeddedInto /\ KindsUp(k, n)[i - 1] = EmbeddedInto[u[(n - i) + 1]]
  <2>1. /\ i - 1 \in 1 .. n /\ (n - (i - 1)) + 1 \in 1 .. n /\ (n - (i - 1)) + 1 # 1
        /\ ((n - (i - 1)) + 1) - 1 = (n - i) + 1 /\ Depth[k] - (n - i) > 0
    BY <1>5, <1>11
  <2>2. KindsUp(k, n)[i - 1] = u[(n - (i - 1)) + 1]
    BY <1>4, <2>1
  <2>3. u[(n - (i - 1)) + 1] = EmbeddedInto[u[(n - i) + 1]]
    BY <1>2, <2>1
  <2>. QED
    BY <1>10, <2>1, <2>2, <2>3, SchemeAssumption
<1>. QED
  BY <1>9, <1>10, <1>11

LEMMA SoundPushed ==
    ASSUME NEW p, NEW c0, Proper(p, c0), Sound(p), NEW signal, NEW kind, NEW x, NEW y,
           \/ signal = "filter" /\ kind = "filter" /\ x \in KindsFilters[LastKind(p.ctx)]
           \/ signal = "create" /\ kind = "object" /\ x \in KindsConstruct[LastKind(p.ctx)]
    PROVE  Sound(Pushed(p, signal, <<kind, x, y>>))
<1>. DEFINE q == Pushed(p, signal, <<kind, x, y>>)
            d == Append(p.ctx, <<kind, x, y>>)
            s == <<signal, d, x, y>>
            k == LastKind(p.ctx)
<1>1. q.ctx = d /\ q.sig = Append(p.sig, s)
  BY DEF Pushed, Proper, ParserFields
<1>2. s[1] = signal /\ s[2] = d
  OBVIOUS
<1>3. IsSequence(p.ctx) /\ IsSequence(p.sig) /\ KindsNest(p.ctx)
  BY DEF Proper, Sound
<1>4. k \in Contexts /\ (p.ctx = <<>> => k = Top) /\ (p.ctx # <<>> => k \in Kinds)
  BY <1>3, LastKindOf, NestedDepths
<1>5. k \in Kinds => k # Top
  BY SchemeAssumption
<1>6. x \in Kinds /\ (p.ctx # <<>> => MayHold(k, x)) /\ (p.ctx = <<>> => kind = "filter")
  BY <1>4, <1>5, AdmittedKinds
<1>7. KindsNest(d)
  <2>. DEFINE i == <<kind, x, y>>
  <2>1. i[1] = kind /\ i[2] = x
    OBVIOUS
  <2>. HIDE DEF i, k
  <2>2. p.ctx = <<>> => IsFilter(i)
    BY <1>6, <2>1 DEF IsFilter
  <2>3. KindsNest(Append(p.ctx, i))
    BY <1>3, <1>6, <2>1, <2>2, AppendNests DEF k
  <2>. QED
    BY <2>3 DEF i
<1>. HIDE DEF s, d, q
<1>8. NestedSignal(s) /\ ~Takes(s)
  BY <1>2, <1>7 DEF NestedSignal, Takes, IsAttribute
<1>9. Sound(q)
  BY <1>1, <1>3, <1>7, <1>8, SoundOn
<1>. QED
  BY <1>9 DEF q

LEMMA SoundLeft ==
    ASSUME NEW p, NEW c0, Proper(p, c0), Sound(p), p.ctx # <<>> PROVE Sound(Left(p))
<1>. DEFINE q == Left(p)
            s == <<"left">>
<1>1. q.ctx = Front(p.ctx) /\ q.sig = Append(p.sig, s)
  BY DEF Left, Proper, ParserFields
<1>2. s[1] = "left"
  OBVIOUS
<1>. HIDE DEF q, s
<1>3. NestedSignal(s) /\ ~Takes(s)
  BY <1>2 DEF NestedSignal, Takes, IsAttribute
<1>4. KindsNest(q.ctx) /\ IsSequence(p.sig)
  BY <1>1, FrontNests DEF Proper, Sound
<1>5. Sound(q)
  BY <1>1, <1>3, <1>4, SoundOn
<1>. QED
  BY <1>5 DEF q

LEMMA SoundEntered ==
    ASSUME NEW p, NEW c0, Proper(p, c0), Sound(p), NEW mode, NEW k \in Kinds, NEW names, IsSequence(names), names # <<>>
    PROVE  /\ Sound(Entered(p, mode, k, names))
           /\ \/ Entered(p, mode, k, names).stop # "no"
              \/ Len(Entered(p, mode, k, names).ctx) > Len(p.ctx)
<1>. DEFINE ks == KindsUp(k, Len(names))
            n == Len(names)
            m == Len(p.ctx)
            items == [i \in 1 .. Len(names) |-> <<"object", ks[i], names[i]>>]
            sigs == [i \in 1 .. Len(names) |->
                       <<IF i = Len(names) /\ mode = "create" THEN "create" ELSE "enter",
                         p.ctx \o SubSeq(items, 1, i), ks[i], names[i]>>]
            q == [p EXCEPT !.ctx = @ \o items, !.sig = @ \o sigs]
            r == [p EXCEPT !.stop = "nesting"]
<1>1. n \in Nat \ {0}
  BY TailOfSequence
<1>2. IsSequence(items) /\ Len(items) = n /\ IsSequence(sigs) /\ Len(sigs) = n
  <2>1. DOMAIN items = 1 .. n /\ items = [i \in 1 .. n |-> items[i]]
    OBVIOUS
  <2>2. DOMAIN sigs = 1 .. n /\ sigs = [i \in 1 .. n |-> sigs[i]]
    OBVIOUS
  <2>. HIDE DEF items, sigs
  <2>. QED
    BY <1>1, <2>1, <2>2, SequenceOf
<1>3. \A i \in 1 .. n : items[i][2] = ks[i]
  OBVIOUS
<1>4. \A i \in 1 .. n : sigs[i][1] \in {"enter", "create"} /\ sigs[i][2] = p.ctx \o SubSeq(items, 1, i)
  OBVIOUS
<1>5. /\ q.ctx = p.ctx \o items /\ q.sig = p.sig \o sigs
      /\ r.ctx = p.ctx /\ r.sig = p.sig /\ r.stop # "no"
  BY DEF Proper, ParserFields
<1>6. /\ Nests(p.ctx, k, names) => Entered(p, mode, k, names) = q
      /\ ~Nests(p.ctx, k, names) => Entered(p, mode, k, names) = r
  BY DEF Entered
<1>7. IsSequence(p.ctx) /\ KindsNest(p.ctx) /\ m \in Nat /\ IsSequence(p.sig) /\ Len(p.sig) \in Nat
  BY SequenceShape DEF Proper, Sound
<1>8. CASE ~Nests(p.ctx, k, names)
  BY <1>5, <1>6, <1>8 DEF Sound
<1>9. CASE Nests(p.ctx, k, names)
  <2>1. /\ m + n - 1 = Depth[k]
        /\ ks[1] \in DOMAIN EmbeddedInto =>
             LastKind(p.ctx) \in {EmbeddedInto[ks[1]]} \cup ContainedIn(EmbeddedInto[ks[1]])
    BY <1>9 DEF Nests
  <2>2. ASSUME NEW i \in 1 .. n
        PROVE  /\ ks[i] \in Kinds /\ Depth[ks[i]] = Depth[k] - (n - i)
               /\ i # 1 => ks[i] \in DOMAIN EmbeddedInto /\ ks[i - 1] = EmbeddedInto[ks[i]]
    <3>1. Depth[k] >= n - 1
      BY <1>1, <1>7, <2>1
    <3>. QED
      BY <1>1, <3>1, KindsUpNest
  <2>. HIDE DEF ks, items, sigs, q, r
  <2>. DEFINE d == p.ctx \o items
  <2>3. /\ IsSequence(d) /\ Len(d) = m + n /\ \A i \in 1 .. m : d[i] = p.ctx[i]
        /\ \A i \in 1 .. n : d[m + i] = items[i]
    BY ONLY <1>2, <1>7, JoinedSequences
  <2>. HIDE DEF d
  <2>4. ASSUME NEW i \in 1 .. Len(d)
        PROVE  /\ d[i][2] \in Kinds
               /\ IF i = 1 THEN IsFilter(d[i]) \/ d[i][2] \notin DOMAIN EmbeddedInto ELSE MayHold(d[i - 1][2], d[i][2])
    <3>1. CASE i \in 1 .. m
      <4>1. i # 1 => i - 1 \in 1 .. m
        BY <1>7, <3>1
      <4>2. d[i] = p.ctx[i] /\ (i # 1 => d[i - 1] = p.ctx[i - 1])
        BY <2>3, <3>1, <4>1
      <4>3. /\ p.ctx[i][2] \in Kinds
            /\ IF i = 1 THEN IsFilter(p.ctx[i]) \/ p.ctx[i][2] \notin DOMAIN EmbeddedInto ELSE MayHold(p.ctx[i - 1][2], p.ctx[i][2])
        BY <1>7, <3>1 DEF KindsNest
      <4>. QED
        BY <4>2, <4>3
    <3>2. CASE i = m + 1
      <4>1. 1 \in 1 .. n /\ n - 1 \in Nat
        BY <1>1
      <4>2. d[i][2] = ks[1] /\ ks[1] \in Kinds /\ Depth[ks[1]] = m
        <5>1. Depth[ks[1]] = Depth[k] - (n - 1)
          BY <2>2, <4>1
        <5>2. Depth[ks[1]] = m
          BY <1>1, <1>7, <2>1, <5>1
        <5>. QED
          BY <1>3, <2>2, <2>3, <3>2, <4>1, <5>2
      <4>3. Depth[ks[1]] = IF ks[1] \in DOMAIN EmbeddedInto THEN 1 + Depth[EmbeddedInto[ks[1]]] ELSE 0
        BY <4>2, SchemeAssumption
      <4>4. ks[1] \in DOMAIN EmbeddedInto => EmbeddedInto[ks[1]] \in Kinds /\ Depth[EmbeddedInto[ks[1]]] \in Nat
        BY SchemeAssumption
      <4>5. CASE i = 1
        <5>1. m = 0
          BY <1>7, <3>2, <4>5
        <5>2. ASSUME ks[1] \in DOMAIN EmbeddedInto PROVE FALSE
          <6>1. Depth[ks[1]] = 1 + Depth[EmbeddedInto[ks[1]]] /\ Depth[EmbeddedInto[ks[1]]] \in Nat
            BY <4>3, <4>4, <5>2
          <6>. QED
            BY <4>2, <5>1, <6>1
        <5>. QED
          BY <4>2, <4>5, <5>2
      <4>6. CASE i # 1
        <5>1. m \in 1 .. m /\ i - 1 = m /\ m # 0
          BY <1>7, <3>2, <4>6
        <5>2. p.ctx # <<>>
          BY <5>1, EmptySequence
        <5>3. d[i - 1] = p.ctx[m] /\ LastKind(p.ctx) = p.ctx[m][2]
          BY <1>7, <2>3, <5>1, <5>2, LastKindOf
        <5>4. ks[1] \in DOMAIN EmbeddedInto
          BY <4>2, <4>3, <5>1
        <5>5. MayHold(LastKind(p.ctx), ks[1])
          BY <2>1, <5>4 DEF MayHold
        <5>. QED
          BY <4>2, <4>6, <5>3, <5>5
      <4>. QED
        BY <4>5, <4>6
    <3>3. CASE i - m \in 2 .. n
      <4>. DEFINE j == i - m
      <4>1. /\ j \in 1 .. n /\ j # 1 /\ j - 1 \in 1 .. n /\ m + j = i /\ m + (j - 1) = i - 1 /\ i # 1
        BY <1>1, <1>7, <3>3
      <4>. HIDE DEF j
      <4>2. d[i][2] = ks[j] /\ d[i - 1][2] = ks[j - 1]
        <5>1. d[m + j] = items[j] /\ d[m + (j - 1)] = items[j - 1]
          BY <2>3, <4>1
        <5>. QED
          BY <1>3, <4>1, <5>1
      <4>3. ks[j] \in Kinds /\ ks[j] \in DOMAIN EmbeddedInto /\ ks[j - 1] = EmbeddedInto[ks[j]]
        BY <2>2, <4>1
      <4>4. MayHold(ks[j - 1], ks[j])
        BY <4>3 DEF MayHold
      <4>. QED
        BY <4>1, <4>2, <4>3, <4>4
    <3>4. i \in 1 .. m \/ i = m + 1 \/ i - m \in 2 .. n
      BY <1>1, <1>7, <2>3
    <3>. QED
      BY <3>1, <3>2, <3>3, <3>4
  <2>5. KindsNest(d)
    BY <2>4 DEF KindsNest
  <2>6. ASSUME NEW i \in 1 .. n PROVE KindsNest(p.ctx \o SubSeq(items, 1, i))
    <3>. DEFINE t == SubSeq(items, 1, i)
                e == p.ctx \o t
    <3>1. i \in Nat /\ i <= n
      BY <1>1
    <3>2. /\ IsSequence(t) /\ Len(t) = i
          /\ \A j \in 1 .. i : t[j] = items[j]
      BY <1>2, <3>1, StartOfSequence
    <3>. HIDE DEF t
    <3>3. /\ IsSequence(e) /\ Len(e) = m + i /\ \A j \in 1 .. m : e[j] = p.ctx[j]
          /\ \A j \in 1 .. i : e[m + j] = t[j]
      BY ONLY <1>7, <3>2, JoinedSequences
    <3>. HIDE DEF e
    <3>4. Len(e) <= Len(d)
      BY <1>7, <2>3, <3>1, <3>3
    <3>5. ASSUME NEW j \in 1 .. Len(e) PROVE e[j] = d[j]
      <4>1. j \in 1 .. m \/ j - m \in 1 .. i
        BY <1>7, <3>1, <3>3
      <4>2. CASE j \in 1 .. m
        BY <2>3, <3>3, <4>2
      <4>3. CASE j - m \in 1 .. i
        <5>1. m + (j - m) = j /\ j - m \in 1 .. n
          BY <1>1, <1>7, <3>1, <4>3
        <5>2. e[m + (j - m)] = t[j - m] /\ t[j - m] = items[j - m] /\ d[m + (j - m)] = items[j - m]
          BY <2>3, <3>2, <3>3, <4>3, <5>1
        <5>. QED
          BY <5>1, <5>2
      <4>. QED
        BY <4>1, <4>2, <4>3
    <3>6. KindsNest(e)
      BY <2>3, <2>5, <3>3, <3>4, <3>5, StartNests
    <3>. QED
      BY <3>6 DEF e, t
  <2>7. /\ Len(p.sig \o sigs) = Len(p.sig) + n
        /\ \A i \in 1 .. Len(p.sig) : (p.sig \o sigs)[i] = p.sig[i]
        /\ \A i \in 1 .. n : (p.sig \o sigs)[Len(p.sig) + i] = sigs[i]
    BY ONLY <1>2, <1>7, JoinedSequences
  <2>8. ASSUME NEW i \in 1 .. Len(q.sig) PROVE NestedSignal(q.sig[i]) /\ ~Takes(q.sig[i])
    <3>1. CASE i \in 1 .. Len(p.sig)
      <4>1. q.sig[i] = p.sig[i]
        BY <1>5, <2>7, <3>1
      <4>. QED
        BY <3>1, <4>1 DEF Sound
    <3>2. CASE i - Len(p.sig) \in 1 .. n
      <4>1. Len(p.sig) + (i - Len(p.sig)) = i
        BY <1>7, <3>2
      <4>2. q.sig[i] = sigs[i - Len(p.sig)]
        BY <1>5, <2>7, <3>2, <4>1
      <4>3. q.sig[i][1] \in {"enter", "create"} /\ KindsNest(q.sig[i][2])
        BY <1>4, <2>6, <3>2, <4>2
      <4>. QED
        BY <4>3 DEF NestedSignal, Takes, IsAttribute
    <3>3. i \in 1 .. Len(p.sig) \/ i - Len(p.sig) \in 1 .. n
      BY <1>1, <1>5, <1>7, <2>7
    <3>. QED
      BY <3>1, <3>2, <3>3
  <2>9. Sound(q)
    BY <1>5, <2>5, <2>8 DEF Sound, d
  <2>10. Len(q.ctx) > m
    BY <1>1, <1>5, <1>7, <2>3 DEF d
  <2>. QED
    BY <1>6, <1>9, <2>9, <2>10
<1>. QED
  BY <1>8, <1>9

\* A token that is taken; other than in a line without a keyword, the context grows with it.
LEMMA SoundTaken ==
    ASSUME NEW p, NEW c0, Proper(p, c0), Sound(p), NEW mode, NEW tok, WellMadeToken(tok), Fits(p.ctx, mode, tok)
    PROVE  LET t == Taken(p, mode, tok)
           IN  /\ Sound(t) /\ t.done = p.done
               /\ mode # "standard" /\ t.stop = "no" => Len(t.ctx) > Len(p.ctx)
<1>. DEFINE t == Taken(p, mode, tok)
            k == LastKind(p.ctx)
<1>1. IsSequence(p.ctx) /\ IsSequence(p.sig) /\ KindsNest(p.ctx) /\ k \in Contexts /\ Len(p.ctx) \in Nat
  BY LastKindOf, SequenceShape DEF Proper, Sound
<1>2. ASSUME NEW x PROVE Len(Append(p.ctx, x)) > Len(p.ctx)
  BY <1>1, AppendedSequence
<1>3. CASE tok[1] = "object"
  <2>1. IsSequence(tok[3]) /\ tok[3] # <<>>
    BY <1>3 DEF WellMadeToken, IsSequence
  <2>2. t = Entered(p, mode, tok[2], tok[3])
    BY <1>3 DEF Taken
  <2>3. tok[2] \in KindsOnly[k]
    BY <1>3 DEF Fits, KindFits, ObjectFits, FilterFits, NewFits, AttributeFits, ValueFits, RemovalFits, MemberFits
  <2>4. tok[2] \in Kinds
    BY <1>1, <2>3, AdmittedKinds
  <2>5. Entered(p, mode, tok[2], tok[3]).done = p.done
    BY DEF Entered, Proper, ParserFields
  <2>. HIDE DEF t, k
  <2>6. /\ Sound(t)
        /\ t.stop # "no" \/ Len(t.ctx) > Len(p.ctx)
    BY <2>1, <2>2, <2>4, SoundEntered
  <2>7. t.done = p.done
    BY <2>2, <2>5
  <2>. QED
    BY <2>6, <2>7 DEF t
<1>4. CASE tok[1] = "filter"
  <2>1. tok = <<"filter", tok[2], tok[3]>>
    BY <1>4 DEF WellMadeToken
  <2>2. t = Pushed(p, "filter", tok)
    BY <1>4 DEF Taken
  <2>3. tok[2] \in KindsFilters[k]
    BY <1>4 DEF Fits, KindFits, ObjectFits, FilterFits, NewFits, AttributeFits, ValueFits, RemovalFits, MemberFits
  <2>4. Pushed(p, "filter", tok).done = p.done /\ Pushed(p, "filter", tok).ctx = Append(p.ctx, tok)
    BY DEF Pushed, Proper, ParserFields
  <2>5. Sound(Pushed(p, "filter", <<"filter", tok[2], tok[3]>>))
    BY <2>3, SoundPushed
  <2>. HIDE DEF t, k
  <2>6. Sound(t) /\ t.done = p.done /\ Len(t.ctx) > Len(p.ctx)
    BY <1>2, <2>1, <2>2, <2>4, <2>5
  <2>. QED
    BY <2>6 DEF t
<1>5. CASE tok[1] = "new"
  <2>. DEFINE i == <<"object", tok[2], NoName>>
  <2>1. t = Pushed(p, "create", i)
    BY <1>5 DEF Taken
  <2>2. tok[2] \in KindsConstruct[k]
    BY <1>5 DEF Fits, KindFits, ObjectFits, FilterFits, NewFits, AttributeFits, ValueFits, RemovalFits, MemberFits
  <2>3. Pushed(p, "create", i).done = p.done /\ Pushed(p, "create", i).ctx = Append(p.ctx, i)
    BY DEF Pushed, Proper, ParserFields
  <2>4. Sound(Pushed(p, "create", i))
    BY <2>2, SoundPushed
  <2>. HIDE DEF t, k, i
  <2>5. Sound(t) /\ t.done = p.done /\ Len(t.ctx) > Len(p.ctx)
    BY <1>2, <2>1, <2>3, <2>4
  <2>. QED
    BY <2>5 DEF t
<1>6. CASE tok[1] = "end"
  <2>1. t = Left(p)
    BY <1>6 DEF Taken
  <2>2. k # Top /\ mode = "standard"
    BY <1>6 DEF Fits, KindFits, ObjectFits, FilterFits, NewFits
  <2>3. p.ctx # <<>>
    BY <2>2 DEF LastKind
  <2>4. Left(p).done = p.done
    BY DEF Left, Proper, ParserFields
  <2>5. Sound(Left(p))
    BY <2>3, SoundLeft
  <2>. QED
    BY <2>1, <2>2, <2>4, <2>5
<1>7. CASE tok[1] \notin {"object", "filter", "new", "end"}
  <2>. DEFINE j == AttrKind(k, tok[2])
              s == <<tok[1], p.ctx, j, Tail(tok)>>
              q == [p EXCEPT !.sig = Append(@, s)]
  <2>1. tok[1] \in {"set", "no", "add", "remove"}
    BY <1>7 DEF Fits, KindFits, ObjectFits, FilterFits, NewFits, AttributeFits, ValueFits, RemovalFits, MemberFits
  <2>2. t = q
    BY <1>7 DEF Taken
  <2>3. q.ctx = p.ctx /\ q.sig = Append(p.sig, s) /\ q.done = p.done
    BY DEF Proper, ParserFields
  <2>4. s[1] = tok[1] /\ s[2] = p.ctx /\ s[3] = j
    OBVIOUS
  <2>. HIDE DEF s, q
  <2>5. k # Top /\ mode = "standard"
    BY <2>1 DEF Fits, KindFits, ObjectFits, FilterFits, NewFits
  <2>6. k \in Kinds
    BY <1>1, <2>5 DEF Contexts
  <2>7. j \in Kinds /\ Depth[j] = Depth[k]
    BY <2>6, AttrKindDepth
  <2>. HIDE DEF j, k
  <2>8. NestedSignal(s) /\ ~Takes(s)
    BY <2>1, <2>4, <2>7 DEF NestedSignal, Takes, k
  <2>9. Sound(q)
    BY <1>1, <2>3, <2>8, SoundOn
  <2>. QED
    BY <2>2, <2>3, <2>5, <2>9
<1>. QED
  BY <1>3, <1>4, <1>5, <1>6, <1>7

LEMMA SoundToken ==
    ASSUME NEW p, NEW c0, Proper(p, c0), Sound(p), NEW mode, NEW tok, WellMadeToken(tok), NEW there
    PROVE  LET t == Token(p, mode, tok, there)
           IN  /\ Sound(t) /\ t.done \in {p.done, p.done + 1}
               /\ mode # "standard" /\ t.stop = "no" => p.stop = "no" /\ Len(t.ctx) > Len(p.ctx)
<1>1. CASE p.stop # "no"
  <2>1. Token(p, mode, tok, there) = p
    BY <1>1 DEF Token
  <2>. QED
    BY <1>1, <2>1
<1>2. CASE p.stop = "no" /\ ~Fits(p.ctx, mode, tok)
  <2>. DEFINE q == [p EXCEPT !.stop = "grammar", !.single = FALSE]
  <2>1. q.ctx = p.ctx /\ q.sig = p.sig /\ q.stop # "no" /\ q.done = p.done
    BY DEF Proper, ParserFields
  <2>2. Token(p, mode, tok, there) = q
    BY <1>2 DEF Token
  <2>. HIDE DEF q
  <2>. QED
    BY <2>1, <2>2 DEF Sound
<1>3. CASE p.stop = "no" /\ Fits(p.ctx, mode, tok)
  <2>. DEFINE t == Taken(p, mode, tok)
              q == [t EXCEPT !.done = @ + 1, !.attr = IsAttribute(tok),
                             !.single = ~IsAttribute(tok) /\ tok[1] # "end" /\ ~p.attr]
              r == [q EXCEPT !.stop = "missing"]
  <2>1. Token(p, mode, tok, there) \in {q, r}
    BY <1>3 DEF Token, LookedFor
  <2>2. Proper(t, c0)
    BY <1>3, ProperTaken
  <2>3. Sound(t) /\ t.done = p.done /\ (mode # "standard" /\ t.stop = "no" => Len(t.ctx) > Len(p.ctx))
    BY <1>3, SoundTaken
  <2>. HIDE DEF t
  <2>4. DOMAIN q = ParserFields /\ q.ctx = t.ctx /\ q.sig = t.sig /\ q.stop = t.stop /\ q.done = t.done + 1
    BY <2>2 DEF Proper, ParserFields
  <2>. HIDE DEF q
  <2>5. r.ctx = q.ctx /\ r.sig = q.sig /\ r.stop # "no" /\ r.done = q.done
    BY <2>4 DEF ParserFields
  <2>. HIDE DEF r
  <2>6. Sound(q) /\ Sound(r) /\ q.done = p.done + 1 /\ r.done = p.done + 1
    BY <2>3, <2>4, <2>5 DEF Sound
  <2>7. mode # "standard" /\ q.stop = "no" => Len(q.ctx) > Len(p.ctx)
    BY <2>3, <2>4
  <2>. QED
    BY <1>3, <2>1, <2>5, <2>6, <2>7
<1>. QED
  BY <1>1, <1>2, <1>3

LEMMA SoundReadings ==
    ASSUME NEW ctx, IsSequence(ctx), KindsNest(ctx), NEW mode, NEW toks, Len(toks) \in Nat, NEW there,
           \A i \in 1 .. Len(toks) : WellMadeToken(toks[i])
    PROVE  LET p == Readings(ctx, mode, toks, there)[Len(toks)]
           IN  /\ Sound(p) /\ p.done \in 0 .. Len(toks)
               /\ mode # "standard" /\ p.stop = "no" => Len(p.ctx) >= Len(ctx) + Len(toks)
<1>. DEFINE f == Readings(ctx, mode, toks, there)
            Good(n) == /\ Proper(f[n], ctx) /\ Sound(f[n]) /\ f[n].done \in 0 .. n
                       /\ mode # "standard" /\ f[n].stop = "no" => Len(f[n].ctx) >= Len(ctx) + n
            S == {n \in Nat : n <= Len(toks) => Good(n)}
<1>1. \A i \in 0 .. Len(toks) : f[i] = IF i = 0 THEN Started(ctx) ELSE Token(f[i - 1], mode, toks[i], there)
  <2>1. Reads(f, Len(toks), ctx, mode, toks, there)
    BY ReadingsThere
  <2>. HIDE DEF f
  <2>. QED
    BY <2>1 DEF Reads
<1>2. Len(ctx) \in Nat
  BY SequenceShape
<1>. HIDE DEF f
<1>3. 0 \in S
  <2>1. 0 \in 0 .. Len(toks)
    OBVIOUS
  <2>2. f[0] = Started(ctx)
    BY <1>1, <2>1
  <2>3. Started(ctx).ctx = ctx /\ Started(ctx).sig = <<>> /\ Started(ctx).done = 0
    BY DEF Started
  <2>4. 1 .. Len(<<>>) = {}
    OBVIOUS
  <2>5. Sound(f[0])
    BY <2>2, <2>3, <2>4 DEF Sound
  <2>6. Proper(f[0], ctx)
    BY <2>2, ProperStarted
  <2>. QED
    BY <1>2, <2>2, <2>3, <2>5, <2>6
<1>4. ASSUME NEW n \in Nat, n \in S PROVE n + 1 \in S
  <2>. SUFFICES ASSUME n + 1 <= Len(toks) PROVE Good(n + 1)
    OBVIOUS
  <2>1. n + 1 \in 0 .. Len(toks) /\ n + 1 # 0 /\ (n + 1) - 1 = n /\ n <= Len(toks) /\ n + 1 \in 1 .. Len(toks)
    OBVIOUS
  <2>2. f[n + 1] = Token(f[n], mode, toks[n + 1], there)
    BY <1>1, <2>1
  <2>3. Good(n)
    BY <1>4, <2>1
  <2>4. Proper(f[n + 1], ctx)
    BY <2>1, <2>2, <2>3, ProperToken
  <2>5. /\ Sound(f[n + 1]) /\ f[n + 1].done \in {f[n].done, f[n].done + 1}
        /\ mode # "standard" /\ f[n + 1].stop = "no" => f[n].stop = "no" /\ Len(f[n + 1].ctx) > Len(f[n].ctx)
    BY <2>1, <2>2, <2>3, SoundToken
  <2>6. f[n + 1].done \in 0 .. (n + 1)
    BY <2>3, <2>5
  <2>7. Len(f[n].ctx) \in Nat /\ Len(f[n + 1].ctx) \in Nat
    BY <2>3, <2>4, SequenceShape DEF Proper
  <2>8. mode # "standard" /\ f[n + 1].stop = "no" => Len(f[n + 1].ctx) >= Len(ctx) + (n + 1)
    BY <1>2, <2>3, <2>5, <2>7
  <2>. QED
    BY <2>4, <2>5, <2>6, <2>8
<1>. HIDE DEF S
<1>5. Len(toks) \in S
  BY <1>3, <1>4, SetInduction
<1>6. Good(Len(toks))
  BY <1>5 DEF S
<1>. QED
  BY <1>6 DEF f

\* At the end of the line: one signal that takes the objects away is the last, and the context has grown.
Said(p, mode, n) ==
    /\ KindsNest(p.ctx)
    /\ \A i \in 1 .. Len(p.sig) :
         /\ NestedSignal(p.sig[i])
         /\ Takes(p.sig[i]) => i = Len(p.sig) /\ Len(p.ctx) > n /\ mode # "standard"

LEMMA SaidOn ==
    ASSUME NEW p, IsSequence(p.sig), Sound(p), NEW q, NEW s, q.sig = Append(p.sig, s), q.ctx = p.ctx, NestedSignal(s),
           NEW mode, NEW n, Takes(s) => Len(p.ctx) > n /\ mode # "standard"
    PROVE  Said(q, mode, n)
<1>1. /\ Len(p.sig) \in Nat /\ Len(Append(p.sig, s)) = Len(p.sig) + 1 /\ Append(p.sig, s)[Len(p.sig) + 1] = s
      /\ \A i \in 1 .. Len(p.sig) : Append(p.sig, s)[i] = p.sig[i]
  BY AppendedSequence, SequenceShape
<1>2. ASSUME NEW i \in 1 .. Len(q.sig)
      PROVE  NestedSignal(q.sig[i]) /\ (Takes(q.sig[i]) => i = Len(q.sig) /\ Len(q.ctx) > n /\ mode # "standard")
  <2>1. i \in 1 .. Len(p.sig) \/ i = Len(p.sig) + 1
    BY <1>1
  <2>2. CASE i \in 1 .. Len(p.sig)
    <3>1. q.sig[i] = p.sig[i]
      BY <1>1, <2>2
    <3>. QED
      BY <2>2, <3>1 DEF Sound
  <2>3. CASE i = Len(p.sig) + 1
    <3>1. q.sig[i] = s /\ i = Len(q.sig)
      BY <1>1, <2>3
    <3>. QED
      BY <3>1
  <2>. QED
    BY <2>1, <2>2, <2>3
<1>. QED
  BY <1>2 DEF Said, Sound

LEMMA SoundSaid ==
    ASSUME NEW p, Sound(p), NEW q, q.ctx = p.ctx, q.sig = p.sig, NEW mode, NEW n PROVE Said(q, mode, n)
BY DEF Sound, Said

LEMMA NewNameSaid ==
    ASSUME NEW p, NEW c0, Proper(p, c0), Sound(p), NEW toks, IsSequence(toks), p.done \in 0 .. Len(toks),
           \A i \in 1 .. Len(toks) : WellMadeToken(toks[i]), NEW n
    PROVE  Said(NewName(p, SubSeq(toks, p.done + 1, Len(toks)), Len(p.ctx) > n), "rename", n)
<1>. DEFINE deeper == Len(p.ctx) > n
            rest == SubSeq(toks, p.done + 1, Len(toks))
            s == <<"rename", p.ctx, LastKind(p.ctx), rest[1][2]>>
            q == [p EXCEPT !.stop = "no", !.sig = Append(@, s)]
            r == [p EXCEPT !.stop = "grammar"]
            t == [p EXCEPT !.stop = "name"]
<1>1. \/ NewName(p, rest, deeper) \in {p, r, t}
      \/ NewName(p, rest, deeper) = q /\ deeper /\ rest # <<>> /\ rest[1][1] = "word" /\ Len(rest) = 1
  <2>. HIDE DEF rest
  <2>. QED
    BY DEF NewName
<1>2. /\ q.ctx = p.ctx /\ q.sig = Append(p.sig, s)
      /\ r.ctx = p.ctx /\ r.sig = p.sig /\ t.ctx = p.ctx /\ t.sig = p.sig
  BY DEF Proper, ParserFields
<1>3. s[1] = "rename" /\ s[4] = rest[1][2]
  OBVIOUS
<1>4. rest # <<>> /\ rest[1][1] = "word" /\ Len(rest) = 1 => rest[1][2] # NoName
  <2>1. Len(toks) \in Nat
    BY SequenceShape
  <2>2. p.done \in Nat /\ p.done <= Len(toks) /\ Len(toks) <= Len(toks)
    BY <2>1
  <2>3. Len(rest) = Len(toks) - p.done /\ \A i \in 1 .. (Len(toks) - p.done) : rest[i] = toks[p.done + i]
    BY <2>1, <2>2, PartOfSequence
  <2>. HIDE DEF rest
  <2>4. ASSUME Len(rest) = 1, rest[1][1] = "word" PROVE rest[1][2] # NoName
    <3>1. 1 \in 1 .. (Len(toks) - p.done) /\ p.done + 1 \in 1 .. Len(toks)
      BY <2>1, <2>2, <2>3, <2>4
    <3>2. rest[1] = toks[p.done + 1] /\ WellMadeToken(toks[p.done + 1])
      BY <2>3, <3>1
    <3>. QED
      BY <2>4, <3>2 DEF WellMadeToken
  <2>. QED
    BY <2>4
<1>. HIDE DEF s, q, r, t, rest
<1>5. ASSUME NewName(p, rest, deeper) \in {p, r, t}
      PROVE  Said(NewName(p, rest, deeper), "rename", n)
  BY <1>2, <1>5, SoundSaid
<1>6. ASSUME NewName(p, rest, deeper) = q, deeper, rest # <<>>, rest[1][1] = "word", Len(rest) = 1
      PROVE  Said(NewName(p, rest, deeper), "rename", n)
  <2>1. NestedSignal(s)
    <3>1. s[1] = "rename" /\ s[4] # NoName
      BY <1>3, <1>4, <1>6
    <3>. QED
      BY <3>1 DEF NestedSignal, IsAttribute
  <2>2. IsSequence(p.sig)
    BY DEF Proper
  <2>. QED
    BY <1>2, <1>6, <2>1, <2>2, SaidOn
<1>7. Said(NewName(p, rest, deeper), "rename", n)
  BY <1>1, <1>5, <1>6
<1>. QED
  BY <1>7 DEF rest

LEMMA OutcomeSaid ==
    ASSUME NEW ctx, IsSequence(ctx), KindsNest(ctx), NEW l, WellMade(l), NEW there
    PROVE  Said(ReadLine(ctx, l, there), Mode(l), Len(ctx))
<1>. DEFINE mode == Mode(l)
            toks == IF mode = "standard" THEN l ELSE Tail(l)
            f == Readings(ctx, mode, toks, there)
            p == f[Len(toks)]
            o == Outcome(p, mode, toks, Len(ctx))
<1>1. ReadLine(ctx, l, there) = o
  BY DEF ReadLine, Readings
<1>2. IsSequence(l) /\ \A i \in 1 .. Len(l) : WellMadeToken(l[i])
  BY SequenceShape DEF WellMade, IsSequence
<1>3. IsSequence(toks) /\ Len(toks) \in Nat /\ \A i \in 1 .. Len(toks) : WellMadeToken(toks[i])
  <2>1. CASE mode = "standard"
    BY <1>2, <2>1, SequenceShape
  <2>2. CASE mode # "standard"
    <3>1. l # <<>>
      BY <2>2 DEF Mode
    <3>2. /\ Len(l) \in Nat \ {0} /\ IsSequence(Tail(l)) /\ Len(Tail(l)) = Len(l) - 1
          /\ \A i \in 1 .. (Len(l) - 1) : Tail(l)[i] = l[i + 1]
      BY <1>2, <3>1, TailOfSequence
    <3>3. \A i \in 1 .. (Len(l) - 1) : i + 1 \in 1 .. Len(l)
      BY <3>2
    <3>4. Len(l) - 1 \in Nat
      BY <3>2
    <3>5. \A i \in 1 .. (Len(l) - 1) : WellMadeToken(Tail(l)[i])
      BY <1>2, <3>2, <3>3
    <3>. QED
      BY <2>2, <3>2, <3>4, <3>5
  <2>. QED
    BY <2>1, <2>2
<1>. HIDE DEF mode, toks
<1>4. Proper(p, ctx)
  BY <1>3, ProperReadings
<1>5. /\ Sound(p) /\ p.done \in 0 .. Len(toks)
      /\ mode # "standard" /\ p.stop = "no" => Len(p.ctx) >= Len(ctx) + Len(toks)
  BY <1>3, SoundReadings
<1>6. toks = <<>> => p = Started(ctx)
  <2>1. Reads(f, Len(toks), ctx, mode, toks, there)
    BY <1>3, ReadingsThere
  <2>2. toks = <<>> => Len(toks) = 0
    BY EmptySequence
  <2>3. 0 \in 0 .. Len(toks)
    BY <1>3
  <2>. HIDE DEF f
  <2>4. f[0] = Started(ctx)
    BY <2>1, <2>3 DEF Reads
  <2>. QED
    BY <2>2, <2>4 DEF p
<1>7. Len(ctx) \in Nat /\ IsSequence(p.sig) /\ Len(p.ctx) \in Nat
  BY <1>4, SequenceShape DEF Proper
<1>. HIDE DEF f, p
<1>8. CASE toks = <<>> /\ mode \in FunctionWords
  <2>. DEFINE s == <<"show", p.ctx>>
              q == [p EXCEPT !.sig = <<s>>]
              r == [p EXCEPT !.stop = "noDefinition"]
  <2>1. o \in {q, r}
    BY <1>8 DEF Outcome
  <2>2. NestedSignal(s) /\ ~Takes(s)
    BY DEF NestedSignal, Takes, IsAttribute
  <2>. HIDE DEF s
  <2>3. Append(<<>>, s) = <<s>>
    OBVIOUS
  <2>4. p.sig = <<>>
    BY <1>6, <1>8 DEF Started
  <2>5. q.ctx = p.ctx /\ q.sig = <<s>> /\ r.ctx = p.ctx /\ r.sig = p.sig
    BY <1>4 DEF Proper, ParserFields
  <2>. HIDE DEF q, r, o
  <2>6. q.sig = Append(p.sig, s)
    BY <2>3, <2>4, <2>5
  <2>7. Said(q, mode, Len(ctx))
    BY <1>5, <1>7, <2>2, <2>5, <2>6, SaidOn
  <2>8. Said(r, mode, Len(ctx))
    BY <1>5, <2>5, SoundSaid
  <2>. QED
    BY <1>1, <2>1, <2>7, <2>8 DEF mode
<1>9. CASE ~(toks = <<>> /\ mode \in FunctionWords) /\ mode = "rename"
  <2>1. o = NewName(p, SubSeq(toks, p.done + 1, Len(toks)), Len(p.ctx) > Len(ctx))
    BY <1>9 DEF Outcome
  <2>2. Said(NewName(p, SubSeq(toks, p.done + 1, Len(toks)), Len(p.ctx) > Len(ctx)), "rename", Len(ctx))
    BY <1>3, <1>4, <1>5, NewNameSaid
  <2>. QED
    BY <1>1, <1>9, <2>1, <2>2 DEF mode
<1>10. CASE ~(toks = <<>> /\ mode \in FunctionWords) /\ mode # "rename"
  <2>. DEFINE s == <<mode, p.ctx>>
              q == [p EXCEPT !.sig = Append(@, s)]
  <2>1. o = p \/ (mode \in {"show", "delete"} /\ p.stop = "no" /\ o = q)
    BY <1>10 DEF Outcome
  <2>2. mode \in {"show", "delete"} => NestedSignal(s)
    BY DEF NestedSignal, IsAttribute
  <2>3. q.ctx = p.ctx /\ q.sig = Append(p.sig, s)
    BY <1>4 DEF Proper, ParserFields
  <2>. HIDE DEF s, q, o
  <2>4. CASE mode \in {"show", "delete"} /\ p.stop = "no" /\ o = q
    <3>1. mode \in FunctionWords /\ mode # "standard"
      BY <2>4 DEF FunctionWords
    <3>2. toks # <<>>
      BY <1>10, <3>1
    <3>3. Len(toks) # 0
      BY <1>3, <3>2, EmptySequence
    <3>4. Len(p.ctx) > Len(ctx)
      BY <1>3, <1>5, <1>7, <2>4, <3>1, <3>3
    <3>5. Said(q, mode, Len(ctx))
      BY <1>5, <1>7, <2>2, <2>3, <2>4, <3>1, <3>4, SaidOn
    <3>. QED
      BY <1>1, <2>4, <3>5 DEF mode
  <2>5. CASE o = p
    <3>1. Said(p, mode, Len(ctx))
      BY <1>5, SoundSaid
    <3>. QED
      BY <1>1, <2>5, <3>1 DEF mode
  <2>. QED
    BY <2>1, <2>4, <2>5
<1>. QED
  BY <1>8, <1>9, <1>10

\* After the objects of a context are taken away it is only left.
LeavesAfter(sig) ==
    \A i \in 1 .. Len(sig) : Takes(sig[i]) => i < Len(sig) /\ \A j \in (i + 1) .. Len(sig) : sig[j][1] = "left"

LEMMA InlineLeaves ==
    ASSUME NEW p, NEW c0, Proper(p, c0), NEW mode, NEW n \in Nat, Said(p, mode, n)
    PROVE  LET q == LeaveInline(p, mode, n)
           IN  KindsNest(q.ctx) /\ (\A i \in 1 .. Len(q.sig) : NestedSignal(q.sig[i])) /\ LeavesAfter(q.sig)
<1>. DEFINE m == Len(p.ctx)
            h == IF m > n THEN m - n ELSE 0
            lefts == [i \in 1 .. h |-> <<"left">>]
            q == [p EXCEPT !.ctx = IF Len(@) > n THEN SubSeq(@, 1, n) ELSE @, !.sig = @ \o lefts]
<1>1. LeaveInline(p, mode, n) = IF mode = "standard" /\ p.single THEN p ELSE q
  BY DEF LeaveInline
<1>2. IsSequence(p.ctx) /\ IsSequence(p.sig) /\ m \in Nat /\ Len(p.sig) \in Nat
  BY SequenceShape DEF Proper
<1>3. h \in Nat /\ (m > n => h > 0)
  BY <1>2
<1>4. IsSequence(lefts) /\ Len(lefts) = h
  <2>1. DOMAIN lefts = 1 .. h /\ lefts = [i \in 1 .. h |-> lefts[i]]
    OBVIOUS
  <2>. HIDE DEF lefts
  <2>. QED
    BY <1>3, <2>1, SequenceOf
<1>5. \A i \in 1 .. h : lefts[i] = <<"left">>
  OBVIOUS
<1>6. q.sig = p.sig \o lefts /\ q.ctx = IF m > n THEN SubSeq(p.ctx, 1, n) ELSE p.ctx
  BY DEF Proper, ParserFields
<1>. HIDE DEF lefts, q, h
<1>7. CASE mode = "standard" /\ p.single
  <2>1. \A i \in 1 .. Len(p.sig) : ~Takes(p.sig[i])
    BY <1>7 DEF Said
  <2>2. LeavesAfter(p.sig)
    BY <2>1 DEF LeavesAfter
  <2>. QED
    BY <1>1, <1>7, <2>2 DEF Said
<1>8. CASE ~(mode = "standard" /\ p.single)
  <2>1. KindsNest(q.ctx)
    <3>1. CASE m > n
      <4>1. /\ IsSequence(SubSeq(p.ctx, 1, n)) /\ Len(SubSeq(p.ctx, 1, n)) = n
            /\ \A i \in 1 .. n : SubSeq(p.ctx, 1, n)[i] = p.ctx[i]
        BY <1>2, <3>1, StartOfSequence
      <4>. DEFINE c == SubSeq(p.ctx, 1, n)
      <4>2. q.ctx = c
        BY <1>6, <3>1
      <4>3. IsSequence(c) /\ Len(c) = n /\ \A i \in 1 .. Len(c) : c[i] = p.ctx[i]
        BY <4>1
      <4>. HIDE DEF c
      <4>4. Len(c) <= Len(p.ctx)
        BY <1>2, <3>1, <4>3
      <4>. QED
        BY <1>2, <4>2, <4>3, <4>4, StartNests DEF Said
    <3>2. CASE ~(m > n)
      BY <1>6, <3>2 DEF Said
    <3>. QED
      BY <3>1, <3>2
  <2>2. /\ Len(q.sig) = Len(p.sig) + h
        /\ \A i \in 1 .. Len(p.sig) : q.sig[i] = p.sig[i]
        /\ \A i \in 1 .. h : q.sig[Len(p.sig) + i] = lefts[i]
    <3>1. IsSequence(p.sig) /\ IsSequence(lefts)
      BY <1>2, <1>4
    <3>2. /\ Len(p.sig \o lefts) = Len(p.sig) + Len(lefts)
          /\ \A i \in 1 .. Len(p.sig) : (p.sig \o lefts)[i] = p.sig[i]
          /\ \A i \in 1 .. Len(lefts) : (p.sig \o lefts)[Len(p.sig) + i] = lefts[i]
      BY ONLY <3>1, JoinedSequences
    <3>. QED
      BY <1>4, <1>6, <3>2
  <2>3. ASSUME NEW i \in 1 .. Len(q.sig), i \notin 1 .. Len(p.sig) PROVE q.sig[i] = <<"left">>
    <3>1. i - Len(p.sig) \in 1 .. h /\ Len(p.sig) + (i - Len(p.sig)) = i
      BY <1>2, <1>3, <2>2, <2>3
    <3>2. q.sig[Len(p.sig) + (i - Len(p.sig))] = <<"left">>
      BY <1>5, <2>2, <3>1
    <3>. QED
      BY <3>1, <3>2
  <2>4. ASSUME NEW x, x = <<"left">> PROVE NestedSignal(x) /\ ~Takes(x) /\ x[1] = "left"
    <3>1. x[1] = "left"
      BY <2>4
    <3>. QED
      BY <3>1 DEF NestedSignal, Takes, IsAttribute
  <2>5. ASSUME NEW i \in 1 .. Len(q.sig)
        PROVE  /\ NestedSignal(q.sig[i])
               /\ Takes(q.sig[i]) => i < Len(q.sig) /\ \A j \in (i + 1) .. Len(q.sig) : q.sig[j][1] = "left"
    <3>1. CASE i \in 1 .. Len(p.sig)
      <4>1. NestedSignal(q.sig[i]) /\ (Takes(q.sig[i]) => i = Len(p.sig) /\ m > n)
        BY <2>2, <3>1 DEF Said
      <4>2. ASSUME Takes(q.sig[i]) PROVE i < Len(q.sig) /\ \A j \in (i + 1) .. Len(q.sig) : q.sig[j][1] = "left"
        <5>1. i = Len(p.sig) /\ h > 0
          BY <1>2, <1>3, <4>1, <4>2
        <5>2. \A j \in (i + 1) .. Len(q.sig) : j \in 1 .. Len(q.sig) /\ j \notin 1 .. Len(p.sig)
          BY <1>2, <1>3, <2>2, <5>1
        <5>. QED
          BY <1>2, <1>3, <2>2, <2>3, <2>4, <5>1, <5>2
      <4>. QED
        BY <4>1, <4>2
    <3>2. CASE i \notin 1 .. Len(p.sig)
      BY <2>3, <2>4, <3>2
    <3>. QED
      BY <3>1, <3>2
  <2>6. LeaveInline(p, mode, n) = q
    BY <1>1, <1>8
  <2>. QED
    BY <2>1, <2>5, <2>6 DEF LeavesAfter
<1>. QED
  BY <1>7, <1>8

\* What a line leaves behind, well formed or not: a context whose kinds nest, signals
\* that tell of such contexts, and nothing but leaving after a delete or a rename.
THEOREM LinesNest ==
    ASSUME NEW ctx, IsSequence(ctx), KindsNest(ctx), NEW l, WellMade(l), NEW there
    PROVE  LET r == ParseLine(ctx, l, there)
           IN  KindsNest(r.ctx) /\ (\A i \in 1 .. Len(r.sig) : NestedSignal(r.sig[i])) /\ LeavesAfter(r.sig)
<1>. DEFINE p == LeaveInline(ReadLine(ctx, l, there), Mode(l), Len(ctx))
            r == ParseLine(ctx, l, there)
<1>1. KindsNest(p.ctx) /\ (\A i \in 1 .. Len(p.sig) : NestedSignal(p.sig[i])) /\ LeavesAfter(p.sig)
  BY ProperOutcome, OutcomeSaid, InlineLeaves, SequenceShape
<1>2. r.ctx = p.ctx /\ r.sig = IF p.stop = "no" THEN p.sig ELSE <<>>
  BY DEF ParseLine, Result
<1>3. 1 .. Len(<<>>) = {}
  OBVIOUS
<1>. HIDE DEF p, r
<1>4. (\A i \in 1 .. Len(<<>>) : NestedSignal(<<>>[i])) /\ LeavesAfter(<<>>)
  BY <1>3 DEF LeavesAfter
<1>5. KindsNest(r.ctx) /\ (\A i \in 1 .. Len(r.sig) : NestedSignal(r.sig[i])) /\ LeavesAfter(r.sig)
  BY <1>1, <1>2, <1>4
<1>. QED
  BY <1>5 DEF r
===============================================================================
