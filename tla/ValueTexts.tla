------------------------------ MODULE ValueTexts ------------------------------
(***************************************************************************)
(* Values of attributes as they are printed into dumps, diffs, backups and *)
(* the files of rebase (NonOptionalValuePrettyPrint of CliObjects.cpp) and *)
(* as the rules of PredefinedRules.cpp read them again.  A value and a     *)
(* text are pairs <<type, data>>; the text of a date is its numbers, that  *)
(* of an IPv6 address its groups before and after "::".  Strings are those *)
(* of ScreenTexts.                                                         *)
(***************************************************************************)
EXTENDS JsonValues

CONSTANT WhereNames     \* the identifiers that begin with the word where

NotRead  == <<"error", "the rule does not match">>
Uncaught == <<"error", "an exception UserInterface::run does not catch">>

-----------------------------------------------------------------------------
(* Dates are <<year, month, day>>, times of day <<hour, minute, second,    *)
(* fraction>>.                                                             *)
IsLeap(y) == y % 4 = 0 /\ (y % 100 # 0 \/ y % 400 = 0)
DaysIn(y, m) == IF m = 2 THEN (IF IsLeap(y) THEN 29 ELSE 28) ELSE IF m \in {4, 6, 9, 11} THEN 30 ELSE 31
Exists(d) == d[1] \in 1400..9999 /\ d[2] \in 1..12 /\ d[3] \in 1..DaysIn(d[1], d[2])

(* The rules look at the digits only: month 00 and 31 February match, the  *)
(* year 1899 does not.                                                     *)
DateMatches(d) == d[1] \in 1900..9999 /\ d[2] \in 0..12 /\ d[3] \in 0..31
TimeMatches(t) == t[1] \in 0..23 /\ t[2] \in 0..59 /\ t[3] \in 0..59
ReadDate(d) == IF ~DateMatches(d) THEN NotRead ELSE IF Exists(d) THEN Ok(<<"date", d>>) ELSE Uncaught
ReadTimestamp(d, t) ==
  IF ~DateMatches(d) \/ ~TimeMatches(t) THEN NotRead
  ELSE IF Exists(d) THEN Ok(<<"timestamp", <<d, t>>>>) ELSE Uncaught

-----------------------------------------------------------------------------
(* An IPv6 address is eight groups; the longest run of zeros is left out,  *)
(* and where only the last two groups, or a group ffff before them, remain *)
(* these two are printed like an IPv4 address.                             *)
Run(groups, i, n) == \A j \in i..(i + n - 1) : groups[j] = 0
Ipv6Text(groups) ==
  LET runs == {<<n, i>> \in (2..8) \X (1..7) : i + n <= 9 /\ Run(groups, i, n)}
      longest == CHOOSE r \in runs : \A s \in runs : s[1] < r[1] \/ (s[1] = r[1] /\ s[2] >= r[2])
      n == longest[1]
      i == longest[2]
  IN  IF runs = {} THEN [left |-> groups, short |-> FALSE, right |-> <<>>, dotted |-> FALSE]
      ELSE [left |-> SubSeq(groups, 1, i - 1), short |-> TRUE, right |-> SubSeq(groups, i + n, 8),
            dotted |-> i = 1 /\ (n = 6 \/ (n = 5 /\ groups[6] = 65535))]

(* Every number of groups on the right has an alternative, with as many on *)
(* the left as leave out one at least; none of them has dots.              *)
ReadIpv6(t) ==
  LET zeros == 8 - Len(t.left) - Len(t.right) IN
  IF t.dotted \/ (t.short /\ zeros < 1) \/ (~t.short /\ zeros # 0) THEN NotRead
  ELSE Ok(<<"ipv6address", t.left \o [i \in 1..zeros |-> 0] \o t.right>>)

-----------------------------------------------------------------------------
(* Doubles are sequences of their significant digits, of which the stream  *)
(* prints six, rounded.                                                    *)
SixDigits(digits) ==
  LET up == digits[7] >= 5
      rounded[i \in 0..6] ==      \* the digits from the i-th on are done
        IF i = 6 THEN [carry |-> up, digits |-> <<>>]
        ELSE LET r == rounded[i + 1]
                 d == digits[i + 1] + (IF r.carry THEN 1 ELSE 0)
             IN  [carry |-> d = 10, digits |-> <<d % 10>> \o r.digits]
  IN  IF Len(digits) <= 6 THEN digits
      ELSE IF rounded[0].carry THEN <<1>> \o rounded[0].digits ELSE rounded[0].digits

-----------------------------------------------------------------------------
ReadName(id) == IF id \in WhereNames THEN NotRead ELSE Ok(<<"identifier", id>>)
(* At least one identifier has to stand in the brackets.                   *)
ReadSet(ids) ==
  IF ids = <<>> \/ \E i \in 1..Len(ids) : ReadName(ids[i]) = NotRead THEN NotRead
  ELSE Ok(<<"identifier_set", ToSet(ids)>>)

(* A MAC address is printed with two digits for each byte, what the rule   *)
(* matches; the constructor may throw std::domain_error all the same.      *)
ReadMac(bytes) == IF MacFromText(bytes)[1] = "ok" THEN Ok(<<"macaddress", bytes>>) ELSE Uncaught

PrintedValue(v) ==
  CASE v[1] = "identifier_set" -> <<v[1], SetToSeq(v[2])>>
    [] v[1] = "double"         -> <<v[1], SixDigits(v[2])>>
    [] v[1] = "ipv6address"    -> <<v[1], Ipv6Text(v[2])>>
    [] v[1] = "macaddress"     -> <<v[1], MacToText(v[2])>>
    [] OTHER                   -> v
ReadValueText(text) ==
  CASE text[1] = "identifier"     -> ReadName(text[2])
    [] text[1] = "identifier_set" -> ReadSet(text[2])
    [] text[1] = "ipv6address"    -> ReadIpv6(text[2])
    [] text[1] = "macaddress"     -> ReadMac(text[2])
    [] text[1] = "date"           -> ReadDate(text[2])
    [] text[1] = "timestamp"      -> ReadTimestamp(text[2][1], text[2][2])
    [] text[1] \in {"int", "double", "bool", "ipv4address"} -> Ok(text)
=============================================================================
