--------------------------- MODULE ChangesetsLog ----------------------------
(***************************************************************************)
(* Changesets implements RevisionLog as long as nobody restores a dump     *)
(* (Restorer = {}): the log is table version in the order of num, and the  *)
(* open changes are the rows of table changeset.                           *)
(***************************************************************************)
EXTENDS Changesets, Sequences

NoBase == -1

\* listRevisions: the ids of table version, ORDER BY num
History ==
    LET last == CHOOSE n \in {num[i] : i \in Id} : \A i \in Id : num[i] <= n
    IN  [n \in 1 .. last |-> CHOOSE i \in Id : num[i] = n]

Base == [c \in Id |-> IF Pending(c) THEN parentrevision[c] ELSE NoBase]

Log == INSTANCE RevisionLog WITH
    Change <- Id, First <- 0, history <- History, base <- Base

\* Whatever concurrent sessions do to the two tables, their clients see a log
\* of revisions: what is committed goes to its end, on top of its base.
ImplementsLog == Log!LogSpec

=============================================================================
