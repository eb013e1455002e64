---------------------------- MODULE RevisionLog -----------------------------
(***************************************************************************)
(* What the version control of Deska promises to its clients, whoever else *)
(* is connected: history is a line of revisions.  A client opens a change  *)
(* on top of some revision; the change becomes the next revision if no     *)
(* other change has become one meanwhile, and can only be dropped          *)
(* otherwise (ObsoleteParentError).  An opened change never moves to       *)
(* another base.                                                           *)
(***************************************************************************)
EXTENDS Naturals, Sequences

CONSTANTS
    Change,     \* names of changes: once used, a name is never used again
    First,      \* the revision an empty database starts with
    NoBase      \* the base of a change that is not open

VARIABLES
    history,    \* the revisions, oldest first
    base        \* the revision each open change is based on

logVars == <<history, base>>


Revisions == {history[n] : n \in 1 .. Len(history)}
Latest == history[Len(history)]
Opened(c) == base[c] # NoBase

LogInit ==
    /\ history = <<First>>
    /\ base = [c \in Change |-> NoBase]

Open(c) ==
    /\ ~Opened(c)
    /\ c \notin Revisions
    /\ \E r \in Revisions : base' = [base EXCEPT ![c] = r]
    /\ UNCHANGED history

Drop(c) ==
    /\ Opened(c)
    /\ base' = [base EXCEPT ![c] = NoBase]
    /\ UNCHANGED history

Commit(c) ==
    /\ Opened(c)
    /\ base[c] = Latest
    /\ history' = Append(history, c)
    /\ base' = [base EXCEPT ![c] = NoBase]

LogNext == \E c \in Change : Open(c) \/ Drop(c) \/ Commit(c)

LogSpec == LogInit /\ [][LogNext]_logVars

=============================================================================
