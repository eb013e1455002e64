----------------------------- MODULE ObjectStore -----------------------------
(***************************************************************************)
(* What a client is told about versioned objects                           *)
(* (doc/technical/dbapi-protocol.tex, "Revision Semantics"): a revision is *)
(* a state of all objects and never changes; an open changeset shows its   *)
(* parent revision with the changes made in it so far, whatever other      *)
(* changesets do; a commit makes a new revision of exactly what the        *)
(* changeset shows, and only of a state whose names are unique and whose   *)
(* references lead somewhere.                                              *)
(***************************************************************************)
EXTENDS Naturals, Sequences

CONSTANTS
    Changeset

VARIABLES
    log,    \* the states of the revisions; r1 is empty
    base,   \* the parent revision of a changeset, 0 when it is not open
    view    \* what a session in the changeset sees
vars == <<log, base, view>>

\* No two objects of a kind have one name (inside one host), and every
\* interface is on a host which is there.
Consistent(state) ==
    /\ \A o, p \in state :
          <<o.kind, o.host, o.name>> = <<p.kind, p.host, p.name>> => o = p
    /\ \A o \in state : o.kind = "interface" =>
          \E h \in state : h.kind = "host" /\ h.uid = o.host

Init ==
    /\ log # <<>> /\ log[1] = {}
    /\ \A n \in DOMAIN log : Consistent(log[n])
    /\ base = [c \in Changeset |-> 0]
    /\ view = [c \in Changeset |-> {}]

Start(c) ==
    /\ base[c] = 0
    /\ base' = [base EXCEPT ![c] = Len(log)]
    /\ view' = [view EXCEPT ![c] = log[Len(log)]]
    /\ UNCHANGED log

\* One call changes, adds or removes one object.
Edit(c) ==
    /\ base[c] # 0
    /\ view' = [view EXCEPT ![c] = view'[c]]
    /\ \A o, p \in (view[c] \ view'[c]) \cup (view'[c] \ view[c]) :
          o.kind = p.kind /\ o.uid = p.uid
    /\ \A o, p \in view'[c] : o.kind = p.kind /\ o.uid = p.uid => o = p
    /\ UNCHANGED <<log, base>>

Leave(c) ==
    /\ base' = [base EXCEPT ![c] = 0]
    /\ view' = [view EXCEPT ![c] = {}]

Abort(c) ==
    /\ base[c] # 0
    /\ Leave(c)
    /\ UNCHANGED log

Commit(c) ==
    /\ base[c] = Len(log)
    /\ Consistent(view[c])
    /\ log' = Append(log, view[c])
    /\ Leave(c)

Next == \E c \in Changeset : Start(c) \/ Edit(c) \/ Abort(c) \/ Commit(c)

Spec == Init /\ [][Next]_vars
=============================================================================
