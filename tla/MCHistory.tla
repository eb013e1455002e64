------------------------------ MODULE MCHistory ------------------------------
(***************************************************************************)
(* ObjectHistory for TLC, from an empty database and from one with a host  *)
(* that has an interface, the state after one changeset.                   *)
(***************************************************************************)
EXTENDS ObjectHistory, TLC

Populated ==
    \E h \in HostName :
        LET host == [kind |-> "host", uid |-> 1, name |-> h, host |-> 0,
                     note |-> Null]
            interface == [kind |-> "interface", uid |-> 1, name |-> 1,
                          host |-> 1, note |-> Null]
        IN  /\ num = [i \in Id |-> IF i < 2 THEN i + 1 ELSE 0]
            /\ base = [c \in Changeset |-> 0]
            /\ seq = 1
            /\ production = {host, interface}
            /\ history = {[version |-> 1, dest |-> FALSE] @@ o : o \in production}
            /\ uid = [k \in Kind |-> 1]
            /\ calls = 0

MCSpec == (Init \/ Populated) /\ [][Next]_vars

Symmetry == Permutations(HostName)
=============================================================================
