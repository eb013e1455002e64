---------------------------- MODULE ObjectHistory ----------------------------
(***************************************************************************)
(* Versioned object data: the history and production tables of a kind and  *)
(* the stored procedures generated for them (gen_sql/constants.py), for    *)
(* two kinds of install/modules/demo: hosts, and interfaces, which are     *)
(* embedded in a host.  Sessions attached to several changesets change     *)
(* objects, one call at a time, and commit (commit_all of gen_sql/         *)
(* schema.py); who may attach, and commits that overlap, are Changesets'.  *)
(*                                                                         *)
(* A row of a history table is what a changeset says of one object; it     *)
(* stays there when the changeset is committed or aborted.  What a         *)
(* revision or a changeset contains is worked out from the rows; the       *)
(* production tables hold the newest revision a second time.               *)
(*                                                                         *)
(* Objects here have no template, no set and one attribute besides the     *)
(* host of an interface: for them the commit of a kind with templates does *)
(* what the plain one does.  Interfaces are called interface_1,            *)
(* interface_2 and so on, the names the server makes up, and are written   *)
(* as numbers.  A call that is refused changes nothing and is no step.     *)
(***************************************************************************)
EXTENDS Naturals, FiniteSets

CONSTANTS
    HostName,
    Note,       \* the values of the attribute
    Null,
    MaxLocal,   \* bound: local names of interfaces
    MaxUid,     \* bound: objects of one kind
    MaxId,      \* bound: changesets
    MaxCalls    \* bound: calls that change objects

ASSUME ConstantsAssumption ==
    /\ Null \notin Note
    /\ {MaxLocal, MaxUid, MaxId} \subseteq Nat \ {0}
    /\ MaxCalls \in Nat

\* A definition named CommitUndeleted, CommitStale or CreatedAnyway is Commit or
\* CreatedIn with a plausible bug in it.  No behaviour uses it: it shows that
\* the properties below notice the bug.

VARIABLES
    num,        \* version.num of each id, 0 when it is not a revision
    base,       \* number of the parent revision of an open changeset, or 0
    seq,        \* last value of changeset_id_seq
    history,    \* rows of host_history and interface_history
    production, \* rows of production.host and production.interface
    uid,        \* last values of host_uid and interface_uid
    calls       \* object changes performed so far
vars == <<num, base, seq, history, production, uid, calls>>

Id == 0 .. MaxId
Changeset == Id \ {0}
Kind == {"host", "interface"}
LocalName == 1 .. MaxLocal
Uid == 1 .. MaxUid

\* A host is named by its name, an interface by that of its host and its own.
Name == {<<h>> : h \in HostName} \cup (HostName \X LocalName)
KindOf(name) == IF name \in HostName \X LocalName THEN "interface" ELSE "host"

\* host: the uid of the host of an interface, 0 in the row of a host.
Object ==
    [kind : Kind, uid : Uid, name : HostName \cup LocalName,
     host : 0 .. MaxUid, note : Note \cup {Null}]

Row ==
    [kind : Kind, uid : Uid, version : Changeset,
     name : HostName \cup LocalName, host : 0 .. MaxUid,
     note : Note \cup {Null}, dest : BOOLEAN]

ObjectOf(row) ==
    [kind |-> row.kind, uid |-> row.uid, name |-> row.name,
     host |-> row.host, note |-> row.note]

TypeOK ==
    /\ num \in [Id -> Nat]
    /\ base \in [Changeset -> Nat]
    /\ seq \in Id
    /\ history \subseteq Row
    /\ production \subseteq Object
    /\ uid \in [Kind -> 0 .. MaxUid]
    /\ calls \in 0 .. MaxCalls

SameObject(o, p) == o.kind = p.kind /\ o.uid = p.uid
SameName(o, p) == o.kind = p.kind /\ o.host = p.host /\ o.name = p.name
NamesDiffer(rows) == \A r, q \in rows : SameName(r, q) => r = q

-----------------------------------------------------------------------------
(* Reading the tables                                                      *)

Newest == CHOOSE n \in {num[i] : i \in Id} : \A i \in Id : num[i] <= n

\* The last rows of the objects changed in the revisions a + 1 .. b.
ChangesBetween(a, b) ==
    LET rows == {r \in history : num[r.version] \in (a + 1) .. b}
    IN  {r \in rows : \A q \in rows :
            SameObject(q, r) => num[q.version] <= num[r.version]}

At(n) == {r \in ChangesBetween(0, n) : ~r.dest}

Own(c) == {r \in history : r.version = c}

DataVersion(c) ==
    {r \in Own(c) : ~r.dest}
    \cup {r \in At(base[c]) : \A q \in Own(c) : ~SameObject(q, r)}

\* The row of the changeset comes first, be it of a deleted host.
HostUids(c, name) ==
    LET named(rows) == {r.uid : r \in {q \in rows :
                                          q.kind = "host" /\ q.name = name}}
    IN  IF named(Own(c)) # {} THEN named(Own(c)) ELSE named(DataVersion(c))

\* The rows of all changesets come first, whichever the database finds.
InterfaceUids(c, host, name) ==
    LET named(rows) == {r.uid : r \in {q \in rows :
               q.kind = "interface" /\ q.host = host /\ q.name = name}}
    IN  IF named(history) # {} THEN named(history) ELSE named(At(base[c]))

Uids(c, name) ==
    IF KindOf(name) = "host"
    THEN HostUids(c, name[1])
    ELSE UNION {InterfaceUids(c, h, name[2]) : h \in HostUids(c, name[1])}

-----------------------------------------------------------------------------
(* Changing objects in a changeset                                         *)

\* The row of an object in the changeset, copied from the parent revision
\* when there is none; an object that is not there either has no row.
Touched(c, kind, u) ==
    LET rows(from) == {r \in from : r.kind = kind /\ r.uid = u}
    IN  IF rows(Own(c)) # {}
        THEN rows(Own(c))
        ELSE {[r EXCEPT !.version = c] : r \in rows(At(base[c]))}

\* Both the copy and the change have to leave the names of the changeset
\* unique, a deleted object's included.
Write(c, before, after) ==
    LET others == Own(c) \ before
    IN  /\ NamesDiffer(others \cup before)
        /\ NamesDiffer(others \cup after)
        /\ history' = (history \ before) \cup after
        /\ UNCHANGED <<num, base, seq, production, uid>>

SetAttribute(c, name, value) ==
    \E u \in Uids(c, name) :
        LET rows == Touched(c, KindOf(name), u)
        IN  Write(c, rows, {[r EXCEPT !.note = value] : r \in rows})

\* The host of an interface is an attribute as well.
SetHost(c, name, host) ==
    /\ KindOf(name) = "interface"
    /\ \E h \in HostUids(c, host), u \in Uids(c, name) :
          LET rows == Touched(c, "interface", u)
          IN  Write(c, rows, {[r EXCEPT !.host = h] : r \in rows})

SetName(c, name, new) ==
    /\ KindOf(name) = "host" /\ KindOf(new) = "host"
    /\ \E u \in Uids(c, name) :
          LET rows == Touched(c, "host", u)
          IN  Write(c, rows, {[r EXCEPT !.name = new[1]] : r \in rows})

\* The name of an interface says which host it is on.
SetNameEmbed(c, name, new) ==
    /\ KindOf(name) = "interface" /\ KindOf(new) = "interface"
    /\ \E u \in Uids(c, name), h \in HostUids(c, new[1]) :
          LET rows == Touched(c, "interface", u)
          IN  Write(c, rows,
                    {[r EXCEPT !.name = new[2], !.host = h] : r \in rows})

Del(c, name) ==
    \E u \in Uids(c, name) :
        LET rows == Touched(c, KindOf(name), u)
        IN  Write(c, rows, {[r EXCEPT !.dest = TRUE] : r \in rows})

Undel(c, name) ==
    \E u \in Uids(c, name) :
        LET rows == {r \in Own(c) : r.kind = KindOf(name) /\ r.uid = u}
        IN  /\ rows # {}
            /\ Write(c, rows, {[r EXCEPT !.dest = FALSE] : r \in rows})

\* A new object, unless the changeset has a row of that name; the parent
\* revision is not asked.
Insert(c, kind, host, name) ==
    LET row == [kind |-> kind, uid |-> uid[kind] + 1, version |-> c,
                name |-> name, host |-> host, note |-> Null, dest |-> FALSE]
    IN  /\ uid[kind] < MaxUid
        /\ NamesDiffer(Own(c) \cup {row})
        /\ history' = history \cup {row}
        /\ uid' = [uid EXCEPT ![kind] = @ + 1]
        /\ UNCHANGED <<num, base, seq, production>>

AddHost(c, name) == Insert(c, "host", 0, name)

AddInterface(c, hostName, name) ==
    \E h \in HostUids(c, hostName) : Insert(c, "interface", h, name)

\* The local name is left to the server: the first one no interface the
\* changeset shows on that host has.
AddUnnamed(c, hostName) ==
    \E h \in HostUids(c, hostName) :
        LET taken == {r.name : r \in {q \in DataVersion(c) :
                                  q.kind = "interface" /\ q.host = h}}
            free == LocalName \ taken
        IN  \E n \in free :
                /\ \A m \in free : n <= m
                /\ Insert(c, "interface", h, n)

-----------------------------------------------------------------------------
(* Changesets                                                              *)

Start ==
    /\ seq < MaxId
    /\ seq' = seq + 1
    /\ base' = [base EXCEPT ![seq + 1] = Newest]
    /\ UNCHANGED <<num, history, production, uid, calls>>

Abort(c) ==
    /\ base[c] # 0
    /\ base' = [base EXCEPT ![c] = 0]
    /\ UNCHANGED <<num, seq, history, production, uid, calls>>

\* The UPDATE of a production table meets its rows in some order, and its
\* names have to be unique after each of them.
Updatable(rows) ==
    \E rank \in [rows -> 1 .. Cardinality(rows)] :
        /\ \A r, q \in rows : rank[r] = rank[q] => r = q
        /\ \A r \in rows, p \in production :
              SameName(p, r) /\ ~SameObject(p, r) =>
                  \E q \in rows : SameObject(q, p) /\ rank[q] < rank[r]

\* New rows are inserted before the deleted ones go; where the references
\* lead is looked at in the end.
CommitUndeleted(c) ==
    LET live == {ObjectOf(r) : r \in {q \in Own(c) : ~q.dest}}
        updates == {o \in live : \E p \in production : SameObject(o, p)}
        kept == {p \in production : \A o \in live : ~SameObject(o, p)}
    IN  /\ base[c] = Newest
        /\ \A k \in Kind : Updatable({o \in updates : o.kind = k})
        /\ NamesDiffer(kept \cup live)
        /\ production' = kept \cup live
        /\ \A o \in production' : o.kind = "interface" =>
              \E h \in production' : h.kind = "host" /\ h.uid = o.host
        /\ num' = [num EXCEPT ![c] = Newest + 1]
        /\ base' = [base EXCEPT ![c] = 0]
        /\ UNCHANGED <<seq, history, uid, calls>>

CommitStale(c) ==
    LET live == {ObjectOf(r) : r \in {q \in Own(c) : ~q.dest}}
        updates == {o \in live : \E p \in production : SameObject(o, p)}
        kept == {p \in production : \A o \in live : ~SameObject(o, p)}
        deleted == {p \in kept : \E r \in Own(c) : r.dest /\ SameObject(r, p)}
    IN  /\ base[c] # 0
        /\ \A k \in Kind : Updatable({o \in updates : o.kind = k})
        /\ NamesDiffer(kept \cup live)
        /\ production' = (kept \cup live) \ deleted
        /\ \A o \in production' : o.kind = "interface" =>
              \E h \in production' : h.kind = "host" /\ h.uid = o.host
        /\ num' = [num EXCEPT ![c] = Newest + 1]
        /\ base' = [base EXCEPT ![c] = 0]
        /\ UNCHANGED <<seq, history, uid, calls>>

Commit(c) ==
    LET live == {ObjectOf(r) : r \in {q \in Own(c) : ~q.dest}}
        updates == {o \in live : \E p \in production : SameObject(o, p)}
        kept == {p \in production : \A o \in live : ~SameObject(o, p)}
        deleted == {p \in kept : \E r \in Own(c) : r.dest /\ SameObject(r, p)}
    IN  /\ base[c] = Newest
        /\ \A k \in Kind : Updatable({o \in updates : o.kind = k})
        /\ NamesDiffer(kept \cup live)
        /\ production' = (kept \cup live) \ deleted
        /\ \A o \in production' : o.kind = "interface" =>
              \E h \in production' : h.kind = "host" /\ h.uid = o.host
        /\ num' = [num EXCEPT ![c] = Newest + 1]
        /\ base' = [base EXCEPT ![c] = 0]
        /\ UNCHANGED <<seq, history, uid, calls>>

-----------------------------------------------------------------------------
Init ==
    /\ num = [i \in Id |-> IF i = 0 THEN 1 ELSE 0]
    /\ base = [c \in Changeset |-> 0]
    /\ seq = 0
    /\ history = {}
    /\ production = {}
    /\ uid = [k \in Kind |-> 0]
    /\ calls = 0

\* A call needs a changeset that is open (get_current_changeset).
Change(c) ==
    /\ base[c] # 0
    /\ calls < MaxCalls
    /\ calls' = calls + 1
    /\ \/ \E name \in Name :
             \/ \E value \in Note \cup {Null} : SetAttribute(c, name, value)
             \/ \E host \in HostName : SetHost(c, name, host)
             \/ \E new \in Name : SetName(c, name, new) \/ SetNameEmbed(c, name, new)
             \/ Del(c, name)
             \/ Undel(c, name)
       \/ \E host \in HostName :
             \/ AddHost(c, host)
             \/ \E local \in LocalName : AddInterface(c, host, local)
             \/ AddUnnamed(c, host)

Next == Start \/ \E c \in Changeset : Change(c) \/ Abort(c) \/ Commit(c)

Spec == Init /\ [][Next]_vars

-----------------------------------------------------------------------------
(* Differences, of hosts                                                   *)

Hosts(rows) == {r \in rows : r.kind = "host"}

Live(rows) == {r \in rows : ~r.dest}
Was(old, r) == {o \in old : SameObject(o, r)}

DeletedIn(old, changed) ==
    {o.name : o \in UNION {Was(old, r) : r \in changed \ Live(changed)}}

RenamedIn(old, changed) ==
    UNION {{<<o.name, r.name>> : o \in {p \in Was(old, r) : p.name # r.name}} :
             r \in Live(changed)}

CreatedAnyway(old, changed) == {r.name : r \in {q \in changed : Was(old, q) = {}}}
CreatedIn(old, changed) ==
    {r.name : r \in {q \in Live(changed) : Was(old, q) = {}}}

\* Values that are new, by the name an object has in the end.
SetIn(old, changed) ==
    {<<r.name, r.note>> : r \in {q \in Live(changed) :
        IF Was(old, q) = {} THEN q.note # Null
        ELSE \E o \in Was(old, q) : o.note # q.note}}

\* What the diff functions report of the rows `changed` against a revision.
Diff(old, changed) ==
    [deleted |-> DeletedIn(old, changed), renamed |-> RenamedIn(old, changed),
     created |-> CreatedIn(old, changed), set |-> SetIn(old, changed)]

DiffBetween(a, b) == Diff(Hosts(At(a)), Hosts(ChangesBetween(a, b)))
DiffOf(c) == Diff(Hosts(At(base[c])), Hosts(Own(c)))

-----------------------------------------------------------------------------
(* Properties                                                              *)

\* The production tables, which the commits keep up row by row, hold what
\* the history tables say of the newest revision (commit_string and
\* data_version_function_string of constants.py).
ProductionIsNewest == production = {ObjectOf(r) : r \in At(Newest)}

\* What a revision contains never changes again, whatever is written to the
\* rows of changesets and whichever of them become revisions
\* (data_version_function_string of constants.py).
RevisionsStay == [][\A n \in 1 .. Newest : At(n)' = At(n)]_vars

\* Hosts by name, as a client has them, after a diff has been applied to them.
Values(rows) == {<<r.name, r.note>> : r \in Hosts(rows)}

NewName(diff, n) ==
    IF \E m \in diff.renamed : m[1] = n
    THEN (CHOOSE m \in diff.renamed : m[1] = n)[2] ELSE n
Named(values, diff) ==
    {<<NewName(diff, v[1]), v[2]>> : v \in {w \in values : w[1] \notin diff.deleted}}
    \cup {<<n, Null>> : n \in diff.created}
Patched(values, diff) ==
    {v \in Named(values, diff) : \A s \in diff.set : s[1] # v[1]} \cup diff.set

\* The difference of two revisions, whatever happened to the objects between
\* them, turns the first into the second, and that of a changeset whose names
\* differ turns its parent into what the changeset shows
\* (diff_init_function_string and the diff functions of constants.py).
DiffIsPatch ==
    /\ \A a, b \in 1 .. Newest : a <= b =>
          Patched(Values(At(a)), DiffBetween(a, b)) = Values(At(b))
    /\ \A c \in Changeset : base[c] # 0 /\ NamesDiffer(DataVersion(c)) =>
          Patched(Values(At(base[c])), DiffOf(c)) = Values(DataVersion(c))

\* The tables implement the store of revisions and changesets clients are
\* told of: revisions never change, changesets do not see one another, and a
\* commit makes exactly what the changeset shows a revision.
Store == INSTANCE ObjectStore WITH
    log <- [n \in 1 .. Newest |-> {ObjectOf(r) : r \in At(n)}],
    view <- [c \in Changeset |->
               IF base[c] = 0 THEN {} ELSE {ObjectOf(r) : r \in DataVersion(c)}]

ImplementsStore == Store!Spec
=============================================================================
