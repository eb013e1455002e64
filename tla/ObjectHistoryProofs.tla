-------------------------- MODULE ObjectHistoryProofs --------------------------
(***************************************************************************)
(* Proofs about ObjectHistory: the types, that revisions never change,     *)
(* that the production tables hold the newest revision, that the tables    *)
(* are the store clients are told of, and that differences are patches.    *)
(*                                                                         *)
(* What holds the arguments together is that a row is written only while   *)
(* its version is no revision (OpenIsNoRevision): rows of revisions are    *)
(* never touched, and the rows a commit turns into a revision are exactly  *)
(* those of its changeset.  That a call changes one object, and a revision *)
(* has one row of each, comes from the primary keys and the sequences      *)
(* (RowsHaveKeys, RowsAreNumbered, NumsDiffer).                            *)
(***************************************************************************)
EXTENDS Sequences, ObjectHistory, WellFoundedInduction, TLAPS

\* max(num) exists: there is a last revision.
HasNewest ==
    \E n \in Nat \ {0} :
        /\ \A i \in Id : num[i] <= n
        /\ \E i \in Id : num[i] = n

\* An open changeset is no revision, nor is one that has not been started.
OpenIsNoRevision ==
    \A c \in Changeset :
        /\ base[c] # 0 => (num[c] = 0 /\ c <= seq)
        /\ c > seq => num[c] = 0

\* The primary key of a history table.
RowsHaveKeys ==
    \A r, q \in history : SameObject(r, q) /\ r.version = q.version => r = q

\* A uid was given out by the sequence of its kind, a version by that of the
\* changesets.
RowsAreNumbered ==
    \A r \in history : r.uid <= uid[r.kind] /\ r.version <= seq

\* What is embedded has a host, and hosts are not embedded.
HostsStandAlone == \A r \in history : r.kind = "host" => r.host = 0

NumsDiffer == \A i, j \in Id : num[i] = num[j] /\ num[i] # 0 => i = j

\* No changeset is based on a revision that is still to come.
BasesAreRevisions == \A c \in Changeset : \E i \in Id : base[c] <= num[i]

IInv ==
    /\ TypeOK /\ HasNewest /\ OpenIsNoRevision
    /\ RowsHaveKeys /\ RowsAreNumbered /\ HostsStandAlone
    /\ NumsDiffer /\ BasesAreRevisions

-----------------------------------------------------------------------------

LEMMA NewestIsMax ==
    ASSUME TypeOK, HasNewest
    PROVE  /\ Newest \in Nat \ {0}
           /\ \A i \in Id : num[i] <= Newest
           /\ \E i \in Id : num[i] = Newest
<1>1. PICK n \in Nat \ {0} :
        /\ \A i \in Id : num[i] <= n
        /\ \E i \in Id : num[i] = n
  BY DEF HasNewest
<1>2. n \in {num[i] : i \in Id}
  BY <1>1
<1>3. /\ Newest \in {num[i] : i \in Id}
      /\ \A i \in Id : num[i] <= Newest
  BY <1>1, <1>2 DEF Newest
<1>4. Newest \in Nat /\ n <= Newest
  BY <1>1, <1>3 DEF TypeOK
<1>. QED
  BY <1>1, <1>3, <1>4

LEMMA RowsAreHistory ==
    ASSUME NEW c \in Changeset
    PROVE  /\ Own(c) \subseteq history
           /\ \A n : At(n) \subseteq history
           /\ DataVersion(c) \subseteq history
BY DEF Own, At, DataVersion, ChangesBetween

LEMMA UidsAreUids ==
    ASSUME TypeOK, NEW c \in Changeset
    PROVE  /\ \A name : HostUids(c, name) \subseteq Uid
           /\ \A host, name : InterfaceUids(c, host, name) \subseteq Uid
           /\ \A name : Uids(c, name) \subseteq Uid
<1>1. \A r \in history : r.uid \in Uid
  BY DEF TypeOK, Row
<1>2. \A name : HostUids(c, name) \subseteq Uid
  BY <1>1, RowsAreHistory DEF HostUids
<1>3. \A host, name : InterfaceUids(c, host, name) \subseteq Uid
  BY <1>1, RowsAreHistory DEF InterfaceUids
<1>. QED
  BY <1>2, <1>3 DEF Uids

\* A revision has one row of an object at most.
LEMMA OneRowPerObject ==
    ASSUME IInv, NEW n
    PROVE  \A r, q \in At(n) : SameObject(r, q) => r = q
<1>. SUFFICES ASSUME NEW r \in At(n), NEW q \in At(n), SameObject(r, q) PROVE r = q
  OBVIOUS
<1>1. /\ r \in history /\ q \in history /\ num[r.version] \in 1 .. n
      /\ num[q.version] <= num[r.version] /\ num[r.version] <= num[q.version]
  BY DEF At, ChangesBetween, SameObject
<1>2. /\ r.version \in Id /\ q.version \in Id
      /\ num[r.version] \in Nat /\ num[q.version] \in Nat
  BY <1>1 DEF IInv, TypeOK, Row, Changeset
<1>3. num[r.version] = num[q.version] /\ num[r.version] # 0
  BY <1>1, <1>2
<1>4. r.version = q.version
  BY <1>2, <1>3 DEF IInv, NumsDiffer
<1>. QED
  BY <1>1, <1>4 DEF IInv, RowsHaveKeys

\* One row at most, of a changeset and of one object that has a uid.
OneRow(rows, c, kind, u) ==
    /\ \A r \in rows : /\ r \in Row /\ r.version = c
                       /\ r.kind = kind /\ r.uid = u /\ u <= uid[kind]
                       /\ kind = "host" => r.host = 0
    /\ \A r, q \in rows : r = q

\* The rows a call works on are rows of its changeset, and all that this has
\* of the object.
LEMMA TouchedIsOwn ==
    ASSUME IInv, NEW c \in Changeset, NEW kind, NEW u
    PROVE  /\ OneRow(Touched(c, kind, u), c, kind, u)
           /\ \A r \in Own(c) : r.kind = kind /\ r.uid = u => r \in Touched(c, kind, u)
<1>1. \A r \in Own(c) : r \in Row /\ r.version = c /\ r \in history
  BY DEF Own, IInv, TypeOK
<1>2. \A r \in At(base[c]) : r \in Row /\ r \in history
  BY RowsAreHistory DEF IInv, TypeOK
<1>3. \A r \in Row : /\ [r EXCEPT !.version = c] \in Row
                     /\ [r EXCEPT !.version = c].version = c
                     /\ [r EXCEPT !.version = c].kind = r.kind
                     /\ [r EXCEPT !.version = c].uid = r.uid
                     /\ [r EXCEPT !.version = c].host = r.host
  BY DEF Row
<1>. DEFINE own == {r \in Own(c) : r.kind = kind /\ r.uid = u}
            parent == {r \in At(base[c]) : r.kind = kind /\ r.uid = u}
            copies == {[r EXCEPT !.version = c] : r \in parent}
<1>4. Touched(c, kind, u) = IF own # {} THEN own ELSE copies
  BY Zenon DEF Touched
<1>5. \A r \in history : r.uid <= uid[r.kind] /\ (r.kind = "host" => r.host = 0)
  BY DEF IInv, RowsAreNumbered, HostsStandAlone
<1>6. OneRow(own, c, kind, u)
  <2>1. \A r, q \in own : r = q
    BY <1>1 DEF IInv, RowsHaveKeys, SameObject
  <2>. QED
    BY <1>1, <1>5, <2>1 DEF OneRow
<1>7. OneRow(copies, c, kind, u)
  <2>1. \A r, q \in parent : r = q
    BY OneRowPerObject DEF SameObject
  <2>2. \A r \in parent : /\ r \in Row /\ r.kind = kind /\ r.uid = u /\ u <= uid[kind]
                          /\ kind = "host" => r.host = 0
    BY <1>2, <1>5
  <2>. HIDE DEF parent
  <2>3. \A r \in copies : /\ r \in Row /\ r.version = c
                          /\ r.kind = kind /\ r.uid = u /\ u <= uid[kind]
                          /\ kind = "host" => r.host = 0
    <3>1. SUFFICES ASSUME NEW p \in parent
                   PROVE  LET r == [p EXCEPT !.version = c]
                          IN  /\ r \in Row /\ r.version = c
                              /\ r.kind = kind /\ r.uid = u /\ u <= uid[kind]
                              /\ kind = "host" => r.host = 0
      OBVIOUS
    <3>. QED
      BY <1>3, <2>2
  <2>4. \A r, q \in copies : r = q
    BY <2>1
  <2>. QED
    BY <2>3, <2>4 DEF OneRow
<1>8. \A r \in Own(c) : r.kind = kind /\ r.uid = u => r \in own
  OBVIOUS
<1>. HIDE DEF own, copies
<1>. QED
  BY <1>4, <1>6, <1>7, <1>8

LEMMA NamesOfKinds ==
    ASSUME NEW name \in Name
    PROVE  /\ name[1] \in HostName
           /\ KindOf(name) \in Kind
           /\ KindOf(name) = "interface" => name[2] \in LocalName
BY DEF Name, KindOf, Kind

\* What a call writes: it replaces rows of its changeset by rows of it.
Writes(c, before, after) ==
    /\ history' = (history \ before) \cup after
    /\ \A r \in before : r.version = c
    /\ \A r \in after : r \in Row /\ r.version = c
    /\ UNCHANGED <<num, base, seq, production>>

\* It replaces all that its changeset has of one object by one row at most.
IsOf(c, kind, u, before, after) ==
    /\ \A r \in before \cup after : r.kind = kind /\ r.uid = u
    /\ \A r \in Own(c) : r.kind = kind /\ r.uid = u => r \in before
    /\ \A r, q \in after : r = q
    /\ \A r \in after : r.uid <= uid'[r.kind] /\ (r.kind = "host" => r.host = 0)

\* Every call that changes an object writes to its changeset only, and what it
\* writes is of that object.
LEMMA ChangeWrites ==
    ASSUME IInv, NEW c \in Changeset, Change(c)
    PROVE  /\ base[c] # 0
           /\ \E kind \in Kind, u \in Uid : \E before, after :
                 Writes(c, before, after) /\ IsOf(c, kind, u, before, after)
           /\ uid' \in [Kind -> 0 .. MaxUid]
           /\ \A k \in Kind : uid[k] <= uid'[k]
           /\ calls' \in 0 .. MaxCalls
<1>. USE ConstantsAssumption
<1>0. TypeOK
  BY DEF IInv
<1>1. base[c] # 0 /\ calls' \in 0 .. MaxCalls
  BY <1>0 DEF Change, TypeOK
<1>. DEFINE Goal == /\ \E kind \in Kind, u \in Uid : \E before, after :
                         Writes(c, before, after) /\ IsOf(c, kind, u, before, after)
                  /\ uid' \in [Kind -> 0 .. MaxUid]
                  /\ \A k \in Kind : uid[k] <= uid'[k]
            Good(rows, kind, u) == OneRow(rows, c, kind, u)
<1>2. ASSUME NEW before, NEW after, NEW kind \in Kind, NEW u \in Uid,
             Write(c, before, after), Good(before, kind, u), Good(after, kind, u),
             \A r \in Own(c) : r.kind = kind /\ r.uid = u => r \in before
      PROVE  Goal
  <2>1. uid' = uid /\ \A k \in Kind : uid[k] \in 0 .. MaxUid
    BY <1>0, <1>2 DEF Write, TypeOK
  <2>2. Writes(c, before, after)
    BY <1>2 DEF Write, Writes, OneRow
  <2>3. IsOf(c, kind, u, before, after)
    BY <1>2, <2>1 DEF OneRow, IsOf
  <2>. QED
    BY <1>0, <1>2, <2>1, <2>2, <2>3 DEF TypeOK
<1>3. /\ \A kind, u : Good(Touched(c, kind, u), kind, u)
      /\ \A kind, u : \A r \in Own(c) : r.kind = kind /\ r.uid = u => r \in Touched(c, kind, u)
      /\ \A u \in Uid : u \in 0 .. MaxUid
      /\ \A name : HostUids(c, name) \subseteq Uid
      /\ \A name : Uids(c, name) \subseteq Uid
  BY <1>0, TouchedIsOwn, UidsAreUids DEF Uid
<1>5. ASSUME NEW name \in Name, NEW value \in Note \cup {Null},
             SetAttribute(c, name, value)
      PROVE  Goal
  <2>1. PICK u \in Uids(c, name) :
          LET rows == Touched(c, KindOf(name), u)
          IN  Write(c, rows, {[r EXCEPT !.note = value] : r \in rows})
    BY <1>5 DEF SetAttribute
  <2>. DEFINE rows == Touched(c, KindOf(name), u)
              after == {[r EXCEPT !.note = value] : r \in rows}
  <2>2. Good(rows, KindOf(name), u)
    BY <1>3
  <2>3. \A r \in Row : r.version = c =>
            /\ [r EXCEPT !.note = value] \in Row
            /\ [r EXCEPT !.note = value].version = c
            /\ [r EXCEPT !.note = value].kind = r.kind /\ [r EXCEPT !.note = value].uid = r.uid
            /\ [r EXCEPT !.note = value].host = r.host
    BY <1>5 DEF Row
  <2>5. \A r \in Own(c) : r.kind = KindOf(name) /\ r.uid = u => r \in rows
    BY <1>3
  <2>6. KindOf(name) \in Kind /\ u \in Uid
    BY <1>3, NamesOfKinds DEF Kind
  <2>. HIDE DEF rows
  <2>4. Good(after, KindOf(name), u)
    BY <2>2, <2>3 DEF OneRow
  <2>. HIDE DEF Goal, Good, after
  <2>. QED
    BY <1>2, <2>1, <2>2, <2>4, <2>5, <2>6 DEF rows, after
<1>6. ASSUME NEW name \in Name, NEW host \in HostName, SetHost(c, name, host)
      PROVE  Goal
  <2>1. PICK h \in HostUids(c, host), u \in Uids(c, name) :
          LET rows == Touched(c, "interface", u)
          IN  Write(c, rows, {[r EXCEPT !.host = h] : r \in rows})
    BY <1>6 DEF SetHost
  <2>. DEFINE rows == Touched(c, "interface", u)
              after == {[r EXCEPT !.host = h] : r \in rows}
  <2>2. Good(rows, "interface", u)
    BY <1>3
  <2>0. h \in 0 .. MaxUid
    BY <1>3
  <2>3. \A r \in Row : r.version = c =>
            /\ [r EXCEPT !.host = h] \in Row
            /\ [r EXCEPT !.host = h].version = c
            /\ [r EXCEPT !.host = h].kind = r.kind /\ [r EXCEPT !.host = h].uid = r.uid
    BY <2>0 DEF Row
  <2>5. \A r \in Own(c) : r.kind = "interface" /\ r.uid = u => r \in rows
    BY <1>3
  <2>6. "interface" \in Kind /\ u \in Uid
    BY <1>3, NamesOfKinds DEF Kind
  <2>. HIDE DEF rows
  <2>4. Good(after, "interface", u)
    BY <2>2, <2>3 DEF OneRow
  <2>. HIDE DEF Goal, Good, after
  <2>. QED
    BY <1>2, <2>1, <2>2, <2>4, <2>5, <2>6 DEF rows, after
<1>7. ASSUME NEW name \in Name, NEW new \in Name, SetName(c, name, new)
      PROVE  Goal
  <2>1. PICK u \in Uids(c, name) :
          LET rows == Touched(c, "host", u)
          IN  Write(c, rows, {[r EXCEPT !.name = new[1]] : r \in rows})
    BY <1>7 DEF SetName
  <2>. DEFINE rows == Touched(c, "host", u)
              after == {[r EXCEPT !.name = new[1]] : r \in rows}
  <2>2. Good(rows, "host", u)
    BY <1>3
  <2>0. new[1] \in HostName \cup LocalName
    BY NamesOfKinds
  <2>3. \A r \in Row : r.version = c =>
            /\ [r EXCEPT !.name = new[1]] \in Row
            /\ [r EXCEPT !.name = new[1]].version = c
            /\ [r EXCEPT !.name = new[1]].kind = r.kind /\ [r EXCEPT !.name = new[1]].uid = r.uid
            /\ [r EXCEPT !.name = new[1]].host = r.host
    BY <2>0 DEF Row
  <2>5. \A r \in Own(c) : r.kind = "host" /\ r.uid = u => r \in rows
    BY <1>3
  <2>6. "host" \in Kind /\ u \in Uid
    BY <1>3, NamesOfKinds DEF Kind
  <2>. HIDE DEF rows
  <2>4. Good(after, "host", u)
    BY ZenonT(40), <2>2, <2>3 DEF OneRow
  <2>. HIDE DEF Goal, Good, after
  <2>. QED
    BY <1>2, <2>1, <2>2, <2>4, <2>5, <2>6 DEF rows, after
<1>8. ASSUME NEW name \in Name, NEW new \in Name, SetNameEmbed(c, name, new)
      PROVE  Goal
  <2>1. PICK u \in Uids(c, name), h \in HostUids(c, new[1]) :
          LET rows == Touched(c, "interface", u)
          IN  Write(c, rows, {[r EXCEPT !.name = new[2], !.host = h] : r \in rows})
    BY <1>8 DEF SetNameEmbed
  <2>. DEFINE rows == Touched(c, "interface", u)
              after == {[r EXCEPT !.name = new[2], !.host = h] : r \in rows}
  <2>7. Write(c, rows, after)
    BY <2>1
  <2>2. Good(rows, "interface", u)
    BY <1>3
  <2>0. new[2] \in HostName \cup LocalName /\ h \in 0 .. MaxUid
    BY <1>3, <1>8, NamesOfKinds DEF SetNameEmbed
  <2>3. \A r \in Row : r.version = c =>
            /\ [r EXCEPT !.name = new[2], !.host = h] \in Row
            /\ [r EXCEPT !.name = new[2], !.host = h].version = c
            /\ [r EXCEPT !.name = new[2], !.host = h].kind = r.kind /\ [r EXCEPT !.name = new[2], !.host = h].uid = r.uid
    BY <2>0 DEF Row
  <2>5. \A r \in Own(c) : r.kind = "interface" /\ r.uid = u => r \in rows
    BY <1>3
  <2>6. "interface" \in Kind /\ u \in Uid
    BY <1>3, NamesOfKinds DEF Kind
  <2>. HIDE DEF rows
  <2>4. Good(after, "interface", u)
    BY ZenonT(40), <2>2, <2>3 DEF OneRow
  <2>. HIDE DEF Goal, Good, after
  <2>. QED
    BY <1>2, <2>2, <2>4, <2>5, <2>6, <2>7
<1>9. ASSUME NEW name \in Name, Del(c, name)
      PROVE  Goal
  <2>1. PICK u \in Uids(c, name) :
          LET rows == Touched(c, KindOf(name), u)
          IN  Write(c, rows, {[r EXCEPT !.dest = TRUE] : r \in rows})
    BY <1>9 DEF Del
  <2>. DEFINE rows == Touched(c, KindOf(name), u)
              after == {[r EXCEPT !.dest = TRUE] : r \in rows}
  <2>2. Good(rows, KindOf(name), u)
    BY <1>3
  <2>3. \A r \in Row : r.version = c =>
            /\ [r EXCEPT !.dest = TRUE] \in Row
            /\ [r EXCEPT !.dest = TRUE].version = c
            /\ [r EXCEPT !.dest = TRUE].kind = r.kind /\ [r EXCEPT !.dest = TRUE].uid = r.uid
            /\ [r EXCEPT !.dest = TRUE].host = r.host
    BY DEF Row
  <2>5. \A r \in Own(c) : r.kind = KindOf(name) /\ r.uid = u => r \in rows
    BY <1>3
  <2>6. KindOf(name) \in Kind /\ u \in Uid
    BY <1>3, NamesOfKinds DEF Kind
  <2>. HIDE DEF rows
  <2>4. Good(after, KindOf(name), u)
    BY <2>2, <2>3 DEF OneRow
  <2>. HIDE DEF Goal, Good, after
  <2>. QED
    BY <1>2, <2>1, <2>2, <2>4, <2>5, <2>6 DEF rows, after
<1>10. ASSUME NEW name \in Name, Undel(c, name)
       PROVE  Goal
  <2>1. PICK u \in Uids(c, name) : LET rows == {r \in Own(c) : r.kind = KindOf(name) /\ r.uid = u}
                 IN  Write(c, rows, {[r EXCEPT !.dest = FALSE] : r \in rows})
    BY <1>10 DEF Undel
  <2>. DEFINE rows == {r \in Own(c) : r.kind = KindOf(name) /\ r.uid = u}
              after == {[r EXCEPT !.dest = FALSE] : r \in rows}
  <2>2. Good(rows, KindOf(name), u)
    <3>1. \A r \in Own(c) : r \in Row /\ r.version = c /\ r \in history
      BY <1>0 DEF Own, TypeOK
    <3>2. \A r \in history : r.uid <= uid[r.kind] /\ (r.kind = "host" => r.host = 0)
      BY DEF IInv, RowsAreNumbered, HostsStandAlone
    <3>3. \A r, q \in rows : r = q
      BY <3>1 DEF IInv, RowsHaveKeys, SameObject
    <3>. QED
      BY <3>1, <3>2, <3>3 DEF OneRow
  <2>3. \A r \in Row : r.version = c =>
            /\ [r EXCEPT !.dest = FALSE] \in Row
            /\ [r EXCEPT !.dest = FALSE].version = c
            /\ [r EXCEPT !.dest = FALSE].kind = r.kind /\ [r EXCEPT !.dest = FALSE].uid = r.uid
            /\ [r EXCEPT !.dest = FALSE].host = r.host
    BY DEF Row
  <2>5. \A r \in Own(c) : r.kind = KindOf(name) /\ r.uid = u => r \in rows
    OBVIOUS
  <2>6. KindOf(name) \in Kind /\ u \in Uid
    BY <1>3, NamesOfKinds DEF Kind
  <2>. HIDE DEF rows
  <2>4. Good(after, KindOf(name), u)
    BY <2>2, <2>3 DEF OneRow
  <2>. HIDE DEF Goal, Good, after
  <2>. QED
    BY <1>2, <2>1, <2>2, <2>4, <2>5, <2>6 DEF rows, after
<1>11. ASSUME NEW kind \in Kind, NEW host \in 0 .. MaxUid,
              NEW name \in HostName \cup LocalName, kind = "host" => host = 0,
              Insert(c, kind, host, name)
       PROVE  Goal
  <2>. DEFINE row == [kind |-> kind, uid |-> uid[kind] + 1, version |-> c,
                      name |-> name, host |-> host, note |-> Null,
                      dest |-> FALSE]
  <2>1. /\ uid[kind] + 1 \in Uid /\ uid' \in [Kind -> 0 .. MaxUid]
        /\ \A k \in Kind : uid[k] <= uid'[k]
        /\ uid'[kind] = uid[kind] + 1
    BY <1>0, <1>11 DEF Insert, TypeOK, Uid
  <2>2. /\ row \in Row /\ row.version = c
        /\ row.kind = kind /\ row.uid = uid[kind] + 1
        /\ row.kind = "host" => row.host = 0
    BY <1>11, <2>1 DEF Row
  <2>3. history' = history \cup {row} /\ UNCHANGED <<num, base, seq, production>>
    BY <1>11 DEF Insert
  <2>4. \A r \in Own(c) : ~(r.kind = kind /\ r.uid = uid[kind] + 1)
    <3>1. \A r \in Own(c) : r \in history
      BY DEF Own
    <3>2. \A r \in history : r.uid <= uid[r.kind]
      BY DEF IInv, RowsAreNumbered
    <3>3. uid[kind] \in Nat /\ ~(uid[kind] + 1 <= uid[kind])
      BY <1>0, <1>11 DEF TypeOK
    <3>. QED
      BY <3>1, <3>2, <3>3
  <2>. HIDE DEF row
  <2>5. Writes(c, {}, {row})
    BY <2>2, <2>3 DEF Writes
  <2>6. IsOf(c, kind, uid[kind] + 1, {}, {row})
    <3>1. row.uid <= uid'[row.kind]
      BY <2>1, <2>2 DEF Uid
    <3>. QED
      BY <2>2, <2>4, <3>1 DEF IsOf
  <2>. QED
    BY <1>11, <2>1, <2>5, <2>6
<1>12. ASSUME NEW host \in HostName,
              \/ AddHost(c, host)
              \/ \E local \in LocalName : AddInterface(c, host, local)
              \/ AddUnnamed(c, host)
       PROVE  Goal
  <2>. HIDE DEF Goal
  <2>1. CASE AddHost(c, host)
    BY <1>11, <2>1 DEF AddHost, Kind
  <2>2. CASE \E local \in LocalName : AddInterface(c, host, local)
    BY <1>3, <1>11, <2>2 DEF AddInterface, Kind
  <2>3. CASE AddUnnamed(c, host)
    <3>1. PICK h \in HostUids(c, host), n \in LocalName :
            Insert(c, "interface", h, n)
      BY <2>3 DEF AddUnnamed
    <3>. QED
      BY <1>3, <1>11, <3>1 DEF Kind
  <2>. QED
    BY <1>12, <2>1, <2>2, <2>3
<1>. QED
  <2>. HIDE DEF Goal
  <2>1. Goal
    BY <1>5, <1>6, <1>7, <1>8, <1>9, <1>10, <1>12 DEF Change
  <2>. QED
    BY <1>1, <2>1 DEF Goal

\* A revision is made of the rows of its revisions: where these and their
\* numbers stay, it stays.
LEMMA RowsMakeRevisions ==
    ASSUME NEW n,
           {r \in history' : num'[r.version] \in 1 .. n}
               = {r \in history : num[r.version] \in 1 .. n},
           \A r \in history : num[r.version] \in 1 .. n =>
               num'[r.version] = num[r.version]
    PROVE  At(n)' = At(n)
<1>. DEFINE rows == {r \in history : num[r.version] \in 1 .. n}
<1>1. At(n) = {r \in rows : /\ ~r.dest
                            /\ \A q \in rows : SameObject(q, r) =>
                                   num[q.version] <= num[r.version]}
  BY DEF At, ChangesBetween
<1>2. At(n)' = {r \in rows' : /\ ~r.dest
                              /\ \A q \in rows' : SameObject(q, r) =>
                                     num'[q.version] <= num'[r.version]}
  BY DEF At, ChangesBetween, SameObject
<1>3. rows' = rows
  OBVIOUS
<1>4. \A r \in rows : num'[r.version] = num[r.version]
  OBVIOUS
<1>. HIDE DEF rows
<1>. QED
  BY <1>1, <1>2, <1>3, <1>4

LEMMA WritesKeepRevisions ==
    ASSUME TypeOK, OpenIsNoRevision, NEW n, NEW c \in Changeset, base[c] # 0,
           NEW before, NEW after, Writes(c, before, after)
    PROVE  At(n)' = At(n)
<1>1. num[c] = 0 /\ 0 \notin 1 .. n
  BY DEF OpenIsNoRevision
<1>2. {r \in history' : num'[r.version] \in 1 .. n}
        = {r \in history : num[r.version] \in 1 .. n}
  BY <1>1 DEF Writes
<1>. QED
  BY <1>2, RowsMakeRevisions DEF Writes

LEMMA CommitKeepsRevisions ==
    ASSUME TypeOK, HasNewest, OpenIsNoRevision, NEW c \in Changeset, Commit(c),
           base[c] # 0, NEW n \in 1 .. Newest
    PROVE  At(n)' = At(n)
<1>1. /\ num[c] = 0 /\ 0 \notin 1 .. n
      /\ Newest + 1 \notin 1 .. n
      /\ history' = history /\ c \in Id
      /\ num' = [num EXCEPT ![c] = Newest + 1]
  BY NewestIsMax DEF OpenIsNoRevision, Commit, Changeset
<1>2. \A i \in Id : \/ num'[i] = num[i]
                     \/ (num'[i] \notin 1 .. n /\ num[i] \notin 1 .. n)
  <2>. TAKE i \in Id
  <2>1. i # c => num'[i] = num[i]
    BY <1>1 DEF TypeOK
  <2>2. i = c => num'[i] = Newest + 1 /\ num[i] = 0
    BY <1>1 DEF TypeOK
  <2>3. CASE i = c
    <3>1. num'[i] = Newest + 1 /\ num[i] = 0
      BY <2>2, <2>3
    <3>2. num[i] \notin 1 .. n
      BY <1>1, <3>1
    <3>3. num'[i] \notin 1 .. n
      BY <1>1, <3>1
    <3>. QED
      BY <3>2, <3>3
  <2>4. CASE i # c
    BY <2>1, <2>4
  <2>. QED
    BY <2>3, <2>4
<1>3. \A r \in history : r.version \in Id
  BY DEF TypeOK, Row, Changeset
<1>. QED
  BY <1>1, <1>2, <1>3, RowsMakeRevisions

-----------------------------------------------------------------------------

\* The inductive invariant holds in every state, and so do the types.
LEMMA InitIInv == ASSUME Init PROVE IInv
<1>. USE ConstantsAssumption DEF Init
<1>1. TypeOK
  BY DEF TypeOK, Id, Changeset, Kind
<1>2. HasNewest
  <2>1. 0 \in Id /\ num[0] = 1 /\ \A i \in Id : num[i] <= 1
    BY DEF Id
  <2>. QED
    BY <2>1 DEF HasNewest
<1>3. OpenIsNoRevision
  BY DEF OpenIsNoRevision, Changeset
<1>4. RowsHaveKeys /\ RowsAreNumbered /\ HostsStandAlone
  BY DEF RowsHaveKeys, RowsAreNumbered, HostsStandAlone
<1>5. NumsDiffer
  BY DEF NumsDiffer
<1>6. BasesAreRevisions
  <2>1. 0 \in Id /\ num[0] = 1 /\ 0 <= 1
    BY DEF Id
  <2>. QED
    BY <2>1 DEF BasesAreRevisions
<1>. QED
  BY <1>1, <1>2, <1>3, <1>4, <1>5, <1>6 DEF IInv

LEMMA StartKeepsIInv == ASSUME IInv, Start PROVE IInv'
<1>. USE ConstantsAssumption DEF IInv
<1>1. /\ seq + 1 \in Changeset /\ seq' = seq + 1 /\ Newest \in Nat
      /\ seq \in Id /\ \E i \in Id : num[i] = Newest
      /\ UNCHANGED <<num, history, uid>>
      /\ base' = [base EXCEPT ![seq + 1] = Newest] /\ base \in [Changeset -> Nat]
  BY NewestIsMax DEF Start, TypeOK, Id, Changeset
<1>2. TypeOK'
  BY <1>1 DEF Start, TypeOK, Changeset
<1>3. HasNewest' /\ RowsHaveKeys' /\ HostsStandAlone' /\ NumsDiffer'
  BY <1>1 DEF HasNewest, RowsHaveKeys, HostsStandAlone, NumsDiffer, SameObject
<1>4. OpenIsNoRevision'
  BY <1>1 DEF OpenIsNoRevision, TypeOK, Changeset, Id
<1>5. RowsAreNumbered'
  <2>1. \A r \in history : r.version \in Nat /\ (r.version <= seq => r.version <= seq + 1)
    BY <1>1 DEF TypeOK, Row, Changeset, Id
  <2>. QED
    BY <1>1, <2>1 DEF RowsAreNumbered
<1>6. BasesAreRevisions'
  <2>1. SUFFICES ASSUME NEW c \in Changeset PROVE \E i \in Id : base'[c] <= num[i]
    BY <1>1 DEF BasesAreRevisions
  <2>2. CASE c = seq + 1
    BY <1>1, <2>2
  <2>3. CASE c # seq + 1
    BY <1>1, <2>3 DEF BasesAreRevisions
  <2>. QED
    BY <2>2, <2>3
<1>. QED
  BY <1>2, <1>3, <1>4, <1>5, <1>6

LEMMA ChangeKeepsIInv == ASSUME IInv, NEW c \in Changeset, Change(c) PROVE IInv'
<1>0. PICK kind \in Kind, u \in Uid :
        \E before, after : Writes(c, before, after) /\ IsOf(c, kind, u, before, after)
  BY ChangeWrites
<1>1. PICK before, after : Writes(c, before, after) /\ IsOf(c, kind, u, before, after)
  BY <1>0
<1>2. /\ base[c] # 0 /\ uid' \in [Kind -> 0 .. MaxUid]
      /\ \A k \in Kind : uid[k] <= uid'[k]
      /\ calls' \in 0 .. MaxCalls
  BY ChangeWrites
<1>3. TypeOK'
  BY <1>1, <1>2 DEF IInv, Writes, TypeOK
<1>4. HasNewest' /\ OpenIsNoRevision' /\ NumsDiffer' /\ BasesAreRevisions'
  BY <1>1 DEF IInv, Writes, HasNewest, OpenIsNoRevision, NumsDiffer, BasesAreRevisions
<1>5. /\ history' = (history \ before) \cup after
      /\ \A r \in after : /\ r \in Row /\ r.version = c /\ r.kind = kind /\ r.uid = u
                         /\ r.uid <= uid'[r.kind] /\ (r.kind = "host" => r.host = 0)
      /\ \A r, q \in after : r = q
      /\ \A r \in history : r.version = c /\ r.kind = kind /\ r.uid = u => r \in before
      /\ seq' = seq
  BY <1>1 DEF Writes, IsOf, Own
<1>6. RowsHaveKeys'
  <2>1. SUFFICES ASSUME NEW r \in history', NEW q \in history', SameObject(r, q), r.version = q.version
                 PROVE  r = q
    BY DEF RowsHaveKeys, SameObject
  <2>2. CASE r \in after \/ q \in after
    BY <1>5, <2>1, <2>2 DEF SameObject
  <2>3. CASE r \notin after /\ q \notin after
    BY <1>5, <2>1, <2>3 DEF IInv, RowsHaveKeys
  <2>. QED
    BY <2>2, <2>3
<1>7. RowsAreNumbered'
  <2>1. SUFFICES ASSUME NEW r \in history' PROVE r.uid <= uid'[r.kind] /\ r.version <= seq
    BY <1>5 DEF RowsAreNumbered
  <2>2. CASE r \in after
    BY <1>2, <1>5, <2>2 DEF IInv, OpenIsNoRevision
  <2>3. CASE r \in history
    <3>1. r \in Row /\ r.uid <= uid[r.kind] /\ r.version <= seq
      BY <2>3 DEF IInv, RowsAreNumbered, TypeOK
    <3>2. r.kind \in Kind /\ r.uid \in Nat /\ uid[r.kind] \in Nat /\ uid'[r.kind] \in Nat
      BY <1>2, <3>1, ConstantsAssumption DEF IInv, TypeOK, Row, Uid
    <3>. QED
      BY <1>2, <3>1, <3>2
  <2>. QED
    BY <1>5, <2>2, <2>3
<1>8. HostsStandAlone'
  BY <1>5 DEF IInv, HostsStandAlone
<1>. QED
  BY <1>3, <1>4, <1>6, <1>7, <1>8 DEF IInv

LEMMA AbortKeepsIInv == ASSUME IInv, NEW c \in Changeset, Abort(c) PROVE IInv'
<1>. USE DEF IInv
<1>1. /\ base' = [base EXCEPT ![c] = 0] /\ base \in [Changeset -> Nat]
      /\ UNCHANGED <<num, seq, history, uid>>
  BY DEF Abort, TypeOK
<1>2. TypeOK'
  BY DEF Abort, TypeOK
<1>3. HasNewest' /\ RowsHaveKeys' /\ HostsStandAlone' /\ NumsDiffer' /\ RowsAreNumbered'
  BY <1>1 DEF HasNewest, RowsHaveKeys, HostsStandAlone, NumsDiffer, RowsAreNumbered, SameObject
<1>4. OpenIsNoRevision'
  BY <1>1 DEF OpenIsNoRevision
<1>5. BasesAreRevisions'
  <2>1. SUFFICES ASSUME NEW d \in Changeset PROVE \E i \in Id : base'[d] <= num[i]
    BY <1>1 DEF BasesAreRevisions
  <2>2. PICK i \in Id : base[d] <= num[i]
    BY DEF BasesAreRevisions
  <2>3. base'[d] = base[d] \/ base'[d] = 0
    BY <1>1
  <2>4. num[i] \in Nat
    BY DEF TypeOK
  <2>. QED
    BY <2>2, <2>3, <2>4
<1>. QED
  BY <1>2, <1>3, <1>4, <1>5

LEMMA CommitKeepsIInv == ASSUME IInv, NEW c \in Changeset, Commit(c) PROVE IInv'
<1>. USE DEF IInv
<1>1. PICK m \in Nat \ {0} :
        /\ m = Newest /\ base[c] = m /\ c \in Id
        /\ \A i \in Id : num[i] <= m
        /\ num' = [num EXCEPT ![c] = m + 1]
        /\ base' = [base EXCEPT ![c] = 0]
  BY NewestIsMax DEF Commit, Changeset
<1>2. UNCHANGED <<seq, history, uid, calls>>
  BY DEF Commit
<1>3. /\ \A i \in Id \ {c} : num'[i] = num[i] /\ num[i] \in Nat /\ num[i] <= m
      /\ num'[c] = m + 1 /\ m + 1 \in Nat
      /\ \A d \in Changeset \ {c} : base'[d] = base[d] /\ base[d] \in Nat
      /\ base'[c] = 0
  BY <1>1 DEF TypeOK
<1>4. production' \subseteq Object
  BY DEF Commit, TypeOK, Own, ObjectOf, Row, Object
<1>5. TypeOK'
  BY <1>1, <1>2, <1>4 DEF TypeOK
<1>6. HasNewest'
  <2>1. /\ m + 1 \in Nat \ {0}
        /\ \A i \in Id : num'[i] <= m + 1
        /\ num'[c] = m + 1
    BY <1>1, <1>3
  <2>. QED
    BY <1>1, <2>1 DEF HasNewest
<1>7. OpenIsNoRevision'
  <2>1. c <= seq /\ ~(c > seq)
    BY <1>1 DEF OpenIsNoRevision, TypeOK, Changeset, Id
  <2>2. \A d \in Changeset \ {c} : num'[d] = num[d]
    BY <1>3 DEF Changeset
  <2>. QED
    BY <1>2, <1>3, <2>1, <2>2 DEF OpenIsNoRevision
<1>8. RowsHaveKeys' /\ HostsStandAlone' /\ RowsAreNumbered'
  BY <1>2 DEF RowsHaveKeys, HostsStandAlone, RowsAreNumbered, SameObject
<1>9. NumsDiffer'
  <2>1. SUFFICES ASSUME NEW i \in Id, NEW j \in Id, num'[i] = num'[j], num'[i] # 0 PROVE i = j
    BY DEF NumsDiffer
  <2>2. \A k \in Id \ {c} : num'[k] # m + 1
    BY <1>1, <1>3
  <2>3. CASE i = c \/ j = c
    BY <1>3, <2>1, <2>2, <2>3
  <2>4. CASE i # c /\ j # c
    BY <1>3, <2>1, <2>4 DEF NumsDiffer
  <2>. QED
    BY <2>3, <2>4
<1>10. BasesAreRevisions'
  <2>1. SUFFICES ASSUME NEW d \in Changeset PROVE base'[d] <= num'[c]
    BY <1>1 DEF BasesAreRevisions
  <2>2. CASE d = c
    BY <1>3, <2>2
  <2>3. CASE d # c
    <3>1. PICK i \in Id : base[d] <= num[i]
      BY DEF BasesAreRevisions
    <3>2. num[i] <= m /\ num[i] \in Nat /\ base[d] \in Nat
      BY <1>1 DEF TypeOK
    <3>. QED
      BY <1>3, <2>3, <3>1, <3>2
  <2>. QED
    BY <2>2, <2>3
<1>. QED
  BY <1>5, <1>6, <1>7, <1>8, <1>9, <1>10

LEMMA NextIInv == ASSUME IInv, [Next]_vars PROVE IInv'
<1>1. CASE UNCHANGED vars
  BY <1>1 DEF IInv, vars, TypeOK, HasNewest, OpenIsNoRevision, RowsHaveKeys, RowsAreNumbered,
              HostsStandAlone, NumsDiffer, BasesAreRevisions, SameObject
<1>. QED
  BY <1>1, StartKeepsIInv, ChangeKeepsIInv, AbortKeepsIInv, CommitKeepsIInv DEF Next

\* The types of all variables (the tables of constants.py and
\* create_tables.sql), and the invariant they are a part of.
THEOREM Invariant == Spec => []IInv
<1>1. Init => IInv
  BY InitIInv
<1>2. IInv /\ [Next]_vars => IInv'
  BY NextIInv
<1>. QED
  BY <1>1, <1>2, PTL DEF Spec

\* No step, whoever makes it, changes what a revision contains.
LEMMA StepKeepsRevisions ==
    ASSUME IInv, [Next]_vars, NEW n \in 1 .. Newest
    PROVE  At(n)' = At(n)
<1>. USE DEF IInv
<1>1. CASE Start \/ UNCHANGED vars
  BY <1>1, RowsMakeRevisions DEF Start, vars
<1>2. ASSUME NEW c \in Changeset, Change(c)
      PROVE  At(n)' = At(n)
  BY <1>2, ChangeWrites, WritesKeepRevisions
<1>3. ASSUME NEW c \in Changeset, Abort(c)
      PROVE  At(n)' = At(n)
  BY <1>3, RowsMakeRevisions DEF Abort
<1>4. ASSUME NEW c \in Changeset, Commit(c)
      PROVE  At(n)' = At(n)
  <2>1. base[c] # 0
    BY <1>4, NewestIsMax DEF Commit
  <2>. QED
    BY <1>4, <2>1, CommitKeepsRevisions
<1>. QED
  BY <1>1, <1>2, <1>3, <1>4 DEF Next

\* What a revision contains never changes (data_version of constants.py).
THEOREM RevisionsNeverChange == Spec => RevisionsStay
<1>1. IInv /\ [Next]_vars => [\A n \in 1 .. Newest : At(n)' = At(n)]_vars
  BY StepKeepsRevisions
<1>. QED
  BY <1>1, Invariant, PTL DEF Spec, RevisionsStay

-----------------------------------------------------------------------------

\* The revision a commit makes: the rows of the changeset, and of the parent
\* revision what the changeset has no row of.
LEMMA CommitMakesRevision ==
    ASSUME IInv, NEW c \in Changeset, Commit(c),
           NEW m \in Nat \ {0}, m = Newest
    PROVE  /\ Newest' = m + 1
           /\ At(m + 1)' =
                {r \in Own(c) : ~r.dest}
                \cup {r \in At(m) : \A q \in Own(c) : ~SameObject(q, r)}
<1>. USE DEF IInv
<1>1. /\ Newest \in Nat \ {0} /\ base[c] = Newest /\ c \in Id
      /\ \A i \in Id : num[i] <= Newest
      /\ num' = [num EXCEPT ![c] = Newest + 1]
      /\ history' = history
  BY NewestIsMax DEF Commit, Changeset
<1>2. num[c] = 0
  BY <1>1 DEF OpenIsNoRevision
<1>3. \A r \in history : r.version \in Id
  BY DEF TypeOK, Row, Changeset
<1>5. /\ num'[c] = m + 1
      /\ \A i \in Id \ {c} : num'[i] = num[i] /\ num[i] \in Nat /\ num[i] <= m
      /\ num' \in [Id -> Nat]
  BY <1>1 DEF TypeOK
<1>6. Newest' = m + 1
  <2>. DEFINE nums == {num'[i] : i \in Id}
  <2>1. m + 1 \in nums /\ \A i \in Id : num'[i] <= m + 1
    BY <1>1, <1>5
  <2>2. \A x \in nums : (\A i \in Id : num'[i] <= x) => x = m + 1
    BY <1>1, <1>5, <2>1
  <2>3. Newest' = CHOOSE x \in nums : \A i \in Id : num'[i] <= x
    BY DEF Newest
  <2>. HIDE DEF nums
  <2>. QED
    BY <2>1, <2>2, <2>3
<1>. DEFINE rows == {r \in history : num[r.version] \in 1 .. m}
            rowsNew == {r \in history : num'[r.version] \in 1 .. (m + 1)}
<1>7. rowsNew = rows \cup Own(c)
  BY <1>1, <1>2, <1>3, <1>5 DEF Own, TypeOK
<1>8. At(m) = {r \in rows : /\ ~r.dest
                            /\ \A q \in rows : SameObject(q, r) =>
                                   num[q.version] <= num[r.version]}
  BY DEF At, ChangesBetween
<1>9. At(m + 1)' = {r \in rowsNew : /\ ~r.dest
                                    /\ \A q \in rowsNew : SameObject(q, r) =>
                                         num'[q.version] <= num'[r.version]}
  BY <1>1 DEF At, ChangesBetween, SameObject
<1>10. /\ \A r \in Own(c) : num'[r.version] = m + 1
       /\ \A r \in rows : /\ num'[r.version] = num[r.version]
                          /\ num[r.version] \in 1 .. m
  <2>1. \A r \in rows : r.version \in Id \ {c} /\ num[r.version] \in 1 .. m
    BY <1>2, <1>3
  <2>. QED
    BY <1>5, <2>1 DEF Own
<1>. HIDE DEF rows, rowsNew
<1>11. ASSUME NEW r \in Own(c)
       PROVE  \A q \in rowsNew : num'[q.version] <= num'[r.version]
  BY <1>7, <1>10
<1>12. ASSUME NEW r \in rows, NEW q \in Own(c)
       PROVE  ~(num'[q.version] <= num'[r.version])
  BY <1>10
<1>13. At(m + 1)' = {r \in Own(c) : ~r.dest}
            \cup {r \in At(m) : \A q \in Own(c) : ~SameObject(q, r)}
  BY <1>7, <1>8, <1>9, <1>10, <1>11, <1>12
<1>. QED
  BY <1>6, <1>13

\* The production tables after a commit hold that revision.
LEMMA CommitKeepsProduction ==
    ASSUME IInv, ProductionIsNewest, NEW c \in Changeset, Commit(c)
    PROVE  ProductionIsNewest'
<1>1. PICK m \in Nat \ {0} : m = Newest
  BY NewestIsMax DEF IInv
<1>. DEFINE own == Own(c)
            live == {ObjectOf(r) : r \in {q \in own : ~q.dest}}
            kept == {p \in production : \A o \in live : ~SameObject(o, p)}
            deleted == {p \in kept : \E r \in own : r.dest /\ SameObject(r, p)}
            rest == {r \in At(m) : \A q \in own : ~SameObject(q, r)}
            objects == {ObjectOf(r) : r \in rest}
<1>2. production' = (kept \cup live) \ deleted
  BY DEF Commit
<1>3. \A r, q : /\ SameObject(ObjectOf(r), q) <=> SameObject(r, q)
                /\ SameObject(q, ObjectOf(r)) <=> SameObject(q, r)
                /\ SameObject(r, r)
  BY DEF ObjectOf, SameObject
<1>4. production = {ObjectOf(r) : r \in At(m)}
  BY <1>1 DEF ProductionIsNewest
<1>5. live \ deleted = live
  BY <1>3
<1>6. ASSUME NEW p \in kept \ deleted
      PROVE  p \in objects
  <2>1. ASSUME NEW q \in own, SameObject(q, p)
        PROVE  FALSE
    BY <1>3, <1>6, <2>1
  <2>2. PICK r \in At(m) : p = ObjectOf(r)
    BY <1>4, <1>6
  <2>3. r \in rest
    BY <1>3, <2>1, <2>2
  <2>. QED
    BY <2>2, <2>3
<1>7. ASSUME NEW r \in rest
      PROVE  ObjectOf(r) \in kept \ deleted
  <2>1. ObjectOf(r) \in production
    BY <1>4, <1>7
  <2>2. \A q \in own : ~SameObject(q, ObjectOf(r))
    BY <1>3, <1>7
  <2>3. \A o \in live : ~SameObject(o, ObjectOf(r))
    BY <1>3, <2>2
  <2>. QED
    BY <2>1, <2>2, <2>3
<1>8. kept \ deleted = objects
  BY <1>6, <1>7
<1>9. production' = live \cup objects
  <2>. HIDE DEF live, kept, deleted, objects
  <2>. QED
    BY <1>2, <1>5, <1>8
<1>10. /\ Newest' = m + 1
       /\ At(m + 1)' = {r \in own : ~r.dest} \cup rest
  BY <1>1, CommitMakesRevision
<1>11. At(Newest)' = At(m + 1)'
  BY <1>10 DEF At, ChangesBetween
<1>. HIDE DEF own, rest
<1>. QED
  BY <1>9, <1>10, <1>11 DEF ProductionIsNewest, ObjectOf

\* The production tables hold the newest revision (commit_string and
\* data_version of constants.py).
THEOREM ProductionFollows == Spec => []ProductionIsNewest
<1>1. Init => ProductionIsNewest
  BY DEF Init, ProductionIsNewest, At, ChangesBetween
<1>2. IInv /\ ProductionIsNewest /\ [Next]_vars => ProductionIsNewest'
  <2>. SUFFICES ASSUME IInv, ProductionIsNewest, [Next]_vars
                PROVE  ProductionIsNewest'
    OBVIOUS
  <2>1. PICK n : n = Newest
    OBVIOUS
  <2>2. ASSUME num' = num, production' = production
        PROVE  ProductionIsNewest'
    <3>1. Newest' = n
      BY <2>1, <2>2 DEF Newest
    <3>2. At(n)' = At(n)
      BY <2>1, NewestIsMax, StepKeepsRevisions DEF IInv
    <3>. QED
      BY <2>1, <2>2, <3>1, <3>2 DEF ProductionIsNewest, ObjectOf
  <2>3. CASE Start \/ UNCHANGED vars
    BY <2>2, <2>3 DEF Start, vars
  <2>4. ASSUME NEW c \in Changeset, Change(c) \/ Abort(c)
        PROVE  ProductionIsNewest'
    BY <2>2, <2>4, ChangeWrites DEF Abort, Writes, IInv
  <2>5. ASSUME NEW c \in Changeset, Commit(c)
        PROVE  ProductionIsNewest'
    BY <2>5, CommitKeepsProduction
  <2>. QED
    BY <2>3, <2>4, <2>5 DEF Next
<1>. QED
  BY <1>1, <1>2, Invariant, PTL DEF Spec

-----------------------------------------------------------------------------
(* The store clients are told of.                                          *)

Log == [n \in 1 .. Newest |-> {ObjectOf(r) : r \in At(n)}]

Shown(c) == IF base[c] = 0 THEN {} ELSE {ObjectOf(r) : r \in DataVersion(c)}
Views == [c \in Changeset |-> Shown(c)]

LEMMA FunctionIsSequence ==
    ASSUME NEW S, NEW m \in Nat, NEW f \in [1 .. m -> S]
    PROVE  f \in Seq(S) /\ Len(f) = m
  OBVIOUS

LEMMA SameSequence ==
    ASSUME NEW S, NEW s \in Seq(S), NEW t \in Seq(S), Len(s) = Len(t),
           \A i \in 1 .. Len(s) : s[i] = t[i]
    PROVE  s = t
<1>1. DOMAIN s = 1 .. Len(s) /\ DOMAIN t = 1 .. Len(t)
  OBVIOUS
<1>. QED
  BY <1>1

LEMMA AppendedFunction ==
    ASSUME NEW S, NEW m \in Nat, NEW f \in [1 .. m -> S], NEW e \in S,
           NEW g \in [1 .. (m + 1) -> S],
           \A i \in 1 .. m : g[i] = f[i], g[m + 1] = e
    PROVE  g = Append(f, e)
<1>1. f \in Seq(S) /\ Len(f) = m /\ m + 1 \in Nat
  BY FunctionIsSequence
<1>2. /\ Append(f, e) \in Seq(S) /\ Len(Append(f, e)) = m + 1
      /\ \A i \in 1 .. m : Append(f, e)[i] = f[i]
      /\ Append(f, e)[m + 1] = e
  BY <1>1
<1>3. g \in Seq(S) /\ Len(g) = m + 1
  BY <1>1, FunctionIsSequence
<1>4. \A i \in 1 .. (m + 1) : i \in 1 .. m \/ i = m + 1
  OBVIOUS
<1>5. \A i \in 1 .. (m + 1) : g[i] = Append(f, e)[i]
  BY <1>2, <1>4
<1>. QED
  BY <1>2, <1>3, <1>5, SameSequence

LEMMA LogIsSequence ==
    ASSUME IInv
    PROVE  /\ Log \in [1 .. Newest -> SUBSET Object]
           /\ Log \in Seq(SUBSET Object) /\ Len(Log) = Newest
<1>1. \A r \in history : ObjectOf(r) \in Object
  BY DEF IInv, TypeOK, Row, ObjectOf, Object
<1>2. \A n \in 1 .. Newest : {ObjectOf(r) : r \in At(n)} \in SUBSET Object
  <2>. TAKE n \in 1 .. Newest
  <2>1. At(n) \subseteq history
    BY DEF At, ChangesBetween
  <2>. QED
    BY <1>1, <2>1
<1>3. Newest \in Nat
  BY NewestIsMax DEF IInv
<1>4. Log \in [1 .. Newest -> SUBSET Object]
  BY <1>2 DEF Log
<1>. QED
  BY <1>3, <1>4, FunctionIsSequence

LEMMA OneRowIsShown ==
    ASSUME IInv, NEW c \in Changeset
    PROVE  \A r, q \in DataVersion(c) : SameObject(r, q) => r = q
<1>1. \A r, q \in Own(c) : SameObject(r, q) => r = q
  BY DEF Own, IInv, RowsHaveKeys
<1>2. \A r, q \in At(base[c]) : SameObject(r, q) => r = q
  BY OneRowPerObject
<1>. QED
  BY <1>1, <1>2 DEF DataVersion, SameObject

ShownOnce == \A c \in Changeset : \A r, q \in DataVersion(c) : SameObject(r, q) => r = q

LEMMA ObjectsAreShownOnce == (IInv => ShownOnce) /\ (IInv' => ShownOnce')
<1>1. IInv => ShownOnce
  BY OneRowIsShown DEF ShownOnce
<1>. QED
  BY <1>1, PTL

\* What a session sees stays where nothing is written to its changeset.
LEMMA ShownStays ==
    ASSUME IInv, NEW d \in Changeset, base'[d] = base[d], Own(d)' = Own(d),
           \A n \in 1 .. Newest : At(n)' = At(n)
    PROVE  Shown(d)' = Shown(d)
<1>1. PICK b : b = base[d]
  OBVIOUS
<1>2. CASE b = 0
  BY <1>1, <1>2 DEF Shown
<1>3. CASE b # 0
  <2>1. b \in 1 .. Newest
    <3>1. PICK i \in Id : b <= num[i]
      BY <1>1 DEF IInv, BasesAreRevisions
    <3>2. num[i] <= Newest /\ num[i] \in Nat /\ Newest \in Nat /\ b \in Nat
      BY <1>1, NewestIsMax DEF IInv, TypeOK
    <3>. QED
      BY <1>3, <3>1, <3>2
  <2>2. At(b)' = At(b)
    BY <2>1
  <2>3. At(base[d])' = At(b)' /\ At(base[d]) = At(b)
    BY <1>1 DEF At, ChangesBetween
  <2>4. DataVersion(d)' = DataVersion(d)
    BY <2>2, <2>3 DEF DataVersion, SameObject
  <2>. QED
    BY <1>1, <2>4 DEF Shown, ObjectOf
<1>. QED
  BY <1>2, <1>3

LEMMA LogStays ==
    ASSUME IInv, [Next]_vars, num' = num
    PROVE  Log' = Log
<1>1. PICK m : m = Newest
  OBVIOUS
<1>2. Newest' = m
  BY <1>1 DEF Newest
<1>3. \A n \in 1 .. m : At(n)' = At(n)
  BY <1>1, StepKeepsRevisions
<1>4. Log' = [n \in 1 .. m |-> {ObjectOf(r) : r \in At(n)'}]
  BY <1>2 DEF Log, At, ChangesBetween, ObjectOf
<1>. QED
  BY <1>1, <1>3, <1>4 DEF Log

LEMMA StartsStore == ASSUME Init PROVE Store!Init
<1>1. Newest = 1
  <2>1. 0 \in Id /\ num[0] = 1 /\ \A i \in Id : num[i] <= 1 /\ num[i] \in {0, 1}
    BY ConstantsAssumption DEF Init, Id
  <2>2. 1 \in {num[i] : i \in Id} /\ \A x \in {num[i] : i \in Id} : (\A i \in Id : num[i] <= x) => x = 1
    BY <2>1
  <2>. QED
    BY <2>2 DEF Newest
<1>2. \A n : {ObjectOf(r) : r \in At(n)} = {}
  BY DEF Init, At, ChangesBetween
<1>3. Log = [n \in 1 .. 1 |-> {}]
  BY <1>1, <1>2 DEF Log
<1>4. Log \in [1 .. 1 -> {{}}] /\ Log[1] = {} /\ DOMAIN Log = 1 .. 1
  BY <1>3
<1>5. Len(Log) = 1
  BY <1>4, FunctionIsSequence
<1>6. Log # <<>>
  BY <1>5
<1>7. Views = [c \in Changeset |-> {}]
  BY DEF Init, Views, Shown
<1>8. \A n \in DOMAIN Log : Store!Consistent(Log[n])
  BY <1>4 DEF Store!Consistent
<1>9. base = [c \in Changeset |-> 0]
  BY DEF Init
<1>. QED
  BY <1>4, <1>6, <1>7, <1>8, <1>9 DEF Store!Init, Log, Views, Shown

LEMMA StartStarts == ASSUME IInv, Start PROVE Store!Next
<1>1. PICK c \in Changeset : c = seq + 1
  BY ConstantsAssumption DEF Start, IInv, TypeOK, Changeset, Id
<1>2. /\ base[c] = 0 /\ base' = [base EXCEPT ![c] = Newest]
      /\ num' = num /\ history' = history /\ base \in [Changeset -> Nat]
  BY <1>1 DEF Start, IInv, OpenIsNoRevision, TypeOK, Changeset, Id
<1>3. Log' = Log /\ Len(Log) = Newest /\ Newest \in Nat \ {0}
  BY <1>2, LogStays, LogIsSequence, NewestIsMax DEF Next, IInv
<1>4. PICK m \in Nat \ {0} : m = Newest
  BY <1>3
<1>5. Own(c)' = {} /\ base'[c] = m
  <2>1. \A r \in history : r.version # c
    BY <1>1 DEF IInv, RowsAreNumbered, TypeOK, Row, Changeset, Id
  <2>. QED
    BY <1>2, <1>4, <2>1 DEF Own
<1>6. \A n \in 1 .. m : At(n)' = At(n)
  BY <1>4, StepKeepsRevisions DEF Next
<1>7. Shown(c)' = {ObjectOf(r) : r \in At(m)}
  <2>1. At(base[c])' = At(m)
    <3>1. At(base[c])' = At(m)'
      BY <1>5 DEF At, ChangesBetween
    <3>. QED
      BY <1>6, <3>1
  <2>2. DataVersion(c)' = At(m)
    BY <1>5, <2>1 DEF DataVersion
  <2>. QED
    BY <1>5, <2>2 DEF Shown, ObjectOf
<1>8. Log[Len(Log)] = {ObjectOf(r) : r \in At(m)}
  BY <1>3, <1>4 DEF Log
<1>9. \A d \in Changeset \ {c} : Shown(d)' = Shown(d)
  BY <1>2, <1>4, <1>6, ShownStays DEF Own
<1>10. Views' = [Views EXCEPT ![c] = Log[Len(Log)]]
  BY <1>7, <1>8, <1>9 DEF Views
<1>. QED
  BY <1>2, <1>3, <1>10 DEF Store!Next, Store!Start, Log, Views, Shown

LEMMA AbortAborts == ASSUME IInv, NEW c \in Changeset, Abort(c) PROVE Store!Next
<1>1. /\ base[c] # 0 /\ base' = [base EXCEPT ![c] = 0]
      /\ num' = num /\ history' = history /\ base \in [Changeset -> Nat]
  BY DEF Abort, IInv, TypeOK
<1>2. Log' = Log
  BY <1>1, LogStays DEF Next
<1>3. \A n \in 1 .. Newest : At(n)' = At(n)
  BY StepKeepsRevisions DEF Next
<1>4. \A d \in Changeset \ {c} : Shown(d)' = Shown(d)
  BY <1>1, <1>3, ShownStays DEF Own
<1>5. Shown(c)' = {}
  BY <1>1 DEF Shown
<1>6. Views' = [Views EXCEPT ![c] = {}]
  BY <1>4, <1>5 DEF Views
<1>. QED
  BY <1>1, <1>2, <1>6 DEF Store!Next, Store!Abort, Store!Leave, Log, Views, Shown

LEMMA ChangeEdits == ASSUME IInv, IInv', NEW c \in Changeset, Change(c) PROVE Store!Next
<1>0. PICK kind \in Kind, u \in Uid :
        \E before, after : Writes(c, before, after) /\ IsOf(c, kind, u, before, after)
  BY ChangeWrites
<1>1. PICK before, after : Writes(c, before, after) /\ IsOf(c, kind, u, before, after)
  BY <1>0
<1>2. /\ base[c] # 0 /\ base' = base /\ num' = num
      /\ history' = (history \ before) \cup after
      /\ \A r \in before \cup after : r.version = c /\ r.kind = kind /\ r.uid = u
  BY <1>1, ChangeWrites DEF Writes, IsOf
<1>3. Log' = Log
  BY <1>2, LogStays DEF Next
<1>4. \A n \in 1 .. Newest : At(n)' = At(n)
  BY StepKeepsRevisions DEF Next
<1>5. \A d \in Changeset \ {c} : Shown(d)' = Shown(d)
  <2>. TAKE d \in Changeset \ {c}
  <2>1. Own(d)' = Own(d)
    BY <1>2 DEF Own
  <2>. QED
    BY <1>2, <1>4, <2>1, ShownStays
<1>6. Views' = [Views EXCEPT ![c] = Views'[c]]
  BY <1>5 DEF Views
<1>7. /\ Views[c] = {ObjectOf(r) : r \in DataVersion(c)}
      /\ Views'[c] = {ObjectOf(r) : r \in DataVersion(c)'}
  BY <1>2 DEF Views, Shown, ObjectOf
<1>8. ASSUME NEW r, ~(r.kind = kind /\ r.uid = u)
      PROVE  r \in DataVersion(c) <=> r \in DataVersion(c)'
  <2>1. \A q : ~(q.kind = kind /\ q.uid = u) => (q \in Own(c) <=> q \in Own(c)')
    BY <1>2 DEF Own
  <2>2. (\E q \in Own(c) : SameObject(q, r)) <=> (\E q \in Own(c)' : SameObject(q, r))
    BY <1>8, <2>1 DEF SameObject
  <2>3. At(base[c])' = At(base[c])
    <3>1. PICK b : b = base[c]
      OBVIOUS
    <3>2. At(b)' = At(b)
      BY <1>1, <1>2, WritesKeepRevisions DEF IInv
    <3>. QED
      BY <1>2, <3>1, <3>2 DEF At, ChangesBetween
  <2>. QED
    BY <1>8, <2>1, <2>2, <2>3 DEF DataVersion, SameObject
<1>9. \A r : ObjectOf(r).kind = r.kind /\ ObjectOf(r).uid = r.uid
  BY DEF ObjectOf
<1>10. \A o \in (Views[c] \ Views'[c]) \cup (Views'[c] \ Views[c]) : o.kind = kind /\ o.uid = u
  BY <1>7, <1>8, <1>9
<1>11. \A o, p \in Views'[c] : o.kind = p.kind /\ o.uid = p.uid => o = p
  <2>1. \A r, q \in DataVersion(c)' : r.kind = q.kind /\ r.uid = q.uid => r = q
    BY ObjectsAreShownOnce DEF ShownOnce, SameObject
  <2>. QED
    BY <1>7, <1>9, <2>1
<1>12. Views' = [Views EXCEPT ![c] = Views'[c]]
       /\ \A o, p \in (Views[c] \ Views'[c]) \cup (Views'[c] \ Views[c]) : o.kind = p.kind /\ o.uid = p.uid
  BY <1>6, <1>10
<1>. QED
  BY <1>2, <1>3, <1>11, <1>12 DEF Store!Next, Store!Edit, Log, Views, Shown

LEMMA CommitCommits ==
    ASSUME IInv, ProductionIsNewest', NEW c \in Changeset, Commit(c)
    PROVE  Store!Next
<1>1. PICK m \in Nat \ {0} : m = Newest
  BY NewestIsMax DEF IInv
<1>2. /\ base[c] = m /\ base' = [base EXCEPT ![c] = 0] /\ history' = history
      /\ base \in [Changeset -> Nat]
  BY <1>1 DEF Commit, IInv, TypeOK
<1>. DEFINE rows == {r \in Own(c) : ~r.dest}
                    \cup {r \in At(m) : \A q \in Own(c) : ~SameObject(q, r)}
<1>3. Newest' = m + 1 /\ At(m + 1)' = rows
  BY <1>1, CommitMakesRevision
<1>4. DataVersion(c) = rows
  BY <1>2 DEF DataVersion, At, ChangesBetween
<1>. HIDE DEF rows
<1>5. Views[c] = {ObjectOf(r) : r \in rows}
  BY <1>2, <1>4 DEF Views, Shown
<1>6. \A n \in 1 .. m : At(n)' = At(n)
  BY <1>1, StepKeepsRevisions DEF Next
<1>7. /\ Log \in [1 .. m -> SUBSET Object] /\ Log \in Seq(SUBSET Object) /\ Len(Log) = m
      /\ Log = [n \in 1 .. m |-> {ObjectOf(r) : r \in At(n)}]
  BY <1>1, LogIsSequence DEF Log
<1>8. Log' = [n \in 1 .. (m + 1) |-> {ObjectOf(r) : r \in At(n)'}]
  BY <1>3 DEF Log, At, ChangesBetween, ObjectOf
<1>9. /\ \A n \in 1 .. m : Log'[n] = Log[n]
      /\ Log'[m + 1] = Views[c]
  BY <1>3, <1>5, <1>6, <1>7, <1>8
<1>10. Views[c] \in SUBSET Object
  <2>1. rows \subseteq history
    BY DEF rows, Own, At, ChangesBetween
  <2>2. \A r \in history : ObjectOf(r) \in Object
    BY DEF IInv, TypeOK, Row, ObjectOf, Object
  <2>. QED
    BY <1>5, <2>1, <2>2
<1>11. Log' = Append(Log, Views[c])
  <2>1. \A n \in 1 .. (m + 1) : n \in 1 .. m \/ n = m + 1
    OBVIOUS
  <2>2. \A n \in 1 .. (m + 1) : Log'[n] \in SUBSET Object
    BY <1>7, <1>9, <1>10, <2>1
  <2>3. Log' \in [1 .. (m + 1) -> SUBSET Object]
    BY <1>8, <2>2
  <2>4. PICK g : g = Log'
    OBVIOUS
  <2>5. PICK e : e = Views[c]
    OBVIOUS
  <2>6. PICK f : f = Log
    OBVIOUS
  <2>7. g = Append(f, e)
    BY <1>7, <1>9, <1>10, <2>3, <2>4, <2>5, <2>6, AppendedFunction
  <2>. QED
    BY <2>4, <2>5, <2>6, <2>7
<1>12. Store!Consistent(Views[c])
  <2>1. production' = Views[c]
    <3>1. At(Newest)' = At(m + 1)'
      BY <1>3 DEF At, ChangesBetween
    <3>. QED
      BY <1>3, <1>5, <3>1 DEF ProductionIsNewest, ObjectOf
  <2>2. \A o, p \in production' : SameName(o, p) => o = p
    BY DEF Commit, NamesDiffer
  <2>3. \A o \in production' : o.kind = "interface" =>
            \E h \in production' : h.kind = "host" /\ h.uid = o.host
    BY DEF Commit
  <2>4. \A o, p \in production' :
            <<o.kind, o.host, o.name>> = <<p.kind, p.host, p.name>> => o = p
    BY <2>2 DEF SameName
  <2>. QED
    BY <2>1, <2>3, <2>4 DEF Store!Consistent
<1>13. \A d \in Changeset \ {c} : Shown(d)' = Shown(d)
  BY <1>1, <1>2, <1>6, ShownStays DEF Own
<1>14. Shown(c)' = {}
  BY <1>2 DEF Shown
<1>15. Views' = [Views EXCEPT ![c] = {}]
  BY <1>13, <1>14 DEF Views
<1>. QED
  BY <1>2, <1>7, <1>11, <1>12, <1>15
     DEF Store!Next, Store!Commit, Store!Leave, Log, Views, Shown

\* The tables and the generated procedures give clients what they are told of
\* objects: fixed revisions, changesets that show their parent with their own
\* changes and do not see one another, and commits that make exactly what the
\* changeset shows a revision, with unique names and hosts that are there
\* (constants.py, commit_all of schema.py).
THEOREM TablesImplementStore == Spec => ImplementsStore
<1>1. Init => Store!Init
  BY StartsStore
<1>2. IInv /\ IInv' /\ ProductionIsNewest' /\ [Next]_vars => [Store!Next]_Store!vars
  <2>. SUFFICES ASSUME IInv, IInv', ProductionIsNewest', [Next]_vars
                PROVE  [Store!Next]_Store!vars
    OBVIOUS
  <2>1. CASE UNCHANGED vars
    <3>1. Log' = Log
      BY <2>1, LogStays DEF vars
    <3>2. \A n \in 1 .. Newest : At(n)' = At(n)
      BY StepKeepsRevisions
    <3>3. \A d \in Changeset : Shown(d)' = Shown(d)
      BY <2>1, <3>2, ShownStays DEF vars, Own
    <3>4. Views' = Views /\ base' = base
      BY <2>1, <3>3 DEF Views, vars
    <3>. QED
      BY <3>1, <3>4 DEF Store!vars, Log, Views, Shown
  <2>. QED
    BY <2>1, StartStarts, AbortAborts, ChangeEdits, CommitCommits DEF Next
<1>. QED
  BY <1>1, <1>2, Invariant, ProductionFollows, PTL DEF Spec, ImplementsStore, Store!Spec

-----------------------------------------------------------------------------
(* Differences.                                                            *)

\* Hosts that are there now: what the changed rows leave of the old ones,
\* and the changed ones that are not deleted.
After(old, changed) ==
    Live(changed) \cup {r \in old : \A q \in changed : ~SameObject(q, r)}

\* A diff is worked out from rows of hosts; an object has one row at most in
\* either set, and names differ before and after the change.
Diffable(old, changed) ==
    /\ \A r, q \in old : SameObject(r, q) => r = q
    /\ \A r, q \in changed : SameObject(r, q) => r = q
    /\ \A r, q \in old : r.name = q.name => r = q
    /\ \A r, q \in After(old, changed) : r.name = q.name => r = q

LEMMA SameIsEquivalence ==
    \A r, q, p : /\ SameObject(r, r)
                 /\ SameObject(r, q) => SameObject(q, r)
                 /\ SameObject(r, q) /\ SameObject(q, p) => SameObject(r, p)
BY DEF SameObject

\* A deleted host is reported by its old name, and no other is.
LEMMA WhatIsDeleted ==
    ASSUME NEW old, NEW changed, Diffable(old, changed), NEW o \in old
    PROVE  o.name \in DeletedIn(old, changed) <=> \E q \in changed : q.dest /\ SameObject(o, q)
<1>1. ASSUME o.name \in DeletedIn(old, changed)
      PROVE  \E q \in changed : q.dest /\ SameObject(o, q)
  <2>1. PICK q \in changed \ Live(changed) : \E p \in Was(old, q) : p.name = o.name
    BY <1>1 DEF DeletedIn
  <2>2. PICK p \in old : SameObject(p, q) /\ p.name = o.name
    BY <2>1 DEF Was
  <2>3. p = o
    BY <2>2 DEF Diffable
  <2>. QED
    BY <2>1, <2>2, <2>3 DEF Live
<1>2. ASSUME NEW q \in changed, q.dest, SameObject(o, q)
      PROVE  o.name \in DeletedIn(old, changed)
  <2>1. q \in changed \ Live(changed) /\ o \in Was(old, q)
    BY <1>2 DEF Live, Was
  <2>. QED
    BY <2>1 DEF DeletedIn
<1>. QED
  BY <1>1, <1>2

\* A host of the old ones is looked up by its name and gets its new one.
LEMMA WhatIsRenamed ==
    ASSUME NEW old, NEW changed, Diffable(old, changed), NEW o \in old
    PROVE  /\ \A r \in Live(changed) : SameObject(o, r) =>
                 NewName(Diff(old, changed), o.name) = r.name
           /\ (\A q \in changed : ~SameObject(q, o)) =>
                 NewName(Diff(old, changed), o.name) = o.name
<1>. DEFINE R == RenamedIn(old, changed)
<1>1. \A m \in R : \E p \in old, q \in Live(changed) :
          /\ SameObject(p, q) /\ p.name # q.name
          /\ m = <<p.name, q.name>>
  BY DEF RenamedIn, Was
<1>2. \A p \in old, q \in Live(changed) :
          SameObject(p, q) /\ p.name # q.name => <<p.name, q.name>> \in R
  BY DEF RenamedIn, Was
<1>3. NewName(Diff(old, changed), o.name) =
        IF \E m \in R : m[1] = o.name
        THEN (CHOOSE m \in R : m[1] = o.name)[2] ELSE o.name
  BY DEF NewName, Diff
<1>. HIDE DEF R
<1>4. ASSUME NEW m \in R, m[1] = o.name
      PROVE  \E q \in Live(changed) : SameObject(o, q) /\ o.name # q.name /\ m[2] = q.name
  <2>1. PICK p \in old, q \in Live(changed) :
          SameObject(p, q) /\ p.name # q.name /\ m = <<p.name, q.name>>
    BY <1>1
  <2>2. p.name = o.name /\ m[2] = q.name
    BY <1>4, <2>1
  <2>3. p = o
    BY <2>2 DEF Diffable
  <2>. QED
    BY <2>1, <2>2, <2>3
<1>5. \A q \in Live(changed) : q \in changed
  BY DEF Live
<1>6. ASSUME NEW r \in Live(changed), SameObject(o, r)
      PROVE  NewName(Diff(old, changed), o.name) = r.name
  <2>1. \A m \in R : m[1] = o.name => m[2] = r.name
    <3>. SUFFICES ASSUME NEW m \in R, m[1] = o.name PROVE m[2] = r.name
      OBVIOUS
    <3>1. PICK q \in Live(changed) : SameObject(o, q) /\ m[2] = q.name
      BY <1>4
    <3>2. q = r
      BY <1>5, <1>6, <3>1, SameIsEquivalence DEF Diffable
    <3>. QED
      BY <3>1, <3>2
  <2>2. CASE \E m \in R : m[1] = o.name
    BY <1>3, <2>1, <2>2
  <2>3. CASE ~\E m \in R : m[1] = o.name
    <3>1. o.name = r.name
      <4>1. SUFFICES ASSUME o.name # r.name PROVE FALSE
        OBVIOUS
      <4>2. <<o.name, r.name>> \in R /\ <<o.name, r.name>>[1] = o.name
        BY <1>2, <1>6, <4>1
      <4>. QED
        BY <2>3, <4>2
    <3>. QED
      BY <1>3, <2>3, <3>1
  <2>. QED
    BY <2>2, <2>3
<1>7. ASSUME \A q \in changed : ~SameObject(q, o)
      PROVE  NewName(Diff(old, changed), o.name) = o.name
  <2>1. ~\E m \in R : m[1] = o.name
    BY <1>4, <1>5, <1>7, SameIsEquivalence
  <2>. QED
    BY <1>3, <2>1
<1>. QED
  BY <1>6, <1>7

Pairs(rows) == {<<r.name, r.note>> : r \in rows}

\* What there is after the deletions, the renames and the creations: a host of
\* the old ones that is left, by its new name with its old value, and the new
\* ones without a value.
LEMMA WhatIsNamed ==
    ASSUME NEW old, NEW changed, Diffable(old, changed), NEW v
    PROVE  v \in Named(Pairs(old), Diff(old, changed)) <=>
             \/ \E o \in old, r \in Live(changed) : SameObject(o, r) /\ v = <<r.name, o.note>>
             \/ \E o \in old : (\A q \in changed : ~SameObject(q, o)) /\ v = <<o.name, o.note>>
             \/ \E r \in Live(changed) : Was(old, r) = {} /\ v = <<r.name, Null>>
<1>. DEFINE D == Diff(old, changed)
            kept == {w \in Pairs(old) : w[1] \notin D.deleted}
<1>1. D.deleted = DeletedIn(old, changed) /\ D.created = CreatedIn(old, changed)
  BY DEF Diff
<1>2. Named(Pairs(old), D) = {<<NewName(D, w[1]), w[2]>> : w \in kept} \cup {<<n, Null>> : n \in D.created}
  BY DEF Named
<1>3. \A o \in old : <<o.name, o.note>> \in kept <=>
        \A q \in changed : SameObject(o, q) => ~q.dest
  <2>. TAKE o \in old
  <2>1. <<o.name, o.note>> \in kept <=> o.name \notin DeletedIn(old, changed)
    BY <1>1 DEF Pairs
  <2>. QED
    BY <2>1, WhatIsDeleted
<1>4. \A w \in kept : \E o \in old : w = <<o.name, o.note>>
  BY DEF Pairs
<1>5. \A n : n \in D.created <=> \E r \in Live(changed) : Was(old, r) = {} /\ n = r.name
  BY <1>1 DEF CreatedIn
<1>6. \A o \in old, r \in Live(changed) : SameObject(o, r) => NewName(D, o.name) = r.name
  BY WhatIsRenamed
<1>7. \A o \in old : (\A q \in changed : ~SameObject(q, o)) => NewName(D, o.name) = o.name
  BY WhatIsRenamed
<1>8. \A r : r \in Live(changed) <=> r \in changed /\ ~r.dest
  BY DEF Live
<1>. HIDE DEF D, kept
<1>9. ASSUME NEW w \in kept, v = <<NewName(D, w[1]), w[2]>>
      PROVE  \/ \E o \in old, r \in Live(changed) : SameObject(o, r) /\ v = <<r.name, o.note>>
             \/ \E o \in old : (\A q \in changed : ~SameObject(q, o)) /\ v = <<o.name, o.note>>
  <2>1. PICK o \in old : w = <<o.name, o.note>>
    BY <1>4
  <2>2. v = <<NewName(D, o.name), o.note>>
    BY <1>9, <2>1
  <2>3. CASE \E q \in changed : SameObject(o, q)
    <3>1. PICK q \in changed : SameObject(o, q)
      BY <2>3
    <3>2. q \in Live(changed)
      BY <1>3, <1>8, <1>9, <2>1, <3>1
    <3>3. NewName(D, o.name) = q.name
      BY <1>6, <3>1, <3>2
    <3>. QED
      BY <2>2, <3>1, <3>2, <3>3
  <2>4. CASE ~\E q \in changed : SameObject(o, q)
    <3>1. \A q \in changed : ~SameObject(q, o)
      BY <2>4, SameIsEquivalence
    <3>. QED
      BY <1>7, <2>2, <3>1
  <2>. QED
    BY <2>3, <2>4
<1>10. ASSUME NEW o \in old, NEW r \in Live(changed), SameObject(o, r), v = <<r.name, o.note>>
       PROVE  v \in Named(Pairs(old), D)
  <2>1. \A q \in changed : SameObject(o, q) => q = r
    BY <1>8, <1>10, SameIsEquivalence DEF Diffable
  <2>2. <<o.name, o.note>> \in kept
    BY <1>3, <1>8, <2>1
  <2>3. NewName(D, o.name) = r.name
    BY <1>6, <1>10
  <2>4. PICK w \in kept : w = <<o.name, o.note>>
    BY <2>2
  <2>5. v = <<NewName(D, w[1]), w[2]>>
    BY <1>10, <2>3, <2>4
  <2>. QED
    BY <1>2, <2>5
<1>11. ASSUME NEW o \in old, \A q \in changed : ~SameObject(q, o), v = <<o.name, o.note>>
       PROVE  v \in Named(Pairs(old), D)
  <2>1. <<o.name, o.note>> \in kept
    BY <1>3, <1>11, SameIsEquivalence
  <2>2. NewName(D, o.name) = o.name
    BY <1>7, <1>11
  <2>3. PICK w \in kept : w = <<o.name, o.note>>
    BY <2>1
  <2>4. v = <<NewName(D, w[1]), w[2]>>
    BY <1>11, <2>2, <2>3
  <2>. QED
    BY <1>2, <2>4
<1>. QED
  <2>1. v \in Named(Pairs(old), D) <=> (\E w \in kept : v = <<NewName(D, w[1]), w[2]>>) \/ (\E n \in D.created : v = <<n, Null>>)
    BY <1>2
  <2>2. (\E n \in D.created : v = <<n, Null>>) <=> \E r \in Live(changed) : Was(old, r) = {} /\ v = <<r.name, Null>>
    BY <1>5
  <2>. QED
    BY <1>9, <1>10, <1>11, <2>1, <2>2 DEF D

\* The patched old ones are what is there after the change.
LEMMA PatchGivesNext ==
    ASSUME NEW old, NEW changed, Diffable(old, changed)
    PROVE  Patched(Pairs(old), Diff(old, changed)) = Pairs(After(old, changed))
<1>. DEFINE D == Diff(old, changed)
            N == Named(Pairs(old), D)
            Sets(r) == IF Was(old, r) = {} THEN r.note # Null
                       ELSE \E o \in Was(old, r) : o.note # r.note
<1>1. Patched(Pairs(old), D) = {v \in N : \A s \in D.set : s[1] # v[1]} \cup D.set
  BY DEF Patched
<1>2. \A s : s \in D.set <=> \E r \in Live(changed) : Sets(r) /\ s = <<r.name, r.note>>
  BY DEF Diff, SetIn
<1>3. \A r : r \in After(old, changed) <=>
         \/ r \in Live(changed)
         \/ r \in old /\ \A q \in changed : ~SameObject(q, r)
  BY DEF After
<1>4. \A v : v \in N <=>
             \/ \E o \in old, r \in Live(changed) : SameObject(o, r) /\ v = <<r.name, o.note>>
             \/ \E o \in old : (\A q \in changed : ~SameObject(q, o)) /\ v = <<o.name, o.note>>
             \/ \E r \in Live(changed) : Was(old, r) = {} /\ v = <<r.name, Null>>
  BY WhatIsNamed
<1>5. \A v : v \in Pairs(After(old, changed)) <=> \E r \in After(old, changed) : v = <<r.name, r.note>>
  BY DEF Pairs
<1>6. /\ \A r : Live(changed) \subseteq changed
      /\ \A o \in old : \A r : o \in Was(old, r) <=> SameObject(o, r)
      /\ \A r : Was(old, r) \subseteq old
  BY DEF Live, Was
<1>7. \A r, q \in After(old, changed) : r.name = q.name => r = q
  BY DEF Diffable
<1>8. \A r : Sets(r) <=> IF Was(old, r) = {} THEN r.note # Null
                         ELSE \E o \in Was(old, r) : o.note # r.note
  OBVIOUS
<1>. HIDE DEF D, N, Sets
<1>9. ASSUME NEW v \in N, \A s \in D.set : s[1] # v[1]
      PROVE  v \in Pairs(After(old, changed))
  <2>1. CASE \E o \in old, r \in Live(changed) : SameObject(o, r) /\ v = <<r.name, o.note>>
    <3>1. PICK o \in old, r \in Live(changed) : SameObject(o, r) /\ v = <<r.name, o.note>>
      BY <2>1
    <3>2. ~Sets(r)
      <4>1. SUFFICES ASSUME Sets(r) PROVE FALSE
        OBVIOUS
      <4>2. <<r.name, r.note>> \in D.set
        BY <1>2, <3>1, <4>1
      <4>3. PICK s \in D.set : s = <<r.name, r.note>>
        BY <4>2
      <4>4. s[1] = v[1]
        BY <3>1, <4>3
      <4>. QED
        BY <1>9, <4>4
    <3>3. o.note = r.note
      BY <1>6, <1>8, <3>1, <3>2
    <3>. QED
      BY <1>3, <1>5, <3>1, <3>3
  <2>2. CASE \E o \in old : (\A q \in changed : ~SameObject(q, o)) /\ v = <<o.name, o.note>>
    BY <1>3, <1>5, <2>2
  <2>3. CASE \E r \in Live(changed) : Was(old, r) = {} /\ v = <<r.name, Null>>
    <3>1. PICK r \in Live(changed) : Was(old, r) = {} /\ v = <<r.name, Null>>
      BY <2>3
    <3>2. ~Sets(r)
      <4>1. SUFFICES ASSUME Sets(r) PROVE FALSE
        OBVIOUS
      <4>2. <<r.name, r.note>> \in D.set
        BY <1>2, <3>1, <4>1
      <4>3. PICK s \in D.set : s = <<r.name, r.note>>
        BY <4>2
      <4>4. s[1] = v[1]
        BY <3>1, <4>3
      <4>. QED
        BY <1>9, <4>4
    <3>3. r.note = Null
      BY <1>8, <3>1, <3>2
    <3>. QED
      BY <1>3, <1>5, <3>1, <3>3
  <2>. QED
    BY <1>4, <1>9, <2>1, <2>2, <2>3
<1>10. \A v \in D.set : v \in Pairs(After(old, changed))
  BY <1>2, <1>3, <1>5
<1>11. ASSUME NEW r \in After(old, changed), ~(r \in Live(changed) /\ Sets(r)), NEW s \in D.set
       PROVE  s[1] # r.name
  <2>1. PICK q \in Live(changed) : Sets(q) /\ s = <<q.name, q.note>>
    BY <1>2
  <2>2. q \in After(old, changed) /\ s[1] = q.name
    BY <1>3, <2>1
  <2>3. q # r
    BY <1>11, <2>1
  <2>. QED
    BY <1>7, <2>2, <2>3
<1>12. ASSUME NEW r \in After(old, changed)
       PROVE  <<r.name, r.note>> \in Patched(Pairs(old), D)
  <2>1. CASE r \in Live(changed) /\ Sets(r)
    BY <1>1, <1>2, <2>1
  <2>2. CASE ~(r \in Live(changed) /\ Sets(r))
    <3>1. <<r.name, r.note>> \in N
      <4>1. CASE r \in Live(changed) /\ Was(old, r) = {}
        <5>1. r.note = Null
          BY <1>8, <2>2, <4>1
        <5>. QED
          BY <1>4, <4>1, <5>1
      <4>2. CASE r \in Live(changed) /\ Was(old, r) # {}
        <5>1. PICK o \in Was(old, r) : TRUE
          BY <4>2
        <5>2. o \in old /\ SameObject(o, r) /\ o.note = r.note
          BY <1>6, <1>8, <2>2, <4>2, <5>1
        <5>. QED
          BY <1>4, <4>2, <5>2
      <4>3. CASE r \notin Live(changed)
        BY <1>3, <1>4, <1>12, <4>3
      <4>. QED
        BY <4>1, <4>2, <4>3
    <3>2. PICK v \in N : v = <<r.name, r.note>>
      BY <3>1
    <3>3. \A s \in D.set : s[1] # v[1]
      BY <1>11, <2>2, <3>2
    <3>. QED
      BY <1>1, <3>2, <3>3
  <2>. QED
    BY <2>1, <2>2
<1>13. \A v \in Pairs(After(old, changed)) : v \in Patched(Pairs(old), D)
  BY <1>5, <1>12
<1>14. \A v \in Patched(Pairs(old), D) : v \in Pairs(After(old, changed))
  BY <1>1, <1>9, <1>10
<1>. QED
  BY <1>13, <1>14 DEF D

\* A bounded set of numbers has a greatest element: the nearest one to the bound.
LEMMA GreatestElement ==
    ASSUME NEW N \in Nat, NEW S \in SUBSET (0 .. N), S # {}
    PROVE  \E n \in S : \A m \in S : m <= n
<1>. DEFINE Rest == {k \in Nat : N - k \in S}
<1>1. \A m \in S : m \in Nat /\ N - m \in Nat /\ N - (N - m) = m
  OBVIOUS
<1>2. Rest \subseteq Nat /\ \A m \in S : N - m \in Rest
  BY <1>1
<1>3. PICK d \in Rest : \A e \in Rest : ~(<<e, d>> \in OpToRel(<, Nat))
  <2>. HIDE DEF Rest
  <2>. QED
    BY <1>2, NatLessThanWellFounded, WFMin
<1>4. \A e \in Rest : ~(e < d)
  <2>. HIDE DEF Rest
  <2>. QED
    BY <1>2, <1>3 DEF OpToRel
<1>5. d \in Nat /\ N - d \in S
  BY <1>3
<1>6. \A m \in S : m \in Nat /\ N - m \in Nat /\ ~(N - m < d)
  <2>. HIDE DEF Rest
  <2>. QED
    BY <1>1, <1>2, <1>4
<1>7. \A m \in S : m <= N - d
  <2>. HIDE DEF Rest
  <2>. QED
    BY <1>5, <1>6
<1>. QED
  BY <1>5, <1>7

\* A revision follows from an older one and the changes between them.
LEMMA ChangesMakeRevision ==
    ASSUME IInv, NEW a \in Nat \ {0}, NEW b \in Nat, a <= b
    PROVE  At(b) = After(At(a), ChangesBetween(a, b))
<1>. DEFINE C == ChangesBetween(a, b)
            n(r) == num[r.version]
<1>1. \A r \in history : n(r) \in Nat
  BY DEF IInv, TypeOK, Row, Changeset, Id
<1>2. \A r : r \in C <=> /\ r \in history /\ n(r) \in (a + 1) .. b
                        /\ \A q \in history : n(q) \in (a + 1) .. b /\ SameObject(q, r) => n(q) <= n(r)
  BY DEF ChangesBetween
<1>3. \A r, m : r \in At(m) <=> /\ r \in history /\ n(r) \in 1 .. m /\ ~r.dest
                             /\ \A q \in history : n(q) \in 1 .. m /\ SameObject(q, r) => n(q) <= n(r)
  BY DEF At, ChangesBetween
<1>4. \A r : r \in After(At(a), C) <=> \/ r \in C /\ ~r.dest
                                       \/ r \in At(a) /\ \A q \in C : ~SameObject(q, r)
  BY DEF After, Live
<1>. HIDE DEF C, n
<1>5. ASSUME NEW r \in history, n(r) \in (a + 1) .. b
      PROVE  \E q \in C : SameObject(q, r)
  <2>. DEFINE S == {n(q) : q \in {x \in history : n(x) \in (a + 1) .. b /\ SameObject(x, r)}}
  <2>1. n(r) \in S /\ S \subseteq 0 .. b
    BY <1>5, SameIsEquivalence
  <2>2. PICK g \in S : \A m \in S : m <= g
    <3>. HIDE DEF S
    <3>. QED
      BY <2>1, GreatestElement
  <2>3. PICK q \in history : n(q) = g /\ n(q) \in (a + 1) .. b /\ SameObject(q, r)
    OBVIOUS
  <2>4. q \in C
    BY <1>2, <2>2, <2>3, SameIsEquivalence
  <2>. QED
    BY <2>3, <2>4
<1>6. ASSUME NEW r \in At(b) PROVE r \in After(At(a), C)
  <2>1. r \in history /\ n(r) \in 1 .. b /\ ~r.dest
    BY <1>3
  <2>2. CASE n(r) > a
    <3>1. n(r) \in (a + 1) .. b /\ \A m \in (a + 1) .. b : m \in 1 .. b
      BY <1>1, <2>1, <2>2
    <3>2. r \in C
      BY <1>2, <1>3, <2>1, <3>1
    <3>. QED
      BY <1>4, <2>1, <3>2
  <2>3. CASE ~(n(r) > a)
    <3>1. n(r) \in 1 .. a /\ \A m \in 1 .. a : m \in 1 .. b
      BY <1>1, <2>1, <2>3
    <3>2. r \in At(a)
      BY <1>3, <2>1, <3>1
    <3>3. \A m \in (a + 1) .. b : m \in 1 .. b /\ ~(m <= n(r))
      BY <1>1, <2>1, <3>1
    <3>4. \A q \in C : ~SameObject(q, r)
      BY <1>2, <1>3, <3>3
    <3>. QED
      BY <1>4, <3>2, <3>4
  <2>. QED
    BY <2>2, <2>3
<1>7. ASSUME NEW r \in C, ~r.dest PROVE r \in At(b)
  <2>1. r \in history /\ n(r) \in (a + 1) .. b
    BY <1>2
  <2>2. n(r) \in 1 .. b
    BY <2>1
  <2>3. ASSUME NEW q \in history, n(q) \in 1 .. b, SameObject(q, r) PROVE n(q) <= n(r)
    <3>1. CASE n(q) \in (a + 1) .. b
      BY <1>2, <2>3, <3>1
    <3>2. CASE n(q) \notin (a + 1) .. b
      BY <1>1, <2>1, <2>3, <3>2
    <3>. QED
      BY <3>1, <3>2
  <2>. QED
    BY <1>3, <1>7, <2>1, <2>2, <2>3
<1>8. ASSUME NEW r \in At(a), \A q \in C : ~SameObject(q, r) PROVE r \in At(b)
  <2>1. r \in history /\ n(r) \in 1 .. a /\ ~r.dest
    BY <1>3
  <2>2. n(r) \in 1 .. b
    BY <2>1
  <2>3. ASSUME NEW q \in history, n(q) \in 1 .. b, SameObject(q, r) PROVE n(q) <= n(r)
    <3>1. CASE n(q) \in 1 .. a
      BY <1>3, <2>3, <3>1
    <3>2. CASE n(q) \notin 1 .. a
      <4>1. n(q) \in (a + 1) .. b
        BY <1>1, <2>3, <3>2
      <4>2. PICK p \in C : SameObject(p, q)
        BY <1>5, <4>1
      <4>. QED
        BY <1>8, <2>3, <4>2, SameIsEquivalence
    <3>. QED
      BY <3>1, <3>2
  <2>. QED
    BY <1>3, <2>1, <2>2, <2>3
<1>9. \A r : r \in At(b) <=> r \in After(At(a), C)
  BY <1>4, <1>6, <1>7, <1>8
<1>. QED
  BY <1>9 DEF C

\* Names are unique in every revision.
NamesOfRevisions ==
    \A n \in 1 .. Newest : \A r, q \in At(n) : SameName(r, q) => SameObject(r, q)

LEMMA CommitKeepsNames ==
    ASSUME IInv, ProductionIsNewest', NamesOfRevisions, NEW c \in Changeset, Commit(c)
    PROVE  NamesOfRevisions'
<1>1. PICK m \in Nat \ {0} : m = Newest
  BY NewestIsMax DEF IInv
<1>2. Newest' = m + 1
  BY <1>1, CommitMakesRevision
<1>3. SUFFICES ASSUME NEW n \in 1 .. (m + 1), NEW r \in At(n)', NEW q \in At(n)', SameName(r, q)
               PROVE  SameObject(r, q)
  BY <1>2 DEF NamesOfRevisions, SameName, SameObject, At, ChangesBetween
<1>4. CASE n \in 1 .. m
  BY <1>1, <1>3, <1>4, StepKeepsRevisions DEF Next, NamesOfRevisions
<1>5. CASE n \notin 1 .. m
  <2>1. n = m + 1
    BY <1>5
  <2>2. At(n)' = At(Newest)'
    BY <1>2, <2>1 DEF At, ChangesBetween
  <2>3. ObjectOf(r) \in production' /\ ObjectOf(q) \in production'
    BY <1>3, <2>2 DEF ProductionIsNewest, ObjectOf
  <2>4. SameName(ObjectOf(r), ObjectOf(q))
    BY <1>3 DEF SameName, ObjectOf
  <2>5. \A o, p \in production' : SameName(o, p) => o = p
    BY DEF Commit, NamesDiffer
  <2>6. ObjectOf(r) = ObjectOf(q)
    BY <2>3, <2>4, <2>5
  <2>7. r.kind = ObjectOf(r).kind /\ r.uid = ObjectOf(r).uid
        /\ q.kind = ObjectOf(q).kind /\ q.uid = ObjectOf(q).uid
    BY DEF ObjectOf
  <2>. QED
    BY <2>6, <2>7 DEF SameObject
<1>. QED
  BY <1>4, <1>5

LEMMA NamesAreUnique == Spec => []NamesOfRevisions
<1>1. Init => NamesOfRevisions
  BY DEF Init, NamesOfRevisions, At, ChangesBetween
<1>2. IInv /\ ProductionIsNewest' /\ NamesOfRevisions /\ [Next]_vars => NamesOfRevisions'
  <2>. SUFFICES ASSUME IInv, ProductionIsNewest', NamesOfRevisions, [Next]_vars
                PROVE  NamesOfRevisions'
    OBVIOUS
  <2>1. ASSUME num' = num PROVE NamesOfRevisions'
    <3>1. Newest' = Newest
      BY <2>1 DEF Newest
    <3>2. \A n \in 1 .. Newest : At(n)' = At(n)
      BY StepKeepsRevisions
    <3>. QED
      BY <3>1, <3>2 DEF NamesOfRevisions, SameName, SameObject
  <2>2. CASE Start \/ UNCHANGED vars
    BY <2>1, <2>2 DEF Start, vars
  <2>3. ASSUME NEW c \in Changeset, Change(c) \/ Abort(c)
        PROVE  NamesOfRevisions'
    BY <2>1, <2>3, ChangeWrites DEF Abort, Writes
  <2>. QED
    BY <2>2, <2>3, CommitKeepsNames DEF Next
<1>. QED
  BY <1>1, <1>2, Invariant, ProductionFollows, PTL DEF Spec

\* Hosts are told apart by their names, which are not inside of anything.
LEMMA HostNamesDiffer ==
    ASSUME IInv, NEW rows \in SUBSET history,
           \A r, q \in rows : SameName(r, q) => r = q
    PROVE  \A r, q \in Hosts(rows) : r.name = q.name => r = q
BY DEF IInv, HostsStandAlone, Hosts, SameName

LEMMA HostsChange ==
    ASSUME NEW old, NEW changed
    PROVE  After(Hosts(old), Hosts(changed)) = Hosts(After(old, changed))
BY DEF After, Hosts, Live, SameObject

LEMMA HostsArePatched ==
    ASSUME IInv, NEW old \in SUBSET history, NEW changed \in SUBSET history,
           \A r, q \in old : SameObject(r, q) => r = q,
           \A r, q \in changed : SameObject(r, q) => r = q,
           \A r, q \in old : SameName(r, q) => r = q,
           \A r, q \in After(old, changed) : SameName(r, q) => r = q
    PROVE  Patched(Values(old), Diff(Hosts(old), Hosts(changed))) = Values(After(old, changed))
<1>1. After(old, changed) \subseteq history
  BY DEF After, Live
<1>2. /\ \A r, q \in Hosts(old) : r.name = q.name => r = q
      /\ \A r, q \in Hosts(After(old, changed)) : r.name = q.name => r = q
  BY <1>1, HostNamesDiffer
<1>3. /\ \A r, q \in Hosts(old) : SameObject(r, q) => r = q
      /\ \A r, q \in Hosts(changed) : SameObject(r, q) => r = q
  BY DEF Hosts
<1>4. Diffable(Hosts(old), Hosts(changed))
  BY <1>2, <1>3, HostsChange DEF Diffable
<1>5. \A rows : Values(rows) = Pairs(Hosts(rows))
  BY DEF Values, Pairs
<1>. QED
  BY <1>4, <1>5, PatchGivesNext, HostsChange

LEMMA ChangesAreOne ==
    ASSUME IInv, NEW a \in Nat, NEW b \in Nat
    PROVE  \A r, q \in ChangesBetween(a, b) : SameObject(r, q) => r = q
<1>. SUFFICES ASSUME NEW r \in ChangesBetween(a, b), NEW q \in ChangesBetween(a, b), SameObject(r, q) PROVE r = q
  OBVIOUS
<1>1. /\ r \in history /\ q \in history /\ num[r.version] \in (a + 1) .. b
      /\ num[q.version] <= num[r.version] /\ num[r.version] <= num[q.version]
  BY DEF ChangesBetween, SameObject
<1>2. /\ r.version \in Id /\ q.version \in Id
      /\ num[r.version] \in Nat /\ num[q.version] \in Nat
  BY <1>1 DEF IInv, TypeOK, Row, Changeset
<1>3. num[r.version] = num[q.version] /\ num[r.version] # 0
  BY <1>1, <1>2
<1>4. r.version = q.version
  BY <1>2, <1>3 DEF IInv, NumsDiffer
<1>. QED
  BY <1>1, <1>4 DEF IInv, RowsHaveKeys

\* What the diff functions report turns one state of the hosts into the
\* other, between any two revisions and between a changeset whose names are
\* unique and its parent (the diff functions of constants.py).
THEOREM DiffsArePatches == Spec => []DiffIsPatch
<1>1. IInv /\ NamesOfRevisions => DiffIsPatch
  <2>. SUFFICES ASSUME IInv, NamesOfRevisions PROVE DiffIsPatch
    OBVIOUS
  <2>1. Newest \in Nat \ {0}
    BY NewestIsMax DEF IInv
  <2>2. \A n \in 1 .. Newest : \A r, q \in At(n) : SameName(r, q) => r = q
    BY OneRowPerObject DEF NamesOfRevisions
  <2>3. ASSUME NEW a \in 1 .. Newest, NEW b \in 1 .. Newest, a <= b
        PROVE  Patched(Values(At(a)), DiffBetween(a, b)) = Values(At(b))
    <3>1. a \in Nat \ {0} /\ b \in Nat
      BY <2>1
    <3>2. At(b) = After(At(a), ChangesBetween(a, b))
      BY <2>3, <3>1, ChangesMakeRevision
    <3>3. At(a) \in SUBSET history /\ ChangesBetween(a, b) \in SUBSET history
      BY DEF At, ChangesBetween
    <3>4. PICK old \in SUBSET history : old = At(a)
      BY <3>3
    <3>5. PICK changed \in SUBSET history : changed = ChangesBetween(a, b)
      BY <3>3
    <3>6. Patched(Values(old), Diff(Hosts(old), Hosts(changed))) = Values(After(old, changed))
      <4>1. \A r, q \in old : SameObject(r, q) => r = q
        BY <3>4, OneRowPerObject
      <4>2. \A r, q \in changed : SameObject(r, q) => r = q
        BY <3>1, <3>5, ChangesAreOne
      <4>3. \A r, q \in old : SameName(r, q) => r = q
        BY <2>2, <3>4
      <4>4. \A r, q \in After(old, changed) : SameName(r, q) => r = q
        BY <2>2, <3>2, <3>4, <3>5
      <4>. QED
        BY <4>1, <4>2, <4>3, <4>4, HostsArePatched
    <3>. QED
      BY <3>2, <3>4, <3>5, <3>6 DEF DiffBetween
  <2>4. ASSUME NEW c \in Changeset, base[c] # 0, NamesDiffer(DataVersion(c))
        PROVE  Patched(Values(At(base[c])), DiffOf(c)) = Values(DataVersion(c))
    <3>1. PICK n \in 1 .. Newest : n = base[c]
      <4>1. PICK i \in Id : base[c] <= num[i]
        BY DEF IInv, BasesAreRevisions
      <4>2. num[i] <= Newest /\ num[i] \in Nat /\ base[c] \in Nat
        BY NewestIsMax DEF IInv, TypeOK
      <4>3. base[c] \in 1 .. Newest
        BY <2>1, <2>4, <4>1, <4>2
      <4>. QED
        BY <4>3
    <3>2. DataVersion(c) = After(At(n), Own(c))
      BY <3>1 DEF DataVersion, After, Live
    <3>3. At(n) \in SUBSET history /\ Own(c) \in SUBSET history
      BY DEF At, ChangesBetween, Own
    <3>4. PICK old \in SUBSET history : old = At(n)
      BY <3>3
    <3>5. PICK changed \in SUBSET history : changed = Own(c)
      BY <3>3
    <3>6. Patched(Values(old), Diff(Hosts(old), Hosts(changed))) = Values(After(old, changed))
      <4>1. \A r, q \in old : SameObject(r, q) => r = q
        BY <3>4, OneRowPerObject
      <4>2. \A r, q \in changed : SameObject(r, q) => r = q
        BY <3>5 DEF Own, IInv, RowsHaveKeys
      <4>3. \A r, q \in old : SameName(r, q) => r = q
        BY <2>2, <3>4
      <4>4. \A r, q \in After(old, changed) : SameName(r, q) => r = q
        BY <2>4, <3>2, <3>4, <3>5 DEF NamesDiffer
      <4>. QED
        BY <4>1, <4>2, <4>3, <4>4, HostsArePatched
    <3>. QED
      BY <3>1, <3>2, <3>4, <3>5, <3>6 DEF DiffOf
  <2>. QED
    BY <2>3, <2>4 DEF DiffIsPatch
<1>. QED
  BY <1>1, Invariant, NamesAreUnique, PTL
=============================================================================
