--------------------------- MODULE ClientLibrary ----------------------------
(***************************************************************************)
(* The client library between its caller and the pipe to deska-server:     *)
(* CachingJsonApi (cached metadata, queued changes) on top of              *)
(* JsonApiParser (one request, one answer) on top of the connection        *)
(* (src/src/deska/db/).                                                    *)
(*                                                                         *)
(* A public method is a call: it needs zero or more exchanges with the     *)
(* server, one after the other, and returns or throws.  A change is known  *)
(* by a number; `applied' is what the database stored, in order, and       *)
(* `accepted' the changes whose method returned without an exception.      *)
(***************************************************************************)
EXTENDS JsonMessages

CONSTANTS
  Kinds,        \* names of kinds, in the order the server lists them
  Objects,      \* the objects the caller changes: pairs of a kind and a name
  SetCommands,  \* those of setAttribute, setAttributeInsert, setAttributeRemove a caller uses
  Reads, ChangesetCommands,    \* the methods of these groups a caller uses
  MaxChanges    \* bound: changes the caller makes

VARIABLES
  mode,         \* CachingJsonApi::m_commandBatching
  pending,      \* m_pendingModifications
  asked,        \* m_askedForMetadata
  cache,        \* m_cache: what is known of the scheme
  call,         \* the method being executed
  requests,     \* the pipe to the server
  replies,      \* the pipe from the server
  server,       \* the process at the other end
  issued,       \* number of changes made by the caller
  accepted, applied

vars == <<mode, pending, asked, cache, call, requests, replies, server, issued, accepted, applied>>

KindSet == ToSet(Kinds)
Names   == {o[2] : o \in Objects}
ASSUME ConstantsAssumption ==
  /\ Kinds \in Seq(STRING) /\ Objects \subseteq (KindSet \X STRING) /\ MaxChanges \in Nat
  /\ SetCommands \subseteq {"setAttribute", "setAttributeInsert", "setAttributeRemove"}
  /\ Reads \subseteq (DOMAIN ReadCalls \cup DOMAIN DiffCalls)
  /\ ChangesetCommands \subseteq DOMAIN ChangesetCalls

(* CommandBatchingMode, in the order of the enumeration.                   *)
SEND_IMMEDIATELY  == 0
CACHE_SAME_OBJECT == 1
CACHE_SAME_KIND   == 2
Modes == 0..2

(* An ObjectModificationCommand: `next' is the name by which a following   *)
(* command refers to the object (ExtractObjectId); `merged' marks the ones *)
(* queued by applyBatchedChanges.                                          *)
Command == [id : Nat, kind : KindSet, name : Names, next : Names, merged : BOOLEAN]
Change(id, k, n, next) == [id |-> id, kind |-> k, name |-> n, next |-> next, merged |-> FALSE]
Ids(cs) == [i \in 1..Len(cs) |-> cs[i].id]

(* One request and its answer; `flush' marks the batch which empties the   *)
(* queue.  Of the arguments only the kind a request is about is kept.      *)
NoKind == "-"
Exchange(cmd, arg, ids) == [cmd |-> cmd, arg |-> arg, ids |-> ids, flush |-> FALSE]
Ask(cmd, arg)  == Exchange(cmd, arg, <<>>)
FlushExchange == [Exchange("applyBatchedChanges", NoKind, Ids(pending)) EXCEPT !.flush = TRUE]
Flush == IF pending = <<>> THEN <<>> ELSE <<FlushExchange>>

NoCall == [busy |-> FALSE, waiting |-> FALSE, todo |-> <<>>, queue |-> <<>>, ids |-> <<>>, mode |-> 0]
Idle   == ~call.busy

Init ==
  /\ mode = SEND_IMMEDIATELY /\ pending = <<>> /\ asked = FALSE /\ cache = {}
  /\ call = NoCall /\ requests = <<>> /\ replies = <<>> /\ server = "starting"
  /\ issued = 0 /\ accepted = <<>> /\ applied = <<>>

-----------------------------------------------------------------------------
(* Calls.  todo: the exchanges it needs; queue: the commands it queues;    *)
(* ids: the changes it makes; m: the mode it leaves.                       *)
Begin(todo, queue, ids, m) ==
  /\ Idle
  /\ issued + Len(ids) <= MaxChanges
  /\ issued' = issued + Len(ids)
  /\ IF todo = <<>>
     THEN /\ pending' = pending \o queue
          /\ accepted' = accepted \o ids
          /\ mode' = m
          /\ UNCHANGED call
     ELSE /\ call' = [busy |-> TRUE, waiting |-> FALSE, todo |-> todo, queue |-> queue, ids |-> ids, mode |-> m]
          /\ UNCHANGED <<pending, accepted, mode>>
  /\ UNCHANGED <<asked, cache, requests, replies, server, applied>>

IsPreviousSameObjectAs(k, n) ==
  pending # <<>> => Last(pending).kind = k /\ Last(pending).next = n
IsPreviousSameKindAs(k) == pending # <<>> => Last(pending).kind = k

FlushUnlessSame(k, n) ==
  IF \/ mode = CACHE_SAME_OBJECT /\ ~IsPreviousSameObjectAs(k, n)
     \/ mode = CACHE_SAME_KIND /\ ~IsPreviousSameKindAs(k)
  THEN Flush ELSE <<>>

(* A change in the three modes: at once, or queued behind what it may      *)
(* share a batch with.                                                     *)
SendOrQueue(cmd, c) ==
  IF mode = SEND_IMMEDIATELY
  THEN Begin(<<Exchange(cmd, NoKind, <<c.id>>)>>, <<>>, <<c.id>>, mode)
  ELSE Begin(FlushUnlessSame(c.kind, c.name), <<c>>, <<c.id>>, mode)

DeleteObject(k, n) == SendOrQueue("deleteObject", Change(issued + 1, k, n, n))
SetAttribute(cmd, k, n) == SendOrQueue(cmd, Change(issued + 1, k, n, n))
RenameObject(k, n, new) == SendOrQueue("renameObject", Change(issued + 1, k, n, new))

(* An object with a name of its own is queued; one that the server names   *)
(* is created at once, behind the queue.                                   *)
CreateNamedObject(k, n) ==
  LET c == Change(issued + 1, k, n, n) IN
  IF mode = CACHE_SAME_OBJECT THEN Begin(Flush, <<c>>, <<c.id>>, mode) ELSE SendOrQueue("createObject", c)
CreateUnnamedObjectWrong ==     \* mutant: sent past the queue
  Begin(<<Exchange("createObject", NoKind, <<issued + 1>>)>>, <<>>, <<issued + 1>>, mode)
CreateUnnamedObject ==
  Begin(Append(IF mode = SEND_IMMEDIATELY THEN <<>> ELSE Flush, Exchange("createObject", NoKind, <<issued + 1>>)),
        <<>>, <<issued + 1>>, mode)

RestoreDeletedObject ==
  Begin(Append(Flush, Exchange("restoreDeletedObject", NoKind, <<issued + 1>>)), <<>>, <<issued + 1>>, mode)

(* A batch of the caller's is trusted to belong together.                  *)
ApplyBatchedChanges(ks) ==
  LET cs == [i \in 1..Len(ks) |-> [Change(issued + i, ks[i][1], ks[i][2], ks[i][2]) EXCEPT !.merged = TRUE]] IN
  IF mode = SEND_IMMEDIATELY
  THEN Begin(<<Exchange("applyBatchedChanges", NoKind, Ids(cs))>>, <<>>, Ids(cs), mode)
  ELSE Begin(<<>>, cs, Ids(cs), mode)

SetCommandBatchingWrong(m) == Begin(<<>>, <<>>, <<>>, m)    \* mutant: nothing is flushed
SetCommandBatching(m) == Begin(IF m < mode THEN Flush ELSE <<>>, <<>>, <<>>, m)

(* askForMetadata: everything once; kindNames starts it, the rest follows  *)
(* from its answer.                                                        *)
AskForMetadata == IF asked THEN <<>> ELSE <<Ask("kindNames", NoKind)>>
AskForKindsWrong == [i \in 1..Len(Kinds) |-> Ask("kindAttributes", Kinds[i])]  \* mutant: no relations
AskForKinds ==
  [i \in 1..(2 * Len(Kinds)) |->
     IF i % 2 = 1 THEN Ask("kindAttributes", Kinds[(i + 1) \div 2]) ELSE Ask("kindRelations", Kinds[i \div 2])]

Metadata == Begin(AskForMetadata, <<>>, <<>>, mode)

(* Reads go straight to the server, and need the scheme to read attributes *)
(* (kindAttributesWithoutRelation, diffHelper).                            *)
NeedsMetadata(cmd) == cmd \in (DOMAIN ReadCalls \ {"kindInstances"}) \cup DOMAIN DiffCalls
Read(cmd, k) ==
  Begin((IF NeedsMetadata(cmd) THEN AskForMetadata ELSE <<>>) \o <<Ask(cmd, k)>>, <<>>, <<>>, mode)
ChangesetCommand(cmd) == Begin(<<Ask(cmd, NoKind)>>, <<>>, <<>>, mode)

-----------------------------------------------------------------------------
(* The exchange in progress is the first of call.todo.                     *)
Throw == call' = NoCall /\ UNCHANGED <<mode, pending, asked, cache, accepted>>

(* What is written to a pipe nobody reads any more is lost.                *)
SendWrong ==      \* mutant: the next request does not wait for the answer
  /\ call.busy /\ requests = <<>> /\ server # "gone"
  /\ requests' = Append(requests, Head(call.todo))
  /\ call' = [call EXCEPT !.waiting = TRUE]
  /\ UNCHANGED <<mode, pending, asked, cache, replies, server, issued, accepted, applied>>
Send ==
  /\ call.busy /\ ~call.waiting
  /\ requests' = IF server = "gone" THEN requests ELSE Append(requests, Head(call.todo))
  /\ call' = [call EXCEPT !.waiting = TRUE]
  /\ UNCHANGED <<mode, pending, asked, cache, replies, server, issued, accepted, applied>>

(* sendJsonObject finds the stream bad.                                    *)
SendFails ==
  /\ call.busy /\ ~call.waiting /\ server = "gone"
  /\ Throw
  /\ UNCHANGED <<requests, replies, server, issued, applied>>

(* An exchange has ended well: a batch of the queue empties it, metadata   *)
(* are remembered, and the last one ends the call.                         *)
Complete(e) ==
  LET queue == IF e.flush THEN <<>> ELSE pending
      more  == (IF e.cmd = "kindNames" THEN AskForKinds ELSE <<>>) \o Tail(call.todo)
      known == cache \cup (IF e.cmd \in {"kindAttributes", "kindRelations"} THEN {<<e.cmd, e.arg>>} ELSE {})
  IN  /\ cache' = known
      /\ asked' = (asked \/ (e.cmd \in DOMAIN MetadataCalls /\ \A i \in 1..Len(more) : more[i].cmd \notin DOMAIN MetadataCalls))
      /\ IF more # <<>>
         THEN /\ call' = [call EXCEPT !.waiting = FALSE, !.todo = more]
              /\ pending' = queue
              /\ UNCHANGED <<accepted, mode>>
         ELSE /\ call' = NoCall
              /\ pending' = queue \o call.queue
              /\ accepted' = accepted \o call.ids
              /\ mode' = call.mode

(* What reading an answer of each form gives; "cut" is an answer whose     *)
(* writer died: JsonSyntaxError.                                           *)
ObjectOf(r) ==
  CASE r.form = "result"  -> ResultObject(r.cmd, "data")
    [] r.form = "bad"     -> ResultObject(r.cmd, "bad")
    [] r.form = "refused" -> ErrorObject(r.cmd)
    [] r.form = "fatal"   -> FatalObject
Reply(cmd, form) == [cmd |-> cmd, form |-> form]
Answers == [cmd : Commands, form : {"result", "bad", "refused", "fatal"}]
Accepts == [c \in Commands |-> {r \in Answers : Received(c, {}, ObjectOf(r)) = "ok"}]

Receive ==
  /\ call.busy /\ call.waiting /\ replies # <<>>
  /\ IF Head(replies) \in Accepts[Head(call.todo).cmd] THEN Complete(Head(call.todo)) ELSE Throw
  /\ replies' = Tail(replies)
  /\ UNCHANGED <<requests, server, issued, applied>>

(* End of file: JsonConnectionError.                                       *)
ReceiveEofWrong == call.busy /\ call.waiting /\ replies = <<>> /\ server = "gone" /\ UNCHANGED vars  \* mutant: reads again
ReceiveEof ==
  /\ call.busy /\ call.waiting /\ replies = <<>> /\ server = "gone"
  /\ Throw
  /\ UNCHANGED <<requests, replies, server, issued, applied>>

-----------------------------------------------------------------------------
(* deska-server: one line, one answer, in order.                           *)
client == <<mode, pending, asked, cache, call, issued, accepted>>

Answer(form) ==
  requests' = Tail(requests) /\ replies' = Append(replies, Reply(Head(requests).cmd, form))

ServerStarts == server = "starting" /\ server' = "up" /\ UNCHANGED <<client, requests, replies, applied>>

(* No connection to the database: an error nobody asked for, and the end.  *)
ServerCannotStart ==
  /\ server = "starting"
  /\ server' = "gone"
  /\ replies' = Append(replies, Reply("kindNames", "fatal"))
  /\ requests' = <<>>
  /\ UNCHANGED <<client, applied>>

Serve ==
  /\ server = "up" /\ requests # <<>>
  /\ Answer("result")
  /\ applied' = applied \o Head(requests).ids
  /\ UNCHANGED <<client, server>>

(* A value of another type than the cached scheme says: only a read        *)
(* returns values.                                                         *)
ServeOtherScheme ==
  /\ server = "up" /\ requests # <<>> /\ NeedsMetadata(Head(requests).cmd)
  /\ Answer("bad")
  /\ UNCHANGED <<client, server, applied>>

(* A refused change, and a refused batch, leaves nothing behind.           *)
Refuse ==
  /\ server = "up" /\ requests # <<>>
  /\ Answer("refused")
  /\ UNCHANGED <<client, server, applied>>

(* An exception nobody catches: it is reported, and the process ends.      *)
ServeFatal ==
  /\ server = "up" /\ requests # <<>>
  /\ Answer("fatal")
  /\ server' = "gone"
  /\ UNCHANGED <<client, applied>>

(* The process is killed: idle, with a request unread, after it stored the *)
(* changes, or in the middle of its answer.                                *)
ServerDies ==
  /\ server \in {"starting", "up"}
  /\ server' = "gone"
  /\ requests' = <<>>
  /\ \/ UNCHANGED <<replies, applied>>
     \/ /\ server = "up" /\ requests # <<>>
        /\ applied' = applied \o Head(requests).ids
        /\ \/ UNCHANGED replies
           \/ replies' = Append(replies, Reply(Head(requests).cmd, "cut"))
  /\ UNCHANGED client

-----------------------------------------------------------------------------
Changes ==
  \/ \E o \in Objects :
       \/ DeleteObject(o[1], o[2]) \/ CreateNamedObject(o[1], o[2])
       \/ \E cmd \in SetCommands : SetAttribute(cmd, o[1], o[2])
       \/ \E new \in Objects : new[1] = o[1] /\ new # o /\ RenameObject(o[1], o[2], new[2])
  \/ CreateUnnamedObject \/ RestoreDeletedObject
  \/ \E ks \in Objects \X Objects : ApplyBatchedChanges(ks)
  \/ \E m \in Modes : SetCommandBatching(m)

Others ==
  \/ Metadata
  \/ \E cmd \in Reads, k \in KindSet : Read(cmd, k)
  \/ \E cmd \in ChangesetCommands : ChangesetCommand(cmd)

Client == Send \/ SendFails \/ Receive \/ ReceiveEof
Server == ServerStarts \/ ServerCannotStart \/ Serve \/ ServeOtherScheme \/ Refuse \/ ServeFatal \/ ServerDies

Next == Changes \/ Others \/ Client \/ Server

Spec == Init /\ [][Next]_vars

(* The library does not wait for anything but the server, and a server     *)
(* with a request answers it or dies.                                      *)
FairSpec == Spec /\ WF_vars(Client) /\ WF_vars(Server)

-----------------------------------------------------------------------------
(* Types of the variables.                                                 *)
Exchanges == [cmd : Commands, arg : KindSet \cup {NoKind}, ids : Seq(Nat), flush : BOOLEAN]
TypeOK ==
  /\ mode \in Modes /\ asked \in BOOLEAN /\ issued \in 0..MaxChanges
  /\ pending \in Seq(Command)
  /\ cache \subseteq ({"kindAttributes", "kindRelations"} \X KindSet)
  /\ call \in [busy : BOOLEAN, waiting : BOOLEAN, todo : Seq(Exchanges), queue : Seq(Command),
               ids : Seq(Nat), mode : Modes]
  /\ requests \in Seq(Exchanges)
  /\ server \in {"starting", "up", "gone"}
  /\ accepted \in Seq(1..MaxChanges) /\ applied \in Seq(1..MaxChanges)

(* A caller that is not inside a call can account for every change it was  *)
(* told is made: it is in the database or still in the queue, once, and in *)
(* the order in which the changes were made; in SEND_IMMEDIATELY it is in  *)
(* the database.  Refused batches and refused changes do not disturb it.   *)
Accounted ==
  Idle /\ server # "gone" => /\ applied \o Ids(pending) = accepted
                             /\ mode = SEND_IMMEDIATELY => applied = accepted

(* Requests and answers stay in step: what is in the two pipes belongs to  *)
(* the exchange the library waits for, so that no error leaves an answer   *)
(* behind for the next call.  Only the error of a server that could not    *)
(* start may come before its request.                                      *)
InStep ==
  server = "up" =>
    /\ Len(requests) + Len(replies) = (IF call.waiting THEN 1 ELSE 0)
    /\ requests # <<>> => Head(requests) = Head(call.todo)
    /\ replies # <<>> => Head(replies).cmd = Head(call.todo).cmd

(* The cached scheme is whole when it is used: an askForMetadata that      *)
(* fails half way is repeated.                                             *)
MetadataComplete == asked => cache = {"kindAttributes", "kindRelations"} \X KindSet

(* The user's view: see ChangeQueue.                                       *)
Delivered == {i \in 1..Len(pending) : pending[i].id \in ToSet(applied)}
Waiting == SubSeq(Ids(pending), Cardinality(Delivered) + 1, Len(pending))
Queue == INSTANCE ChangeQueue WITH Item <- Nat, todo <- Waiting, done <- applied
ImplementsQueue == Queue!Spec

(* Every call comes back, with a result or an exception.                   *)
CallsReturn == call.busy ~> ~call.busy

-----------------------------------------------------------------------------
(* The inductive invariant.  What a call has left to do: the flush of the  *)
(* queue comes first, changes made at once come last, and only behind an   *)
(* empty or flushed queue.                                                 *)
IsFlush(i)  == call.todo[i].flush
Changing(i) == ~IsFlush(i) /\ call.todo[i].ids # <<>>
QueueGoes   == pending = <<>> \/ (call.busy /\ IsFlush(1))
OwnIds      == IF IsFlush(Len(call.todo)) THEN <<>> ELSE call.todo[Len(call.todo)].ids

CallShape ==
  /\ ~call.busy => call = NoCall
  /\ call.busy =>
       /\ call.todo # <<>>
       /\ IsFlush(1) => pending # <<>> /\ call.todo[1] = FlushExchange
       /\ \A i \in 2..Len(call.todo) : ~IsFlush(i)
       /\ \A i \in 1..Len(call.todo) :
            /\ Changing(i) => /\ i = Len(call.todo) /\ call.queue = <<>> /\ QueueGoes
                              /\ call.todo[i].cmd \in DOMAIN ModifyCalls
            /\ call.todo[i].cmd \in {"kindAttributes", "kindRelations"} => call.todo[i].arg \in KindSet
       /\ call.ids = OwnIds \o Ids(call.queue)
  /\ mode = SEND_IMMEDIATELY => pending = <<>>
  /\ call.busy /\ call.mode = SEND_IMMEDIATELY => call.queue = <<>> /\ QueueGoes

(* The pipes hold one exchange at most, and the answer tells what the      *)
(* server did.                                                             *)
Forms == {"result", "bad", "refused", "fatal", "cut"}
Pipes ==
  /\ replies \in Seq([cmd : Commands, form : Forms]) /\ Len(replies) <= 1
  /\ server = "gone" => requests = <<>>
  /\ server # "gone" => Len(requests) + Len(replies) = (IF call.waiting THEN 1 ELSE 0)
  /\ server = "starting" => replies = <<>>
  /\ requests # <<>> => Head(requests) = Head(call.todo)
  /\ replies # <<>> =>
       /\ replies[1].form # "fatal" => call.waiting /\ replies[1].cmd = call.todo[1].cmd
       /\ replies[1].form \in {"fatal", "cut"} => server = "gone"
       /\ replies[1].form = "bad" => NeedsMetadata(replies[1].cmd)

(* Changes have increasing numbers, and what is queued was accepted.       *)
Increasing(s) == \A i, j \in 1..Len(s) : i < j => s[i] < s[j]
Numbered ==
  /\ \A i \in 1..Len(accepted \o call.ids) : (accepted \o call.ids)[i] \in 1..issued
  /\ Increasing(accepted \o call.ids)
  /\ ToSet(applied) \subseteq 1..issued
  /\ ToSet(Ids(pending)) \subseteq ToSet(accepted)
  /\ ToSet(applied) \cap ToSet(Ids(call.queue)) = {}

(* The balance of the changes, also in the middle of a call: the database  *)
(* is ahead of what was accepted by the exchange whose answer is still to  *)
(* be read.                                                                *)
Served  == call.waiting /\ replies # <<>> /\ replies[1].form = "result"
Balance ==
  /\ server # "gone" => applied \o (IF Served /\ IsFlush(1) THEN <<>> ELSE Ids(pending))
                          = accepted \o (IF Served /\ ~IsFlush(1) THEN call.todo[1].ids ELSE <<>>)
  /\ Served /\ IsFlush(1) => ToSet(Ids(pending)) \subseteq ToSet(applied)

(* The scheme: known, not being asked for, or being asked for, beginning   *)
(* with the names of the kinds.                                            *)
AsksScheme(i) == call.todo[i].cmd \in DOMAIN MetadataCalls
Scheme == {"kindAttributes", "kindRelations"} \X KindSet
SchemeShape ==
  /\ asked => cache = Scheme
  /\ \/ \A i \in 1..Len(call.todo) : ~AsksScheme(i)
     \/ /\ ~asked /\ call.todo[1].cmd = "kindNames"
        /\ \A i \in 2..Len(call.todo) : ~AsksScheme(i)
     \/ /\ ~asked
        /\ \A i \in 1..Len(call.todo) : call.todo[i].cmd # "kindNames"
        /\ \A x \in Scheme : \/ x \in cache
                             \/ \E i \in 1..Len(call.todo) : call.todo[i].cmd = x[1] /\ call.todo[i].arg = x[2]

IInv == TypeOK /\ CallShape /\ Pipes /\ Numbered /\ Balance /\ SchemeShape

=============================================================================
