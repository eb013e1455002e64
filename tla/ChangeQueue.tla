---------------------------- MODULE ChangeQueue -----------------------------
(***************************************************************************)
(* What a user of the client library is promised about the changes it      *)
(* makes: they reach the database once, in the order in which they were    *)
(* made; a change may wait in a queue, but none overtakes the queue, and   *)
(* the queue is delivered as a whole.                                      *)
(***************************************************************************)
EXTENDS Naturals, Sequences

CONSTANT Item
VARIABLES todo, done
vars == <<todo, done>>

Init == todo = <<>> /\ done = <<>>

Extends(t, s) == Len(s) <= Len(t) /\ SubSeq(t, 1, Len(s)) = s /\ t \in Seq(Item)

(* Changes are accepted and wait.                                          *)
Queue == Extends(todo', todo) /\ done' = done

(* The queue is delivered.                                                 *)
Deliver == todo # <<>> /\ done' = done \o todo /\ todo' = <<>>

(* Changes are delivered at once; nothing may be waiting.                  *)
Pass == todo = <<>> /\ todo' = todo /\ Extends(done', done)

Next == Queue \/ Deliver \/ Pass

Spec == Init /\ [][Next]_vars
=============================================================================
