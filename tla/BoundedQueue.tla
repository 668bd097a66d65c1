---------------------------- MODULE BoundedQueue ----------------------------
(***************************************************************************)
(* What the event loop and the worker may expect of the task queue, with   *)
(* no lock, no condition variable and no thread in sight.  A submission is *)
(* never refused and never blocks.  A full queue sheds exactly one task to *)
(* make room, one of the same path if there is any, so that a path that is *)
(* written over and over cannot push the work of other paths out.  Tasks   *)
(* are taken in the order in which they are pending, and none is taken     *)
(* once the queue is closed.                                               *)
(***************************************************************************)
EXTENDS Integers, Sequences

CONSTANTS Task,      \* the tasks that may be submitted
          Limit      \* the most tasks that may be pending

VARIABLES pending, closed

vars == <<pending, closed>>

Without(q, i) == [j \in 1 .. Len(q) - 1 |-> IF j < i THEN q[j] ELSE q[j + 1]]

(* The tasks a full queue may shed for t. *)
Sheddable(t) ==
  LET same == {i \in 1 .. Len(pending) : pending[i].path = t.path}
  IN  IF same = {} THEN 1 .. Len(pending) ELSE same

Init == pending = <<>> /\ closed = FALSE

Submit(t) ==
  /\ \/ /\ Len(pending) < Limit
        /\ pending' = Append(pending, t)
     \/ /\ Len(pending) = Limit
        /\ \E i \in Sheddable(t) : pending' = Append(Without(pending, i), t)
  /\ UNCHANGED closed

Take ==
  /\ ~closed
  /\ pending # <<>>
  /\ pending' = Tail(pending)
  /\ UNCHANGED closed

Close == closed' = TRUE /\ UNCHANGED pending

Next == (\E t \in Task : Submit(t)) \/ Take \/ Close

Spec == Init /\ [][Next]_vars
=============================================================================
