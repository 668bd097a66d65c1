----------------------------- MODULE TaskQueue -----------------------------
(***************************************************************************)
(* The contents of class TaskQueue of folder_manager_daemon.cpp as pure    *)
(* operators on sequences: what Push makes of the deque and what Pop takes *)
(* from it.  The mutex, the condition variable and the threads around them *)
(* are in DaemonThreads; Daemon uses these operators as atomic steps.      *)
(*                                                                         *)
(* A task is a record with at least a field path (MoveTask::source_path).  *)
(***************************************************************************)
EXTENDS Integers, Sequences

CONSTANT kQueueLimit      \* upper bound the code puts on the deque (256)

ASSUME QueueLimitAssumption == kQueueLimit \in Nat \ {0}

(* The deque without its i-th element (deque::erase, deque::pop_front). *)
Erase(q, i) == [j \in 1 .. Len(q) - 1 |-> IF j < i THEN q[j] ELSE q[j + 1]]

(* Positions of the tasks with the source path of t. *)
SamePath(q, t) == {i \in 1 .. Len(q) : q[i].path = t.path}

(* Mutants: the front is dropped whatever its path; the limit is off by one. *)
VictimFront(q, t) == {1}
PushedPastLimit(q, t) ==
  IF Len(q) <= kQueueLimit THEN {Append(q, t)} ELSE {Append(Erase(q, 1), t)}

(* The position a full queue gives up for t: the first task of the same    *)
(* path, or else the front.                                                *)
Victim(q, t) ==
  IF SamePath(q, t) = {} THEN {1}
  ELSE {i \in SamePath(q, t) : \A j \in SamePath(q, t) : i <= j}

(* The deques Push(t) may leave; exactly one for every q and t. *)
Pushed(q, t) ==
  IF Len(q) < kQueueLimit
  THEN {Append(q, t)}
  ELSE {Append(Erase(q, i), t) : i \in Victim(q, t)}
=============================================================================
