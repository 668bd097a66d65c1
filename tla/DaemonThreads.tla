--------------------------- MODULE DaemonThreads ---------------------------
(***************************************************************************)
(* The two threads of folder_manager_daemon (the fanotify loop of main and *)
(* WorkerLoop), the task queue they share with its mutex and condition     *)
(* variable, and HandleSignal, which the kernel runs on top of whichever   *)
(* thread it picks, at any instruction.                                    *)
(*                                                                         *)
(* One action is one lock, one unlock or one stretch of code between them. *)
(* What a task does to the file system is in Daemon; here the worker only  *)
(* finishes a task or finds its file still open.                           *)
(***************************************************************************)
EXTENDS TaskQueue

CONSTANTS Path,            \* source paths the events name
          kMaxRetryCount,  \* times a task goes back because its file is open (3)
          MaxTasks         \* bound: events the kernel delivers in a run

ASSUME ThreadsAssumption == kMaxRetryCount \in Nat /\ MaxTasks \in Nat

VARIABLES
  g_running,   \* std::atomic<bool> g_running
  running,     \* TaskQueue::running_
  queue,       \* TaskQueue::queue_
  mutex,       \* the thread that owns TaskQueue::mutex_, or "nobody"
  pc,          \* where each thread is in its own code
  handlers,    \* signal frames on each thread's stack, innermost last
  task,        \* the task each thread holds in a local variable
  notified,    \* a notify has reached the worker's wait
  signals,     \* signals still to be delivered
  arrived      \* events delivered so far; stamps the tasks

vars == <<g_running, running, queue, mutex, pc, handlers, task, notified,
          signals, arrived>>

Thread == {"main", "worker"}
Signal == {"SIGTERM", "SIGINT"}

(* stamp, the place of the event in the order of arrival, tells tasks apart. *)
Task == [path : Path, retry : 0 .. kMaxRetryCount, stamp : 1 .. MaxTasks]
NoTask == [path |-> "none", retry |-> 0, stamp |-> 0]

MainStep   == {"loop", "poll", "batch", "push", "push_body", "push_notify",
               "push_unlock", "stop", "stop_body", "stop_notify",
               "stop_unlock", "join", "exited"}
WorkerStep == {"loop", "pop", "pop_check", "waiting", "pop_take",
               "pop_unlock", "popped", "working", "push", "push_body",
               "push_notify", "push_unlock", "exited"}
HandlerStep == {"entry", "stop", "stop_body", "stop_notify", "stop_unlock"}

(* Steps at which the code running on a thread is inside a critical section. *)
Holding == {"push_body", "push_notify", "push_unlock", "pop_check", "pop_take",
            "pop_unlock", "stop_body", "stop_notify", "stop_unlock"}

TypeOK ==
  /\ g_running \in BOOLEAN
  /\ running \in BOOLEAN
  /\ queue \in Seq(Task)
  /\ Len(queue) <= kQueueLimit
  /\ mutex \in Thread \cup {"nobody"}
  /\ pc \in [Thread -> MainStep \cup WorkerStep]
  /\ pc["main"] \in MainStep
  /\ pc["worker"] \in WorkerStep
  /\ handlers \in [Thread -> Seq([sig : Signal, at : HandlerStep])]
  /\ task \in [Thread -> Task \cup {NoTask}]
  /\ \A t \in Thread : pc[t] \in {"push", "push_body", "popped", "working"}
                        => task[t] \in Task
  /\ notified \in BOOLEAN
  /\ signals \subseteq Signal
  /\ arrived \in 0 .. MaxTasks
-----------------------------------------------------------------------------
(* The frames on the stack of thread t: 0 is its own code, the others are  *)
(* handlers, the last of which is the code the thread is executing.        *)
Depth(t) == Len(handlers[t])
FrameAt(t, i) == IF i = 0 THEN pc[t] ELSE handlers[t][i].at

At(t, s) == FrameAt(t, Depth(t)) = s

Goto(t, s) ==
  IF handlers[t] = <<>>
  THEN pc' = [pc EXCEPT ![t] = s] /\ UNCHANGED handlers
  ELSE handlers' = [handlers EXCEPT ![t][Depth(t)].at = s] /\ UNCHANGED pc

(* Thread t is at a step of its own code, with no handler on top of it. *)
Own(t, s) == handlers[t] = <<>> /\ pc[t] = s

(* Mutants: no lock is taken; nobody is told; the queue is not marked stopped. *)
AcquireAnyway(t) == mutex' = t
NotifyNobody == UNCHANGED notified
StopBodyUnset(t) ==
  /\ At(t, "stop_body")
  /\ Goto(t, "stop_notify")
  /\ UNCHANGED <<g_running, running, queue, mutex, task, notified, signals, arrived>>

Acquire(t) == mutex = "nobody" /\ mutex' = t
Release(t) == mutex = t /\ mutex' = "nobody"

(* notify_one and notify_all: the worker is the only thread that waits. *)
Notify == notified' = (notified \/ pc["worker"] = "waiting")

Init ==
  /\ g_running = TRUE
  /\ running = TRUE
  /\ queue = <<>>
  /\ mutex = "nobody"
  /\ pc = [t \in Thread |-> "loop"]
  /\ handlers = [t \in Thread |-> <<>>]
  /\ task = [t \in Thread |-> NoTask]
  /\ notified = FALSE
  /\ signals = Signal
  /\ arrived = 0
-----------------------------------------------------------------------------
(* TaskQueue::Push, called by both threads. *)

PushLock(t) ==
  /\ Own(t, "push")
  /\ Acquire(t)
  /\ Goto(t, "push_body")
  /\ UNCHANGED <<g_running, running, queue, task, notified, signals, arrived>>

PushBody(t) ==
  /\ Own(t, "push_body")
  /\ queue' \in Pushed(queue, task[t])
  /\ task' = [task EXCEPT ![t] = NoTask]
  /\ Goto(t, "push_notify")
  /\ UNCHANGED <<g_running, running, mutex, notified, signals, arrived>>

PushNotify(t) ==
  /\ Own(t, "push_notify")
  /\ Notify
  /\ Goto(t, "push_unlock")
  /\ UNCHANGED <<g_running, running, queue, mutex, task, signals, arrived>>

PushUnlock(t) ==
  /\ Own(t, "push_unlock")
  /\ Release(t)
  /\ Goto(t, IF t = "main" THEN "batch" ELSE "loop")
  /\ UNCHANGED <<g_running, running, queue, task, notified, signals, arrived>>

(* TaskQueue::Stop, called by main after its loop and by HandleSignal. *)

StopLock(t) ==
  /\ At(t, "stop")
  /\ Acquire(t)
  /\ Goto(t, "stop_body")
  /\ UNCHANGED <<g_running, running, queue, task, notified, signals, arrived>>

StopBody(t) ==
  /\ At(t, "stop_body")
  /\ running' = FALSE
  /\ Goto(t, "stop_notify")
  /\ UNCHANGED <<g_running, queue, mutex, task, notified, signals, arrived>>

StopNotify(t) ==
  /\ At(t, "stop_notify")
  /\ Notify
  /\ Goto(t, "stop_unlock")
  /\ UNCHANGED <<g_running, running, queue, mutex, task, signals, arrived>>

StopUnlock(t) ==
  /\ At(t, "stop_unlock")
  /\ Release(t)
  /\ IF handlers[t] = <<>>
     THEN pc' = [pc EXCEPT ![t] = "join"] /\ UNCHANGED handlers
     ELSE /\ handlers' = [handlers EXCEPT ![t] = SubSeq(@, 1, Len(@) - 1)]
          /\ UNCHANGED pc
  /\ UNCHANGED <<g_running, running, queue, task, notified, signals, arrived>>
-----------------------------------------------------------------------------
(* HandleSignal for SIGTERM and SIGINT.  While a handler runs its own      *)
(* signal is blocked on that thread, the other one is not.                 *)

Deliver(sig, t) ==
  /\ sig \in signals
  /\ pc[t] # "exited"
  /\ \A i \in 1 .. Len(handlers[t]) : handlers[t][i].sig # sig
  /\ signals' = signals \ {sig}
  /\ handlers' = [handlers EXCEPT ![t] = Append(@, [sig |-> sig, at |-> "entry"])]
  /\ UNCHANGED <<g_running, running, queue, mutex, pc, task, notified, arrived>>

HandleSignal(t) ==
  /\ At(t, "entry")
  /\ g_running' = FALSE
  /\ Goto(t, "stop")
  /\ UNCHANGED <<running, queue, mutex, task, notified, signals, arrived>>
-----------------------------------------------------------------------------
(* The loop of main, from the poll on. *)

MainLoop ==
  /\ Own("main", "loop")
  /\ Goto("main", IF g_running THEN "poll" ELSE "stop")
  /\ UNCHANGED <<g_running, running, queue, mutex, task, notified, signals, arrived>>

(* poll returns after a second at the latest, with a batch of events or without. *)
MainPoll ==
  /\ Own("main", "poll")
  /\ Goto("main", "batch")
  /\ UNCHANGED <<g_running, running, queue, mutex, task, notified, signals, arrived>>

(* The next event of the batch that a delete or a dynamic rule matches;    *)
(* g_running is not read again before the batch ends.                      *)
MainEvent(p) ==
  /\ Own("main", "batch")
  /\ arrived < MaxTasks
  /\ arrived' = arrived + 1
  /\ task' = [task EXCEPT !["main"] = [path |-> p, retry |-> 0, stamp |-> arrived + 1]]
  /\ Goto("main", "push")
  /\ UNCHANGED <<g_running, running, queue, mutex, notified, signals>>

MainBatchEnd ==
  /\ Own("main", "batch")
  /\ Goto("main", "loop")
  /\ UNCHANGED <<g_running, running, queue, mutex, task, notified, signals, arrived>>

MainJoin ==
  /\ Own("main", "join")
  /\ pc["worker"] = "exited"
  /\ Goto("main", "exited")
  /\ UNCHANGED <<g_running, running, queue, mutex, task, notified, signals, arrived>>
-----------------------------------------------------------------------------
(* WorkerLoop and TaskQueue::Pop. *)

WorkerTop ==
  /\ Own("worker", "loop")
  /\ Goto("worker", IF g_running THEN "pop" ELSE "exited")
  /\ UNCHANGED <<g_running, running, queue, mutex, task, notified, signals, arrived>>

PopLock ==
  /\ Own("worker", "pop")
  /\ Acquire("worker")
  /\ Goto("worker", "pop_check")
  /\ UNCHANGED <<g_running, running, queue, task, notified, signals, arrived>>

(* The predicate of condition_.wait; waiting releases the mutex atomically. *)
PopCheck ==
  /\ Own("worker", "pop_check")
  /\ IF queue # <<>> \/ ~running
     THEN Goto("worker", "pop_take") /\ UNCHANGED mutex
     ELSE Goto("worker", "waiting") /\ Release("worker")
  /\ notified' = FALSE
  /\ UNCHANGED <<g_running, running, queue, task, signals, arrived>>

PopWake ==
  /\ Own("worker", "waiting")
  /\ notified
  /\ Goto("worker", "pop")
  /\ UNCHANGED <<g_running, running, queue, mutex, task, notified, signals, arrived>>

PopSpuriousWake ==
  /\ Own("worker", "waiting")
  /\ Goto("worker", "pop")
  /\ UNCHANGED <<g_running, running, queue, mutex, task, notified, signals, arrived>>

PopTake ==
  /\ Own("worker", "pop_take")
  /\ IF running /\ queue # <<>>
     THEN /\ task' = [task EXCEPT !["worker"] = Head(queue)]
          /\ queue' = Tail(queue)
     ELSE UNCHANGED <<task, queue>>
  /\ Goto("worker", "pop_unlock")
  /\ UNCHANGED <<g_running, running, mutex, notified, signals, arrived>>

PopUnlock ==
  /\ Own("worker", "pop_unlock")
  /\ Release("worker")
  /\ Goto("worker", IF task["worker"] = NoTask THEN "loop" ELSE "popped")
  /\ UNCHANGED <<g_running, running, queue, task, notified, signals, arrived>>

WorkerRecheck ==
  /\ Own("worker", "popped")
  /\ Goto("worker", IF g_running THEN "working" ELSE "exited")
  /\ UNCHANGED <<g_running, running, queue, mutex, task, notified, signals, arrived>>

(* IsFileOpenByPid says the writer still has the file: back to the queue. *)
WorkerRetry ==
  /\ Own("worker", "working")
  /\ task["worker"].retry < kMaxRetryCount
  /\ task' = [task EXCEPT !["worker"].retry = @ + 1]
  /\ Goto("worker", "push")
  /\ UNCHANGED <<g_running, running, queue, mutex, notified, signals, arrived>>

(* The file is closed and the task is carried out, or its retries are spent. *)
WorkerFinish ==
  /\ Own("worker", "working")
  /\ task' = [task EXCEPT !["worker"] = NoTask]
  /\ Goto("worker", "loop")
  /\ UNCHANGED <<g_running, running, queue, mutex, notified, signals, arrived>>
-----------------------------------------------------------------------------
Push(t) == PushLock(t) \/ PushBody(t) \/ PushNotify(t) \/ PushUnlock(t)

Stop(t) == StopLock(t) \/ StopBody(t) \/ StopNotify(t) \/ StopUnlock(t)

MainNext == MainLoop \/ MainPoll \/ (\E p \in Path : MainEvent(p))
            \/ MainBatchEnd \/ MainJoin

WorkerNext == WorkerTop \/ PopLock \/ PopCheck \/ PopWake \/ PopTake
              \/ PopUnlock \/ WorkerRecheck \/ WorkerRetry \/ WorkerFinish

(* A step that the scheduler, left to itself, gives thread t. *)
Step(t) ==
  \/ Push(t)
  \/ Stop(t)
  \/ HandleSignal(t)
  \/ t = "main" /\ MainNext
  \/ t = "worker" /\ WorkerNext

Next ==
  \/ \E t \in Thread : Step(t)
  \/ \E sig \in Signal, t \in Thread : Deliver(sig, t)
  \/ PopSpuriousWake

(* The kernel schedules every thread that can run, and a thread that keeps *)
(* asking for a mutex that keeps being free gets it in the end.  Nobody    *)
(* need send a signal, and the worker need not wake without reason.        *)
Locking(t) == PushLock(t) \/ StopLock(t) \/ (t = "worker" /\ PopLock)

Fairness == \A t \in Thread : WF_vars(Step(t)) /\ SF_vars(Locking(t))

Spec == Init /\ [][Next]_vars /\ Fairness
-----------------------------------------------------------------------------
(* Two threads, or a thread and a handler on top of it, are never both     *)
(* between the lock and the unlock of TaskQueue, and the owner of the      *)
(* mutex is the thread that is.                                            *)
MutualExclusion ==
  \A t \in Thread : \A i \in 0 .. Depth(t) :
    FrameAt(t, i) \in Holding
      => /\ mutex = t
         /\ \A j \in 0 .. Depth(t) : FrameAt(t, j) \in Holding => j = i

(* The worker never sleeps through work: when it waits with no notify on   *)
(* its way and the lock is free, the queue is empty and not stopped.       *)
NoLostWakeup ==
  pc["worker"] = "waiting" /\ ~notified /\ mutex = "nobody"
    => queue = <<>> /\ running

(* A thread waits for a mutex that its own interrupted code holds.         *)
SelfDeadlocked ==
  \E t \in Thread : handlers[t] # <<>> /\ At(t, "stop") /\ mutex = t

(* Once a signal has asked for it the process ends, unless the handler     *)
(* interrupted the very thread that was inside Push, Pop or Stop.          *)
Shutdown == ~g_running ~> (pc["main"] = "exited" \/ SelfDeadlocked)

(* Pending tasks are always worked off while nobody asks to stop. *)
QueueDrains == queue # <<>> ~> (queue = <<>> \/ ~g_running)

(* Every step of the threads is a step of the abstract queue or none of it. *)
AbstractQueue ==
  INSTANCE BoundedQueue WITH pending <- queue, closed <- ~running,
                             Limit <- kQueueLimit
ImplementsQueue == AbstractQueue!Spec
=============================================================================
