------------------------ MODULE DaemonThreadsProofs ------------------------
(***************************************************************************)
(* Proofs about DaemonThreads, for every set of paths, every queue limit,  *)
(* every retry count and any number of events.                             *)
(***************************************************************************)
EXTENDS DaemonThreads, SequenceTheorems, TLAPS

(* Erase drops one task and leaves the others as they were. *)
LEMMA EraseType ==
  ASSUME NEW S, NEW q \in Seq(S), NEW i \in 1 .. Len(q)
  PROVE  /\ Erase(q, i) \in Seq(S)
         /\ Len(Erase(q, i)) = Len(q) - 1
<1> DEFINE n == Len(q) - 1
<1>1. n \in Nat
  BY LenProperties
<1>2. Erase(q, i) \in [1 .. n -> S]
  BY ElementOfSeq, LenProperties DEF Erase
<1>3. Erase(q, i) \in Seq(S)
  BY <1>1, <1>2, SeqDef
<1>4. DOMAIN Erase(q, i) = 1 .. n
  BY <1>2
<1>5. Len(Erase(q, i)) = n
  BY <1>1, <1>3, <1>4, LenProperties
<1>. QED  BY <1>3, <1>5

(* Push keeps the deque within kQueueLimit whatever it drops. *)
LEMMA PushedType ==
  ASSUME NEW S, NEW q \in Seq(S), NEW e \in S, Len(q) <= kQueueLimit,
         NEW r \in Pushed(q, e)
  PROVE  /\ r \in Seq(S)
         /\ Len(r) <= kQueueLimit
         /\ r # <<>>
<1>. USE QueueLimitAssumption, LenProperties
<1>1. CASE Len(q) < kQueueLimit
  <2>1. r = Append(q, e)
    BY <1>1 DEF Pushed
  <2>. QED  BY <2>1, <1>1, AppendProperties
<1>2. CASE ~(Len(q) < kQueueLimit)
  <2>1. PICK i \in Victim(q, e) : r = Append(Erase(q, i), e)
    BY <1>2 DEF Pushed
  <2>2. i \in 1 .. Len(q)
    BY <1>2, <2>1 DEF Victim, SamePath
  <2>3. Erase(q, i) \in Seq(S) /\ Len(Erase(q, i)) = Len(q) - 1
    BY <2>2, EraseType
  <2>. QED  BY <2>1, <2>3, AppendProperties
<1>. QED  BY <1>1, <1>2
-----------------------------------------------------------------------------
(* Goto changes the innermost frame of one thread and nothing else. *)
LEMMA GotoFrames ==
  ASSUME TypeOK, NEW t \in Thread, NEW s, Goto(t, s)
  PROVE  \A u \in Thread :
           /\ Depth(u)' = Depth(u)
           /\ \A i \in 0 .. Depth(u) :
                FrameAt(u, i)' = IF u = t /\ i = Depth(t) THEN s ELSE FrameAt(u, i)
<1>1. CASE handlers[t] = <<>>
  BY <1>1 DEF Goto, Depth, FrameAt, TypeOK
<1>2. CASE handlers[t] # <<>>
  <2>. DEFINE H == [sig : Signal, at : HandlerStep]
              n == Depth(t)
              h == [handlers[t] EXCEPT ![n] = [handlers[t][n] EXCEPT !.at = s]]
  <2>1. handlers \in [Thread -> Seq(H)]
    BY DEF TypeOK
  <2>2. \A u \in Thread : Depth(u) \in Nat /\ handlers[u] \in [1 .. Depth(u) -> H]
    BY <2>1, LenProperties DEF Depth
  <2>3. n \in 1 .. n /\ n # 0
    BY <1>2, <2>1, EmptySeq DEF Depth
  <2>4. handlers' = [handlers EXCEPT ![t] = h] /\ pc' = pc
    BY <1>2 DEF Goto
  <2>5. h \in [1 .. n -> UNION {H, {h[n]}}]
    BY <2>2, <2>3
  <2>6. h[n].at = s /\ \A i \in 1 .. n : i # n => h[i] = handlers[t][i]
    BY <2>2, <2>3
  <2>7. Len(h) = n
    BY <2>2, <2>3, <2>5, SeqDef, LenProperties
  <2>8. ASSUME NEW u \in Thread
        PROVE  /\ Depth(u)' = Depth(u)
               /\ \A i \in 0 .. Depth(u) :
                    FrameAt(u, i)' = IF u = t /\ i = n THEN s ELSE FrameAt(u, i)
    <3>1. CASE u = t
      BY <3>1, <2>1, <2>2, <2>3, <2>4, <2>6, <2>7 DEF Depth, FrameAt
    <3>2. CASE u # t
      BY <3>2, <2>1, <2>4 DEF Depth, FrameAt
    <3>. QED  BY <3>1, <3>2
  <2>. QED  BY <2>8
<1>. QED  BY <1>1, <1>2

(* The conjuncts of TypeOK about the program counters and the frames. *)
FramesOK ==
  /\ pc \in [Thread -> MainStep \cup WorkerStep]
  /\ pc["main"] \in MainStep
  /\ pc["worker"] \in WorkerStep
  /\ handlers \in [Thread -> Seq([sig : Signal, at : HandlerStep])]

LEMMA GotoType ==
  ASSUME FramesOK, NEW t \in Thread, NEW s, Goto(t, s),
         handlers[t] = <<>> =>
           s \in (IF t = "main" THEN MainStep ELSE WorkerStep),
         handlers[t] # <<>> => s \in HandlerStep
  PROVE  /\ FramesOK'
         /\ \A u \in Thread : pc'[u] = pc[u] \/ pc'[u] = s
<1>1. CASE handlers[t] = <<>>
  BY <1>1 DEF Goto, FramesOK, Thread
<1>2. CASE handlers[t] # <<>>
  <2>. DEFINE H == [sig : Signal, at : HandlerStep]
              n == Len(handlers[t])
              e == [handlers[t][n] EXCEPT !.at = s]
  <2>1. handlers \in [Thread -> Seq(H)] /\ handlers[t] \in Seq(H)
    BY DEF FramesOK
  <2>2. n \in 1 .. Len(handlers[t])
    BY <1>2, <2>1, EmptySeq
  <2>3. handlers[t][n] \in H
    BY <2>1, <2>2, ElementOfSeq
  <2>4. e \in H
    BY <1>2, <2>3
  <2>5. [handlers[t] EXCEPT ![n] = e] \in Seq(H)
    <3>. HIDE DEF H, e, n
    <3>. QED  BY <2>1, <2>2, <2>4, ExceptSeq
  <2>6. handlers' = [handlers EXCEPT ![t] = [handlers[t] EXCEPT ![n] = e]] /\ pc' = pc
    BY <1>2 DEF Goto, Depth
  <2>7. handlers' \in [Thread -> Seq(H)]
    BY <2>1, <2>5, <2>6
  <2>. QED  BY <2>6, <2>7 DEF FramesOK
<1>. QED  BY <1>1, <1>2

(* A thread that is at one of the steps of Stop outside its handlers is    *)
(* main, and where Stop goes on is a step of main and of HandleSignal.     *)
LEMMA StopStepsType ==
  ASSUME TypeOK, NEW t \in Thread,
         At(t, "entry") \/ At(t, "stop") \/ At(t, "stop_body") \/ At(t, "stop_notify")
           \/ At(t, "stop_unlock")
  PROVE  handlers[t] = <<>> => t = "main" /\ pc[t] # "entry"
<1>. SUFFICES ASSUME handlers[t] = <<>>
              PROVE  t = "main" /\ pc[t] # "entry"
  OBVIOUS
<1>1. pc[t] \in {"entry", "stop", "stop_body", "stop_notify", "stop_unlock"}
  BY EmptySeq DEF At, FrameAt, Depth
<1>2. pc[t] # "entry"
  BY DEF TypeOK, MainStep, WorkerStep, Thread
<1>3. t = "main"
  BY <1>1 DEF TypeOK, WorkerStep, Thread
<1>. QED  BY <1>2, <1>3

(* Returning from a handler. *)
LEMMA PopHandlerType ==
  ASSUME NEW S, NEW h \in Seq(S), h # <<>>
  PROVE  /\ SubSeq(h, 1, Len(h) - 1) \in Seq(S)
         /\ Len(SubSeq(h, 1, Len(h) - 1)) = Len(h) - 1
         /\ \A i \in 1 .. Len(h) - 1 : SubSeq(h, 1, Len(h) - 1)[i] = h[i]
<1>. DEFINE n == Len(h) - 1
<1>1. n \in Nat /\ 1 \in Int /\ n \in Int
  BY EmptySeq
<1>2. \A i \in 1 .. n : h[i] \in S
  BY <1>1, ElementOfSeq
<1>3. /\ SubSeq(h, 1, n) \in Seq(S)
      /\ Len(SubSeq(h, 1, n)) = IF 1 <= n THEN n - 1 + 1 ELSE 0
      /\ \A i \in 1 .. n - 1 + 1 : SubSeq(h, 1, n)[i] = h[1 + i - 1]
  <2>. HIDE DEF n
  <2>. QED  BY <1>1, <1>2, SubSeqProperties
<1>4. /\ SubSeq(h, 1, n) \in Seq(S)
      /\ Len(SubSeq(h, 1, n)) = n
      /\ \A i \in 1 .. n : SubSeq(h, 1, n)[i] = h[i]
  <2>. HIDE DEF n
  <2>. QED  BY <1>1, <1>3
<1>. QED  BY <1>4
-----------------------------------------------------------------------------
LEMMA InitTypeOK == Init => TypeOK
<1>. SUFFICES ASSUME Init PROVE TypeOK
  OBVIOUS
<1>1. queue \in Seq(Task) /\ Len(queue) <= kQueueLimit
  BY QueueLimitAssumption, EmptySeq DEF Init
<1>2. handlers \in [Thread -> Seq([sig : Signal, at : HandlerStep])]
  BY EmptySeq DEF Init
<1>3. pc \in [Thread -> MainStep \cup WorkerStep] /\ \A t \in Thread : pc[t] = "loop"
  BY DEF Init, MainStep
<1>4. pc["main"] \in MainStep /\ pc["worker"] \in WorkerStep
  BY <1>3 DEF Thread, MainStep, WorkerStep
<1>5. task \in [Thread -> Task \cup {NoTask}]
  BY DEF Init
<1>6. \A t \in Thread : pc[t] \notin {"push", "push_body", "popped", "working"}
  BY <1>3
<1>7. arrived \in 0 .. MaxTasks
  BY ThreadsAssumption DEF Init
<1>. QED  BY <1>1, <1>2, <1>3, <1>4, <1>5, <1>6, <1>7 DEF Init, TypeOK

(* One step per action; Push is shared by the threads, Stop by main and    *)
(* the handlers.                                                           *)
LEMMA NextTypeOK == TypeOK /\ [Next]_vars => TypeOK'
<1>. SUFFICES ASSUME TypeOK, [Next]_vars PROVE TypeOK'
  OBVIOUS
<1>. USE ThreadsAssumption, QueueLimitAssumption
<1>1. ASSUME NEW t \in Thread, Push(t)  PROVE TypeOK'
  <2>1. handlers[t] = <<>>
    BY <1>1 DEF Push, PushLock, PushBody, PushNotify, PushUnlock, Own
  <2>2. CASE PushLock(t)
    BY <2>1, <2>2 DEF PushLock, Own, Goto, Acquire, TypeOK, MainStep, WorkerStep, Thread
  <2>3. CASE PushBody(t)
    <3>1. pc[t] = "push_body" /\ queue' \in Pushed(queue, task[t])
      BY <2>3 DEF PushBody, Own
    <3>2. task[t] \in Task
      BY <3>1 DEF TypeOK
    <3>3. queue' \in Seq(Task) /\ Len(queue') <= kQueueLimit
      BY <3>1, <3>2, PushedType DEF TypeOK
    <3>. QED  BY <2>1, <2>3, <3>1, <3>3
              DEF PushBody, Goto, TypeOK, MainStep, WorkerStep, Thread
  <2>4. CASE PushNotify(t)
    BY <2>1, <2>4 DEF PushNotify, Own, Goto, Notify, TypeOK, MainStep, WorkerStep, Thread
  <2>5. CASE PushUnlock(t)
    BY <2>1, <2>5 DEF PushUnlock, Own, Goto, Release, TypeOK, MainStep, WorkerStep, Thread
  <2>. QED  BY <1>1, <2>2, <2>3, <2>4, <2>5 DEF Push
<1>2. ASSUME NEW t \in Thread, Stop(t)  PROVE TypeOK'
  <2>1. handlers[t] = <<>> => t = "main"
    BY <1>2, StopStepsType DEF Stop, StopLock, StopBody, StopNotify, StopUnlock
  <2>2. CASE StopLock(t)
    <3>1. FramesOK' /\ \A u \in Thread : pc'[u] \notin {"push", "push_body", "popped", "working"} \/ pc'[u] = pc[u]
      BY <2>1, <2>2, GotoType DEF StopLock, TypeOK, FramesOK, MainStep, HandlerStep
    <3>. QED  BY <2>2, <3>1 DEF StopLock, Acquire, TypeOK, FramesOK
  <2>3. CASE StopBody(t)
    <3>1. FramesOK' /\ \A u \in Thread : pc'[u] \notin {"push", "push_body", "popped", "working"} \/ pc'[u] = pc[u]
      BY <2>1, <2>3, GotoType DEF StopBody, TypeOK, FramesOK, MainStep, HandlerStep
    <3>. QED  BY <2>3, <3>1 DEF StopBody, TypeOK, FramesOK
  <2>4. CASE StopNotify(t)
    <3>1. FramesOK' /\ \A u \in Thread : pc'[u] \notin {"push", "push_body", "popped", "working"} \/ pc'[u] = pc[u]
      BY <2>1, <2>4, GotoType DEF StopNotify, TypeOK, FramesOK, MainStep, HandlerStep
    <3>. QED  BY <2>4, <3>1 DEF StopNotify, Notify, TypeOK, FramesOK
  <2>5. CASE StopUnlock(t)
    <3>1. CASE handlers[t] = <<>>
      BY <2>1, <2>5, <3>1 DEF StopUnlock, Release, TypeOK, MainStep, Thread
    <3>2. CASE handlers[t] # <<>>
      <4>. DEFINE H == [sig : Signal, at : HandlerStep]
                  h == SubSeq(handlers[t], 1, Len(handlers[t]) - 1)
      <4>2. handlers \in [Thread -> Seq(H)] /\ handlers[t] \in Seq(H)
        BY DEF TypeOK
      <4>3. h \in Seq(H)
        <5>. HIDE DEF H
        <5>. QED  BY <3>2, <4>2, PopHandlerType
      <4>4. handlers' = [handlers EXCEPT ![t] = h]
        BY <2>5, <3>2 DEF StopUnlock
      <4>1. handlers' \in [Thread -> Seq(H)]
        BY <4>2, <4>3, <4>4
      <4>. QED  BY <2>5, <3>2, <4>1 DEF StopUnlock, Release, TypeOK
    <3>. QED  BY <3>1, <3>2
  <2>. QED  BY <1>2, <2>2, <2>3, <2>4, <2>5 DEF Stop
<1>3. ASSUME NEW t \in Thread, HandleSignal(t)  PROVE TypeOK'
  <2>1. handlers[t] # <<>>
    BY <1>3, StopStepsType DEF HandleSignal, At, FrameAt, Depth, TypeOK, MainStep, Thread
  <2>2. FramesOK' /\ \A u \in Thread : pc'[u] = "stop" \/ pc'[u] = pc[u]
    BY <1>3, <2>1, GotoType DEF HandleSignal, TypeOK, FramesOK, HandlerStep
  <2>. QED  BY <1>3, <2>2 DEF HandleSignal, TypeOK, FramesOK
<1>4. CASE MainNext
  <2>. USE DEF Own, Goto, Thread
  <2>1. CASE MainLoop
    BY <2>1 DEF MainLoop, TypeOK, MainStep
  <2>2. CASE MainPoll
    BY <2>2 DEF MainPoll, TypeOK, MainStep
  <2>3. ASSUME NEW p \in Path, MainEvent(p)  PROVE TypeOK'
    BY <2>3 DEF MainEvent, TypeOK, MainStep, Task
  <2>4. CASE MainBatchEnd
    BY <2>4 DEF MainBatchEnd, TypeOK, MainStep
  <2>5. CASE MainJoin
    BY <2>5 DEF MainJoin, TypeOK, MainStep
  <2>. QED  BY <1>4, <2>1, <2>2, <2>3, <2>4, <2>5 DEF MainNext
<1>5. CASE WorkerNext
  <2>. USE DEF Own, Goto, Thread
  <2>1. CASE WorkerTop
    BY <2>1 DEF WorkerTop, TypeOK, WorkerStep
  <2>2. CASE PopLock
    BY <2>2 DEF PopLock, Acquire, TypeOK, WorkerStep
  <2>3. CASE PopCheck
    BY <2>3 DEF PopCheck, Release, TypeOK, WorkerStep
  <2>4. CASE PopWake
    BY <2>4 DEF PopWake, TypeOK, WorkerStep
  <2>5. CASE PopTake
    <3>1. queue' \in Seq(Task) /\ Len(queue') <= kQueueLimit
      <4>1. CASE queue # <<>> /\ queue' = Tail(queue)
        BY <4>1, HeadTailProperties, LenProperties DEF TypeOK
      <4>. QED  BY <2>5, <4>1 DEF PopTake, TypeOK
    <3>2. task' \in [Thread -> Task \cup {NoTask}]
      BY <2>5, HeadTailProperties DEF PopTake, TypeOK
    <3>3. task'["main"] = task["main"]
      BY <2>5 DEF PopTake, TypeOK
    <3>. QED  BY <2>5, <3>1, <3>2, <3>3 DEF PopTake, TypeOK, WorkerStep
  <2>6. CASE PopUnlock
    BY <2>6 DEF PopUnlock, Release, TypeOK, WorkerStep
  <2>7. CASE WorkerRecheck
    BY <2>7 DEF WorkerRecheck, TypeOK, WorkerStep
  <2>8. CASE WorkerRetry
    <3>1. task["worker"] \in Task /\ task["worker"].retry < kMaxRetryCount
      BY <2>8 DEF WorkerRetry, TypeOK
    <3>2. [task["worker"] EXCEPT !.retry = @ + 1] \in Task
      BY <3>1 DEF Task
    <3>. QED  BY <2>8, <3>2 DEF WorkerRetry, TypeOK, WorkerStep
  <2>9. CASE WorkerFinish
    BY <2>9 DEF WorkerFinish, TypeOK, WorkerStep
  <2>. QED  BY <1>5, <2>1, <2>2, <2>3, <2>4, <2>5, <2>6, <2>7, <2>8, <2>9
            DEF WorkerNext
<1>6. ASSUME NEW sig \in Signal, NEW t \in Thread, Deliver(sig, t)  PROVE TypeOK'
  <2>1. [sig |-> sig, at |-> "entry"] \in [sig : Signal, at : HandlerStep]
    BY DEF HandlerStep
  <2>2. handlers' \in [Thread -> Seq([sig : Signal, at : HandlerStep])]
    BY <1>6, <2>1, AppendProperties DEF Deliver, TypeOK
  <2>. QED  BY <1>6, <2>2 DEF Deliver, TypeOK
<1>7. CASE PopSpuriousWake
  BY <1>7 DEF PopSpuriousWake, Own, Goto, TypeOK, WorkerStep, Thread
<1>8. CASE UNCHANGED vars
  BY <1>8 DEF vars, TypeOK
<1>. QED  BY <1>1, <1>2, <1>3, <1>4, <1>5, <1>6, <1>7, <1>8 DEF Next, Step

(* Every variable stays in its range, the deque never holds more than      *)
(* kQueueLimit tasks and no task goes back more than kMaxRetryCount times. *)
THEOREM TypeCorrect == Spec => []TypeOK
BY InitTypeOK, NextTypeOK, PTL DEF Spec
-----------------------------------------------------------------------------
(* What a step does to the critical sections: it moves within one or       *)
(* outside of all, enters one, or leaves one.                              *)

LEMMA StayKeepsExclusion ==
  ASSUME TypeOK, MutualExclusion, NEW t \in Thread, NEW s, Goto(t, s),
         s \in Holding => FrameAt(t, Depth(t)) \in Holding,
         mutex' = mutex
  PROVE  MutualExclusion'
<1>. SUFFICES ASSUME NEW u \in Thread, NEW i \in 0 .. Depth(u)', FrameAt(u, i)' \in Holding
              PROVE  /\ mutex' = u
                     /\ \A j \in 0 .. Depth(u)' : FrameAt(u, j)' \in Holding => j = i
  BY DEF MutualExclusion
<1>1. \A j \in 0 .. Depth(u)' : /\ j \in 0 .. Depth(u)
                                /\ FrameAt(u, j)' \in Holding => FrameAt(u, j) \in Holding
  BY GotoFrames
<1>. QED  BY <1>1 DEF MutualExclusion

LEMMA AcquireKeepsExclusion ==
  ASSUME TypeOK, MutualExclusion, NEW t \in Thread, NEW s, Goto(t, s), Acquire(t)
  PROVE  MutualExclusion'
<1>. SUFFICES ASSUME NEW u \in Thread, NEW i \in 0 .. Depth(u)', FrameAt(u, i)' \in Holding
              PROVE  /\ mutex' = u
                     /\ \A j \in 0 .. Depth(u)' : FrameAt(u, j)' \in Holding => j = i
  BY DEF MutualExclusion
<1>1. \A j \in 0 .. Depth(u) : FrameAt(u, j) \notin Holding
  BY DEF MutualExclusion, Acquire, Thread
<1>2. \A j \in 0 .. Depth(u)' : /\ j \in 0 .. Depth(u)
                                /\ FrameAt(u, j)' \in Holding => u = t /\ j = Depth(t)
  BY <1>1, GotoFrames
<1>. QED  BY <1>2 DEF Acquire

LEMMA ReleaseKeepsExclusion ==
  ASSUME TypeOK, MutualExclusion, NEW t \in Thread, NEW s, Goto(t, s),
         FrameAt(t, Depth(t)) \in Holding, s \notin Holding
  PROVE  MutualExclusion'
<1>. SUFFICES ASSUME NEW u \in Thread, NEW i \in 0 .. Depth(u)', FrameAt(u, i)' \in Holding
              PROVE  FALSE
  BY DEF MutualExclusion
<1>1. /\ i \in 0 .. Depth(u)
      /\ FrameAt(u, i)' = IF u = t /\ i = Depth(t) THEN s ELSE FrameAt(u, i)
  BY GotoFrames
<1>2. FrameAt(u, i) \in Holding /\ ~(u = t /\ i = Depth(t))
  BY <1>1
<1>3. Depth(t) \in 0 .. Depth(t)
  BY LenProperties DEF Depth, TypeOK
<1>4. u = t
  BY <1>1, <1>2, <1>3 DEF MutualExclusion
<1>. QED  BY <1>1, <1>2, <1>3, <1>4 DEF MutualExclusion

(* Frames of the other depths are untouched when a handler starts or returns. *)
LEMMA DeliverFrames ==
  ASSUME TypeOK, NEW sig \in Signal, NEW t \in Thread, Deliver(sig, t)
  PROVE  \A u \in Thread :
           /\ Depth(u)' = IF u = t THEN Depth(u) + 1 ELSE Depth(u)
           /\ Depth(u) \in Nat
           /\ \A i \in 0 .. Depth(u)' :
                FrameAt(u, i)' = IF i = Depth(u) + 1 THEN "entry" ELSE FrameAt(u, i)
<1>. DEFINE H == [sig : Signal, at : HandlerStep]
            e == [sig |-> sig, at |-> "entry"]
<1>1. \A u \in Thread : handlers[u] \in Seq(H)
  BY DEF TypeOK
<1>2. e \in H
  BY DEF HandlerStep
<1>3. handlers' = [handlers EXCEPT ![t] = Append(handlers[t], e)] /\ pc' = pc
  BY DEF Deliver
<1>4. ASSUME NEW u \in Thread
      PROVE  /\ Depth(u)' = IF u = t THEN Depth(u) + 1 ELSE Depth(u)
             /\ Depth(u) \in Nat
             /\ \A i \in 0 .. Depth(u)' :
                  FrameAt(u, i)' = IF i = Depth(u) + 1 THEN "entry" ELSE FrameAt(u, i)
  <2>1. Depth(u) \in Nat
    BY <1>1, LenProperties DEF Depth
  <2>2. CASE u = t
    <3>1. /\ Len(Append(handlers[t], e)) = Depth(t) + 1
          /\ \A i \in 1 .. Depth(t) : Append(handlers[t], e)[i] = handlers[t][i]
          /\ Append(handlers[t], e)[Depth(t) + 1] = e
      <4>. HIDE DEF e, H
      <4>. QED  BY <1>1, <1>2, AppendProperties DEF Depth
    <3>2. handlers'[t] = Append(handlers[t], e)
      BY <1>3 DEF TypeOK
    <3>. QED  BY <1>3, <2>1, <2>2, <3>1, <3>2 DEF Depth, FrameAt
  <2>3. CASE u # t
    <3>1. handlers'[u] = handlers[u]
      BY <1>3, <2>3 DEF TypeOK
    <3>. QED  BY <1>3, <2>1, <2>3, <3>1 DEF Depth, FrameAt
  <2>. QED  BY <2>2, <2>3
<1>. QED  BY <1>4

LEMMA ReturnFrames ==
  ASSUME TypeOK, NEW t \in Thread, StopUnlock(t), handlers[t] # <<>>
  PROVE  /\ Depth(t) \in Nat \ {0}
         /\ \A u \in Thread :
              /\ Depth(u)' = IF u = t THEN Depth(u) - 1 ELSE Depth(u)
              /\ \A i \in 0 .. Depth(u)' : FrameAt(u, i)' = FrameAt(u, i)
<1>. DEFINE H == [sig : Signal, at : HandlerStep]
            h == SubSeq(handlers[t], 1, Len(handlers[t]) - 1)
<1>1. \A u \in Thread : handlers[u] \in Seq(H)
  BY DEF TypeOK
<1>2. Depth(t) \in Nat \ {0}
  BY <1>1, EmptySeq DEF Depth
<1>3. Len(h) = Depth(t) - 1 /\ \A i \in 1 .. Depth(t) - 1 : h[i] = handlers[t][i]
  <2>. HIDE DEF H
  <2>. QED  BY <1>1, PopHandlerType DEF Depth
<1>4. handlers' = [handlers EXCEPT ![t] = h] /\ pc' = pc
  BY DEF StopUnlock
<1>5. ASSUME NEW u \in Thread
      PROVE  /\ Depth(u)' = IF u = t THEN Depth(u) - 1 ELSE Depth(u)
             /\ \A i \in 0 .. Depth(u)' : FrameAt(u, i)' = FrameAt(u, i)
  <2>. HIDE DEF h
  <2>1. handlers'[u] = IF u = t THEN h ELSE handlers[u]
    BY <1>4 DEF TypeOK
  <2>. QED  BY <1>2, <1>3, <1>4, <2>1 DEF Depth, FrameAt
<1>. QED  BY <1>2, <1>5
-----------------------------------------------------------------------------
LEMMA InitExclusion == Init => MutualExclusion
BY EmptySeq DEF Init, MutualExclusion, FrameAt, Depth, Holding

(* A thread at a step of its own code has one frame, at that step. *)
LEMMA OwnFrame ==
  ASSUME NEW t \in Thread, NEW s, Own(t, s)
  PROVE  Depth(t) = 0 /\ FrameAt(t, Depth(t)) = s
BY EmptySeq DEF Own, Depth, FrameAt

LEMMA NextExclusion == TypeOK /\ MutualExclusion /\ [Next]_vars => MutualExclusion'
<1>. SUFFICES ASSUME TypeOK, MutualExclusion, [Next]_vars PROVE MutualExclusion'
  OBVIOUS
<1>1. ASSUME NEW t \in Thread, Push(t)  PROVE MutualExclusion'
  <2>1. CASE PushLock(t)
    BY <2>1, AcquireKeepsExclusion DEF PushLock
  <2>2. CASE PushBody(t)
    BY <2>2, OwnFrame, StayKeepsExclusion DEF PushBody, Holding
  <2>3. CASE PushNotify(t)
    BY <2>3, OwnFrame, StayKeepsExclusion DEF PushNotify, Holding
  <2>4. CASE PushUnlock(t)
    BY <2>4, OwnFrame, ReleaseKeepsExclusion DEF PushUnlock, Holding
  <2>. QED  BY <1>1, <2>1, <2>2, <2>3, <2>4 DEF Push
<1>2. ASSUME NEW t \in Thread, Stop(t)  PROVE MutualExclusion'
  <2>1. CASE StopLock(t)
    BY <2>1, AcquireKeepsExclusion DEF StopLock
  <2>2. CASE StopBody(t)
    BY <2>2, StayKeepsExclusion DEF StopBody, At, Holding
  <2>3. CASE StopNotify(t)
    BY <2>3, StayKeepsExclusion DEF StopNotify, At, Holding
  <2>4. CASE StopUnlock(t) /\ handlers[t] = <<>>
    <3>1. Goto(t, "join") /\ FrameAt(t, Depth(t)) \in Holding
      BY <2>4 DEF StopUnlock, Goto, At, Holding
    <3>. QED  BY <3>1, ReleaseKeepsExclusion DEF Holding
  <2>5. CASE StopUnlock(t) /\ handlers[t] # <<>>
    <3>1. FrameAt(t, Depth(t)) \in Holding
      BY <2>5 DEF StopUnlock, At, Holding
    <3>. SUFFICES ASSUME NEW u \in Thread, NEW i \in 0 .. Depth(u)',
                         FrameAt(u, i)' \in Holding
                  PROVE  FALSE
      BY DEF MutualExclusion
    <3>2. /\ Depth(t) \in Nat \ {0}
          /\ Depth(u)' = IF u = t THEN Depth(u) - 1 ELSE Depth(u)
          /\ FrameAt(u, i) \in Holding
      BY <2>5, ReturnFrames
    <3>3. Depth(u) \in Nat
      BY LenProperties DEF Depth, TypeOK
    <3>4. i \in 0 .. Depth(u) /\ Depth(t) \in 0 .. Depth(t)
      BY <3>2, <3>3
    <3>5. u = t
      BY <3>1, <3>2, <3>4 DEF MutualExclusion
    <3>6. i = Depth(t)
      BY <3>1, <3>2, <3>4, <3>5 DEF MutualExclusion
    <3>. QED  BY <3>2, <3>5, <3>6
  <2>. QED  BY <1>2, <2>1, <2>2, <2>3, <2>4, <2>5 DEF Stop
<1>3. ASSUME NEW t \in Thread, HandleSignal(t)  PROVE MutualExclusion'
  BY <1>3, StayKeepsExclusion DEF HandleSignal, Holding
<1>4. CASE MainNext
  <2>. USE StayKeepsExclusion DEF Thread, Holding
  <2>1. CASE MainLoop
    BY <2>1 DEF MainLoop
  <2>2. CASE MainPoll
    BY <2>2 DEF MainPoll
  <2>3. ASSUME NEW p \in Path, MainEvent(p)  PROVE MutualExclusion'
    BY <2>3 DEF MainEvent
  <2>4. CASE MainBatchEnd
    BY <2>4 DEF MainBatchEnd
  <2>5. CASE MainJoin
    BY <2>5 DEF MainJoin
  <2>. QED  BY <1>4, <2>1, <2>2, <2>3, <2>4, <2>5 DEF MainNext
<1>5. CASE WorkerNext
  <2>. USE StayKeepsExclusion, OwnFrame DEF Thread, Holding
  <2>1. CASE WorkerTop
    BY <2>1 DEF WorkerTop
  <2>2. CASE PopLock
    BY <2>2, AcquireKeepsExclusion DEF PopLock
  <2>3. CASE PopCheck /\ mutex' = mutex
    BY <2>3, ReleaseKeepsExclusion DEF PopCheck
  <2>4. CASE PopCheck /\ mutex' # mutex
    BY <2>4, ReleaseKeepsExclusion DEF PopCheck
  <2>5. CASE PopWake
    BY <2>5 DEF PopWake
  <2>6. CASE PopTake
    BY <2>6 DEF PopTake
  <2>7. CASE PopUnlock
    BY <2>7, ReleaseKeepsExclusion DEF PopUnlock
  <2>8. CASE WorkerRecheck
    BY <2>8 DEF WorkerRecheck
  <2>9. CASE WorkerRetry
    BY <2>9 DEF WorkerRetry
  <2>10. CASE WorkerFinish
    BY <2>10 DEF WorkerFinish
  <2>. QED  BY <1>5, <2>1, <2>2, <2>3, <2>4, <2>5, <2>6, <2>7, <2>8, <2>9, <2>10
            DEF WorkerNext
<1>6. ASSUME NEW sig \in Signal, NEW t \in Thread, Deliver(sig, t)
      PROVE  MutualExclusion'
  <2>. SUFFICES ASSUME NEW u \in Thread, NEW i \in 0 .. Depth(u)', FrameAt(u, i)' \in Holding
                PROVE  /\ mutex' = u
                       /\ \A j \in 0 .. Depth(u)' : FrameAt(u, j)' \in Holding => j = i
    BY DEF MutualExclusion
  <2>1. \A j \in 0 .. Depth(u)' :
          FrameAt(u, j)' \in Holding => j \in 0 .. Depth(u) /\ FrameAt(u, j) \in Holding
    BY <1>6, DeliverFrames DEF Holding
  <2>. QED  BY <1>6, <2>1 DEF MutualExclusion, Deliver
<1>7. CASE PopSpuriousWake
  BY <1>7, StayKeepsExclusion DEF PopSpuriousWake, Thread, Holding
<1>8. CASE UNCHANGED vars
  BY <1>8 DEF vars, MutualExclusion, FrameAt, Depth
<1>. QED  BY <1>1, <1>2, <1>3, <1>4, <1>5, <1>6, <1>7, <1>8 DEF Next, Step

(* However the signals interrupt the threads, at most one frame of one     *)
(* thread is inside the queue, and that thread owns the mutex.             *)
THEOREM Exclusion == Spec => []MutualExclusion
BY InitExclusion, NextExclusion, TypeCorrect, PTL DEF Spec
-----------------------------------------------------------------------------
(* Why no wakeup is lost: between the change that gives the waiting worker *)
(* something to do and the notify that tells it, the thread that made the  *)
(* change is still inside the critical section.                            *)
NotifyStep == {"push_notify", "stop_notify"}

Notifying == \E t \in Thread : \E i \in 0 .. Depth(t) : FrameAt(t, i) \in NotifyStep

WakeupInv ==
  pc["worker"] = "waiting" /\ ~notified /\ (queue # <<>> \/ ~running) => Notifying

(* A step at another place leaves the notifying frame where it is. *)
LEMMA GotoKeepsNotifying ==
  ASSUME TypeOK, NEW t \in Thread, NEW s, Goto(t, s), Notifying,
         FrameAt(t, Depth(t)) \notin NotifyStep
  PROVE  Notifying'
<1>1a. PICK u \in Thread : \E i \in 0 .. Depth(u) : FrameAt(u, i) \in NotifyStep
  BY DEF Notifying
<1>1. PICK i \in 0 .. Depth(u) : FrameAt(u, i) \in NotifyStep
  BY <1>1a
<1>2. FrameAt(u, i)' = FrameAt(u, i) /\ i \in 0 .. Depth(u)'
  BY <1>1, GotoFrames
<1>. QED  BY <1>1, <1>2 DEF Notifying

(* A step to a notify makes the thread a notifying one. *)
LEMMA GotoNotify ==
  ASSUME TypeOK, NEW t \in Thread, NEW s \in NotifyStep, Goto(t, s)
  PROVE  Notifying'
<1>1. Depth(t) \in 0 .. Depth(t)
  BY LenProperties DEF Depth, TypeOK
<1>2. FrameAt(t, Depth(t))' = s /\ Depth(t)' = Depth(t)
  BY <1>1, GotoFrames DEF FrameAt, Depth
<1>. QED  BY <1>1, <1>2 DEF Notifying

LEMMA InitWakeup == Init => WakeupInv
BY DEF Init, WakeupInv, Thread

LEMMA NextWakeup == TypeOK /\ WakeupInv /\ [Next]_vars => WakeupInv'
<1>. SUFFICES ASSUME TypeOK, WakeupInv, [Next]_vars,
                     pc'["worker"] = "waiting", ~notified', queue' # <<>> \/ ~running'
              PROVE  Notifying'
  BY DEF WakeupInv
<1>1. ASSUME NEW t \in Thread, Push(t)  PROVE Notifying'
  <2>1. CASE PushLock(t)
    BY <2>1, OwnFrame, GotoKeepsNotifying DEF PushLock, Own, Goto, WakeupInv, NotifyStep, TypeOK, Thread
  <2>2. CASE PushBody(t)
    BY <2>2, GotoNotify DEF PushBody, NotifyStep
  <2>3. CASE PushNotify(t)
    BY <2>3 DEF PushNotify, Own, Notify, Goto, TypeOK, Thread
  <2>4. CASE PushUnlock(t)
    BY <2>4, OwnFrame, GotoKeepsNotifying DEF PushUnlock, Own, Goto, WakeupInv, NotifyStep, TypeOK, Thread
  <2>. QED  BY <1>1, <2>1, <2>2, <2>3, <2>4 DEF Push
<1>2. ASSUME NEW t \in Thread, Stop(t)  PROVE Notifying'
  <2>1. CASE StopLock(t)
    BY <2>1, GotoKeepsNotifying DEF StopLock, At, Goto, WakeupInv, NotifyStep, TypeOK, Thread
  <2>2. CASE StopBody(t)
    BY <2>2, GotoNotify DEF StopBody, NotifyStep
  <2>3. CASE StopNotify(t)
    BY <2>3 DEF StopNotify, Notify, Goto, TypeOK, Thread
  <2>4. CASE StopUnlock(t) /\ handlers[t] = <<>>
    BY <2>4, GotoKeepsNotifying DEF StopUnlock, Goto, At, WakeupInv, NotifyStep, TypeOK, Thread
  <2>5. CASE StopUnlock(t) /\ handlers[t] # <<>>
    <3>1. Notifying
      BY <2>5 DEF StopUnlock, WakeupInv
    <3>2a. PICK u \in Thread : \E i \in 0 .. Depth(u) : FrameAt(u, i) \in NotifyStep
      BY <3>1 DEF Notifying
    <3>2. PICK i \in 0 .. Depth(u) : FrameAt(u, i) \in NotifyStep
      BY <3>2a
    <3>3. u = t => i # Depth(t)
      BY <2>5, <3>2 DEF StopUnlock, At, NotifyStep
    <3>4. Depth(t) \in Nat \ {0} /\ Depth(u)' = IF u = t THEN Depth(u) - 1 ELSE Depth(u)
      BY <2>5, ReturnFrames
    <3>5. i \in 0 .. Depth(u)'
      BY <3>2, <3>3, <3>4
    <3>6. FrameAt(u, i)' = FrameAt(u, i)
      BY <2>5, <3>5, ReturnFrames
    <3>. QED  BY <3>2, <3>5, <3>6 DEF Notifying
  <2>. QED  BY <1>2, <2>1, <2>2, <2>3, <2>4, <2>5 DEF Stop
<1>3. ASSUME NEW t \in Thread, HandleSignal(t)  PROVE Notifying'
  BY <1>3, GotoKeepsNotifying DEF HandleSignal, At, Goto, WakeupInv, NotifyStep, TypeOK, Thread
<1>4. CASE MainNext
  <2>. USE OwnFrame, GotoKeepsNotifying DEF Own, Goto, WakeupInv, NotifyStep, TypeOK, Thread
  <2>1. CASE MainLoop
    BY <2>1 DEF MainLoop
  <2>2. CASE MainPoll
    BY <2>2 DEF MainPoll
  <2>3. ASSUME NEW p \in Path, MainEvent(p)  PROVE Notifying'
    BY <2>3 DEF MainEvent
  <2>4. CASE MainBatchEnd
    BY <2>4 DEF MainBatchEnd
  <2>5. CASE MainJoin
    BY <2>5 DEF MainJoin
  <2>. QED  BY <1>4, <2>1, <2>2, <2>3, <2>4, <2>5 DEF MainNext
<1>5. CASE WorkerNext
  (* The only step of the worker that leaves it waiting is PopCheck, and   *)
  (* it takes that branch with an empty queue that has not been stopped.   *)
  <2>1. CASE PopCheck
    BY <2>1 DEF PopCheck, Own, Goto, TypeOK, Thread
  <2>2. CASE ~PopCheck
    BY <1>5, <2>2
       DEF WorkerNext, WorkerTop, PopLock, PopWake, PopTake, PopUnlock, WorkerRecheck,
           WorkerRetry, WorkerFinish, Own, Goto, TypeOK, Thread
  <2>. QED  BY <2>1, <2>2
<1>6. ASSUME NEW sig \in Signal, NEW t \in Thread, Deliver(sig, t)
      PROVE  Notifying'
  <2>1. Notifying
    BY <1>6 DEF Deliver, WakeupInv
  <2>2a. PICK u \in Thread : \E i \in 0 .. Depth(u) : FrameAt(u, i) \in NotifyStep
    BY <2>1 DEF Notifying
  <2>2. PICK i \in 0 .. Depth(u) : FrameAt(u, i) \in NotifyStep
    BY <2>2a
  <2>3. i \in 0 .. Depth(u)' /\ i # Depth(u) + 1
    BY <1>6, <2>2, DeliverFrames
  <2>4. FrameAt(u, i)' = FrameAt(u, i)
    BY <1>6, <2>3, DeliverFrames
  <2>. QED  BY <2>2, <2>3, <2>4 DEF Notifying
<1>7. CASE PopSpuriousWake
  BY <1>7 DEF PopSpuriousWake, Own, Goto, TypeOK, Thread
<1>8. CASE UNCHANGED vars
  BY <1>8 DEF vars, WakeupInv, Notifying, FrameAt, Depth
<1>. QED  BY <1>1, <1>2, <1>3, <1>4, <1>5, <1>6, <1>7, <1>8 DEF Next, Step

(* A waiting worker with nothing on its way has nothing to do: no push and *)
(* no stop goes unnoticed, for any interleaving of threads and signals.    *)
THEOREM WakeupCorrect == Spec => []NoLostWakeup
<1>1. TypeOK /\ MutualExclusion /\ WakeupInv => NoLostWakeup
  <2>. SUFFICES ASSUME TypeOK, MutualExclusion, WakeupInv,
                       mutex = "nobody", Notifying
                PROVE  FALSE
    BY DEF NoLostWakeup, WakeupInv
  <2>1a. PICK t \in Thread : \E i \in 0 .. Depth(t) : FrameAt(t, i) \in NotifyStep
    BY DEF Notifying
  <2>1. PICK i \in 0 .. Depth(t) : FrameAt(t, i) \in NotifyStep
    BY <2>1a
  <2>2. mutex = t
    BY <2>1 DEF MutualExclusion, Holding, NotifyStep
  <2>. QED  BY <2>2 DEF Thread
<1>. QED  BY <1>1, InitWakeup, NextWakeup, TypeCorrect, Exclusion, PTL DEF Spec
-----------------------------------------------------------------------------
(* The abstract queue. *)

LEMMA InitImplements == Init => AbstractQueue!Init
BY DEF Init, AbstractQueue!Init

LEMMA PushSubmits ==
  ASSUME TypeOK, NEW t \in Thread, PushBody(t)
  PROVE  AbstractQueue!Submit(task[t])
<1>. USE LenProperties, QueueLimitAssumption
<1>1. task[t] \in Task /\ queue \in Seq(Task) /\ Len(queue) <= kQueueLimit
  BY DEF PushBody, Own, TypeOK
<1>2. CASE Len(queue) < kQueueLimit
  BY <1>1, <1>2 DEF PushBody, Pushed, AbstractQueue!Submit
<1>3. CASE ~(Len(queue) < kQueueLimit)
  <2>1. Len(queue) = kQueueLimit
    BY <1>1, <1>3
  <2>2. PICK i \in Victim(queue, task[t]) : queue' = Append(Erase(queue, i), task[t])
    BY <1>3 DEF PushBody, Pushed
  <2>3. i \in AbstractQueue!Sheddable(task[t])
    BY <2>1, <2>2 DEF Victim, SamePath, AbstractQueue!Sheddable
  <2>4. Erase(queue, i) = AbstractQueue!Without(queue, i)
    BY DEF Erase, AbstractQueue!Without
  <2>. QED  BY <2>1, <2>2, <2>3, <2>4 DEF PushBody, AbstractQueue!Submit
<1>. QED  BY <1>2, <1>3

LEMMA NextImplements ==
  TypeOK /\ [Next]_vars => [AbstractQueue!Next]_(AbstractQueue!vars)
<1>. SUFFICES ASSUME TypeOK, [Next]_vars
              PROVE  AbstractQueue!Next \/ UNCHANGED <<queue, running>>
  BY DEF AbstractQueue!vars
<1>1. ASSUME NEW t \in Thread, PushBody(t)  PROVE AbstractQueue!Next
  <2>1. task[t] \in Task
    BY <1>1 DEF PushBody, Own, TypeOK
  <2>. QED  BY <1>1, <2>1, PushSubmits DEF AbstractQueue!Next
<1>2. ASSUME NEW t \in Thread, StopBody(t)  PROVE AbstractQueue!Next
  BY <1>2 DEF StopBody, AbstractQueue!Next, AbstractQueue!Close
<1>3. CASE PopTake
  BY <1>3 DEF PopTake, AbstractQueue!Next, AbstractQueue!Take
<1>4. ASSUME NEW t \in Thread, Push(t) \/ Stop(t) \/ HandleSignal(t),
             ~PushBody(t), ~StopBody(t)
      PROVE  UNCHANGED <<queue, running>>
  BY <1>4 DEF Push, PushLock, PushNotify, PushUnlock, Stop, StopLock, StopNotify,
              StopUnlock, HandleSignal
<1>5. CASE MainNext
  BY <1>5 DEF MainNext, MainLoop, MainPoll, MainEvent, MainBatchEnd, MainJoin
<1>6. CASE WorkerNext /\ ~PopTake
  BY <1>6 DEF WorkerNext, WorkerTop, PopLock, PopCheck, PopWake, PopUnlock,
              WorkerRecheck, WorkerRetry, WorkerFinish
<1>7. CASE (\E sig \in Signal, t \in Thread : Deliver(sig, t)) \/ PopSpuriousWake
  BY <1>7 DEF Deliver, PopSpuriousWake
<1>8. CASE UNCHANGED vars
  BY <1>8 DEF vars
<1>. QED  BY <1>1, <1>2, <1>3, <1>4, <1>5, <1>6, <1>7, <1>8 DEF Next, Step

(* The locks, the condition variable and the signal frames implement the   *)
(* queue without any of them: whatever the interleaving, each push, pop    *)
(* and stop takes effect at one instant and sheds only what it may.        *)
THEOREM QueueImplemented == Spec => ImplementsQueue
<1>. QED  BY InitImplements, NextImplements, TypeCorrect, PTL
          DEF Spec, ImplementsQueue, AbstractQueue!Spec
=============================================================================
