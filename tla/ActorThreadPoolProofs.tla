----------------------- MODULE ActorThreadPoolProofs -----------------------
(***************************************************************************)
(* ActorThreadPool runs the tasks of an actor one at a time and strands    *)
(* none, for every number of actors, tasks and threads.                    *)
(***************************************************************************)
EXTENDS ActorThreadPool, SequenceTheorems, TLAPS

(* An actor that has a task in the executor.                                *)
InExecutor(a) == Queued(a) \/ \E th \in Thread : OnThread(th, a)

(* An actor has at most one task in the executor.                           *)
OneTask ==
  /\ \A i, j \in 1 .. Len(queue) : queue[i].act = queue[j].act => i = j
  /\ \A i \in 1 .. Len(queue), th \in Thread : ~OnThread(th, queue[i].act)
  /\ NotConcurrent

(* playingNow tells whether it has one, and pending tasks are of an actor   *)
(* that has.  A pool that is shut down has an empty queue.                  *)
Playing ==
  /\ \A a \in Act : InExecutor(a) => a \in playingNow
  /\ \A a \in playingNow : InExecutor(a) \/ isShutdown
  /\ \A a \in Act : acts[a] # <<>> => a \in playingNow
  /\ isShutdown => queue = <<>>

Inv == TypeOK /\ OneTask /\ Playing

-----------------------------------------------------------------------------
LEMMA InitInv == Init => Inv
<1> SUFFICES ASSUME Init PROVE Inv
  OBVIOUS
<1>1. queue = <<>> /\ Len(queue) = 0 /\ <<>> \in Seq(Task) /\ <<>> \in Seq(Job)
  BY EmptySeq DEF Init
<1>2. \A th \in Thread : threads[th] = [step |-> "idle"]
  BY DEF Init
<1>3. TypeOK
  BY <1>1 DEF Init, TypeOK, Idle
<1>4. \A a \in Act : ~InExecutor(a)
  BY <1>1, <1>2 DEF InExecutor, Queued, InQueue, OnThread
<1>5. OneTask /\ Playing
  BY <1>1, <1>2, <1>4 DEF Init, OneTask, NotConcurrent, OnThread, Playing
<1> QED BY <1>3, <1>5 DEF Inv

(* What appending a task to the executor's queue changes. *)
LEMMA ExecuteEffect ==
  ASSUME TypeOK, NEW a \in Act, NEW t \in Task, Execute(a, t), ~isShutdown
  PROVE  /\ queue' \in Seq(Job)
         /\ Len(queue') = Len(queue) + 1
         /\ \A i \in 1 .. Len(queue) : queue'[i] = queue[i]
         /\ queue'[Len(queue) + 1].act = a
         /\ queue'[Len(queue) + 1].task = t
<1> DEFINE job == [act |-> a, task |-> t]
<1>1. job \in Job /\ job.act = a /\ job.task = t
  BY DEF Job
<1>2. queue \in Seq(Job) /\ queue' = Append(queue, job)
  BY DEF TypeOK, Execute
<1> QED BY <1>1, <1>2, AppendProperties

(* What taking the oldest task changes. *)
LEMMA TakeEffect ==
  ASSUME TypeOK, NEW th \in Thread, Take(th)
  PROVE  /\ queue' \in Seq(Job)
         /\ Len(queue) \in Nat /\ Len(queue) >= 1
         /\ Len(queue') = Len(queue) - 1
         /\ \A i \in 1 .. Len(queue') : queue'[i] = queue[i + 1]
         /\ queue[1] \in Job
         /\ threads' = [threads EXCEPT ![th] = [step |-> "run", act |-> queue[1].act,
                                                task |-> queue[1].task]]
<1>1. queue \in Seq(Job) /\ queue # <<>> /\ queue' = Tail(queue)
  BY DEF TypeOK, Take
<1>2. Head(queue) = queue[1] /\ Head(queue) \in Job
  BY <1>1, HeadTailProperties
<1>3. /\ Tail(queue) \in Seq(Job)
      /\ Len(Tail(queue)) = Len(queue) - 1
      /\ \A i \in 1 .. Len(Tail(queue)) : Tail(queue)[i] = queue[i + 1]
  BY <1>1, HeadTailProperties
<1>4. Len(queue) \in Nat /\ Len(queue) >= 1
  BY <1>1, EmptySeq
<1> QED BY <1>1, <1>2, <1>3, <1>4 DEF Take

-----------------------------------------------------------------------------
LEMMA SubmitKeeps ==
  ASSUME Inv, NEW a \in Act, NEW t \in Task, Submit(a, t)
  PROVE  Inv'
<1>1. CASE a \notin playingNow
  <2>1. /\ Execute(a, t) /\ ~isShutdown
        /\ playingNow' = playingNow \cup {a}
        /\ submitted' = submitted \cup {t}
        /\ UNCHANGED <<acts, threads, isShutdown>>
    BY <1>1 DEF Submit
  <2>2. /\ queue' \in Seq(Job)
        /\ Len(queue') = Len(queue) + 1
        /\ \A i \in 1 .. Len(queue) : queue'[i] = queue[i]
        /\ queue'[Len(queue) + 1].act = a
    BY <2>1, ExecuteEffect DEF Inv
  <2>3. ~InExecutor(a)
    BY <1>1 DEF Inv, Playing
  <2>4. Len(queue) \in Nat
    BY DEF Inv, TypeOK
  <2>5. TypeOK'
    BY <2>1, <2>2 DEF Inv, TypeOK
  <2>6. OneTask'
    BY <2>1, <2>2, <2>3, <2>4
       DEF Inv, OneTask, NotConcurrent, InExecutor, Queued, InQueue, OnThread
  <2>7. \A b \in Act : InExecutor(b)' <=> InExecutor(b) \/ b = a
    BY <2>1, <2>2, <2>4 DEF InExecutor, Queued, InQueue, OnThread
  <2>8. Playing'
    BY <2>1, <2>7 DEF Inv, TypeOK, Playing
  <2> QED BY <2>5, <2>6, <2>8 DEF Inv
<1>2. CASE a \in playingNow
  <2>1. /\ acts' = [acts EXCEPT ![a] = Append(@, t)]
        /\ submitted' = submitted \cup {t}
        /\ UNCHANGED <<playingNow, queue, threads, isShutdown>>
    BY <1>2 DEF Submit
  <2>2. TypeOK'
    BY <2>1 DEF Inv, TypeOK
  <2>3. OneTask' /\ \A b \in Act : InExecutor(b)' <=> InExecutor(b)
    BY <2>1 DEF Inv, OneTask, NotConcurrent, InExecutor, Queued, InQueue, OnThread
  <2>4. Playing'
    BY <1>2, <2>1, <2>3 DEF Inv, TypeOK, Playing
  <2> QED BY <2>2, <2>3, <2>4 DEF Inv
<1> QED BY <1>1, <1>2

LEMMA TakeKeeps ==
  ASSUME Inv, NEW th \in Thread, Take(th)
  PROVE  Inv'
<1>1. /\ queue' \in Seq(Job)
      /\ Len(queue) \in Nat /\ Len(queue) >= 1
      /\ Len(queue') = Len(queue) - 1
      /\ \A i \in 1 .. Len(queue') : queue'[i] = queue[i + 1]
      /\ queue[1] \in Job
      /\ threads' = [threads EXCEPT ![th] = [step |-> "run", act |-> queue[1].act,
                                             task |-> queue[1].task]]
  BY TakeEffect DEF Inv
<1>2. threads[th].step = "idle" /\ UNCHANGED <<playingNow, acts, isShutdown, submitted>>
  BY DEF Take
<1>3. threads \in [Thread -> Idle \cup Busy]
  BY DEF Inv, TypeOK
<1>4. TypeOK'
  BY <1>1, <1>2, <1>3 DEF Inv, TypeOK, Job, Busy
<1>5. \A b : \A u \in Thread : OnThread(u, b)' <=>
        IF u = th THEN b = queue[1].act ELSE OnThread(u, b)
  BY <1>1, <1>3 DEF OnThread
<1>6. OneTask'
  <2>1. \A i, j \in 1 .. Len(queue') : queue'[i].act = queue'[j].act => i = j
    BY <1>1 DEF Inv, OneTask
  <2>2. \A i \in 1 .. Len(queue') : queue'[i].act # queue[1].act
    BY <1>1 DEF Inv, OneTask
  <2>3. (\A i \in 1 .. Len(queue), u \in Thread : ~OnThread(u, queue[i].act))'
    <3> SUFFICES ASSUME NEW i \in 1 .. Len(queue'), NEW u \in Thread
                 PROVE  ~OnThread(u, queue[i].act)'
      OBVIOUS
    <3>1. i + 1 \in 1 .. Len(queue) /\ queue'[i] = queue[i + 1]
      BY <1>1
    <3>2. ~OnThread(u, queue[i + 1].act)
      BY <3>1 DEF Inv, OneTask
    <3>3. queue'[i].act # queue[1].act
      BY <2>2
    <3> QED BY <1>1, <1>3, <3>1, <3>2, <3>3 DEF OnThread
  <2>4. NotConcurrent'
    <3>1. \A u \in Thread : ~OnThread(u, queue[1].act)
      BY <1>1 DEF Inv, OneTask
    <3> QED BY <1>5, <3>1 DEF Inv, OneTask, NotConcurrent
  <2> QED BY <2>1, <2>3, <2>4 DEF OneTask
<1>7. \A b \in Act : InExecutor(b)' <=> InExecutor(b)
  <2> TAKE b \in Act
  <2>1. Queued(b) <=> Queued(b)' \/ b = queue[1].act
    <3>1. \A i \in 1 .. Len(queue) : i = 1 \/ (i - 1 \in 1 .. Len(queue') /\ queue'[i - 1] = queue[i])
      BY <1>1
    <3>2. Queued(b) => Queued(b)' \/ b = queue[1].act
      BY <3>1 DEF Queued, InQueue
    <3>3. \A i \in 1 .. Len(queue') : i + 1 \in 1 .. Len(queue) /\ queue[i + 1] = queue'[i]
      BY <1>1
    <3>4. Queued(b)' => Queued(b)
      BY <3>3 DEF Queued, InQueue
    <3>5. 1 \in 1 .. Len(queue)
      BY <1>1
    <3> QED BY <3>2, <3>4, <3>5 DEF Queued, InQueue
  <2>2. ~OnThread(th, b)
    BY <1>2 DEF OnThread
  <2> QED BY <1>5, <2>1, <2>2 DEF InExecutor
<1>8. ~isShutdown
  BY DEF Inv, Playing, Take
<1>9. Playing'
  BY <1>2, <1>7, <1>8 DEF Inv, TypeOK, Playing
<1> QED BY <1>4, <1>6, <1>9 DEF Inv

LEMMA RanKeeps ==
  ASSUME Inv, NEW th \in Thread, Ran(th)
  PROVE  Inv'
<1>1. /\ threads[th].step = "run"
      /\ threads' = [threads EXCEPT ![th].step = "complete"]
      /\ UNCHANGED <<playingNow, acts, queue, isShutdown, submitted>>
  BY DEF Ran
<1>2. threads \in [Thread -> Idle \cup Busy]
  BY DEF Inv, TypeOK
<1>3. threads[th] \in Busy
  BY <1>1, <1>2 DEF Idle
<1>4. /\ threads'[th] = [step |-> "complete", act |-> threads[th].act, task |-> threads[th].task]
      /\ \A u \in Thread : u # th => threads'[u] = threads[u]
      /\ threads' \in [Thread -> Idle \cup Busy]
  <2>1. threads'[th] = [step |-> "complete", act |-> threads[th].act, task |-> threads[th].task]
    BY <1>1, <1>2, <1>3 DEF Busy
  <2>2. \A u \in Thread : u # th => threads'[u] = threads[u]
    BY <1>1
  <2>3. threads'[th] \in Busy
    BY <1>3, <2>1 DEF Busy
  <2>4. threads' = [u \in Thread |-> threads'[u]]
    BY <1>1, <1>2
  <2> QED BY <1>2, <2>1, <2>2, <2>3, <2>4
<1>5. \A b : \A u \in Thread : OnThread(u, b)' <=> OnThread(u, b)
  BY <1>1, <1>4 DEF OnThread
<1>6. TypeOK'
  BY <1>1, <1>4 DEF Inv, TypeOK
<1>7. OneTask'
  BY <1>1, <1>5 DEF Inv, OneTask, NotConcurrent
<1>8. \A b \in Act : InExecutor(b)' <=> InExecutor(b)
  BY <1>1, <1>5 DEF InExecutor, Queued, InQueue
<1>9. Playing'
  BY <1>1, <1>8 DEF Inv, TypeOK, Playing
<1> QED BY <1>6, <1>7, <1>9 DEF Inv

(* What a thread that goes idle changes. *)
LEMMA IdleEffect ==
  ASSUME Inv, NEW th \in Thread, threads[th].step = "complete",
         threads' = [threads EXCEPT ![th] = [step |-> "idle"]]
  PROVE  /\ threads' \in [Thread -> Idle \cup Busy]
         /\ threads[th].act \in Act
         /\ OnThread(th, threads[th].act)
         /\ \A b : \A u \in Thread : OnThread(u, b)' <=> u # th /\ OnThread(u, b)
<1>1. threads \in [Thread -> Idle \cup Busy]
  BY DEF Inv, TypeOK
<1>2. threads[th] \in Busy
  BY <1>1 DEF Idle
<1> QED BY <1>1, <1>2 DEF Idle, Busy, OnThread

LEMMA CompleteKeeps ==
  ASSUME Inv, NEW th \in Thread, Complete(th)
  PROVE  Inv'
<1> DEFINE a == threads[th].act
<1>1. /\ threads' \in [Thread -> Idle \cup Busy]
      /\ a \in Act
      /\ OnThread(th, a)
      /\ \A b : \A u \in Thread : OnThread(u, b)' <=> u # th /\ OnThread(u, b)
  BY IdleEffect DEF Complete
<1>2. UNCHANGED <<isShutdown, submitted>>
  BY DEF Complete
<1>3. /\ \A u \in Thread : u # th => ~OnThread(u, a)
      /\ ~Queued(a)
  BY <1>1 DEF Inv, OneTask, NotConcurrent, Queued, InQueue
<1>4. CASE acts[a] = <<>>
  <2>1. playingNow' = playingNow \ {a} /\ UNCHANGED <<acts, queue>>
    BY <1>4 DEF Complete
  <2> HIDE DEF a
  <2>2. TypeOK'
    BY <1>1, <1>2, <2>1 DEF Inv, TypeOK
  <2>3. OneTask'
    BY <1>1, <2>1 DEF Inv, OneTask, NotConcurrent
  <2>4. \A b \in Act : InExecutor(b)' <=> InExecutor(b) /\ b # a
    <3> TAKE b \in Act
    <3>1. Queued(b)' <=> Queued(b)
      BY <2>1 DEF Queued, InQueue
    <3>2. OnThread(th, b) <=> b = a
      BY <1>1 DEF OnThread
    <3> QED BY <1>1, <1>3, <3>1, <3>2 DEF InExecutor
  <2>5. Playing'
    BY <1>2, <1>4, <2>1, <2>4 DEF Inv, TypeOK, Playing
  <2> QED BY <2>2, <2>3, <2>5 DEF Inv
<1>5. CASE acts[a] # <<>>
  <2>1. /\ acts' = [acts EXCEPT ![a] = Tail(@)]
        /\ Execute(a, Head(acts[a]))
        /\ UNCHANGED playingNow
    BY <1>5 DEF Complete
  <2> HIDE DEF a
  <2>2. acts[a] \in Seq(Task)
    BY <1>1 DEF Inv, TypeOK
  <2>3. Head(acts[a]) \in Task /\ Tail(acts[a]) \in Seq(Task)
    BY <1>5, <2>2, HeadTailProperties
  <2>4. acts' \in [Act -> Seq(Task)] /\ \A b \in Act : b # a => acts'[b] = acts[b]
    BY <1>1, <2>1, <2>3 DEF Inv, TypeOK
  <2>5. OnThread(th, a) /\ \A b : OnThread(th, b) => b = a
    BY <1>1 DEF OnThread
  <2>6. a \in playingNow
    BY <1>1 DEF Inv, Playing, InExecutor
  <2>7. CASE isShutdown
    <3>1. UNCHANGED queue
      BY <2>1, <2>7 DEF Execute
    <3>2. TypeOK'
      BY <1>1, <1>2, <2>1, <2>4, <3>1 DEF Inv, TypeOK
    <3>3. OneTask'
      BY <1>1, <3>1 DEF Inv, OneTask, NotConcurrent
    <3>4. \A b \in Act : InExecutor(b)' => InExecutor(b)
      BY <1>1, <3>1 DEF InExecutor, Queued, InQueue
    <3>5. Playing'
      BY <1>2, <2>1, <2>4, <2>6, <2>7, <3>1, <3>4 DEF Inv, TypeOK, Playing
    <3> QED BY <3>2, <3>3, <3>5 DEF Inv
  <2>8. CASE ~isShutdown
    <3>1. /\ queue' \in Seq(Job)
          /\ Len(queue') = Len(queue) + 1
          /\ \A i \in 1 .. Len(queue) : queue'[i] = queue[i]
          /\ queue'[Len(queue) + 1].act = a
      BY <1>1, <2>1, <2>3, <2>8, ExecuteEffect DEF Inv
    <3>2. Len(queue) \in Nat
      BY DEF Inv, TypeOK
    <3>3. TypeOK'
      BY <1>1, <1>2, <2>1, <2>4, <3>1 DEF Inv, TypeOK
    <3>4. OneTask'
      <4>1. (\A i, j \in 1 .. Len(queue) : queue[i].act = queue[j].act => i = j)'
        BY <1>3, <3>1, <3>2 DEF Inv, OneTask, Queued, InQueue
      <4>2. (\A i \in 1 .. Len(queue), u \in Thread : ~OnThread(u, queue[i].act))'
        <5> SUFFICES ASSUME NEW i \in 1 .. Len(queue'), NEW u \in Thread
                     PROVE  ~OnThread(u, queue[i].act)'
          OBVIOUS
        <5>1. CASE i = Len(queue) + 1
          BY <1>1, <1>3, <3>1, <5>1 DEF OnThread
        <5>2. CASE i \in 1 .. Len(queue)
          <6>1. queue'[i] = queue[i] /\ ~OnThread(u, queue[i].act)
            BY <3>1, <5>2 DEF Inv, OneTask
          <6> QED BY <1>1, <6>1 DEF OnThread
        <5> QED BY <3>1, <3>2, <5>1, <5>2
      <4>3. NotConcurrent'
        BY <1>1 DEF Inv, OneTask, NotConcurrent
      <4> QED BY <4>1, <4>2, <4>3 DEF OneTask
    <3>5. \A b \in Act : InExecutor(b)' <=> InExecutor(b)
      <4> TAKE b \in Act
      <4>1. Queued(b)' <=> Queued(b) \/ b = a
        BY <3>1, <3>2 DEF Queued, InQueue
      <4> QED BY <1>1, <2>5, <4>1 DEF InExecutor
    <3>6. Playing'
      BY <1>2, <2>1, <2>4, <2>6, <2>8, <3>5 DEF Inv, TypeOK, Playing
    <3> QED BY <3>3, <3>4, <3>6 DEF Inv
  <2> QED BY <2>7, <2>8
<1> QED BY <1>4, <1>5

LEMMA ShutdownKeeps ==
  ASSUME Inv, Shutdown
  PROVE  Inv'
<1>1. /\ queue' = <<>> /\ Len(queue') = 0 /\ queue' \in Seq(Job)
      /\ isShutdown' = TRUE
      /\ UNCHANGED <<playingNow, acts, threads, submitted>>
  BY EmptySeq DEF Shutdown
<1>2. TypeOK'
  BY <1>1 DEF Inv, TypeOK
<1>3. \A b : \A u \in Thread : OnThread(u, b)' <=> OnThread(u, b)
  BY <1>1 DEF OnThread
<1>4. OneTask'
  BY <1>1, <1>3 DEF Inv, OneTask, NotConcurrent
<1>5. \A b \in Act : InExecutor(b)' => InExecutor(b)
  BY <1>1, <1>3 DEF InExecutor, Queued, InQueue
<1>6. Playing'
  BY <1>1, <1>5 DEF Inv, TypeOK, Playing
<1> QED BY <1>2, <1>4, <1>6 DEF Inv

LEMMA NextInv == Inv /\ [Next]_vars => Inv'
<1> SUFFICES ASSUME Inv, [Next]_vars PROVE Inv'
  OBVIOUS
<1>1. CASE \E a \in Act, t \in Task : Submit(a, t)
  BY <1>1, SubmitKeeps
<1>2. CASE \E th \in Thread : Take(th) \/ Ran(th) \/ Complete(th)
  BY <1>2, TakeKeeps, RanKeeps, CompleteKeeps
<1>3. CASE Shutdown
  BY <1>3, ShutdownKeeps
<1>4. CASE UNCHANGED vars
  BY <1>4 DEF vars, Inv, TypeOK, OneTask, Playing, NotConcurrent, InExecutor, Queued, InQueue, OnThread
<1> QED BY <1>1, <1>2, <1>3, <1>4 DEF Next

LEMMA InvAlways == Spec => []Inv
BY InitInv, NextInv, PTL DEF Spec

(* The queues hold tasks and the threads run them. *)
THEOREM TypeCorrect == Spec => []TypeOK
<1>1. Inv => TypeOK
  BY DEF Inv
<1> QED BY <1>1, InvAlways, PTL

(* The executor's queue and its threads hold tasks of handlers and nothing  *)
(* else: complete never takes a task from a handler that has none.          *)
THEOREM PoolTyped == Spec => []TypeOK
<1>1. Inv => TypeOK
  BY DEF Inv
<1> QED BY <1>1, InvAlways, PTL

(* No two threads ever run tasks of one handler. *)
THEOREM NeverConcurrent == Spec => []NotConcurrent
<1>1. Inv => NotConcurrent
  BY DEF Inv, OneTask
<1> QED BY <1>1, InvAlways, PTL

(* Until the pool is shut down, a pending task has a predecessor in the     *)
(* executor that will hand it over.                                         *)
THEOREM NeverStranded == Spec => []NoneStranded
<1>1. Inv => NoneStranded
  BY DEF Inv, Playing, NoneStranded, InExecutor
<1> QED BY <1>1, InvAlways, PTL

-----------------------------------------------------------------------------
(* The refinement *)

(* Facts about a queue with one task in front. *)
LEMMA FrontOfQueue ==
  ASSUME NEW s \in Seq(Task), NEW x \in Task
  PROVE  /\ <<x>> \o s \in Seq(Task)
         /\ <<x>> \o s # <<>>
         /\ Head(<<x>> \o s) = x
         /\ Tail(<<x>> \o s) = s
         /\ <<>> \o s = s
         /\ s # <<>> => <<Head(s)>> \o Tail(s) = s
         /\ \A y \in Task : Append(<<x>> \o s, y) = <<x>> \o Append(s, y)
         /\ \A y \in Task : Append(<<>> \o s, y) = <<>> \o Append(s, y)
         /\ Append(<<>> \o <<>>, x) = <<x>> \o <<>>
<1>1. <<x>> \in Seq(Task) /\ Len(<<x>>) = 1 /\ <<x>>[1] = x /\ <<>> \in Seq(Task)
  OBVIOUS
<1>2. /\ <<x>> \o s \in Seq(Task)
      /\ Len(<<x>> \o s) = 1 + Len(s)
      /\ \A i \in 1 .. 1 + Len(s) : (<<x>> \o s)[i] = IF i <= 1 THEN x ELSE s[i - 1]
  BY <1>1, ConcatProperties
<1>3. Len(s) \in Nat
  OBVIOUS
<1>4. <<x>> \o s # <<>>
  BY <1>2, <1>3, EmptySeq
<1>5. /\ Head(<<x>> \o s) = x
      /\ Tail(<<x>> \o s) \in Seq(Task)
      /\ Len(Tail(<<x>> \o s)) = Len(s)
      /\ \A i \in 1 .. Len(s) : Tail(<<x>> \o s)[i] = s[i]
  <2> DEFINE w == <<x>> \o s
  <2>1. /\ w \in Seq(Task) /\ w # <<>> /\ Len(w) = 1 + Len(s) /\ w[1] = x
        /\ \A i \in 1 .. Len(s) : w[i + 1] = s[i]
    BY <1>2, <1>3, <1>4
  <2> HIDE DEF w
  <2>2. /\ Tail(w) \in Seq(Task)
        /\ Len(Tail(w)) = Len(w) - 1
        /\ \A i \in 1 .. Len(Tail(w)) : Tail(w)[i] = w[i + 1]
    BY <2>1, HeadTailProperties
  <2>3. Head(w) = w[1]
    BY <2>1
  <2> QED BY <1>3, <2>1, <2>2, <2>3 DEF w
<1>6. Tail(<<x>> \o s) = s
  BY <1>5, SeqEqual
<1>7. <<>> \o s = s
  BY ConcatEmptySeq
<1>8. s # <<>> => <<Head(s)>> \o Tail(s) = s
  <2> SUFFICES ASSUME s # <<>> PROVE <<Head(s)>> \o Tail(s) = s
    OBVIOUS
  <2>1. /\ Head(s) = s[1] /\ Head(s) \in Task
        /\ Tail(s) \in Seq(Task)
        /\ Len(Tail(s)) = Len(s) - 1
        /\ \A i \in 1 .. Len(Tail(s)) : Tail(s)[i] = s[i + 1]
    BY HeadTailProperties
  <2>2. <<Head(s)>> \in Seq(Task) /\ Len(<<Head(s)>>) = 1 /\ <<Head(s)>>[1] = s[1]
    BY <2>1
  <2>3. /\ <<Head(s)>> \o Tail(s) \in Seq(Task)
        /\ Len(<<Head(s)>> \o Tail(s)) = Len(s)
        /\ \A i \in 1 .. Len(s) :
             (<<Head(s)>> \o Tail(s))[i] = IF i <= 1 THEN s[1] ELSE Tail(s)[i - 1]
    BY <1>3, <2>1, <2>2, ConcatProperties
  <2>4. \A i \in 1 .. Len(s) : (<<Head(s)>> \o Tail(s))[i] = s[i]
    BY <1>3, <2>1, <2>3
  <2> QED BY <2>3, <2>4, SeqEqual
<1>9. ASSUME NEW y \in Task, NEW u \in Seq(Task)
      PROVE  Append(u \o s, y) = u \o Append(s, y)
  <2>1. <<y>> \in Seq(Task) /\ u \o s \in Seq(Task)
    BY ConcatProperties
  <2>2. (u \o s) \o <<y>> = u \o (s \o <<y>>)
    BY <2>1, ConcatAssociative
  <2> QED BY <2>1, <2>2, AppendIsConcat
<1>10. Append(<<>> \o <<>>, x) = <<x>> \o <<>>
  BY <1>1, ConcatEmptySeq, AppendIsConcat
<1> QED BY <1>1, <1>2, <1>4, <1>5, <1>6, <1>7, <1>8, <1>9, <1>10

(* What the mapping yields for an actor, of any queue in which an actor has *)
(* at most one task, and of any threads of which at most one runs for it.   *)
LEMMA InFrontValue ==
  ASSUME NEW q \in Seq(Job), NEW a,
         \A i, j \in 1 .. Len(q) : q[i].act = q[j].act => i = j
  PROVE  /\ \A i \in 1 .. Len(q) :
              q[i].act = a => InFront(q, a) = <<q[i].task>> /\ q[i].task \in Task
         /\ ~InQueue(q, a) => InFront(q, a) = <<>>
         /\ InFront(q, a) = <<>> \/ \E x \in Task : InFront(q, a) = <<x>>
<1>1. ASSUME NEW i \in 1 .. Len(q), q[i].act = a
      PROVE  InFront(q, a) = <<q[i].task>>
  <2>1. InQueue(q, a)
    BY <1>1 DEF InQueue
  <2>2. (CHOOSE j \in 1 .. Len(q) : q[j].act = a) = i
    BY <1>1
  <2> QED BY <2>1, <2>2 DEF InFront
<1>2. \A i \in 1 .. Len(q) : q[i].task \in Task
  <2>1. \A i \in 1 .. Len(q) : q[i] \in Job
    BY ElementOfSeq
  <2> QED BY <2>1 DEF Job
<1>3. ~InQueue(q, a) => InFront(q, a) = <<>>
  BY DEF InFront
<1> QED BY <1>1, <1>2, <1>3 DEF InQueue

LEMMA RunOfValue ==
  ASSUME NEW ths \in [Thread -> Idle \cup Busy], NEW a,
         \A u, v \in Thread : RunsFor(ths, u, a) /\ RunsFor(ths, v, a) => u = v
  PROVE  /\ \A th \in Thread : RunsFor(ths, th, a) =>
              RunOf(ths, a) = ths[th].task /\ ths[th].task \in Task
         /\ (\A th \in Thread : ~RunsFor(ths, th, a)) => RunOf(ths, a) = NoTask
<1>1. ASSUME NEW th \in Thread, RunsFor(ths, th, a)
      PROVE  RunOf(ths, a) = ths[th].task /\ ths[th].task \in Task
  <2>1. ths[th] \in Busy
    BY <1>1 DEF RunsFor, Idle
  <2>2. (CHOOSE u \in Thread : RunsFor(ths, u, a)) = th
    BY <1>1
  <2> QED BY <1>1, <2>1, <2>2 DEF RunOf, Busy
<1> QED BY <1>1 DEF RunOf

LEMMA SameRun ==
  ASSUME NEW ths, NEW ths2, NEW b,
         \A u, v \in Thread : RunsFor(ths, u, b) /\ RunsFor(ths, v, b) => u = v,
         \A u \in Thread : RunsFor(ths2, u, b) <=> RunsFor(ths, u, b),
         \A u \in Thread : RunsFor(ths, u, b) => ths2[u] = ths[u]
  PROVE  RunOf(ths2, b) = RunOf(ths, b)
<1>1. CASE \E u \in Thread : RunsFor(ths, u, b)
  <2>1. PICK u \in Thread : RunsFor(ths, u, b)
    BY <1>1
  <2>2. \A v \in Thread : RunsFor(ths, v, b) => v = u
    BY <2>1
  <2>3. /\ (CHOOSE v \in Thread : RunsFor(ths, v, b)) = u
        /\ (CHOOSE v \in Thread : RunsFor(ths2, v, b)) = u
    BY <2>1, <2>2
  <2> QED BY <2>1, <2>3 DEF RunOf
<1>2. CASE \A u \in Thread : ~RunsFor(ths, u, b)
  BY <1>2 DEF RunOf
<1> QED BY <1>1, <1>2

(* The queue and the threads are such. *)
LEMMA Mappable ==
  ASSUME Inv
  PROVE  /\ queue \in Seq(Job)
         /\ \A i, j \in 1 .. Len(queue) : queue[i].act = queue[j].act => i = j
         /\ threads \in [Thread -> Idle \cup Busy]
         /\ \A a, u, v : u \in Thread /\ v \in Thread =>
              (RunsFor(threads, u, a) /\ RunsFor(threads, v, a) => u = v)
         /\ \A a \in Act : InQueue(queue, a) => \A th \in Thread : ~OnThread(th, a)
<1>1. threads \in [Thread -> Idle \cup Busy]
  BY DEF Inv, TypeOK
<1>2. ASSUME NEW a, NEW u \in Thread, NEW v \in Thread,
             RunsFor(threads, u, a), RunsFor(threads, v, a)
      PROVE  u = v
  <2>1. threads[u] \in Busy /\ threads[u].act = a
    BY <1>1, <1>2 DEF RunsFor, Idle
  <2>2. a \in Act
    BY <2>1 DEF Busy
  <2>3. OnThread(u, a) /\ OnThread(v, a)
    BY <1>2 DEF RunsFor, OnThread
  <2> QED BY <2>2, <2>3 DEF Inv, OneTask, NotConcurrent
<1> QED BY <1>1, <1>2 DEF Inv, TypeOK, OneTask, InQueue

(* Appending a task of an actor that has none puts it in front. *)
LEMMA ExecuteMapped ==
  ASSUME Inv, NEW a \in Act, NEW t \in Task, Execute(a, t), ~isShutdown, ~Queued(a)
  PROVE  /\ InFront(queue', a) = <<t>>
         /\ \A b \in Act : b # a => InFront(queue', b) = InFront(queue, b)
<1>1. /\ queue' \in Seq(Job)
      /\ Len(queue') = Len(queue) + 1
      /\ \A i \in 1 .. Len(queue) : queue'[i] = queue[i]
      /\ queue'[Len(queue) + 1].act = a
      /\ queue'[Len(queue) + 1].task = t
  BY ExecuteEffect DEF Inv
<1>2. queue \in Seq(Job) /\ Len(queue) \in Nat
      /\ \A i, j \in 1 .. Len(queue) : queue[i].act = queue[j].act => i = j
  BY Mappable
<1>3. \A i, j \in 1 .. Len(queue') : queue'[i].act = queue'[j].act => i = j
  BY <1>1, <1>2 DEF Queued, InQueue
<1>4. InFront(queue', a) = <<t>>
  <2>1. Len(queue) + 1 \in 1 .. Len(queue')
    BY <1>1, <1>2
  <2>2. InFront(queue', a) = <<queue'[Len(queue) + 1].task>>
    BY <1>1, <1>3, <2>1, InFrontValue
  <2> QED BY <1>1, <2>2
<1>5. ASSUME NEW b \in Act, b # a
      PROVE  InFront(queue', b) = InFront(queue, b)
  <2>1. CASE InQueue(queue, b)
    <3>1. PICK i \in 1 .. Len(queue) : queue[i].act = b
      BY <2>1 DEF InQueue
    <3>2. i \in 1 .. Len(queue') /\ queue'[i] = queue[i]
      BY <1>1, <1>2
    <3>3. InFront(queue, b) = <<queue[i].task>>
      BY <1>2, <3>1, InFrontValue
    <3>4. InFront(queue', b) = <<queue'[i].task>>
      BY <1>1, <1>3, <3>1, <3>2, InFrontValue
    <3> QED BY <3>2, <3>3, <3>4
  <2>2. CASE ~InQueue(queue, b)
    <3>1. ~InQueue(queue', b)
      BY <1>1, <1>2, <1>5, <2>2 DEF InQueue
    <3> QED BY <2>2, <3>1 DEF InFront
  <2> QED BY <2>1, <2>2
<1> QED BY <1>4, <1>5

LEMMA SubmitMapped ==
  ASSUME Inv, NEW a \in Act, NEW t \in Task, Submit(a, t)
  PROVE  Serial!Add(a, t)
<1>1. acts[a] \in Seq(Task) /\ acts \in [Act -> Seq(Task)]
  BY DEF Inv, TypeOK
<1>2. ~isShutdown /\ UNCHANGED <<threads, isShutdown>>
  BY DEF Submit
<1> DEFINE new == [b \in Act |-> InFront(queue, b) \o acts[b]]'
           old == [b \in Act |-> InFront(queue, b) \o acts[b]]
<1>3. new[a] = Append(old[a], t) /\ \A b \in Act : b # a => new[b] = old[b]
  <2>1. CASE a \notin playingNow
    <3>1. acts[a] = <<>> /\ ~Queued(a)
      BY <2>1 DEF Inv, Playing, InExecutor
    <3>2. Execute(a, t) /\ UNCHANGED acts
      BY <2>1 DEF Submit
    <3>3. /\ InFront(queue', a) = <<t>>
          /\ \A b \in Act : b # a => InFront(queue', b) = InFront(queue, b)
      BY <1>2, <3>1, <3>2, ExecuteMapped
    <3>4. InFront(queue, a) = <<>>
      BY <3>1 DEF Queued, InFront
    <3>5. Append(<<>> \o <<>>, t) = <<t>> \o <<>>
      BY <1>1, FrontOfQueue
    <3> QED BY <3>1, <3>2, <3>3, <3>4, <3>5
  <2>2. CASE a \in playingNow
    <3>1. acts' = [acts EXCEPT ![a] = Append(@, t)] /\ UNCHANGED queue
      BY <2>2 DEF Submit
    <3>2. InFront(queue, a) = <<>> \/ \E x \in Task : InFront(queue, a) = <<x>>
      <4>1. /\ queue \in Seq(Job)
            /\ \A i, j \in 1 .. Len(queue) : queue[i].act = queue[j].act => i = j
        BY Mappable
      <4> QED BY <4>1, InFrontValue
    <3>3. Append(InFront(queue, a) \o acts[a], t) = InFront(queue, a) \o Append(acts[a], t)
      <4>1. CASE InFront(queue, a) = <<>>
        <5>1. Append(<<>> \o acts[a], t) = <<>> \o Append(acts[a], t)
          BY <1>1, FrontOfQueue
        <5> QED BY <4>1, <5>1
      <4>2. ASSUME NEW x \in Task, InFront(queue, a) = <<x>>
            PROVE  Append(InFront(queue, a) \o acts[a], t) =
                     InFront(queue, a) \o Append(acts[a], t)
        <5>1. Append(<<x>> \o acts[a], t) = <<x>> \o Append(acts[a], t)
          BY <1>1, FrontOfQueue
        <5> QED BY <4>2, <5>1
      <4> QED BY <3>2, <4>1, <4>2
    <3> QED BY <1>1, <3>1, <3>3
  <2> QED BY <2>1, <2>2
<1>4. new = [old EXCEPT ![a] = Append(@, t)]
  BY <1>3
<1> QED BY <1>2, <1>4 DEF Serial!Add

(* A task that a thread takes starts. *)
LEMMA TakeMapped ==
  ASSUME Inv, Inv', NEW th \in Thread, Take(th)
  PROVE  \E b \in Act : Serial!Start(b)
<1> DEFINE a == queue[1].act
           t == queue[1].task
<1>1. /\ queue' \in Seq(Job)
      /\ Len(queue) \in Nat /\ Len(queue) >= 1
      /\ Len(queue') = Len(queue) - 1
      /\ \A i \in 1 .. Len(queue') : queue'[i] = queue[i + 1]
      /\ a \in Act /\ t \in Task
      /\ threads' = [threads EXCEPT ![th] = [step |-> "run", act |-> a, task |-> t]]
  BY TakeEffect DEF Inv, Job
<1>2. UNCHANGED <<acts, isShutdown>> /\ threads[th].step = "idle"
  BY DEF Take
<1>3. /\ queue \in Seq(Job)
      /\ \A i, j \in 1 .. Len(queue) : queue[i].act = queue[j].act => i = j
      /\ threads \in [Thread -> Idle \cup Busy]
      /\ \A b, u, v : u \in Thread /\ v \in Thread =>
           (RunsFor(threads, u, b) /\ RunsFor(threads, v, b) => u = v)
      /\ \A b \in Act : InQueue(queue, b) => \A u \in Thread : ~OnThread(u, b)
  BY Mappable
<1>4. acts \in [Act -> Seq(Task)]
  BY DEF Inv, TypeOK
<1>5. ~isShutdown
  BY EmptySeq, <1>1 DEF Inv, Playing
<1>6. InFront(queue, a) = <<t>> /\ InFront(queue', a) = <<>>
  <2>1. 1 \in 1 .. Len(queue)
    BY <1>1
  <2>2. InFront(queue, a) = <<t>>
    BY <1>3, <2>1, InFrontValue
  <2>3. ~InQueue(queue', a)
    BY <1>1, <1>3 DEF InQueue
  <2> QED BY <2>2, <2>3 DEF InFront
<1>7. ASSUME NEW b \in Act, b # a
      PROVE  InFront(queue', b) = InFront(queue, b)
  <2>1. \A i, j \in 1 .. Len(queue') : queue'[i].act = queue'[j].act => i = j
    BY <1>1, <1>3
  <2>2. CASE InQueue(queue', b)
    <3>1. PICK i \in 1 .. Len(queue') : queue'[i].act = b
      BY <2>2 DEF InQueue
    <3>2. i + 1 \in 1 .. Len(queue) /\ queue'[i] = queue[i + 1]
      BY <1>1
    <3>3. InFront(queue', b) = <<queue'[i].task>>
      BY <1>1, <2>1, <3>1, InFrontValue
    <3>4. InFront(queue, b) = <<queue[i + 1].task>>
      BY <1>3, <3>1, <3>2, InFrontValue
    <3> QED BY <3>2, <3>3, <3>4
  <2>3. CASE ~InQueue(queue', b)
    <3>1. \A i \in 1 .. Len(queue) :
            i = 1 \/ (i - 1 \in 1 .. Len(queue') /\ queue'[i - 1] = queue[i])
      BY <1>1
    <3>2. ~InQueue(queue, b)
      BY <1>7, <2>3, <3>1 DEF InQueue
    <3> QED BY <2>3, <3>2 DEF InFront
  <2> QED BY <2>2, <2>3
<1>8. RunOf(threads, a) = NoTask /\ RunOf(threads', a) = t
  <2>1. \A u \in Thread : ~RunsFor(threads, u, a)
    <3>1. InQueue(queue, a)
      BY <1>1 DEF InQueue
    <3>2. \A u \in Thread : ~OnThread(u, a)
      BY <1>1, <1>3, <3>1
    <3> QED BY <3>2 DEF RunsFor, OnThread
  <2>2. RunOf(threads, a) = NoTask
    BY <2>1 DEF RunOf
  <2>3. \A u \in Thread : RunsFor(threads', u, a) <=> u = th
    BY <1>1, <1>3, <2>1 DEF RunsFor
  <2>4. (CHOOSE u \in Thread : RunsFor(threads', u, a)) = th
    BY <2>3
  <2>5. threads'[th].task = t
    BY <1>1, <1>3
  <2> QED BY <2>2, <2>3, <2>4, <2>5 DEF RunOf
<1>9. ASSUME NEW b \in Act, b # a
      PROVE  RunOf(threads', b) = RunOf(threads, b)
  <2>1. \A u \in Thread : RunsFor(threads', u, b) <=> RunsFor(threads, u, b)
    BY <1>1, <1>2, <1>3, <1>9 DEF RunsFor
  <2>2. \A u \in Thread : RunsFor(threads, u, b) => threads'[u] = threads[u]
    BY <1>1, <1>2, <1>3 DEF RunsFor
  <2> QED BY <1>3, <2>1, <2>2, SameRun
<1> HIDE DEF a, t
<1> DEFINE backlog == [b \in Act |-> InFront(queue, b) \o acts[b]]
           active == [b \in Act |-> RunOf(threads, b)]
<1>10. acts[a] \in Seq(Task) /\ t \in Task /\ backlog[a] = <<t>> \o acts[a]
  BY <1>1, <1>4, <1>6
<1>11. backlog[a] # <<>> /\ Head(backlog[a]) = t /\ Tail(backlog[a]) = acts[a]
  <2> HIDE DEF backlog
  <2> DEFINE s == acts[a]
  <2>1. s \in Seq(Task) /\ t \in Task /\ backlog[a] = <<t>> \o s
    BY <1>10
  <2> HIDE DEF s
  <2>2. <<t>> \o s # <<>> /\ Head(<<t>> \o s) = t /\ Tail(<<t>> \o s) = s
    BY <2>1, FrontOfQueue
  <2>3. backlog[a] # <<>> /\ Head(backlog[a]) = t /\ Tail(backlog[a]) = s
    BY <2>1, <2>2, Zenon
  <2> QED BY <2>3 DEF s
<1>12. <<>> \o acts[a] = acts[a]
  BY <1>10, ConcatEmptySeq
<1>13. backlog' = [backlog EXCEPT ![a] = Tail(@)]
  BY <1>1, <1>2, <1>6, <1>7, <1>11, <1>12
<1>14. active[a] = NoTask /\ active' = [active EXCEPT ![a] = Head(backlog[a])]
  BY <1>1, <1>8, <1>9, <1>11
<1>15. PICK c \in Act : c = a
  BY <1>1
<1>16. Serial!Start(c)
  BY <1>2, <1>5, <1>11, <1>13, <1>14, <1>15 DEF Serial!Start
<1> QED BY <1>16

(* A task that a thread has run is finished. *)
LEMMA RanMapped ==
  ASSUME Inv, NEW th \in Thread, Ran(th)
  PROVE  \E b \in Act : Serial!Finish(b)
<1> DEFINE a == threads[th].act
<1>1. /\ threads[th].step = "run"
      /\ threads' = [threads EXCEPT ![th].step = "complete"]
      /\ UNCHANGED <<acts, queue, isShutdown>>
  BY DEF Ran
<1>2. /\ threads \in [Thread -> Idle \cup Busy]
      /\ \A b, u, v : u \in Thread /\ v \in Thread =>
           (RunsFor(threads, u, b) /\ RunsFor(threads, v, b) => u = v)
  BY Mappable
<1>3. threads[th] \in Busy
  BY <1>1, <1>2 DEF Idle
<1>4. /\ threads'[th].step = "complete"
      /\ \A u \in Thread : u # th => threads'[u] = threads[u]
      /\ a \in Act /\ RunsFor(threads, th, a)
  BY <1>1, <1>2, <1>3 DEF Busy, RunsFor
<1>5. RunOf(threads, a) # NoTask
  <2>1. RunOf(threads, a) = threads[th].task /\ threads[th].task \in Task
    BY <1>2, <1>4, RunOfValue
  <2> QED BY <2>1, PoolAssumption
<1>6. RunOf(threads', a) = NoTask
  <2>1. \A u \in Thread : ~RunsFor(threads', u, a)
    BY <1>2, <1>4 DEF RunsFor
  <2> QED BY <2>1 DEF RunOf
<1>7. ASSUME NEW b \in Act, b # a
      PROVE  RunOf(threads', b) = RunOf(threads, b)
  <2>1. \A u \in Thread : RunsFor(threads', u, b) <=> RunsFor(threads, u, b)
    BY <1>1, <1>4, <1>7 DEF RunsFor
  <2>2. \A u \in Thread : RunsFor(threads, u, b) => threads'[u] = threads[u]
    BY <1>4, <1>7 DEF RunsFor
  <2> QED BY <1>2, <2>1, <2>2, SameRun
<1> HIDE DEF a
<1> DEFINE backlog == [b \in Act |-> InFront(queue, b) \o acts[b]]
           active == [b \in Act |-> RunOf(threads, b)]
<1>8. UNCHANGED backlog
  BY <1>1
<1>9. active[a] # NoTask /\ active' = [active EXCEPT ![a] = NoTask]
  BY <1>4, <1>5, <1>6, <1>7
<1>10. Serial!Finish(a)
  BY <1>1, <1>8, <1>9 DEF Serial!Finish
<1> QED BY <1>4, <1>10

(* The tasks in front are lost when the pool is shut down. *)
LEMMA ShutdownMapped ==
  ASSUME Inv, Shutdown
  PROVE  Serial!Stop
<1> DEFINE backlog == [b \in Act |-> InFront(queue, b) \o acts[b]]
           active == [b \in Act |-> RunOf(threads, b)]
           dropping == {b \in Act : InQueue(queue, b)}
<1>1. queue' = <<>> /\ isShutdown' = TRUE /\ UNCHANGED <<acts, threads>>
  BY DEF Shutdown
<1>2. /\ queue \in Seq(Job)
      /\ \A i, j \in 1 .. Len(queue) : queue[i].act = queue[j].act => i = j
  BY Mappable
<1>3. ASSUME NEW b \in Act
      PROVE  backlog'[b] = IF b \in dropping /\ backlog[b] # <<>>
                             THEN Tail(backlog[b]) ELSE backlog[b]
  <2>1. acts[b] \in Seq(Task)
    BY DEF Inv, TypeOK
  <2>2. InFront(queue', b) = <<>>
    BY <1>1 DEF InFront, InQueue
  <2>3. <<>> \o acts[b] = acts[b]
    BY <2>1, ConcatEmptySeq
  <2>4. CASE InQueue(queue, b)
    <3>1. PICK i \in 1 .. Len(queue) : queue[i].act = b
      BY <2>4 DEF InQueue
    <3>2. PICK x \in Task : InFront(queue, b) = <<x>>
      BY <1>2, <3>1, InFrontValue
    <3>3. <<x>> \o acts[b] # <<>> /\ Tail(<<x>> \o acts[b]) = acts[b]
      BY <2>1, FrontOfQueue
    <3>4. backlog[b] = <<x>> \o acts[b]
      BY <3>2
    <3>5. backlog'[b] = acts[b] /\ b \in dropping
      BY <1>1, <2>2, <2>3, <2>4
    <3> QED BY <3>3, <3>4, <3>5
  <2>5. CASE ~InQueue(queue, b)
    <3>1. InFront(queue, b) = <<>>
      BY <2>5 DEF InFront
    <3>2. backlog[b] = <<>> \o acts[b] /\ b \notin dropping
      BY <2>5, <3>1
    <3>3. backlog'[b] = <<>> \o acts[b]
      BY <1>1, <2>2
    <3> QED BY <3>2, <3>3
  <2> QED BY <2>4, <2>5
<1>4. dropping \in SUBSET Act
  OBVIOUS
<1>5. UNCHANGED active
  BY <1>1
<1>6. backlog' = [b \in Act |-> IF b \in dropping /\ backlog[b] # <<>>
                                  THEN Tail(backlog[b]) ELSE backlog[b]]
  BY <1>3
<1> QED BY <1>1, <1>4, <1>5, <1>6 DEF Serial!Stop

(* A thread that completes hands the next task to the queue, where it stays *)
(* the oldest of its actor; a pool that is shut down loses it instead.      *)
LEMMA CompleteMapped ==
  ASSUME Inv, NEW th \in Thread, Complete(th)
  PROVE  UNCHANGED Serial!vars \/ Serial!Stop
<1> DEFINE a == threads[th].act
<1>1. /\ threads' \in [Thread -> Idle \cup Busy]
      /\ a \in Act
      /\ OnThread(th, a)
      /\ \A b : \A u \in Thread : OnThread(u, b)' <=> u # th /\ OnThread(u, b)
  BY IdleEffect DEF Complete
<1>2. /\ threads[th].step = "complete" /\ UNCHANGED isShutdown
      /\ threads' = [threads EXCEPT ![th] = [step |-> "idle"]]
  BY DEF Complete
<1>3. /\ queue \in Seq(Job)
      /\ \A i, j \in 1 .. Len(queue) : queue[i].act = queue[j].act => i = j
      /\ threads \in [Thread -> Idle \cup Busy]
      /\ \A b, u, v : u \in Thread /\ v \in Thread =>
           (RunsFor(threads, u, b) /\ RunsFor(threads, v, b) => u = v)
      /\ \A b \in Act : InQueue(queue, b) => \A u \in Thread : ~OnThread(u, b)
  BY Mappable
<1>4. acts \in [Act -> Seq(Task)]
  BY DEF Inv, TypeOK
<1>5. ASSUME NEW b \in Act
      PROVE  RunOf(threads', b) = RunOf(threads, b)
  <2>1. \A u \in Thread : RunsFor(threads', u, b) <=> RunsFor(threads, u, b)
    BY <1>2, <1>3 DEF RunsFor
  <2>2. \A u \in Thread : RunsFor(threads, u, b) => threads'[u] = threads[u]
    BY <1>2, <1>3 DEF RunsFor
  <2> QED BY <1>3, <2>1, <2>2, SameRun
<1>6. ~InQueue(queue, a)
  BY <1>1, <1>3
<1>7. InFront(queue, a) = <<>>
  BY <1>6 DEF InFront
<1> DEFINE backlog == [b \in Act |-> InFront(queue, b) \o acts[b]]
           active == [b \in Act |-> RunOf(threads, b)]
<1>8. UNCHANGED active
  BY <1>5
<1>9. CASE acts[a] = <<>>
  <2>1. UNCHANGED <<acts, queue>>
    BY <1>9 DEF Complete
  <2>2. UNCHANGED backlog
    BY <2>1
  <2> QED BY <1>2, <1>8, <2>2 DEF Serial!vars
<1>10. CASE acts[a] # <<>>
  <2>1. acts' = [acts EXCEPT ![a] = Tail(@)] /\ Execute(a, Head(acts[a]))
    BY <1>10 DEF Complete
  <2> HIDE DEF a
  <2>2. acts[a] \in Seq(Task)
    BY <1>1, <1>4
  <2>3. Head(acts[a]) \in Task /\ Tail(acts[a]) \in Seq(Task)
    BY <1>10, <2>2, HeadTailProperties
  <2>4. acts'[a] = Tail(acts[a]) /\ \A b \in Act : b # a => acts'[b] = acts[b]
    BY <1>1, <1>4, <2>1
  <2>5. <<>> \o acts[a] = acts[a] /\ <<>> \o Tail(acts[a]) = Tail(acts[a])
    BY <2>2, <2>3, ConcatEmptySeq
  <2>6. CASE isShutdown
    <3>1. UNCHANGED queue
      BY <2>1, <2>6 DEF Execute
    <3>2. backlog' = [b \in Act |-> IF b \in {a} /\ backlog[b] # <<>>
                                       THEN Tail(backlog[b]) ELSE backlog[b]]
      <4>1. backlog[a] = acts[a] /\ backlog'[a] = Tail(acts[a])
        BY <1>1, <1>7, <2>4, <2>5, <3>1
      <4>2. \A b \in Act : b # a => backlog'[b] = backlog[b]
        BY <2>4, <3>1
      <4> QED BY <1>10, <4>1, <4>2
    <3>3. {a} \in SUBSET Act
      BY <1>1
    <3>4. Serial!Stop
      BY <1>2, <1>8, <2>6, <3>2, <3>3 DEF Serial!Stop
    <3> QED BY <3>4
  <2>7. CASE ~isShutdown
    <3>1. /\ InFront(queue', a) = <<Head(acts[a])>>
          /\ \A b \in Act : b # a => InFront(queue', b) = InFront(queue, b)
      <4>1. ~Queued(a)
        BY <1>6 DEF Queued
      <4> QED BY <1>1, <2>1, <2>3, <2>7, <4>1, ExecuteMapped
    <3>2. <<Head(acts[a])>> \o Tail(acts[a]) = acts[a]
      BY <1>10, <2>2, <2>3, FrontOfQueue
    <3>3. UNCHANGED backlog
      <4>1. backlog'[a] = backlog[a]
        BY <1>1, <1>7, <2>4, <2>5, <3>1, <3>2
      <4>2. \A b \in Act : b # a => backlog'[b] = backlog[b]
        BY <2>4, <3>1
      <4> QED BY <4>1, <4>2
    <3> QED BY <1>2, <1>8, <3>3 DEF Serial!vars
  <2> QED BY <2>6, <2>7
<1> QED BY <1>9, <1>10

LEMMA InitMapped == Init => Serial!Init
<1> SUFFICES ASSUME Init PROVE Serial!Init
  OBVIOUS
<1>1. \A a : InFront(queue, a) = <<>>
  <2>1. queue = <<>> /\ Len(queue) = 0
    BY EmptySeq DEF Init
  <2> QED BY <2>1 DEF InFront, InQueue
<1>2. \A a : RunOf(threads, a) = NoTask
  <2>1. \A th \in Thread : threads[th] = [step |-> "idle"]
    BY DEF Init
  <2> QED BY <2>1 DEF RunOf, RunsFor
<1>3. <<>> \o <<>> = <<>>
  <2>1. <<>> \in Seq(Task)
    BY EmptySeq
  <2> QED BY <2>1, ConcatEmptySeq
<1>4. \A a \in Act : InFront(queue, a) \o acts[a] = <<>>
  BY <1>1, <1>3 DEF Init
<1> QED BY <1>2, <1>4 DEF Init, Serial!Init

LEMMA NextMapped == Inv /\ Inv' /\ [Next]_vars => [Serial!Next]_(Serial!vars)
<1> SUFFICES ASSUME Inv, Inv', [Next]_vars PROVE Serial!Next \/ UNCHANGED Serial!vars
  OBVIOUS
<1>1. ASSUME NEW a \in Act, NEW t \in Task, Submit(a, t)
      PROVE  Serial!Next
  BY <1>1, SubmitMapped DEF Serial!Next
<1>2. ASSUME NEW th \in Thread, Take(th)
      PROVE  Serial!Next
  BY <1>2, TakeMapped DEF Serial!Next
<1>3. ASSUME NEW th \in Thread, Ran(th)
      PROVE  Serial!Next
  BY <1>3, RanMapped DEF Serial!Next
<1>4. ASSUME NEW th \in Thread, Complete(th)
      PROVE  Serial!Next \/ UNCHANGED Serial!vars
  BY <1>4, CompleteMapped DEF Serial!Next
<1>5. CASE Shutdown
  BY <1>5, ShutdownMapped DEF Serial!Next
<1>6. CASE UNCHANGED vars
  BY <1>6 DEF vars, Serial!vars, InFront, InQueue, RunOf, RunsFor
<1> QED BY <1>1, <1>2, <1>3, <1>4, <1>5, <1>6 DEF Next

(* The pool runs the tasks of a handler one at a time and in the order in   *)
(* which continueRead submitted them, until it is shut down.                *)
THEOREM PoolImplementsSerialExecutor == Spec => ImplementsSerialExecutor
BY InitMapped, InvAlways, NextMapped, PTL DEF Spec, ImplementsSerialExecutor, Serial!Spec

=============================================================================
