-------------------------- MODULE ActorThreadPool --------------------------
(***************************************************************************)
(* The reactor's thread pool, ActorThreadPool.java.  The tasks of an actor *)
(* (a NonBlockingConnectionHandler) wait in a queue of their own; only one *)
(* of them at a time is handed to the executor, and when it has run the    *)
(* thread that ran it hands over the next one.                             *)
(*                                                                         *)
(* submit and complete are synchronized on the actor and share no state    *)
(* between actors other than the executor's queue, so each is one step.    *)
(***************************************************************************)
EXTENDS Naturals, Sequences

CONSTANTS
  Act,      (* the handlers                                                *)
  Task,     (* the Runnables of continueRead; each is submitted once       *)
  Thread,   (* the threads of the executor                                 *)
  NoTask

ASSUME PoolAssumption == NoTask \notin Task

VARIABLES
  playingNow,   (* the actors with a task in the executor                  *)
  acts,         (* actor -> its pending tasks; an absent queue is empty    *)
  queue,        (* the executor's queue of tasks, with their actors        *)
  threads,      (* thread -> what it does                                  *)
  isShutdown,   (* whether shutdownNow was called                          *)
  submitted     (* the tasks submitted so far                              *)

vars == <<playingNow, acts, queue, threads, isShutdown, submitted>>

Job  == [act: Act, task: Task]
Idle == [step: {"idle"}]
Busy == [step: {"run", "complete"}, act: Act, task: Task]

TypeOK ==
  /\ playingNow \subseteq Act
  /\ acts \in [Act -> Seq(Task)]
  /\ queue \in Seq(Job)
  /\ threads \in [Thread -> Idle \cup Busy]
  /\ isShutdown \in BOOLEAN
  /\ submitted \subseteq Task

Init ==
  /\ playingNow = {}
  /\ acts = [a \in Act |-> <<>>]
  /\ queue = <<>>
  /\ threads = [th \in Thread |-> [step |-> "idle"]]
  /\ isShutdown = FALSE
  /\ submitted = {}

-----------------------------------------------------------------------------
(* execute(r, act).  An executor that is shut down rejects the task. *)
Execute(a, t) ==
  queue' = IF isShutdown THEN queue ELSE Append(queue, [act |-> a, task |-> t])

(* A mutation of submit: the actor is not looked up in playingNow. *)
MutSubmitUnchecked(a, t) ==
  /\ ~isShutdown
  /\ t \notin submitted
  /\ submitted' = submitted \cup {t}
  /\ playingNow' = playingNow \cup {a}
  /\ Execute(a, t)
  /\ UNCHANGED <<acts, threads, isShutdown>>

(* submit(act, r), by the selector thread, which is also the one that shuts *)
(* the pool down.                                                           *)
Submit(a, t) ==
  /\ ~isShutdown
  /\ t \notin submitted
  /\ submitted' = submitted \cup {t}
  /\ \/ /\ a \notin playingNow
        /\ playingNow' = playingNow \cup {a}
        /\ Execute(a, t)
        /\ UNCHANGED acts
     \/ /\ a \in playingNow
        /\ acts' = [acts EXCEPT ![a] = Append(@, t)]
        /\ UNCHANGED <<playingNow, queue>>
  /\ UNCHANGED <<threads, isShutdown>>

(* An idle thread of the executor takes the oldest task and runs it. *)
Take(th) ==
  /\ threads[th].step = "idle"
  /\ queue # <<>>
  /\ threads' = [threads EXCEPT ![th] = [step |-> "run", act |-> Head(queue).act,
                                         task |-> Head(queue).task]]
  /\ queue' = Tail(queue)
  /\ UNCHANGED <<playingNow, acts, isShutdown, submitted>>

(* r.run() returns or throws; either way the finally block follows. *)
Ran(th) ==
  /\ threads[th].step = "run"
  /\ threads' = [threads EXCEPT ![th].step = "complete"]
  /\ UNCHANGED <<playingNow, acts, queue, isShutdown, submitted>>

(* A mutation of complete: the pending tasks are not looked at. *)
MutCompleteForgetful(th) ==
  /\ threads[th].step = "complete"
  /\ threads' = [threads EXCEPT ![th] = [step |-> "idle"]]
  /\ playingNow' = playingNow \ {threads[th].act}
  /\ UNCHANGED <<acts, queue, isShutdown, submitted>>

(* A mutation of complete: the next task is polled from an empty queue too. *)
MutCompletePolls(th) ==
  LET a == threads[th].act IN
  /\ threads[th].step = "complete"
  /\ threads' = [threads EXCEPT ![th] = [step |-> "idle"]]
  /\ acts' = [acts EXCEPT ![a] = IF @ = <<>> THEN @ ELSE Tail(@)]
  /\ Execute(a, IF acts[a] = <<>> THEN NoTask ELSE Head(acts[a]))
  /\ UNCHANGED <<playingNow, isShutdown, submitted>>

(* complete(act): a pending task is polled, and lost if execute rejects it. *)
Complete(th) ==
  LET a == threads[th].act IN
  /\ threads[th].step = "complete"
  /\ threads' = [threads EXCEPT ![th] = [step |-> "idle"]]
  /\ \/ /\ acts[a] = <<>>
        /\ playingNow' = playingNow \ {a}
        /\ UNCHANGED <<acts, queue>>
     \/ /\ acts[a] # <<>>
        /\ acts' = [acts EXCEPT ![a] = Tail(@)]
        /\ Execute(a, Head(acts[a]))
        /\ UNCHANGED playingNow
  /\ UNCHANGED <<isShutdown, submitted>>

(* shutdown(): the tasks in the executor's queue are lost. *)
Shutdown ==
  /\ isShutdown' = TRUE
  /\ queue' = <<>>
  /\ UNCHANGED <<playingNow, acts, threads, submitted>>

Next ==
  \/ \E a \in Act, t \in Task : Submit(a, t)
  \/ \E th \in Thread : Take(th) \/ Ran(th) \/ Complete(th)
  \/ Shutdown

Spec == Init /\ [][Next]_vars

(* A thread with something to do does it.  That a task ends is up to its    *)
(* frames: their handlers wait for monitors only, never for the network.    *)
Fairness == \A th \in Thread : WF_vars(Take(th) \/ Ran(th) \/ Complete(th))

FairSpec == Spec /\ Fairness

-----------------------------------------------------------------------------
(* Properties *)

(* The actors that have a task in the executor: queued, or on a thread      *)
(* that has not completed it.                                               *)
InQueue(q, a) == \E i \in 1 .. Len(q) : q[i].act = a
Queued(a) == InQueue(queue, a)
OnThread(th, a) == threads[th].step # "idle" /\ threads[th].act = a

(* Two threads never run tasks of one actor, so the decoder and protocol    *)
(* objects of a handler need no locks.                                      *)
NotConcurrent ==
  \A a \in Act, th1, th2 \in Thread :
    OnThread(th1, a) /\ OnThread(th2, a) => th1 = th2

(* A task that is pending is never stranded: until the pool is shut down    *)
(* its actor has a task in the executor, whose completion picks it up.      *)
NoneStranded ==
  \A a \in Act : acts[a] # <<>> /\ ~isShutdown =>
    Queued(a) \/ \E th \in Thread : OnThread(th, a)

(* Every task that waits gets to run, unless the pool is shut down. *)
Waits(t) ==
  \/ \E i \in 1 .. Len(queue) : queue[i].task = t
  \/ \E a \in Act : \E i \in 1 .. Len(acts[a]) : acts[a][i] = t

Started(t) ==
  \E th \in Thread : threads[th].step # "idle" /\ threads[th].task = t

EveryTaskStarts == \A t \in Task : Waits(t) ~> Started(t) \/ isShutdown

(* The pool is a serial executor: what an actor has not started is the task *)
(* it has in the executor's queue, followed by its pending tasks.           *)
InFront(q, a) ==
  IF InQueue(q, a) THEN <<q[CHOOSE i \in 1 .. Len(q) : q[i].act = a].task>> ELSE <<>>

RunsFor(ths, th, a) == ths[th].step = "run" /\ ths[th].act = a

RunOf(ths, a) ==
  IF \E th \in Thread : RunsFor(ths, th, a)
    THEN ths[CHOOSE th \in Thread : RunsFor(ths, th, a)].task
    ELSE NoTask

Serial == INSTANCE SerialExecutor WITH
  backlog <- [a \in Act |-> InFront(queue, a) \o acts[a]],
  active <- [a \in Act |-> RunOf(threads, a)],
  stopped <- isShutdown

ImplementsSerialExecutor == Serial!Spec

=============================================================================
