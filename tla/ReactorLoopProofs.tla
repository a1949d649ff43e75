------------------------- MODULE ReactorLoopProofs -------------------------
(***************************************************************************)
(* ReactorLoop strands no frame and loses no wakeup, for every number of   *)
(* connections, threads and frames.                                        *)
(***************************************************************************)
EXTENDS ReactorLoop, SequenceTheorems, TLAPS

-----------------------------------------------------------------------------
(* Types *)

LEMMA InitTypes == Init => TypeOK
<1> SUFFICES ASSUME Init PROVE TypeOK
  OBVIOUS
<1>1. <<>> \in Seq(Frame) /\ <<>> \in Seq(Conn)
  BY EmptySeq
<1>2. Resting \in WorkerType
  BY DEF Resting, WorkerType
<1> QED BY <1>1, <1>2 DEF Init, TypeOK

LEMMA PeerTypes ==
  ASSUME TypeOK, NEW c \in Conn, Peer(c)
  PROVE  TypeOK'
<1> USE DEF peerVars, serverVars, loopVars, taskVars, poolVars
<1>1. CASE Connect(c)
  <2>1. peer' \in [Conn -> {"none", "connecting", "open", "closed"}]
    BY <1>1 DEF TypeOK, Connect
  <2>2. UNCHANGED <<frames, inbox, buffer, chan, interest, writeQueue,
                    clientHandlers, shouldTerminate, loop, current, ready,
                    acceptReady, selectorTasks, wakeup, backlog, worker>>
    BY <1>1 DEF Connect
  <2> QED BY <2>1, <2>2 DEF TypeOK
<1>2. CASE PeerReads(c)
  <2>1. buffer' \in [Conn -> {"empty", "full", "drained"}]
    BY <1>2 DEF TypeOK, PeerReads
  <2>2. UNCHANGED <<peer, frames, inbox, chan, interest, writeQueue,
                    clientHandlers, shouldTerminate, loop, current, ready,
                    acceptReady, selectorTasks, wakeup, backlog, worker>>
    BY <1>2 DEF PeerReads
  <2> QED BY <2>1, <2>2 DEF TypeOK
<1>3. CASE PeerCloses(c)
  <2>1. peer' \in [Conn -> {"none", "connecting", "open", "closed"}]
    BY <1>3 DEF TypeOK, PeerCloses
  <2>2. UNCHANGED <<frames, inbox, buffer, chan, interest, writeQueue,
                    clientHandlers, shouldTerminate, loop, current, ready,
                    acceptReady, selectorTasks, wakeup, backlog, worker>>
    BY <1>3 DEF PeerCloses
  <2> QED BY <2>1, <2>2 DEF TypeOK
<1>4. ASSUME NEW frame \in Frame, PeerSends(c, frame)
      PROVE  TypeOK'
  <2>1. Append(inbox[c], frame) \in Seq(Frame)
    BY AppendProperties DEF TypeOK
  <2>2. inbox' \in [Conn -> Seq(Frame)]
    BY <1>4, <2>1 DEF TypeOK, PeerSends
  <2>3. frames' \in [Conn -> Nat]
    BY <1>4 DEF TypeOK, PeerSends
  <2>4. UNCHANGED <<peer, buffer, chan, interest, writeQueue, clientHandlers,
                    shouldTerminate, loop, current, ready, acceptReady,
                    selectorTasks, wakeup, backlog, worker>>
    BY <1>4 DEF PeerSends
  <2> QED BY <2>3, <2>2, <2>4 DEF TypeOK
<1> QED BY <1>1, <1>2, <1>3, <1>4 DEF Peer

LEMMA ReadyIsOps ==
  ASSUME TypeOK, NEW c \in Conn
  PROVE  ReadyOps(c) \subseteq Op
BY DEF TypeOK, ReadyOps

LEMMA LoopTypes ==
  ASSUME TypeOK, Loop
  PROVE  TypeOK'
<1> USE DEF peerVars, serverVars, loopVars, taskVars, poolVars
<1>1. CASE Select
  <2>1. ready' \in [Conn -> SUBSET Op]
    BY <1>1, ReadyIsOps DEF Select
  <2>2. acceptReady' \in BOOLEAN
    BY <1>1 DEF Select, Pending
  <2>3. loop' \in {"select", "tasks", "keys", "write", "test", "testTerminate",
                   "readOnly", "dead"}
    BY <1>1 DEF TypeOK, Select
  <2>4. wakeup' \in BOOLEAN
    BY <1>1 DEF TypeOK, Select
  <2>5. UNCHANGED <<peer, frames, inbox, buffer, chan, interest, writeQueue,
                    clientHandlers, shouldTerminate, current, selectorTasks,
                    backlog, worker>>
    BY <1>1 DEF Select
  <2> QED BY <2>3, <2>4, <2>1, <2>2, <2>5 DEF TypeOK
<1>2. CASE RunTask
  <2>1. Tail(selectorTasks) \in Seq(Conn) /\ Head(selectorTasks) \in Conn
    BY <1>2, HeadTailProperties DEF TypeOK, RunTask
  <2>2. selectorTasks' \in Seq(Conn)
    BY <1>2, <2>1 DEF RunTask
  <2>3. interest' \in [Conn -> SUBSET Op]
    BY <1>2, <2>1 DEF RunTask, TypeOK
  <2>4. loop' \in {"select", "tasks", "keys", "write", "test", "testTerminate",
                   "readOnly", "dead"}
    BY <1>2 DEF TypeOK, RunTask
  <2>5. UNCHANGED <<peer, frames, inbox, buffer, chan, writeQueue,
                    clientHandlers, shouldTerminate, current, ready, acceptReady,
                    wakeup, backlog, worker>>
    BY <1>2 DEF RunTask
  <2> QED BY <2>4, <2>2, <2>3, <2>5 DEF TypeOK
<1>3. CASE TasksDone
  <2>1. loop' \in {"select", "tasks", "keys", "write", "test", "testTerminate",
                   "readOnly", "dead"}
    BY <1>3 DEF TypeOK, TasksDone
  <2>2. UNCHANGED <<peer, frames, inbox, buffer, chan, interest, writeQueue,
                    clientHandlers, shouldTerminate, current, ready, acceptReady,
                    selectorTasks, wakeup, backlog, worker>>
    BY <1>3 DEF TasksDone
  <2> QED BY <2>1, <2>2 DEF TypeOK
<1>4. CASE KeysDone
  <2>1. loop' \in {"select", "tasks", "keys", "write", "test", "testTerminate",
                   "readOnly", "dead"}
    BY <1>4 DEF TypeOK, KeysDone
  <2>2. UNCHANGED <<peer, frames, inbox, buffer, chan, interest, writeQueue,
                    clientHandlers, shouldTerminate, current, ready, acceptReady,
                    selectorTasks, wakeup, backlog, worker>>
    BY <1>4 DEF KeysDone
  <2> QED BY <2>1, <2>2 DEF TypeOK
<1>5. ASSUME NEW c \in Conn, Accept(c)
      PROVE  TypeOK'
  <2>1. peer' \in [Conn -> {"none", "connecting", "open", "closed"}]
    BY <1>5 DEF TypeOK, Accept
  <2>2. chan' \in [Conn -> {"none", "open", "closed"}]
    BY <1>5 DEF TypeOK, Accept
  <2>3. interest' \in [Conn -> SUBSET Op]
    BY <1>5 DEF TypeOK, Accept, Op
  <2>4. clientHandlers' \in SUBSET Conn
    BY <1>5 DEF TypeOK, Accept
  <2>5. acceptReady' \in BOOLEAN
    BY <1>5 DEF TypeOK, Accept
  <2>6. UNCHANGED <<frames, inbox, buffer, writeQueue, shouldTerminate, loop,
                    current, ready, selectorTasks, wakeup, backlog, worker>>
    BY <1>5 DEF Accept
  <2> QED BY <2>1, <2>2, <2>3, <2>4, <2>5, <2>6 DEF TypeOK
<1>6. ASSUME NEW c \in Conn, ContinueRead(c)
      PROVE  TypeOK'
  <2>1. PICK n \in 1 .. Len(inbox[c]) :
          /\ backlog' = [backlog EXCEPT ![c] = @ \o SubSeq(inbox[c], 1, n)]
          /\ inbox' = [inbox EXCEPT ![c] = SubSeq(@, n + 1, Len(@))]
    BY <1>6 DEF ContinueRead
  <2>2. inbox[c] \in Seq(Frame) /\ Len(inbox[c]) \in Nat
    BY DEF TypeOK
  <2>3. SubSeq(inbox[c], 1, n) \in Seq(Frame)
    BY <2>2, SubSeqProperties
  <2>4. SubSeq(inbox[c], n + 1, Len(inbox[c])) \in Seq(Frame)
    BY <2>2, SubSeqProperties
  <2>5. backlog[c] \o SubSeq(inbox[c], 1, n) \in Seq(Frame)
    BY <2>3, ConcatProperties DEF TypeOK
  <2>6. backlog' \in [Conn -> Seq(Frame)] /\ inbox' \in [Conn -> Seq(Frame)]
    BY <2>1, <2>4, <2>5 DEF TypeOK
  <2>7. /\ loop' \in {loop, "write"} /\ current' \in SUBSET Conn
        /\ ready' \in [Conn -> SUBSET Op] /\ acceptReady' = acceptReady
    <3>1. ThenWrite(c)
      BY <1>6 DEF ContinueRead
    <3> QED BY <3>1 DEF TypeOK, ThenWrite
  <2>8. UNCHANGED <<peer, frames, buffer, chan, interest, writeQueue, clientHandlers,
                    shouldTerminate, selectorTasks, wakeup, worker>>
    BY <1>6 DEF ContinueRead
  <2> QED BY <2>6, <2>7, <2>8 DEF TypeOK
<1>7. ASSUME NEW c \in Conn, ReadEnd(c)
      PROVE  TypeOK'
  <2>1. chan' \in [Conn -> {"none", "open", "closed"}]
    BY <1>7 DEF TypeOK, ReadEnd
  <2>2. ready' \in [Conn -> SUBSET Op]
    BY <1>7 DEF TypeOK, ReadEnd
  <2>3. UNCHANGED <<peer, frames, inbox, buffer, interest, writeQueue,
                    clientHandlers, shouldTerminate, loop, current, acceptReady,
                    selectorTasks, wakeup, backlog, worker>>
    BY <1>7 DEF ReadEnd
  <2> QED BY <2>1, <2>2, <2>3 DEF TypeOK
<1>8. ASSUME NEW c \in Conn, OnlyWrite(c)
      PROVE  TypeOK'
  <2>1. ready' \in [Conn -> SUBSET Op]
    BY <1>8 DEF TypeOK, OnlyWrite, ThenWrite
  <2>2. loop' \in {"select", "tasks", "keys", "write", "test", "testTerminate",
                   "readOnly", "dead"}
    BY <1>8 DEF TypeOK, OnlyWrite, ThenWrite
  <2>3. current' \in SUBSET Conn
    BY <1>8 DEF TypeOK, OnlyWrite, ThenWrite
  <2>4. UNCHANGED <<peer, frames, inbox, buffer, chan, interest, writeQueue,
                    clientHandlers, shouldTerminate, acceptReady, selectorTasks,
                    wakeup, backlog, worker>>
    BY <1>8 DEF OnlyWrite, ThenWrite
  <2> QED BY <2>1, <2>2, <2>3, <2>4 DEF TypeOK
<1>9. ASSUME NEW c \in Conn, ContinueWrite(c)
      PROVE  TypeOK'
  <2>1. CASE WriteWhole(c)
    <3>1. writeQueue' \in [Conn -> Nat]
      BY <2>1 DEF TypeOK, WriteWhole
    <3>2. buffer' \in [Conn -> {"empty", "full", "drained"}]
      BY <2>1 DEF TypeOK, WriteWhole
    <3>3. UNCHANGED <<peer, frames, inbox, chan, interest, clientHandlers,
                      shouldTerminate, loop, current, ready, acceptReady,
                      selectorTasks, wakeup, backlog, worker>>
      BY <2>1 DEF WriteWhole
    <3> QED BY <3>1, <3>2, <3>3 DEF TypeOK
  <2>2. CASE WritePart(c)
    <3>1. buffer' \in [Conn -> {"empty", "full", "drained"}]
      BY <2>2 DEF TypeOK, WritePart
    <3>2. loop' \in {"select", "tasks", "keys", "write", "test", "testTerminate",
                     "readOnly", "dead"}
      BY <2>2 DEF TypeOK, WritePart
    <3>3. UNCHANGED <<peer, frames, inbox, chan, interest, writeQueue,
                      clientHandlers, shouldTerminate, current, ready, acceptReady,
                      selectorTasks, wakeup, backlog, worker>>
      BY <2>2 DEF WritePart
    <3> QED BY <3>1, <3>2, <3>3 DEF TypeOK
  <2>3. CASE WriteFails(c)
    <3>1. chan' \in [Conn -> {"none", "open", "closed"}]
      BY <2>3 DEF TypeOK, WriteFails
    <3>2. UNCHANGED <<peer, frames, inbox, buffer, interest, writeQueue,
                      clientHandlers, shouldTerminate, loop, current, ready,
                      acceptReady, selectorTasks, wakeup, backlog, worker>>
      BY <2>3 DEF WriteFails
    <3> QED BY <3>1, <3>2 DEF TypeOK
  <2>4. CASE WriteDone(c)
    <3>1. loop' \in {"select", "tasks", "keys", "write", "test", "testTerminate",
                     "readOnly", "dead"}
      BY <2>4 DEF TypeOK, WriteDone
    <3>2. UNCHANGED <<peer, frames, inbox, buffer, chan, interest, writeQueue,
                      clientHandlers, shouldTerminate, current, ready, acceptReady,
                      selectorTasks, wakeup, backlog, worker>>
      BY <2>4 DEF WriteDone
    <3> QED BY <3>1, <3>2 DEF TypeOK
  <2>5. CASE TestEmpty(c)
    <3>1. loop' \in {"select", "tasks", "keys", "write", "test", "testTerminate",
                     "readOnly", "dead"}
      BY <2>5 DEF TypeOK, TestEmpty
    <3>2. UNCHANGED <<peer, frames, inbox, buffer, chan, interest, writeQueue,
                      clientHandlers, shouldTerminate, current, ready, acceptReady,
                      selectorTasks, wakeup, backlog, worker>>
      BY <2>5 DEF TestEmpty
    <3> QED BY <3>1, <3>2 DEF TypeOK
  <2>6. CASE TestTerminate(c)
    <3>1. chan' \in [Conn -> {"none", "open", "closed"}]
      BY <2>6 DEF TypeOK, TestTerminate
    <3>2. loop' \in {"select", "tasks", "keys", "write", "test", "testTerminate",
                     "readOnly", "dead"}
      BY <2>6 DEF TypeOK, TestTerminate
    <3>3. UNCHANGED <<peer, frames, inbox, buffer, interest, writeQueue,
                      clientHandlers, shouldTerminate, current, ready, acceptReady,
                      selectorTasks, wakeup, backlog, worker>>
      BY <2>6 DEF TestTerminate
    <3> QED BY <3>1, <3>2, <3>3 DEF TypeOK
  <2>7. CASE ReadOnly(c)
    <3>1. interest' \in [Conn -> SUBSET Op]
      BY <2>7 DEF TypeOK, ReadOnly, Op
    <3>2. loop' \in {"select", "tasks", "keys", "write", "test", "testTerminate",
                     "readOnly", "dead"}
      BY <2>7 DEF TypeOK, ReadOnly
    <3>3. UNCHANGED <<peer, frames, inbox, buffer, chan, writeQueue,
                      clientHandlers, shouldTerminate, current, ready, acceptReady,
                      selectorTasks, wakeup, backlog, worker>>
      BY <2>7 DEF ReadOnly
    <3> QED BY <3>1, <3>2, <3>3 DEF TypeOK
  <2> QED BY <1>9, <2>1, <2>2, <2>3, <2>4, <2>5, <2>6, <2>7 DEF ContinueWrite
<1> QED BY <1>1, <1>2, <1>3, <1>4, <1>5, <1>6, <1>7, <1>8, <1>9 DEF Loop

(* What a step of a worker does to it. *)
LEMMA GoKeeps ==
  ASSUME TypeOK, NEW c \in Conn, NEW todo \in SUBSET Conn, NEW to \in SUBSET Conn,
         NEW label \in {"send", "addTask", "wakeup", "unregister", "terminate"},
         Go(c, label, todo, to)
  PROVE  /\ worker' \in [Conn -> WorkerType]
         /\ worker'[c].at = label /\ worker'[c].to = to
         /\ \A d \in Conn : d # c => worker'[d] = worker[d]
<1> DEFINE next == [at |-> label, frame |-> worker[c].frame, todo |-> todo, to |-> to]
<1>1. worker \in [Conn -> WorkerType] /\ worker[c] \in WorkerType
  BY DEF TypeOK
<1>2. next \in WorkerType /\ next.at = label /\ next.to = to
  BY <1>1 DEF WorkerType
<1>3. worker' = [worker EXCEPT ![c] = next]
  BY DEF Go
<1> HIDE DEF next
<1> QED BY <1>1, <1>2, <1>3

LEMMA RestKeeps ==
  ASSUME TypeOK, NEW c \in Conn, Rest(c)
  PROVE  /\ worker' \in [Conn -> WorkerType]
         /\ worker'[c].at = "idle"
         /\ \A d \in Conn : d # c => worker'[d] = worker[d]
<1>1. Resting \in WorkerType /\ Resting.at = "idle"
  BY DEF Resting, WorkerType
<1> QED BY <1>1 DEF TypeOK, Rest

LEMMA BeginKeeps ==
  ASSUME TypeOK, NEW c \in Conn, Begin(c)
  PROVE  /\ worker' \in [Conn -> WorkerType]
         /\ worker'[c].at = "send"
         /\ \A d \in Conn : d # c => worker'[d] = worker[d]
         /\ backlog' \in [Conn -> Seq(Frame)]
<1>1. backlog[c] \in Seq(Frame) /\ backlog[c] # <<>>
  BY DEF TypeOK, Begin
<1>2. Head(backlog[c]) \in Frame /\ Tail(backlog[c]) \in Seq(Frame)
  BY <1>1, HeadTailProperties
<1>3. PICK todo \in Receivers(c, Head(backlog[c])) :
        worker' = [worker EXCEPT ![c] = [at |-> "send", frame |-> Head(backlog[c]),
                                         todo |-> todo, to |-> {}]]
  BY DEF Begin
<1>4. todo \in SUBSET Conn
  BY <1>2, <1>3 DEF Receivers, Frame, TypeOK
<1> DEFINE next == [at |-> "send", frame |-> Head(backlog[c]), todo |-> todo, to |-> {}]
<1>5. next \in WorkerType /\ next.at = "send"
  BY <1>2, <1>4 DEF WorkerType
<1>6. worker' = [worker EXCEPT ![c] = next] /\ worker \in [Conn -> WorkerType]
  BY <1>3 DEF TypeOK
<1> HIDE DEF next
<1>7. backlog' \in [Conn -> Seq(Frame)]
  BY <1>2 DEF TypeOK, Begin
<1> QED BY <1>5, <1>6, <1>7

LEMMA WorkTypes ==
  ASSUME TypeOK, NEW c \in Conn, Work(c)
  PROVE  TypeOK'
<1> USE DEF peerVars, serverVars, loopVars, taskVars, poolVars
<1>1. worker[c] \in WorkerType /\ worker[c].todo \in SUBSET Conn
  BY DEF TypeOK, WorkerType
<1>2. CASE Begin(c)
  BY <1>2, BeginKeeps DEF TypeOK, Begin
<1>3. CASE WakeUp(c)
  <2>1. worker' \in [Conn -> WorkerType]
    BY <1>1, <1>3, GoKeeps DEF WakeUp
  <2> QED BY <1>3, <2>1 DEF TypeOK, WakeUp
<1>4. CASE Sent(c)
  <2>1. worker' \in [Conn -> WorkerType]
    BY <1>4, GoKeeps, RestKeeps DEF Sent
  <2> QED BY <1>4, <2>1 DEF TypeOK, Sent
<1>5. CASE Unregister(c)
  <2>1. worker' \in [Conn -> WorkerType]
    BY <1>5, GoKeeps, RestKeeps DEF Unregister
  <2> QED BY <1>5, <2>1 DEF TypeOK, Unregister
<1>6. CASE Terminate(c)
  <2>1. worker' \in [Conn -> WorkerType]
    BY <1>6, RestKeeps DEF Terminate
  <2> QED BY <1>6, <2>1 DEF TypeOK, Terminate
<1>7. ASSUME NEW d \in Conn, Send(c, d)
      PROVE  TypeOK'
  <2>1. worker[c].todo \ {d} \in SUBSET Conn /\ {d} \in SUBSET Conn
    BY <1>1
  <2>2. worker' \in [Conn -> WorkerType]
    BY <1>7, <2>1, GoKeeps DEF Send
  <2>3. writeQueue' = [writeQueue EXCEPT ![d] = @ + 1] \/ writeQueue' = writeQueue
    BY <1>7 DEF Send
  <2>4. writeQueue \in [Conn -> Nat] /\ writeQueue[d] + 1 \in Nat
    BY DEF TypeOK
  <2>5. writeQueue' \in [Conn -> Nat]
    BY <2>3, <2>4
  <2> QED BY <1>7, <2>2, <2>5 DEF TypeOK, Send
<1>8. ASSUME NEW d \in Conn, AddTask(c, d)
      PROVE  TypeOK'
  <2>1. worker' \in [Conn -> WorkerType]
    BY <1>1, <1>8, GoKeeps DEF AddTask
  <2>2. selectorTasks' \in Seq(Conn)
    BY <1>8, AppendProperties DEF AddTask, TypeOK
  <2> QED BY <1>8, <2>1, <2>2 DEF TypeOK, AddTask
<1> QED BY <1>2, <1>3, <1>4, <1>5, <1>6, <1>7, <1>8 DEF Work

LEMMA NextTypes == TypeOK /\ [Next]_vars => TypeOK'
<1> SUFFICES ASSUME TypeOK, [Next]_vars PROVE TypeOK'
  OBVIOUS
<1>1. CASE UNCHANGED vars
  BY <1>1 DEF TypeOK, vars, peerVars, serverVars, loopVars, taskVars, poolVars
<1>2. CASE Next
  BY <1>2, LoopTypes, WorkTypes, PeerTypes DEF Next
<1> QED BY <1>1, <1>2

(* The reactor's state is well typed: each task of the selector thread, and *)
(* each handler a worker sends to, is that of a connection.                 *)
THEOREM ReactorTyped == Spec => []TypeOK
<1> QED BY InitTypes, NextTypes, PTL DEF Spec

-----------------------------------------------------------------------------
(* Frames and wakeups *)

(* A connection that was not accepted has no handler and no frames.         *)
Fresh ==
  \A c \in Conn :
    /\ peer[c] \in {"none", "connecting"} => chan[c] = "none"
    /\ chan[c] = "none" => writeQueue[c] = 0 /\ c \notin clientHandlers

(* The selector thread has found the queue of c empty and goes on to drop   *)
(* the interest in writing.                                                 *)
Dropping(c) == loop \in {"testTerminate", "readOnly"} /\ current = {c}

(* A frame that was added since then has its task already.                  *)
DropIsCovered == \A c \in Conn : Dropping(c) /\ writeQueue[c] > 0 => TaskFor(c)

(* Not only in select: a task that runSelectionThreadTasks has left over    *)
(* will make the next select return.                                        *)
Woken ==
  loop \notin {"tasks", "dead"} /\ selectorTasks # <<>> =>
    wakeup \/ \E c \in Conn : Working(c, "wakeup")

(* A key that is selected is that of an accepted connection.                *)
Selected == \A c \in Conn : ready[c] # {} \/ c \in current => chan[c] # "none"

Inv == TypeOK /\ Fresh /\ Selected /\ NoFrameStranded /\ DropIsCovered /\ Woken

LEMMA InitInv == Init => Inv
<1> SUFFICES ASSUME Init PROVE Inv
  OBVIOUS
<1>1. TypeOK
  BY InitTypes
<1>2. Fresh /\ Selected
  BY DEF Init, Fresh, Selected
<1>3. NoFrameStranded /\ DropIsCovered /\ Woken
  BY DEF Init, NoFrameStranded, DropIsCovered, Dropping, Woken
<1> QED BY <1>1, <1>2, <1>3 DEF Inv

(* Steps that leave the tasks and the workers alone *)
LEMMA SameTasks ==
  ASSUME UNCHANGED <<selectorTasks, worker>>, NEW c \in Conn
  PROVE  /\ TaskFor(c)' <=> TaskFor(c)
         /\ Working(c, "wakeup")' <=> Working(c, "wakeup")
BY DEF TaskFor, Working

LEMMA PeerKeeps ==
  ASSUME Inv, NEW c \in Conn, Peer(c)
  PROVE  (Fresh /\ NoFrameStranded /\ DropIsCovered /\ Woken)'
<1>1. UNCHANGED <<chan, interest, writeQueue, clientHandlers, loop, current, selectorTasks,
                  wakeup, worker>>
  BY DEF Peer, Connect, PeerReads, PeerCloses, PeerSends, serverVars, loopVars, taskVars,
         poolVars
<1>2. \A d \in Conn : peer'[d] \in {"none", "connecting"} => peer[d] \in {"none", "connecting"}
  BY DEF Inv, TypeOK, Peer, Connect, PeerReads, PeerCloses, PeerSends, peerVars
<1>3. Fresh'
  BY <1>1, <1>2 DEF Inv, Fresh
<1>4. NoFrameStranded' /\ DropIsCovered' /\ Woken'
  BY <1>1, SameTasks DEF Inv, NoFrameStranded, DropIsCovered, Dropping, Woken
<1> QED BY <1>3, <1>4

-----------------------------------------------------------------------------
(* Steps of the selector thread *)

(* Running a task takes it off the queue and no other one.                  *)
LEMMA TaskIsRun ==
  ASSUME TypeOK, RunTask
  PROVE  /\ selectorTasks[1] \in Conn /\ Head(selectorTasks) = selectorTasks[1]
         /\ \A c \in Conn : TaskFor(c) => TaskFor(c)' \/ c = selectorTasks[1]
<1>1. selectorTasks \in Seq(Conn) /\ selectorTasks # <<>> /\ selectorTasks' = Tail(selectorTasks)
  BY DEF TypeOK, RunTask
<1>2. /\ Head(selectorTasks) = selectorTasks[1] /\ Head(selectorTasks) \in Conn
      /\ Len(selectorTasks') = Len(selectorTasks) - 1
      /\ \A i \in 1 .. Len(selectorTasks') : selectorTasks'[i] = selectorTasks[i + 1]
  BY <1>1, HeadTailProperties
<1>3. Len(selectorTasks) \in Nat /\ UNCHANGED worker
  BY <1>1 DEF RunTask, poolVars
<1>4. ASSUME NEW c \in Conn, TaskFor(c), c # selectorTasks[1]
      PROVE  TaskFor(c)'
  <2>1. CASE \E d \in Conn : Working(d, "addTask") /\ worker[d].to = {c}
    BY <2>1, <1>3 DEF TaskFor, Working
  <2>2. ASSUME NEW i \in 1 .. Len(selectorTasks), selectorTasks[i] = c
        PROVE  TaskFor(c)'
    <3>1. i - 1 \in 1 .. Len(selectorTasks') /\ (i - 1) + 1 = i
      BY <1>2, <1>3, <1>4, <2>2
    <3>2. selectorTasks'[i - 1] = c
      BY <1>2, <2>2, <3>1
    <3> QED BY <3>1, <3>2 DEF TaskFor
  <2> QED BY <1>4, <2>1, <2>2 DEF TaskFor
<1> QED BY <1>2, <1>4

LEMMA RunTaskKeeps ==
  ASSUME Inv, RunTask
  PROVE  (Fresh /\ NoFrameStranded /\ DropIsCovered /\ Woken)'
<1>1. UNCHANGED <<peer, chan, writeQueue, clientHandlers, current>>
  BY DEF RunTask, peerVars, serverVars
<1>2. Fresh'
  BY <1>1 DEF Inv, Fresh
<1>3. loop = "tasks" /\ loop' \in {"tasks", "dead"}
  BY DEF RunTask
<1>4. DropIsCovered' /\ Woken'
  BY <1>3 DEF DropIsCovered, Dropping, Woken
<1>5. ASSUME NEW c \in Conn, writeQueue[c] > 0, chan[c] = "open", loop' # "dead"
      PROVE  "WRITE" \in interest'[c] \/ TaskFor(c)'
  <2>1. interest' = [interest EXCEPT ![selectorTasks[1]] = Op]
    BY <1>3, <1>5, TaskIsRun DEF RunTask, Inv
  <2>2. CASE c = selectorTasks[1]
    BY <2>1, <2>2 DEF Op, Inv, TypeOK
  <2>3. CASE c # selectorTasks[1]
    <3>1. interest'[c] = interest[c]
      BY <2>1, <2>3 DEF Inv, TypeOK
    <3>2. "WRITE" \in interest[c] \/ TaskFor(c)
      BY <1>3, <1>5 DEF Inv, NoFrameStranded
    <3> QED BY <2>3, <3>1, <3>2, TaskIsRun DEF Inv
  <2> QED BY <2>2, <2>3
<1>6. NoFrameStranded'
  BY <1>1, <1>5 DEF NoFrameStranded
<1> QED BY <1>2, <1>4, <1>6

(* Steps that only move the selector thread, to a label where the interest  *)
(* is not about to be dropped                                               *)
LEMMA MoveKeeps ==
  ASSUME Inv,
         UNCHANGED <<peer, chan, interest, writeQueue, clientHandlers, selectorTasks, worker>>,
         loop # "dead",
         loop' \notin {"testTerminate", "readOnly"} \/ UNCHANGED <<loop, current>>,
         \/ loop' = "tasks"
         \/ selectorTasks = <<>>
         \/ loop # "tasks" /\ UNCHANGED wakeup
  PROVE  (Fresh /\ NoFrameStranded /\ DropIsCovered /\ Woken)'
<1>1. Fresh'
  BY DEF Inv, Fresh
<1>2. NoFrameStranded'
  BY SameTasks DEF Inv, NoFrameStranded
<1>3. DropIsCovered'
  BY SameTasks DEF Inv, DropIsCovered, Dropping
<1>4. Woken'
  BY SameTasks DEF Inv, Woken
<1> QED BY <1>1, <1>2, <1>3, <1>4

(* Steps that close a channel *)
LEMMA CloseKeeps ==
  ASSUME Inv, NEW c \in Conn,
         UNCHANGED <<peer, interest, writeQueue, clientHandlers, selectorTasks, wakeup, worker>>,
         chan' = [chan EXCEPT ![c] = "closed"],
         peer[c] \notin {"none", "connecting"},
         loop \notin {"tasks", "dead"},
         loop' \notin {"testTerminate", "readOnly"}
  PROVE  (Fresh /\ NoFrameStranded /\ DropIsCovered /\ Woken)'
<1>1. /\ chan'[c] = "closed"
      /\ \A d \in Conn : d # c => chan'[d] = chan[d]
  BY DEF Inv, TypeOK
<1>2. Fresh'
  BY <1>1 DEF Inv, Fresh
<1>3. NoFrameStranded'
  BY <1>1, SameTasks DEF Inv, NoFrameStranded
<1>4. DropIsCovered' /\ Woken'
  BY SameTasks DEF Inv, DropIsCovered, Dropping, Woken
<1> QED BY <1>2, <1>3, <1>4

LEMMA AcceptKeeps ==
  ASSUME Inv, NEW c \in Conn, Accept(c)
  PROVE  (Fresh /\ NoFrameStranded /\ DropIsCovered /\ Woken)'
<1>1. /\ UNCHANGED <<writeQueue, loop, current, selectorTasks, wakeup, worker>>
      /\ loop = "keys" /\ peer[c] = "connecting"
      /\ clientHandlers' = clientHandlers \cup {c}
  BY DEF Accept, taskVars, poolVars
<1>2. /\ peer'[c] = "open" /\ chan'[c] = "open"
      /\ \A d \in Conn : d # c =>
           peer'[d] = peer[d] /\ chan'[d] = chan[d] /\ interest'[d] = interest[d]
  BY DEF Accept, Inv, TypeOK
<1>3. Fresh'
  BY <1>1, <1>2 DEF Inv, Fresh
<1>4. writeQueue[c] = 0
  BY <1>1 DEF Inv, Fresh
<1>5. NoFrameStranded'
  BY <1>1, <1>2, <1>4, SameTasks DEF Inv, NoFrameStranded
<1>6. DropIsCovered' /\ Woken'
  BY <1>1, SameTasks DEF Inv, DropIsCovered, Dropping, Woken
<1> QED BY <1>3, <1>5, <1>6

LEMMA ReadKeeps ==
  ASSUME Inv, NEW c \in Conn, ContinueRead(c) \/ ReadEnd(c) \/ OnlyWrite(c)
  PROVE  (Fresh /\ NoFrameStranded /\ DropIsCovered /\ Woken)'
<1> USE DEF peerVars, serverVars, loopVars, taskVars, poolVars
<1>1. CASE ContinueRead(c)
  <2>1. /\ UNCHANGED <<peer, chan, interest, writeQueue, clientHandlers, selectorTasks, wakeup,
                       worker>>
        /\ loop = "keys" /\ loop' \in {"keys", "write"}
    BY <1>1 DEF ContinueRead, ThenWrite
  <2> QED BY <2>1, MoveKeeps
<1>2. CASE OnlyWrite(c)
  <2>1. /\ UNCHANGED <<peer, chan, interest, writeQueue, clientHandlers, selectorTasks, wakeup,
                       worker>>
        /\ loop = "keys" /\ loop' \in {"keys", "write"}
    BY <1>2 DEF OnlyWrite, ThenWrite
  <2> QED BY <2>1, MoveKeeps
<1>3. CASE ReadEnd(c)
  <2>1. /\ UNCHANGED <<peer, interest, writeQueue, clientHandlers, selectorTasks, wakeup,
                       worker, loop>>
        /\ loop = "keys" /\ peer[c] = "closed"
        /\ chan' = [chan EXCEPT ![c] = "closed"]
    BY <1>3 DEF ReadEnd
  <2> QED BY <2>1, CloseKeeps
<1> QED BY <1>1, <1>2, <1>3

LEMMA WriteKeeps ==
  ASSUME Inv, NEW c \in Conn, ContinueWrite(c)
  PROVE  (Fresh /\ NoFrameStranded /\ DropIsCovered /\ Woken)'
<1> USE DEF peerVars, serverVars, loopVars, taskVars, poolVars
<1>1. current = {c} /\ chan[c] # "none" /\ peer[c] \notin {"none", "connecting"}
  BY DEF ContinueWrite, WriteWhole, WritePart, WriteFails, WriteDone, TestEmpty,
         TestTerminate, ReadOnly, Writing, Inv, Selected, Fresh
<1>2. /\ UNCHANGED <<peer, clientHandlers, selectorTasks, wakeup, worker>>
      /\ loop \notin {"tasks", "dead"}
  BY DEF ContinueWrite, WriteWhole, WritePart, WriteFails, WriteDone, TestEmpty,
         TestTerminate, ReadOnly, Writing
<1>3. CASE WritePart(c) \/ WriteDone(c)
  <2>1. UNCHANGED <<chan, interest, writeQueue>> /\ loop' \in {"keys", "test"}
    BY <1>3 DEF WritePart, WriteDone
  <2> QED BY <1>2, <2>1, MoveKeeps
<1>4. CASE WriteFails(c)
  <2>1. /\ chan' = [chan EXCEPT ![c] = "closed"] /\ UNCHANGED <<interest, writeQueue>>
        /\ loop' = "write"
    BY <1>4 DEF WriteFails, Writing
  <2> QED BY <1>1, <1>2, <2>1, CloseKeeps
<1>5. CASE WriteWhole(c)
  <2>1. UNCHANGED <<chan, interest, loop, current>> /\ loop = "write"
    BY <1>5 DEF WriteWhole, Writing
  <2>2. \A d \in Conn : /\ writeQueue[d] = 0 => writeQueue'[d] = 0
                        /\ writeQueue'[d] > 0 => writeQueue[d] > 0
    BY <1>5 DEF WriteWhole, Inv, TypeOK
  <2>3. Fresh'
    <3>1. \A d \in Conn : chan[d] = "none" => writeQueue'[d] = 0
      BY <2>2 DEF Inv, Fresh
    <3> QED BY <1>2, <2>1, <3>1 DEF Inv, Fresh
  <2>4. NoFrameStranded' /\ DropIsCovered' /\ Woken'
    BY <1>2, <2>1, <2>2, SameTasks
       DEF Inv, NoFrameStranded, DropIsCovered, Dropping, Woken
  <2> QED BY <2>3, <2>4
<1>6. CASE TestEmpty(c)
  <2>1. /\ UNCHANGED <<chan, interest, writeQueue, current>>
        /\ loop' = IF writeQueue[c] = 0 THEN "testTerminate" ELSE "keys"
    BY <1>6 DEF TestEmpty
  <2>2. Fresh' /\ NoFrameStranded' /\ Woken'
    BY <1>2, <2>1, SameTasks DEF Inv, Fresh, NoFrameStranded, Woken
  <2>3. \A d \in Conn : Dropping(d)' => d = c /\ writeQueue'[d] = 0
    BY <1>1, <2>1 DEF Dropping
  <2>4. DropIsCovered'
    BY <2>3 DEF DropIsCovered
  <2> QED BY <2>2, <2>4
<1>7. CASE TestTerminate(c)
  <2>1. /\ UNCHANGED <<interest, writeQueue, current>>
        /\ loop = "testTerminate"
        /\ \/ chan' = [chan EXCEPT ![c] = "closed"] /\ loop' = "keys"
           \/ loop' = "readOnly" /\ UNCHANGED chan
    BY <1>7 DEF TestTerminate, Writing
  <2>2. CASE chan' = [chan EXCEPT ![c] = "closed"] /\ loop' = "keys"
    BY <1>1, <1>2, <2>1, <2>2, CloseKeeps
  <2>3. CASE loop' = "readOnly" /\ UNCHANGED chan
    BY <1>2, <2>1, <2>3, SameTasks
       DEF Inv, Fresh, NoFrameStranded, DropIsCovered, Dropping, Woken
  <2> QED BY <2>1, <2>2, <2>3
<1>8. CASE ReadOnly(c)
  <2>1. UNCHANGED <<chan, writeQueue, current>> /\ loop = "readOnly" /\ loop' = "keys"
    BY <1>8 DEF ReadOnly, Writing
  <2>2. \A d \in Conn : d # c => interest'[d] = interest[d]
    BY <1>8 DEF ReadOnly, Inv, TypeOK
  <2>3. writeQueue[c] > 0 => TaskFor(c)
    BY <1>1, <2>1 DEF Inv, DropIsCovered, Dropping
  <2>4. NoFrameStranded'
    BY <1>2, <2>1, <2>2, <2>3, SameTasks DEF Inv, NoFrameStranded
  <2>5. Fresh' /\ DropIsCovered' /\ Woken'
    BY <1>2, <2>1, SameTasks DEF Inv, Fresh, DropIsCovered, Dropping, Woken
  <2> QED BY <2>4, <2>5
<1> QED BY <1>3, <1>4, <1>5, <1>6, <1>7, <1>8 DEF ContinueWrite

LEMMA LoopKeeps ==
  ASSUME Inv, Loop
  PROVE  (Fresh /\ NoFrameStranded /\ DropIsCovered /\ Woken)'
<1> USE DEF peerVars, serverVars, loopVars, taskVars, poolVars
<1>1. CASE Select
  <2>1. /\ UNCHANGED <<peer, chan, interest, writeQueue, clientHandlers, selectorTasks, worker>>
        /\ loop = "select" /\ loop' = "tasks"
    BY <1>1 DEF Select
  <2> QED BY <2>1, MoveKeeps
<1>2. CASE TasksDone
  <2>1. /\ UNCHANGED <<peer, chan, interest, writeQueue, clientHandlers, selectorTasks, worker>>
        /\ loop = "tasks" /\ loop' = "keys" /\ selectorTasks = <<>>
    BY <1>2 DEF TasksDone
  <2> QED BY <2>1, MoveKeeps
<1>3. CASE KeysDone
  <2>1. /\ UNCHANGED <<peer, chan, interest, writeQueue, clientHandlers, selectorTasks, wakeup,
                       worker>>
        /\ loop = "keys" /\ loop' = "select"
    BY <1>3 DEF KeysDone
  <2> QED BY <2>1, MoveKeeps
<1> QED BY <1>1, <1>2, <1>3, RunTaskKeeps, AcceptKeeps, ReadKeeps, WriteKeeps DEF Loop

-----------------------------------------------------------------------------
(* Steps of the workers *)

(* A worker that has no task to add and no wakeup to give *)
LEMMA WorkerMoves ==
  ASSUME Inv, NEW c \in Conn,
         worker[c].at \notin {"addTask", "wakeup"},
         \A d \in Conn : d # c => worker'[d] = worker[d],
         UNCHANGED selectorTasks
  PROVE  /\ \A d \in Conn : TaskFor(d) => TaskFor(d)'
         /\ \A d \in Conn : Working(d, "wakeup") => Working(d, "wakeup")'
<1>1. \A d \in Conn : Working(d, "addTask") \/ Working(d, "wakeup") => worker'[d] = worker[d]
  BY DEF Working
<1> QED BY <1>1 DEF TaskFor, Working

(* Steps of a worker that neither send nor wake up *)
LEMMA OtherWorkKeeps ==
  ASSUME Inv, NEW c \in Conn,
         worker[c].at \notin {"addTask", "wakeup"},
         \A d \in Conn : d # c => worker'[d] = worker[d],
         UNCHANGED <<peer, chan, interest, writeQueue, loop, current, selectorTasks, wakeup>>,
         clientHandlers' \subseteq clientHandlers
  PROVE  (Fresh /\ NoFrameStranded /\ DropIsCovered /\ Woken)'
<1>1. Fresh'
  BY DEF Inv, Fresh
<1>2. NoFrameStranded' /\ DropIsCovered' /\ Woken'
  BY WorkerMoves DEF Inv, NoFrameStranded, DropIsCovered, Dropping, Woken
<1> QED BY <1>1, <1>2

LEMMA SendKeeps ==
  ASSUME Inv, NEW c \in Conn, NEW d \in Conn, Send(c, d)
  PROVE  (Fresh /\ NoFrameStranded /\ DropIsCovered /\ Woken)'
<1> USE DEF peerVars, serverVars, loopVars, taskVars
<1>1. /\ UNCHANGED <<peer, chan, interest, clientHandlers, loop, current, selectorTasks, wakeup>>
      /\ worker[c].at = "send"
      /\ worker[c].todo \ {d} \in SUBSET Conn /\ {d} \in SUBSET Conn
  BY DEF Send, Working, Inv, TypeOK, WorkerType
<1>2. CASE d \notin clientHandlers
  <2>1. UNCHANGED writeQueue /\ Go(c, "send", worker[c].todo \ {d}, {})
    BY <1>2 DEF Send
  <2>2. \A e \in Conn : e # c => worker'[e] = worker[e]
    BY <1>1, <2>1, GoKeeps DEF Inv
  <2> QED BY <1>1, <2>1, <2>2, OtherWorkKeeps
<1>3. CASE d \in clientHandlers
  <2>1. /\ writeQueue' = [writeQueue EXCEPT ![d] = @ + 1]
        /\ Go(c, "addTask", worker[c].todo \ {d}, {d})
    BY <1>3 DEF Send
  <2>2. /\ worker'[c].at = "addTask" /\ worker'[c].to = {d}
        /\ \A e \in Conn : e # c => worker'[e] = worker[e]
    BY <1>1, <2>1, GoKeeps DEF Inv
  <2>3. \A e \in Conn : e # d => writeQueue'[e] = writeQueue[e]
    BY <2>1 DEF Inv, TypeOK
  <2>4. /\ \A e \in Conn : TaskFor(e) => TaskFor(e)'
        /\ \A e \in Conn : Working(e, "wakeup") => Working(e, "wakeup")'
    BY <1>1, <2>2, WorkerMoves
  <2>5. TaskFor(d)'
    BY <2>2 DEF TaskFor, Working
  <2>6. Fresh'
    BY <1>1, <1>3, <2>3 DEF Inv, Fresh
  <2>7. NoFrameStranded' /\ DropIsCovered' /\ Woken'
    BY <1>1, <2>3, <2>4, <2>5 DEF Inv, NoFrameStranded, DropIsCovered, Dropping, Woken
  <2> QED BY <2>6, <2>7
<1> QED BY <1>2, <1>3

LEMMA AddTaskKeeps ==
  ASSUME Inv, NEW c \in Conn, NEW d \in Conn, AddTask(c, d)
  PROVE  (Fresh /\ NoFrameStranded /\ DropIsCovered /\ Woken)'
<1> USE DEF peerVars, serverVars, loopVars, taskVars
<1>1. /\ UNCHANGED <<peer, chan, interest, writeQueue, clientHandlers, loop, current>>
      /\ worker[c].to = {d} /\ worker[c].todo \in SUBSET Conn
      /\ selectorTasks \in Seq(Conn) /\ selectorTasks' = Append(selectorTasks, d)
  BY DEF AddTask, Inv, TypeOK, WorkerType
<1>2. /\ worker'[c].at = "wakeup"
      /\ \A e \in Conn : e # c => worker'[e] = worker[e]
  BY <1>1, GoKeeps DEF AddTask, Inv
<1>3. /\ Len(selectorTasks') = Len(selectorTasks) + 1 /\ Len(selectorTasks) \in Nat
      /\ \A i \in 1 .. Len(selectorTasks) : selectorTasks'[i] = selectorTasks[i]
      /\ selectorTasks'[Len(selectorTasks) + 1] = d
  BY <1>1, AppendProperties
<1>4. ASSUME NEW e \in Conn, TaskFor(e)
      PROVE  TaskFor(e)'
  <2>1. ASSUME NEW i \in 1 .. Len(selectorTasks), selectorTasks[i] = e
        PROVE  TaskFor(e)'
    <3>1. i \in 1 .. Len(selectorTasks') /\ selectorTasks'[i] = e
      BY <1>3, <2>1
    <3> QED BY <3>1 DEF TaskFor
  <2>2. ASSUME NEW f \in Conn, Working(f, "addTask"), worker[f].to = {e}
        PROVE  TaskFor(e)'
    <3>1. CASE f = c
      <4>1. e = d
        BY <1>1, <2>2, <3>1
      <4>2. /\ Len(selectorTasks) + 1 \in 1 .. Len(selectorTasks')
            /\ selectorTasks'[Len(selectorTasks) + 1] = e
        BY <1>3, <4>1
      <4> QED BY <4>2 DEF TaskFor
    <3>2. CASE f # c
      BY <1>2, <2>2, <3>2 DEF TaskFor, Working
    <3> QED BY <3>1, <3>2
  <2> QED BY <1>4, <2>1, <2>2 DEF TaskFor
<1>5. Fresh'
  BY <1>1 DEF Inv, Fresh
<1>6. NoFrameStranded' /\ DropIsCovered'
  BY <1>1, <1>4 DEF Inv, NoFrameStranded, DropIsCovered, Dropping
<1>7. Woken'
  BY <1>2 DEF Woken, Working
<1> QED BY <1>5, <1>6, <1>7

LEMMA WakeUpKeeps ==
  ASSUME Inv, NEW c \in Conn, WakeUp(c)
  PROVE  (Fresh /\ NoFrameStranded /\ DropIsCovered /\ Woken)'
<1> USE DEF peerVars, serverVars, loopVars
<1>1. /\ UNCHANGED <<peer, chan, interest, writeQueue, clientHandlers, loop, current,
                     selectorTasks>>
      /\ wakeup' /\ worker[c].at = "wakeup" /\ worker[c].todo \in SUBSET Conn
  BY DEF WakeUp, Working, Inv, TypeOK, WorkerType
<1>2. \A e \in Conn : e # c => worker'[e] = worker[e]
  BY <1>1, GoKeeps DEF WakeUp, Inv
<1>3. \A e \in Conn : TaskFor(e) => TaskFor(e)'
  BY <1>1, <1>2 DEF TaskFor, Working
<1>4. Fresh' /\ NoFrameStranded' /\ DropIsCovered' /\ Woken'
  BY <1>1, <1>3 DEF Inv, Fresh, NoFrameStranded, DropIsCovered, Dropping, Woken
<1> QED BY <1>4

LEMMA WorkKeeps ==
  ASSUME Inv, NEW c \in Conn, Work(c)
  PROVE  (Fresh /\ NoFrameStranded /\ DropIsCovered /\ Woken)'
<1> USE DEF peerVars, serverVars, loopVars, taskVars
<1>1. CASE Begin(c)
  <2>1. /\ UNCHANGED <<peer, chan, interest, writeQueue, loop, current, selectorTasks, wakeup,
                       clientHandlers>>
        /\ worker[c].at = "idle"
    BY <1>1 DEF Begin, Working
  <2>2. \A d \in Conn : d # c => worker'[d] = worker[d]
    BY <1>1, BeginKeeps DEF Inv
  <2> QED BY <2>1, <2>2, OtherWorkKeeps
<1>2. CASE Sent(c)
  <2>1. /\ UNCHANGED <<peer, chan, interest, writeQueue, loop, current, selectorTasks, wakeup,
                       clientHandlers>>
        /\ worker[c].at = "send"
    BY <1>2 DEF Sent, Working
  <2>2. \A d \in Conn : d # c => worker'[d] = worker[d]
    BY <1>2, GoKeeps, RestKeeps DEF Inv, Sent
  <2> QED BY <2>1, <2>2, OtherWorkKeeps
<1>3. CASE Unregister(c)
  <2>1. /\ UNCHANGED <<peer, chan, interest, writeQueue, loop, current, selectorTasks, wakeup>>
        /\ worker[c].at = "unregister" /\ clientHandlers' \subseteq clientHandlers
    BY <1>3 DEF Unregister, Working
  <2>2. \A d \in Conn : d # c => worker'[d] = worker[d]
    BY <1>3, GoKeeps, RestKeeps DEF Inv, Unregister
  <2> QED BY <2>1, <2>2, OtherWorkKeeps
<1>4. CASE Terminate(c)
  <2>1. /\ UNCHANGED <<peer, chan, interest, writeQueue, loop, current, selectorTasks, wakeup,
                       clientHandlers>>
        /\ worker[c].at = "terminate"
    BY <1>4 DEF Terminate, Working
  <2>2. \A d \in Conn : d # c => worker'[d] = worker[d]
    BY <1>4, RestKeeps DEF Inv, Terminate
  <2> QED BY <2>1, <2>2, OtherWorkKeeps
<1> QED BY <1>1, <1>2, <1>3, <1>4, SendKeeps, AddTaskKeeps, WakeUpKeeps DEF Work

-----------------------------------------------------------------------------
(* Only an accepted connection is selected or written to. *)
LEMMA SelectedKeeps ==
  ASSUME Inv, Next
  PROVE  Selected'
<1> USE DEF peerVars, serverVars, loopVars, taskVars, poolVars
<1>1. CASE UNCHANGED <<chan, ready, current>>
  BY <1>1 DEF Inv, Selected
<1>2. CASE Select
  <2>1. UNCHANGED <<chan, current>> /\ \A c \in Conn : ready'[c] # {} => chan[c] = "open"
    BY <1>2 DEF Select, ReadyOps
  <2> QED BY <2>1 DEF Inv, Selected
<1>3. ASSUME NEW c \in Conn, Accept(c)
      PROVE  Selected'
  <2>1. UNCHANGED <<ready, current>> /\ chan' = [chan EXCEPT ![c] = "open"]
    BY <1>3 DEF Accept
  <2> QED BY <2>1 DEF Inv, TypeOK, Selected
<1>4. ASSUME NEW c \in Conn, ContinueRead(c) \/ OnlyWrite(c)
      PROVE  Selected'
  <2>1. UNCHANGED chan /\ ready[c] # {} /\ ThenWrite(c)
    BY <1>4 DEF ContinueRead, OnlyWrite
  <2>2. \A d \in Conn : ready'[d] # {} => ready[d] # {}
    BY <2>1 DEF ThenWrite, Inv, TypeOK
  <2>3. current' = {c} \/ current' = current
    BY <2>1 DEF ThenWrite
  <2> QED BY <2>1, <2>2, <2>3 DEF Inv, Selected
<1>5. ASSUME NEW c \in Conn, ReadEnd(c) \/ WriteFails(c) \/ TestTerminate(c)
      PROVE  Selected'
  <2>1. /\ UNCHANGED current
        /\ chan' = [chan EXCEPT ![c] = "closed"] \/ UNCHANGED chan
        /\ ready' = [ready EXCEPT ![c] = {}] \/ UNCHANGED ready
    BY <1>5 DEF ReadEnd, WriteFails, TestTerminate
  <2> QED BY <2>1 DEF Inv, TypeOK, Selected
<1>6. \/ UNCHANGED <<chan, ready, current>>
      \/ Select
      \/ \E c \in Conn : \/ Accept(c) \/ ContinueRead(c) \/ OnlyWrite(c) \/ ReadEnd(c)
                         \/ WriteFails(c) \/ TestTerminate(c)
  <2>1. CASE Loop
    BY <2>1 DEF Loop, RunTask, TasksDone, KeysDone, ContinueWrite, WriteWhole, WritePart,
                WriteDone, TestEmpty, ReadOnly
  <2>2. ASSUME NEW c \in Conn, Work(c)
        PROVE  UNCHANGED <<chan, ready, current>>
    BY <2>2 DEF Work, Begin, WakeUp, Sent, Unregister, Terminate, Send, AddTask
  <2>3. ASSUME NEW c \in Conn, Peer(c)
        PROVE  UNCHANGED <<chan, ready, current>>
    BY <2>3 DEF Peer, Connect, PeerReads, PeerCloses, PeerSends
  <2> QED BY <2>1, <2>2, <2>3 DEF Next
<1> QED BY <1>1, <1>2, <1>3, <1>4, <1>5, <1>6

LEMMA NextInv == Inv /\ [Next]_vars => Inv'
<1> SUFFICES ASSUME Inv, [Next]_vars PROVE Inv'
  OBVIOUS
<1>1. TypeOK'
  BY NextTypes DEF Inv
<1>2. CASE UNCHANGED vars
  BY <1>1, <1>2, SameTasks DEF Inv, Fresh, Selected, NoFrameStranded, DropIsCovered, Dropping,
       Woken, vars, peerVars, serverVars, loopVars, taskVars, poolVars
<1>3. CASE Next
  <2>1. (Fresh /\ NoFrameStranded /\ DropIsCovered /\ Woken)'
    BY <1>3, LoopKeeps, WorkKeeps, PeerKeeps DEF Next
  <2>2. Selected'
    BY <1>3, SelectedKeeps
  <2> QED BY <1>1, <2>1, <2>2 DEF Inv
<1> QED BY <1>2, <1>3

LEMMA InvAlways == Spec => []Inv
<1> QED BY InitInv, NextInv, PTL DEF Spec

(* However the workers' sends and the selector thread's writes interleave,  *)
(* a frame in the queue of an open channel will be seen by the selector.    *)
THEOREM FramesNeverStranded == Spec => []NoFrameStranded
<1>1. Inv => NoFrameStranded
  BY DEF Inv
<1> QED BY <1>1, InvAlways, PTL

(* The selector thread is never left waiting with a task in its queue. *)
THEOREM TasksAlwaysWake == Spec => []TasksWakeSelector
<1>1. Inv => TasksWakeSelector
  BY DEF Inv, Woken, TasksWakeSelector
<1> QED BY <1>1, InvAlways, PTL

=============================================================================
