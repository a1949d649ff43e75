---------------------------- MODULE ReactorLoop ----------------------------
(***************************************************************************)
(* The reactor: the selector thread of Reactor.serve, the workers that run *)
(* the tasks of its pool, and NonBlockingConnectionHandler, whose write    *)
(* queue and interest set they share.  Peers connect, send, read and close *)
(* as they like.                                                           *)
(*                                                                         *)
(* The pool is what SerialExecutor promises: the frames of a connection    *)
(* are processed one at a time and in order.  Of a frame there is left     *)
(* which handlers its process sends to, and what it does to its own        *)
(* connection.  A read ends between two frames.                            *)
(***************************************************************************)
EXTENDS Naturals, Sequences, FiniteSets

CONSTANTS
  Conn,         (* the connections, each with its peer, handler and key    *)
  NumThreads,   (* of the pool                                             *)
  MaxFrames     (* MaxFrames[c] bounds the frames of the peer of c         *)

ASSUME ReactorAssumption == NumThreads \in Nat \ {0} /\ MaxFrames \in [Conn -> Nat]

VARIABLES
  peer,              (* "none", "connecting", "open", "closed"             *)
  frames,            (* how many frames the peer has sent                  *)
  inbox,             (* frames that the server has not read                *)
  buffer,            (* of the first queued frame: none is written, a part *)
                     (* is and the socket is full, or has room again       *)
  chan,              (* the SocketChannel: "none", "open", "closed"        *)
  interest,          (* the interest set of its key                        *)
  writeQueue,        (* how many frames wait in the handler's queue        *)
  clientHandlers,    (* the connections that are registered                *)
  shouldTerminate,   (* of their protocol objects                          *)
  loop,              (* the selector thread: what comes next               *)
  current,           (* and the connection of the key it handles           *)
  ready,             (* the selected keys, with their ready operations     *)
  acceptReady,       (* whether the server's own key is selected           *)
  selectorTasks,     (* the connections whose interest is to be READ|WRITE *)
  wakeup,            (* whether a wakeup of the selector is pending        *)
  backlog,           (* frames that were read and wait for the pool        *)
  worker             (* connection -> the thread that processes its frame  *)

peerVars   == <<peer, frames>>
loopVars   == <<loop, current, ready, acceptReady>>
taskVars   == <<selectorTasks, wakeup>>
serverVars == <<clientHandlers, shouldTerminate>>
poolVars   == <<backlog, worker>>
vars == <<peerVars, inbox, buffer, chan, interest, writeQueue, serverVars, loopVars,
          taskVars, poolVars>>

(* SEND stands for every frame that only sends; ERROR for one that is       *)
(* refused, whose error path also disconnects.                              *)
Frame == {"SEND", "ERROR", "DISCONNECT"}
Op == {"READ", "WRITE"}

Resting == [at |-> "idle", frame |-> "none", todo |-> {}, to |-> {}]

Init ==
  /\ peer = [c \in Conn |-> "none"]
  /\ frames = [c \in Conn |-> 0]
  /\ inbox = [c \in Conn |-> <<>>]
  /\ buffer = [c \in Conn |-> "empty"]
  /\ chan = [c \in Conn |-> "none"]
  /\ interest = [c \in Conn |-> {}]
  /\ writeQueue = [c \in Conn |-> 0]
  /\ clientHandlers = {}
  /\ shouldTerminate = [c \in Conn |-> FALSE]
  /\ loop = "select"
  /\ current = {}
  /\ ready = [c \in Conn |-> {}]
  /\ acceptReady = FALSE
  /\ selectorTasks = <<>>
  /\ wakeup = FALSE
  /\ backlog = [c \in Conn |-> <<>>]
  /\ worker = [c \in Conn |-> Resting]

-----------------------------------------------------------------------------
(* Peers *)

Connect(c) ==
  /\ peer[c] = "none"
  /\ peer' = [peer EXCEPT ![c] = "connecting"]
  /\ UNCHANGED <<frames, inbox, buffer, chan, interest, writeQueue, serverVars, loopVars,
                 taskVars, poolVars>>

PeerSends(c, frame) ==
  /\ peer[c] = "open"
  /\ frames[c] < MaxFrames[c]
  /\ frames' = [frames EXCEPT ![c] = @ + 1]
  /\ inbox' = [inbox EXCEPT ![c] = Append(@, frame)]
  /\ UNCHANGED <<peer, buffer, chan, interest, writeQueue, serverVars, loopVars, taskVars,
                 poolVars>>

PeerReads(c) ==
  /\ buffer[c] = "full"
  /\ peer[c] = "open"
  /\ buffer' = [buffer EXCEPT ![c] = "drained"]
  /\ UNCHANGED <<peerVars, inbox, chan, interest, writeQueue, serverVars, loopVars, taskVars,
                 poolVars>>

PeerCloses(c) ==
  /\ peer[c] = "open"
  /\ peer' = [peer EXCEPT ![c] = "closed"]
  /\ UNCHANGED <<frames, inbox, buffer, chan, interest, writeQueue, serverVars, loopVars,
                 taskVars, poolVars>>

-----------------------------------------------------------------------------
(* The selector thread *)

Readable(c) == inbox[c] # <<>> \/ peer[c] = "closed"
Writable(c) == buffer[c] # "full" \/ peer[c] = "closed"

ReadyOps(c) ==
  IF chan[c] # "open" THEN {}
  ELSE {op \in interest[c] : IF op = "READ" THEN Readable(c) ELSE Writable(c)}

Pending == \E c \in Conn : peer[c] = "connecting"

(* selector.select() returns if a key is ready, or was woken up. *)
Select ==
  /\ loop = "select"
  /\ wakeup \/ Pending \/ \E c \in Conn : ReadyOps(c) # {}
  /\ loop' = "tasks"
  /\ wakeup' = FALSE
  /\ ready' = [c \in Conn |-> ReadyOps(c)]
  /\ acceptReady' = Pending
  /\ UNCHANGED <<peerVars, inbox, buffer, chan, interest, writeQueue, serverVars, current,
                 selectorTasks, poolVars>>

(* runSelectionThreadTasks.  key.interestOps throws for a key whose channel *)
(* is closed, or is null if the selector has already removed it; no catch   *)
(* clause of serve takes the exception.                                     *)
RunTask ==
  LET c == Head(selectorTasks) IN
  /\ loop = "tasks"
  /\ selectorTasks # <<>>
  /\ selectorTasks' = Tail(selectorTasks)
  /\ \/ /\ chan[c] = "open"
        /\ interest' = [interest EXCEPT ![c] = Op]
        /\ UNCHANGED loop
     \/ /\ chan[c] # "open"
        /\ loop' = "dead"
        /\ UNCHANGED interest
  /\ UNCHANGED <<peerVars, inbox, buffer, chan, writeQueue, serverVars, current, ready,
                 acceptReady, wakeup, poolVars>>

TasksDone ==
  /\ loop = "tasks"
  /\ selectorTasks = <<>>
  /\ loop' = "keys"
  /\ UNCHANGED <<peerVars, inbox, buffer, chan, interest, writeQueue, serverVars, current,
                 ready, acceptReady, taskVars, poolVars>>

(* handleAccept: the key is registered, then the handler. *)
Accept(c) ==
  /\ loop = "keys"
  /\ acceptReady
  /\ peer[c] = "connecting"
  /\ peer' = [peer EXCEPT ![c] = "open"]
  /\ chan' = [chan EXCEPT ![c] = "open"]
  /\ interest' = [interest EXCEPT ![c] = {"READ"}]
  /\ clientHandlers' = clientHandlers \cup {c}
  /\ acceptReady' = FALSE
  /\ UNCHANGED <<frames, inbox, buffer, writeQueue, shouldTerminate, loop, current, ready,
                 taskVars, poolVars>>

(* handleReadWrite, once the channel has been read: continueWrite is next   *)
(* if the key was selected for it.  Nothing closes the channel of a         *)
(* selected key before its turn.                                            *)
ThenWrite(c) ==
  /\ ready' = [ready EXCEPT ![c] = {}]
  /\ IF "WRITE" \in ready[c] THEN loop' = "write" /\ current' = {c}
                             ELSE UNCHANGED <<loop, current>>
  /\ UNCHANGED acceptReady

(* continueRead, and the submit of its task *)
ContinueRead(c) ==
  /\ loop = "keys"
  /\ "READ" \in ready[c]
  /\ \E n \in 1 .. Len(inbox[c]) :
       /\ backlog' = [backlog EXCEPT ![c] = @ \o SubSeq(inbox[c], 1, n)]
       /\ inbox' = [inbox EXCEPT ![c] = SubSeq(@, n + 1, Len(@))]
  /\ ThenWrite(c)
  /\ UNCHANGED <<peerVars, buffer, chan, interest, writeQueue, serverVars, taskVars, worker>>

(* continueRead meets the end of the stream, or an IOException. *)
ReadEnd(c) ==
  /\ loop = "keys"
  /\ "READ" \in ready[c]
  /\ peer[c] = "closed"
  /\ chan' = [chan EXCEPT ![c] = "closed"]
  /\ ready' = [ready EXCEPT ![c] = {}]
  /\ UNCHANGED <<peerVars, inbox, buffer, interest, writeQueue, serverVars, loop, current,
                 acceptReady, taskVars, poolVars>>

OnlyWrite(c) ==
  /\ loop = "keys"
  /\ ready[c] = {"WRITE"}
  /\ ThenWrite(c)
  /\ UNCHANGED <<peerVars, inbox, buffer, chan, interest, writeQueue, serverVars, taskVars,
                 poolVars>>

KeysDone ==
  /\ loop = "keys"
  /\ ~acceptReady /\ \A c \in Conn : ready[c] = {}
  /\ loop' = "select"
  /\ UNCHANGED <<peerVars, inbox, buffer, chan, interest, writeQueue, serverVars, current,
                 ready, acceptReady, taskVars, poolVars>>

-----------------------------------------------------------------------------
(* continueWrite, called for c *)

Writing(c, label) == loop = label /\ current = {c}

(* chan.write takes the rest of the first frame. *)
WriteWhole(c) ==
  /\ Writing(c, "write")
  /\ writeQueue[c] > 0 /\ chan[c] = "open"
  /\ writeQueue' = [writeQueue EXCEPT ![c] = @ - 1]
  /\ buffer' = [buffer EXCEPT ![c] = "empty"]
  /\ UNCHANGED <<peerVars, inbox, chan, interest, serverVars, loopVars, taskVars, poolVars>>

(* It takes a part only; two writes are enough for a frame. *)
WritePart(c) ==
  /\ Writing(c, "write")
  /\ writeQueue[c] > 0 /\ chan[c] = "open"
  /\ buffer[c] = "empty"
  /\ buffer' = [buffer EXCEPT ![c] = "full"]
  /\ loop' = "keys"
  /\ UNCHANGED <<peerVars, inbox, chan, interest, writeQueue, serverVars, current, ready,
                 acceptReady, taskVars, poolVars>>

(* An IOException closes the channel and the loop goes on: the queue is not *)
(* empty, and each further write to the closed channel throws again.        *)
WriteFails(c) ==
  /\ Writing(c, "write")
  /\ writeQueue[c] > 0 /\ chan[c] = "open"
  /\ peer[c] = "closed"
  /\ chan' = [chan EXCEPT ![c] = "closed"]
  /\ UNCHANGED <<peerVars, inbox, buffer, interest, writeQueue, serverVars, loopVars, taskVars,
                 poolVars>>

(* The loop ends; the test of the empty queue (line 104) comes next. *)
WriteDone(c) ==
  /\ Writing(c, "write")
  /\ writeQueue[c] = 0
  /\ loop' = "test"
  /\ UNCHANGED <<peerVars, inbox, buffer, chan, interest, writeQueue, serverVars, current,
                 ready, acceptReady, taskVars, poolVars>>

TestEmpty(c) ==
  /\ Writing(c, "test")
  /\ loop' = IF writeQueue[c] = 0 THEN "testTerminate" ELSE "keys"
  /\ UNCHANGED <<peerVars, inbox, buffer, chan, interest, writeQueue, serverVars, current,
                 ready, acceptReady, taskVars, poolVars>>

(* The field is not volatile and a worker writes it in no monitor: the      *)
(* selector thread may read the value it had.                               *)
TestTerminate(c) ==
  /\ Writing(c, "testTerminate")
  /\ \/ /\ shouldTerminate[c]
        /\ chan' = [chan EXCEPT ![c] = "closed"]
        /\ loop' = "keys"
     \/ /\ loop' = "readOnly"
        /\ UNCHANGED chan
  /\ UNCHANGED <<peerVars, inbox, buffer, interest, writeQueue, serverVars, current, ready,
                 acceptReady, taskVars, poolVars>>

(* A mutation of ReadOnly: no operation is left in the interest set. *)
MutReadOnlyNone(c) ==
  /\ Writing(c, "readOnly")
  /\ interest' = [interest EXCEPT ![c] = {}]
  /\ loop' = "keys"
  /\ UNCHANGED <<peerVars, inbox, buffer, chan, writeQueue, serverVars, current, ready,
                 acceptReady, taskVars, poolVars>>

(* updateInterestedOps(chan, OP_READ), by the selector thread itself *)
ReadOnly(c) ==
  /\ Writing(c, "readOnly")
  /\ interest' = [interest EXCEPT ![c] = {"READ"}]
  /\ loop' = "keys"
  /\ UNCHANGED <<peerVars, inbox, buffer, chan, writeQueue, serverVars, current, ready,
                 acceptReady, taskVars, poolVars>>

ContinueWrite(c) ==
  \/ WriteWhole(c) \/ WritePart(c) \/ WriteFails(c) \/ WriteDone(c)
  \/ TestEmpty(c) \/ TestTerminate(c) \/ ReadOnly(c)

-----------------------------------------------------------------------------
(* The workers *)

Working(c, label) == worker[c].at = label
Busy(c) == ~Working(c, "idle")

Go(c, label, todo, to) ==
  worker' = [worker EXCEPT ![c] = [at |-> label, frame |-> worker[c].frame,
                                   todo |-> todo, to |-> to]]
Rest(c) == worker' = [worker EXCEPT ![c] = Resting]

(* A mutation of Receivers: an absent receiver is sent to, too. *)
MutReceiversNone(c, frame) ==
  CASE frame = "SEND"       -> SUBSET clientHandlers
    [] frame = "ERROR"      -> {{c}}
    [] frame = "DISCONNECT" -> {{"none"}, {c}}

(* The receivers of a broadcast are handlers that are registered: which     *)
(* ones is up to the subscriptions.                                         *)
Receivers(c, frame) ==
  CASE frame = "SEND"       -> SUBSET clientHandlers
    [] frame = "ERROR"      -> {{c}}
    [] frame = "DISCONNECT" -> {{}, {c}}

Begin(c) ==
  /\ Working(c, "idle")
  /\ backlog[c] # <<>>
  /\ Cardinality({d \in Conn : Busy(d)}) < NumThreads
  /\ backlog' = [backlog EXCEPT ![c] = Tail(@)]
  /\ \E todo \in Receivers(c, Head(backlog[c])) :
       worker' = [worker EXCEPT ![c] = [at |-> "send", frame |-> Head(backlog[c]),
                                        todo |-> todo, to |-> {}]]
  /\ UNCHANGED <<peerVars, inbox, buffer, chan, interest, writeQueue, serverVars, loopVars,
                 taskVars>>

(* Connections.send looks the handler up, and handler.send adds the frame.  *)
Send(c, d) ==
  /\ Working(c, "send")
  /\ d \in worker[c].todo
  /\ \/ /\ d \in clientHandlers
        /\ writeQueue' = [writeQueue EXCEPT ![d] = @ + 1]
        /\ Go(c, "addTask", worker[c].todo \ {d}, {d})
     \/ /\ d \notin clientHandlers
        /\ Go(c, "send", worker[c].todo \ {d}, {})
        /\ UNCHANGED writeQueue
  /\ UNCHANGED <<peerVars, inbox, buffer, chan, interest, serverVars, loopVars, taskVars,
                 backlog>>

(* A mutation of AddTask: no task if the key is already interested. *)
MutAddTaskUnlessInterested(c, d) ==
  /\ Working(c, "addTask")
  /\ worker[c].to = {d}
  /\ selectorTasks' = IF "WRITE" \in interest[d] THEN selectorTasks
                                                 ELSE Append(selectorTasks, d)
  /\ Go(c, "wakeup", worker[c].todo, {})
  /\ UNCHANGED <<peerVars, inbox, buffer, chan, interest, writeQueue, serverVars, loopVars,
                 wakeup, backlog>>

(* A mutation of AddTask: the selector is not woken up. *)
MutAddTaskSilently(c, d) ==
  /\ Working(c, "addTask")
  /\ worker[c].to = {d}
  /\ selectorTasks' = Append(selectorTasks, d)
  /\ Go(c, "send", worker[c].todo, {})
  /\ UNCHANGED <<peerVars, inbox, buffer, chan, interest, writeQueue, serverVars, loopVars,
                 wakeup, backlog>>

(* updateInterestedOps(chan, OP_READ | OP_WRITE), by a worker *)
AddTask(c, d) ==
  /\ Working(c, "addTask")
  /\ worker[c].to = {d}
  /\ selectorTasks' = Append(selectorTasks, d)
  /\ Go(c, "wakeup", worker[c].todo, {})
  /\ UNCHANGED <<peerVars, inbox, buffer, chan, interest, writeQueue, serverVars, loopVars,
                 wakeup, backlog>>

WakeUp(c) ==
  /\ Working(c, "wakeup")
  /\ wakeup' = TRUE
  /\ Go(c, "send", worker[c].todo, {})
  /\ UNCHANGED <<peerVars, inbox, buffer, chan, interest, writeQueue, serverVars, loopVars,
                 selectorTasks, backlog>>

Sent(c) ==
  /\ Working(c, "send")
  /\ worker[c].todo = {}
  /\ IF worker[c].frame = "SEND" THEN Rest(c) ELSE Go(c, "unregister", {}, {})
  /\ UNCHANGED <<peerVars, inbox, buffer, chan, interest, writeQueue, serverVars, loopVars,
                 taskVars, backlog>>

(* Connections.disconnect *)
Unregister(c) ==
  /\ Working(c, "unregister")
  /\ clientHandlers' = clientHandlers \ {c}
  /\ IF worker[c].frame = "ERROR" THEN Rest(c) ELSE Go(c, "terminate", {}, {})
  /\ UNCHANGED <<peerVars, inbox, buffer, chan, interest, writeQueue, shouldTerminate,
                 loopVars, taskVars, backlog>>

(* process returns from a DISCONNECT. *)
Terminate(c) ==
  /\ Working(c, "terminate")
  /\ shouldTerminate' = [shouldTerminate EXCEPT ![c] = TRUE]
  /\ Rest(c)
  /\ UNCHANGED <<peerVars, inbox, buffer, chan, interest, writeQueue, clientHandlers,
                 loopVars, taskVars, backlog>>

Work(c) ==
  \/ Begin(c) \/ WakeUp(c) \/ Sent(c) \/ Unregister(c) \/ Terminate(c)
  \/ \E d \in Conn : Send(c, d) \/ AddTask(c, d)

-----------------------------------------------------------------------------
Loop ==
  \/ Select \/ RunTask \/ TasksDone \/ KeysDone
  \/ \E c \in Conn :
       Accept(c) \/ ContinueRead(c) \/ ReadEnd(c) \/ OnlyWrite(c) \/ ContinueWrite(c)

Peer(c) ==
  \/ Connect(c) \/ PeerReads(c) \/ PeerCloses(c)
  \/ \E frame \in Frame : PeerSends(c, frame)

(* What the workers do once the selector thread is dead is left out:        *)
(* nothing reads or writes a socket any more.                               *)
Next ==
  /\ loop # "dead"
  /\ Loop \/ \E c \in Conn : Work(c) \/ Peer(c)

Spec == Init /\ [][Next]_vars

(* The threads run.  A peer that stays open reads, as the client's listener *)
(* thread does.                                                             *)
FairSpec ==
  /\ Spec
  /\ WF_vars(Loop)
  /\ \A c \in Conn : WF_vars(Work(c)) /\ WF_vars(PeerReads(c))

-----------------------------------------------------------------------------
(* Properties *)

WorkerType ==
  [at: {"idle", "send", "addTask", "wakeup", "unregister", "terminate"},
   frame: Frame \cup {"none"}, todo: SUBSET Conn, to: SUBSET Conn]

TypeOK ==
  /\ peer \in [Conn -> {"none", "connecting", "open", "closed"}]
  /\ frames \in [Conn -> Nat]
  /\ inbox \in [Conn -> Seq(Frame)]
  /\ buffer \in [Conn -> {"empty", "full", "drained"}]
  /\ chan \in [Conn -> {"none", "open", "closed"}]
  /\ interest \in [Conn -> SUBSET Op]
  /\ writeQueue \in [Conn -> Nat]
  /\ clientHandlers \subseteq Conn
  /\ shouldTerminate \in [Conn -> BOOLEAN]
  /\ loop \in {"select", "tasks", "keys", "write", "test", "testTerminate", "readOnly", "dead"}
  /\ current \in SUBSET Conn
  /\ ready \in [Conn -> SUBSET Op]
  /\ acceptReady \in BOOLEAN
  /\ selectorTasks \in Seq(Conn)
  /\ wakeup \in BOOLEAN
  /\ backlog \in [Conn -> Seq(Frame)]
  /\ worker \in [Conn -> WorkerType]

(* A task that will set the interest of c to READ|WRITE is queued, or about *)
(* to be.                                                                   *)
TaskFor(c) ==
  \/ \E i \in 1 .. Len(selectorTasks) : selectorTasks[i] = c
  \/ \E d \in Conn : Working(d, "addTask") /\ worker[d].to = {c}

(* A queued frame is never stranded: its key is interested in writing, or a *)
(* task will see to it.  The workers add frames while the selector thread,  *)
(* which has found the queue empty, goes on to drop the interest.           *)
NoFrameStranded ==
  \A c \in Conn :
    writeQueue[c] > 0 /\ chan[c] = "open" /\ loop # "dead" =>
      "WRITE" \in interest[c] \/ TaskFor(c)

(* The selector thread never waits in select while a task waits for it,     *)
(* unless the worker that added the task is about to wake it up.            *)
TasksWakeSelector ==
  loop = "select" /\ selectorTasks # <<>> =>
    wakeup \/ \E c \in Conn : Working(c, "wakeup")

(* What stops the selector thread: an exception, or the loop of             *)
(* continueWrite on a closed channel.                                       *)
Spinning ==
  loop = "write" /\ \E c \in current : writeQueue[c] > 0 /\ chan[c] = "closed"

Running == loop # "dead" /\ ~Spinning

(* As long as the selector thread runs, frames in a write queue get written *)
(* unless their channel is closed first, however the peer's reads delay     *)
(* them.                                                                    *)
FramesWritten ==
  \A c \in Conn : writeQueue[c] > 0 ~> writeQueue[c] = 0 \/ chan[c] = "closed" \/ ~Running

(* As long as the selector thread runs, the channel of a peer that is gone  *)
(* is closed.                                                               *)
GoneAreClosed ==
  \A c \in Conn : peer[c] = "closed" ~> chan[c] = "closed" \/ ~Running

-----------------------------------------------------------------------------
(* What a comment of the sources says and the code does not do *)

(* Server.java:11 says serve is the main loop of the server, which handles  *)
(* new clients: what the clients do does not end it.                        *)
ServesOn == loop # "dead"

=============================================================================
