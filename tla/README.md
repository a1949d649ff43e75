# TLA+ specifications of the STOMP messaging system

The repository holds a STOMP message broker in Java and a console client in
C++ with which users report events to each other. This directory specifies the
broker, its two servers and the client in TLA+, checks small instances with
TLC, and proves the main results for every instance with TLAPS.

Paths below are relative to the repository's folder; `stomp/`, `srv/` and
`api/` stand for the folders of that name under
`server/src/main/java/bgu/spl/net/` (`stomp/` for `impl/stomp/`).

## The system

| Component | State | Operations | Hard part |
| --- | --- | --- | --- |
| Registry, `stomp/ConnectionsImpl.java` | handlers by connection id; subscribers of a channel, kept twice (`topicSubscribers`, `channelSubscriptions`); message id counter | `addConnection`, `send` to one, `send` to a channel, `subscribe`, `unsubscribe`, `existsSubscription`, `disconnect` | the two records are changed by different rules and under different locks |
| Accounts, `stomp/ServerStorage.java`, `User.java` | users by login: password, `connected`, `connectionId` | `addUser`, `connectUser`, `disconnectUser` | the check of a login and its connection are separate steps |
| Frames, `stomp/*Frame.java`, `StompMessagesProtocol.java` | `shouldTerminate` of a connection | `process` of CONNECT, SUBSCRIBE, UNSUBSCRIBE, SEND, DISCONNECT | error paths, and the receipt that `process` adds after them |
| Decoder, `stomp/StompEncodeDecoder.java` | the characters of an unfinished frame | `decodeNextByte`, `parse`, `encode` | malformed frames, frames split over reads |
| Thread-per-client server, `srv/BaseServer.java`, `BlockingConnectionHandler.java` | a thread and a socket per client | accept, read loop, `send` from any thread, close | broadcasts write to other clients' sockets |
| Reactor, `srv/Reactor.java`, `NonBlockingConnectionHandler.java` | selector, keys and their interest sets, selector tasks, write queues | accept, `continueRead`, `continueWrite`, `updateInterestedOps`, close | one selector thread, workers, and a task queue between them |
| Actor thread pool, `srv/ActorThreadPool.java` | per handler a queue of tasks, the set of active handlers, an executor | `submit`, `execute`, `complete`, `shutdown` | one task of a handler at a time, none lost |
| Client, `client/src/StompClient.cpp` | connection, `isConnected`, subscriptions, active receipts, received events | console commands; received frames | two threads share the connection without a lock |
| Client connection, `client/src/ConnectionHandler.cpp` | a socket | connect, read to a delimiter, write, close | deleted by either thread |
| Events, `client/src/event.cpp` | a report of an event | `toString`, parse a received frame, parse a JSON file | what the text of one side is for the other |

A client's bytes reach the server's handler of its connection (a thread of its
own, or tasks in the pool that the selector thread submits), the handler's
decoder makes frames of them, the handler's protocol object processes each
frame against the one registry and the one set of accounts, and the registry
calls `send` of the handlers that get an answer or a message. A handler calls
back into nothing else: in particular it does not tell the registry when its
socket closes.

What makes each component correct:

* registry: a message goes to exactly the present subscribers of its channel,
  the two records agree, message ids are fresh, also while frames overlap;
* accounts: no two live connections own the same login; a user that is online
  can be logged out;
* frames: one answer to each, nothing after an ERROR;
* pool: tasks of a handler run one at a time, in order, and each runs;
* reactor: a queued frame is written, a finished connection is closed, and no
  client's behaviour stops the selector thread;
* decoder: the frames do not depend on how the bytes are split;
* events: what a user reports is what subscribers read and summaries count;
* client: what the server holds for it is confirmed to the user; a logout ends,
  and a login is possible again.

## The modules

    ConcurrentMaps          maps as functions (external)
      ServerStorage         accounts
        ConnectionsImpl     registry and subscriptions, a method as one step
          Broker            frames, connections, both servers; composes the above
            MCBroker        instances for TLC
            BrokerProofs
        BrokerThreads       the same handlers, access by access, in threads
          SerialBroker      BrokerThreads against Broker
            MCBrokerThreads instances for TLC
            BrokerThreadsProofs
    PubSub                  what subscribers are promised; Broker implements it
    ActorThreadPool         the reactor's pool
      ActorThreadPoolProofs
    SerialExecutor          what handlers are promised; ActorThreadPool implements it
    ReactorLoop             selector thread, workers and peers
      MCReactorLoop         instances for TLC
      ReactorLoopProofs
    ThreadPerClient         threads, sockets and the monitors of channels
      ThreadPerClientProofs
    StompClient             the client's two threads and a server
      StompClientProofs
    StompText               the text of a report, of frames and of an event
      Reports               reports from files to a summary, through the server
        MCReports           instances for TLC
        ReportTextLemmas    what the functions of both make of every text
          ReportsProofs

### ConcurrentMaps, ServerStorage, ConnectionsImpl

A map is a function whose domain is its set of keys, and each operator of
`ConcurrentMaps` is one atomic call. `ServerStorage` and `ConnectionsImpl` have
the variables of the two classes under their names and one operator per method.
Here a method runs to its end before another starts. What is a choice in the
code is one in the model: which of several users `findFirst` yields, the order
in which a broadcast visits its receivers, and which subscription the map's
`values()` yields last.

Subscription ids, channels, logins and passwords are model values: the code
compares them and does nothing else, except that SEND strips a leading "/" from
its destination. `Stripped` is that conversion, a constant function from
destinations to destinations.

### Broker

One action per frame and error path (`ProcessConnect`, `ProcessSubscribe`,
`ProcessUnsubscribe`, `ProcessSend`, `ProcessDisconnect`, `ProcessIncomplete`,
`Malformed`), and `Accept` and `Close` for the connections. A frame's action is
the whole of `StompMessagesProtocol.process`: the frame's handler, then
`shouldTerminate` or the receipt. `Refuse` is the error path all frames share.
The guard `Serving` is where the servers differ: the thread of a client stops at
`shouldTerminate` or when its socket is closed, the reactor's workers test
neither.

`sent`, `failed` and `sessions` are history variables that no guard reads: the
frames handed to handlers by the last step, the connections that were sent an
ERROR, and the logins a connection has been logged in with.

### BrokerThreads and SerialBroker

The frame handlers as the server's threads run them: each connection has at
most one frame in progress, `MaxOverlap` of them at a time (the reactor's
workers, or as many as there are clients), and a label of the thread names the
access that comes next: one call of a `ConcurrentHashMap`, of an iterator, or of
a synchronized method of `ServerStorage`. `subscribe` and broadcasts hold the
monitor of a channel's set, `disconnect` that of the registry; a monitor is held
by the threads whose labels lie between its `synchronized` and its end.

The values of the two maps are objects (`Ref`), since a thread may hold one that
the map has dropped and another thread may have replaced. `NoRef` is the null a
map returns: to dereference it ends the frame (`Stop`), and in the
thread-per-client server the thread. The iterator of `channelSubscriptions` is
weakly consistent as the class documents: it holds the next entry before it is
asked for it.

`SerialBroker` ties the module to `Broker`: as long as no two frames have been
in progress at once (`alone`), a frame, put together from its accesses, changes
registry and accounts exactly as the action of `Broker` does
(`HandlersAreMethods`). `settled` is what the objects stood for when no frame was
in progress. Responses and frames with missing headers are in `Broker` only.

### PubSub

The abstract specification of the broker for its clients: present connections,
subscriptions, and messages that are delivered to exactly the present
subscribers of their channel. `Broker` implements it, with the mapping `PS`,
for clients that use subscription ids of their own (`OwnIds`). For other
clients it does not, which is the finding of the run `unsubscribe`.

### ActorThreadPool and SerialExecutor

`Submit` is called by the selector thread. `Take`, `Ran` and `Complete` are the
steps of a thread of the executor with one task: it takes it from the executor's
queue, runs it, and in the `finally` block hands over the next task of the
actor. `submit` and `complete` are synchronized on the actor and share no state
between actors but the executor's queue, so each is one step. A task of which
`execute` is rejected after `shutdownNow` is lost, as are those in the queue.
`SerialExecutor` is the promise: per actor a backlog and at most one active
task, first in first out, until it is stopped.

### ReactorLoop

The selector thread's label `loop` follows `Reactor.serve`: `select`, the
selector tasks (`tasks`), the selected keys (`keys`), and within a key
`continueWrite` (`write`, `test`, `testTerminate`, `readOnly`). A worker
processes one frame: `send` adds to a write queue, `addTask` queues the change
of the interest set, `wakeup` wakes the selector, and an ERROR or DISCONNECT
goes on to `unregister` and `terminate`. Peers connect, send, read and close in
any state.

The pool is what `SerialExecutor` promises: frames of a connection in order and
one at a time. Of a frame there is left whom its `process` sends to and what it
does to its own connection; which registered handlers a SEND reaches is any set
of them. A read ends between two frames. A write takes a frame whole or, once,
a part of it until the peer has read (`buffer`). `shouldTerminate` is not
volatile, so the selector thread may read the value it had. `dead` is a selector
thread that an exception has ended; nothing is modelled after it.

### ThreadPerClient

The thread of a client reads a frame (`Read`), handles it, and writes to
sockets: an answer to its own, the copies of a SEND to those of the channel's
subscribers, under the monitor of their set (`LockSubscribers`, `Visit`,
`Write`, `LeaveSubscribers`). A write waits while the client does not read and
its buffers are full (`Window`), and fails once the client or its thread has
closed the socket. `idle` are clients that never read; the others read as
`communicationThread` does. The writes of two threads to one socket exclude each
other as the socket's own lock makes them (external). Clients are logged in, and
every channel has one subscriber more that reads and never leaves, so that no
set is dropped: what goes on while one is, is in `BrokerThreads`.

### StompText and Reports

`StompText` is what the code of both sides does to the text of a report:
`Event::toString` and the frame of `handleReportCommand`, `decodeNextByte`,
`parse` and `encode` of the server, `getFrameAscii`, the constructor of `Event`
that reads a frame, and the numbers of `summary`. A text is a sequence of
characters; a word that is only compared as a whole, and a number, count as one.
`Malformed` is an exception of `parse`, `Unreadable` one of `stoi` or `substr`
in the constructor. A character of more than one byte is a member of `NonAscii`,
and what the server makes of it is `Garbage`.

`Reports` sends such texts: users report files, the server reads what they send
in pieces of any of the sizes in `ReadSize`, decodes, and writes copies to a
receiver that stays subscribed. In the reactor a chunk is decoded by a task of
its own, and an exception loses the rest of it; in the thread-per-client server
it ends the thread. The states that the two servers do not tell apart, such as
the queues between the threads, are in the modules above.

The properties of `Reports` are stated for files whose texts hold none of the
commands and not the word `user` (`ContentAssumption`), for users whose names
are words that the decoder leaves apart (`UserAssumption`), and for channels as
the decoder hands them on (`Topics`). Otherwise the code keeps none of them: a
line `SEND` in a description is a frame of its own when what is before it has
been refused, a line `user: x` in a description makes an event that of another
user, and two names that differ in a character that is not ASCII are one to the
receiver. A file some of whose frames are refused is harmless to the receiver;
one that is neither plain nor refused, as a city with the line `date time: x` in
it, is not.

### StompClient

`InputStep` are the accesses of `inputThread`, `CommStep` those of
`communicationThread`; `isConnected` and `connectionHandlerPtr` are read and
written one at a time. `socket` tells for every `ConnectionHandler` whether
`new` has given it, its socket, and whether it is deleted. A call through null
or a deleted handler is undefined: it ends the program (`crashed`), or, for a
deleted one, fails as a closed socket does. What the other thread does to a
received event while `summary` reads them is treated alike.

`Serve`, `Publish` and `ServerCloses` are the thread-per-client server as one
client sees it: it takes the frames in order, answers as `Broker` does for
clients with ids of their own, refuses a CONNECT at will, and may close at any
time. Receipt ids of logouts are all -1, since only their sign is looked at.

## What TLC checks

| Run | Shows | Bounds |
| --- | --- | --- |
| `reactor` | `TypeOK`, `KeysAgree`, `OneAnswer`, `SessionsExclusive`, `SilentAfterError`, `MessageIdsFresh` | 2 connections that outlive their sockets, 2 logins, 2 passwords, 2 ids that both use, or none; 1 channel, 6 message ids |
| `pubsub` | `SubscribersAgree`, `ImplementsPubSub` | 2 subscribers with an id each and 1 publisher, 2 destinations of one channel, 4 message ids |
| `threads` | `TypeOK`, `CleanLogout`, `TopicsHaveMaps`, `OnlineHasOwner`, `HandlersAreMethods` | 2 threads, 3 frames each, 1 login, 2 passwords, 2 channels, 1 id that both use |
| `tpc` | `TypeOK`, `SameOrder`, and `OthersServed`, `ThreadsEnd` under fairness | 2 connections, 2 frames each, 2 channels, buffers of 1 frame, any set of clients idle |
| `reports` | `TypeOK`, `NothingLost`, `NothingInvented`, `ReceiverSurvives`, `SummaryCounts` | both servers, 2 users, 7 files of at most 2 events, 2 reports, reads of 17 or 61 characters |
| `pool` | `TypeOK`, `NotConcurrent`, `NoneStranded`, `ImplementsSerialExecutor`, and `EveryTaskStarts` under fairness | 3 actors, 4 tasks, 2 threads |
| `reactor_safe` | `TypeOK`, `NoFrameStranded`, `TasksWakeSelector` | 2 connections, 1 frame each, 2 workers |
| `reactor_live` | `FramesWritten`, `GoneAreClosed` under fairness | 1 connection, 3 frames |
| `client` | `TypeOK`, `ReceiptsAgree`, and `LogoutEnds` under fairness | 4 commands, 2 channels, 2 handlers, a report of at most 1 event |

Two connections are enough for one client to disturb another; `pubsub` has a
third, which publishes to the two. Connection ids are never used again, so
`Conn` bounds the number of connections over the whole run. `MaxMessageId`
bounds the counter: a SEND that would exceed it does not happen. Three frames
are enough for a client to subscribe, change its mind and leave while the other
does the same; `Ref` has more objects than two threads can hold. The pool has
more tasks than actors and threads, so tasks wait in the executor's queue and
behind a running task of their actor at the same time. In `reactor_safe` each
worker can send to both connections while the selector thread is anywhere in its
loop; `reactor_live` has fewer connections and more frames, so that a queue
fills again while it is written. In `tpc` two
threads that broadcast on both channels can each hold a monitor and wait for the
other's socket. In `reports` an event is some 50 characters, so that reads end in
the headers, in a field, in the description and between frames, and a read
holds parts of two frames; the files have values with a colon, a line break and a null
character, a channel of two lines, an event that lacks a field, and characters
that are not ASCII. A lost part of a chunk is reached with a second report
behind it.
Four commands of a client are a login, a logout
and a second session, or a session with a join, an exit and a logout.

Deadlock checking is off in all runs: connections, tasks, frames and commands
are bounded, and when all are used nothing more happens.

Fairness is weak, and of single threads:

* `pool`: a thread of the executor takes a task if there is one and ends it.
* `tpc`: a thread that waits for no monitor and no socket makes its next step,
  and a client that is not idle reads, as `communicationThread` does whatever
  the user of the client is at. Monitors need no strong fairness, because clients
  send `MaxFrames` frames at most, so a monitor is free in the end or held for
  good. Nothing is assumed of `PeerClose` or of the clients' sending.
* `reactor_live`: the selector thread and the workers run, and a peer that is
  open reads, as the client's `communicationThread` does. A worker never waits
  for the network, since the reactor's `send` appends to a queue.
* `client`: both threads and the server run. The user owes nothing.

### Findings

Each of these runs checks one claim of a comment and TLC finds it violated.

| Run | Claim | What happens |
| --- | --- | --- |
| `unsubscribe` | `ConnectionsImpl.java:110`, "remove the subscriptionId for this connectionId" | line 112 removes that id for every connection; clients count their ids from 0 and do collide |
| `logins` | `ConnectFrame.java:43`, "Ensure the user is not already connected" | the test and `connectUser` are two steps: two CONNECT frames with one login at the same time are both accepted |
| `serves` | `Server.java:11`, "The main loop of the server" | a selector task for a channel that has been closed throws `CancelledKeyException`, which nothing in `serve` catches: the loop ends |

### Disagreements

What else was met while modelling. The models have these behaviours; no run is
spent on them.

* `ConnectionsImpl.java:41`, "the set of subscription IDs for this user": the
  subscription header of every copy is that of the channel's last entry (line 45).
* `ConnectionsImpl.java:14`, "subscribed client IDs": a client that has
  disconnected stays among the subscribers while another keeps the channel
  (line 64 takes it out of the other map only).
* `ConnectionsImpl.java:82-99`: a disconnect that removes the channel after the
  `putIfAbsent` of a subscribe (lines 83-84) makes one of its later `get`s
  return null, which it dereferences (lines 86-99).
* `ServerStorage.java:42`, "only one user matches the connectionId": a second
  CONNECT on a connection gives it a second user, which stays online.
* `User.java:6`, "whether the user is currently connected": a socket that closes
  without a DISCONNECT leaves its user online for ever.
* `ConnectFrame.java:67`, "Disconnect the client": `process` looks for
  `ErrorFrame` in the class of the client's frame (`StompMessagesProtocol.java:29`),
  so a refused connection is served on.
* `NonBlockingConnectionHandler.java:104-107`: the channel is closed by a write
  that empties the queue after `shouldTerminate` is set. A DISCONNECT without a
  receipt, or whose receipt has been written before, does not close it.
* `NonBlockingConnectionHandler.java:98`: an `IOException` in `continueWrite`
  closes the channel and repeats the write, for ever.
* `StompClient.cpp:110`: after the server has closed the connection
  `isConnected` is false and the handler stays. "Dynamically create the
  ConnectionHandler and connect" (line 314) then does neither: a login finds
  the old handler and sends nothing.
* `StompClient.cpp:97`: `communicationThread` deletes the handler between the
  test of line 332 and the send of line 336 of the other thread; line 99 may
  come after the next login has set `isConnected`.
* `StompClient.cpp:91`: "Second time seeing this receipt-id" is a third time if
  a channel is left twice; the flag toggles again, and the exit is reported as a
  join.
* `event.cpp:119`: a line counts only if it has two parts between colons. A
  value with a colon (a time of day, "a: b") is dropped, and of one that ends
  in a colon this colon.
* `event.cpp:148`: the line of the description falls through to the general
  information and adds an entry "escription" to it.
* `event.cpp:135`: `stoi` throws for a date that is no number, and `substr` for
  an empty key. Nobody in `communicationThread` catches, so a sender whose city
  has a line break followed by a "date time:" line ends the client of each
  subscriber (file "no date" in `reports`).
* `StompEncodeDecoder.java:19`: a byte is cast to a `char`, so a negative one
  becomes another character, and `encode` makes three bytes of it. Texts that
  are not ASCII arrive mangled, and a user with such a name can not be
  summarised.
* `StompEncodeDecoder.java:49`: a header line without a colon is an
  `IllegalArgumentException` that nobody catches. In the reactor the rest of the
  chunk is lost and the client is not told. A channel name with a line break
  makes such a frame (`StompClient.cpp:397`).
* `StompClient.cpp:220`: a summary of a user in a channel counts the user's
  reports of every channel (also lines 237 and 243).
* `ConnectionsImpl.java:39`, `BlockingConnectionHandler.java:71`: a client that
  does not read stops every SEND and SUBSCRIBE on its channels, and so the
  clients that make them.
* `StompClient.cpp:403`: a report before the first login calls through null.

## What is proved

All proofs hold for every value of the constants that satisfies the modules'
assumptions: any number of connections (finitely many), logins, channels,
actors, tasks, threads and commands.

* `BrokerProofs`: `TypeCorrect` and `KeysAlwaysAgree`. The invariant is
  `TypeOK /\ KeysAgree`; neither is inductive alone, because a SUBSCRIBE writes
  `channelSubscriptions[channel]` after testing for the channel in the other
  map. Then `SessionsAlwaysExclusive` and `ErrorIsLast`: the invariant
  adds `Lifecycle`: a registered connection was accepted, and one that was sent
  an ERROR or never accepted is not registered. `ErrorIsLast` is an action
  property that follows from it, because every frame is handed to a registered
  handler. `AnswersOnce` holds because the error path takes the handler out of
  the registry before `process` adds the receipt. `MessageIdsAlwaysFresh`: of a
  broadcast to n receivers, each of whom costs k ids (one for each entry of the
  channel), the i-th copy has the last id of the i-th block of k above the
  counter.
  `SubscribersAlwaysAgree` and `BrokerImplementsPubSub` hold under `OwnIds`. The invariant adds `Recorded`: an entry of a channel is stored under
  an id of its own connection. Then `Unsubscribe` of a registered connection
  takes exactly its entry out of both maps, and each step of the broker is a
  step of `PubSub` or changes nothing it sees.
* `BrokerThreadsProofs`: `ThreadsTyped`, `TopicsAlwaysHaveMaps` and, for the
  thread-per-client server, `OnlineAlwaysHasOwner` and `LogoutsAlwaysClean`. The first needs that the
  locals of a thread fit its label (`Fits`). The second is inductive over it: a
  channel gets its set (line 83) before its map (84) and loses its map (68)
  before its set (69), so whatever threads do in between, one of them is on its
  way to repair it. The third adds `Ownership`: a connection that has
  logged out has no thread any more, a user's `connectionId` is that of a
  connection that was logged in as the user, and so is that of a thread that
  has still to write it. The fourth (`LogoutInv`) follows a disconnect: while it
  goes through the channels, each one whose map has the connection is still
  ahead of its iterator, or is the one it has just returned (`ToBeRemoved`). The
  other threads cannot break that, for they put in their own ids only, and a
  channel that comes back gets an empty map (`OnlyRemoves`).
  `HandlersAlwaysMethods`, of `SerialBroker`, joins the two models of the
  broker: a frame that no other overlaps takes `BrokerThreads` up to a dozen
  steps per channel, and these together are the one step `AtOnce` that `Broker`
  has for the frame. The invariant (`SerialInv`) says for each label how far the
  shared state has got from `settled` (`Progress`): in `SUBSCRIBE`, after the set of the
  channel is there and before its map is; in `DISCONNECT`, which of the channels
  that the iterator has passed are already without the client. For that it needs
  that no two channels share a set or a map (`ObjectsSeparate`), so that a write
  to an object is a write to one channel, and that the iterator returns the least
  key that it has not passed, which exists by `LeastNumber`, induction in a form
  without operators. What interruptions leave of a method is what the other
  theorems of the module are about.
* `ActorThreadPoolProofs`: `NeverConcurrent`, `NeverStranded` and
  `PoolImplementsSerialExecutor`. The invariant is that an actor has at most one
  task in the executor, queued or on a thread (`OneTask`), that `playingNow`
  holds the actors that have one, and that only those have pending tasks
  (`Playing`). `PoolTyped` is the part of it about types.
* `ThreadPerClientProofs`: `ClientThreadsTyped` and `AlwaysSameOrder`.
  `SameOrder` is not inductive: that two clients see two messages of a channel
  in one order depends on what the thread that is still broadcasting has left to
  write. The invariant adds that while it does, its message is written to each
  receiver once and nothing of its channel follows it anywhere (`Covered`,
  `Broadcasting`), which its monitor keeps up, and that no message of a thread
  is anywhere before the thread has the monitor (`Numbered`).
* `ReactorLoopProofs`: `ReactorTyped`, `FramesNeverStranded` and
  `TasksAlwaysWake`. `NoFrameStranded` is not inductive: the selector thread
  drops the interest in writing (`ReadOnly`) after it has found the queue empty.
  The invariant adds that a frame added since then has a task (`DropIsCovered`),
  that only accepted connections are selected (`Selected`), that a connection
  that is not accepted has no handler and nothing queued (`Fresh`), and a form of `TasksWakeSelector`
  that also covers the steps before `select` (`Woken`).

* `StompClientProofs`: `ClientTyped` and `ReceiptsAlwaysAgree`. A receipt toggles
  its entry of `myMap`, so what matters is how often it is under way: the
  invariant says of the present connection that the receipt of a subscription is
  in `myMap` and nowhere on its way, or not in it and on its way once
  (`Confirmed`), that of a join which the server has not read there is no trace
  behind it (`Unanswered`), and that no receipt is ahead of the counter
  (`Bounded`, `Counts`), which makes that of a new join new. `Present` is why
  frames of an earlier connection do not count: the handler that
  `communicationThread` reads from while its socket is open is the present one,
  and a new handler has nothing under way.

* `ReportsProofs`, on `ReportTextLemmas`: `TypeCorrect`, `ReceiverHolds`,
  `InventsNothing`, `LosesNothing` and `SummaryAgrees`, the last four from one
  invariant, `TypeInv /\ SignedInv /\ FlowInv`, and for `SummaryAgrees`
  `OwnedInv`.

  `TypeInv` says of which characters the texts in the sockets, the chunks, the
  decoders and the copies are. `Rest(u)` is what of a user is on its way to
  `parse`: what the decoder holds, and behind it the decoded chunk and socket.
  Reading and decoding leave it as it is, whatever the sizes of the reads.
  `SignedInv` says that wherever the word "user" stands in it, the name of that
  user follows, so that no copy is taken for one of somebody else, even when
  `parse` has started in the middle of a frame.

  `FlowInv` says what will become of `Rest(u)` (`Streams`): it is the end of a
  frame, which `parse` will refuse because no line of it is a command, followed
  by whole frames, each of which is refused or delivered as the event that the
  receiver should get; and what the receiver has, what waits for it and what
  will be delivered are together `Expected(u)` without some of its elements, or
  all of it while every file is plain. The end of a frame is what a refusal
  leaves: the reactor drops the rest of the chunk, wherever that ends. A
  refusal, an acceptance, a report and a copy that the receiver takes each keep
  it (`StreamsRefused`, `StreamsAccepted`, `StreamsReport`, `ComingFirst`).

  `SummaryAgrees` adds the counting: the summary compares trimmed names, where
  the other theorems compare whole ones, and no two users are the same for it
  only because every event has a user for its owner, or none (`OwnedInv`); then
  its events are those of `LosesNothing`, and an entry is true for the receiver
  if it is in the file (`TrueReceived`).

  `ReportTextLemmas` is what the two parsers make of a frame. `ParseSend` says
  what `parse` reads in the frame of an event, `MessageRead` into which lines
  the receiver cuts the copy, and `ReadMessage` that the event it reads in them
  is `AsReceived` and that reading it raises no exception. Each is for every
  event that the files may hold.

  The text operators are recursive functions and folds, and the induction
  theorems of the library cannot be instantiated; so induction is a statement
  about a set, of numbers or of texts (`Numbers`, `Sequences`, `ByLines`).

Only model-checked: `EveryTaskStarts`, `FramesWritten`, `GoneAreClosed`,
`OthersServed`, `ThreadsEnd` and `LogoutEnds`, which are liveness properties and
out of TLAPS's reach. Every invariant and every action property of a passing run
is proved.

## Plan

Done: `Broker` and `PubSub`, `BrokerThreads`, `ActorThreadPool`, `ReactorLoop`,
`StompClient`, `ThreadPerClient`, `Reports`, and the proofs above. Left: a run
for what `StompClient.cpp:110` does to a login after the server has closed the
connection, which is a hazard without a property.

## Not modelled

* `client/include/json.hpp` is a vendored library; `parseEventsFile` is modelled
  from the values it gives. `client/src/echoClient.cpp` is a sample of the
  networking library that shares nothing with the system.
* The wording of error messages and logs, the layout of a summary, and the order
  of its lines. `summaryToString` is never called.
* `Reactor.close` and `BaseServer.close`, which nothing calls, the reactor's
  pool of buffers, and `main` of the servers and of the client, which start what
  is modelled.
* Console input that does not parse: the client rejects it and changes nothing.
