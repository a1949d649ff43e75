-------------------------- MODULE ThreadPerClient --------------------------
(***************************************************************************)
(* The thread-per-client server: a thread for every connection reads its   *)
(* socket and handles the frames, and writes to any other client's socket, *)
(* which waits while the client does not read and its buffers are full.    *)
(* A broadcast writes under the monitor of the channel's set.              *)
(*                                                                         *)
(* Clients are logged in.  Every channel has one subscriber more, which    *)
(* reads and never leaves, so no set of subscribers is dropped; what goes  *)
(* on while one is, access by access, is in BrokerThreads.                 *)
(***************************************************************************)
EXTENDS Naturals, Sequences, FiniteSets

CONSTANTS
  Conn,        (* the connections, accepted once each                      *)
  Channel,
  Nobody,      (* no connection: no channel, the owner of a free monitor   *)
  Window,      (* how many frames fit between send and a client's read     *)
  MaxFrames    (* bounds the frames of a client                            *)

ASSUME ThreadPerClientAssumption ==
  /\ Nobody \notin Conn \cup Channel
  /\ Window \in Nat \ {0}
  /\ MaxFrames \in Nat

VARIABLES
  at,          (* thread -> what comes next                                *)
  frame,       (* thread -> the frame it handles                           *)
  todo,        (* thread -> the subscribers its broadcast has yet to visit *)
  target,      (* thread -> whose socket it writes to                      *)
  subscribers, (* channel -> the set of topicSubscribers                   *)
  monitor,     (* channel -> the thread in its synchronized block          *)
  handlers,    (* the keys of clientHandlers                               *)
  unread,      (* connection -> how many frames its client has not read    *)
  peer,        (* connection -> "open" or "closed" by the client           *)
  idle,        (* the clients that read nothing                            *)
  frames,      (* connection -> how many frames have come from the client  *)
  written      (* history: the messages written to a socket                *)

threadVars == <<at, frame, todo, target>>
sharedVars == <<subscribers, monitor, handlers>>
peerVars   == <<peer, idle, frames>>
vars == <<threadVars, sharedVars, unread, peerVars, written>>

Frame ==
  [type: {"SUBSCRIBE", "UNSUBSCRIBE", "SEND"}, channel: Channel]
    \cup [type: {"DISCONNECT"}, channel: {Nobody}]

NoFrame == [type |-> "none", channel |-> Nobody]

Init ==
  /\ at = [c \in Conn |-> "off"]
  /\ frame = [c \in Conn |-> NoFrame]
  /\ todo = [c \in Conn |-> {}]
  /\ target = [c \in Conn |-> Nobody]
  /\ subscribers = [channel \in Channel |-> {}]
  /\ monitor = [channel \in Channel |-> Nobody]
  /\ handlers = {}
  /\ unread = [c \in Conn |-> 0]
  /\ peer = [c \in Conn |-> "open"]
  /\ idle \in SUBSET Conn
  /\ frames = [c \in Conn |-> 0]
  /\ written = [c \in Conn |-> <<>>]

-----------------------------------------------------------------------------
(* The clients *)

PeerRead(c) ==
  /\ peer[c] = "open" /\ c \notin idle /\ unread[c] > 0
  /\ unread' = [unread EXCEPT ![c] = @ - 1]
  /\ UNCHANGED <<threadVars, sharedVars, peerVars, written>>

PeerClose(c) ==
  /\ at[c] # "off" /\ peer[c] = "open"
  /\ peer' = [peer EXCEPT ![c] = "closed"]
  /\ UNCHANGED <<threadVars, sharedVars, unread, idle, frames, written>>

-----------------------------------------------------------------------------
(* A round of serve: the handler is in the registry before its thread runs. *)
Accept(c) ==
  /\ at[c] = "off"
  /\ at' = [at EXCEPT ![c] = "read"]
  /\ handlers' = handlers \cup {c}
  /\ UNCHANGED <<frame, todo, target, subscribers, monitor, unread, peerVars, written>>

Go(c, label) == at' = [at EXCEPT ![c] = label]

(* in.read and decodeNextByte up to the end of a frame, which the client    *)
(* may have sent before it closed.                                          *)
Read(c, f) ==
  /\ at[c] = "read" /\ frames[c] < MaxFrames
  /\ Go(c, f.type)
  /\ frame' = [frame EXCEPT ![c] = f]
  /\ frames' = [frames EXCEPT ![c] = @ + 1]
  /\ UNCHANGED <<todo, target, sharedVars, unread, peer, idle, written>>

(* The loop of run is over: the socket is closed, and nobody is told.  A    *)
(* client that closes may take along what it has sent.                      *)
End(c) ==
  /\ at[c] = "close" \/ (at[c] = "read" /\ peer[c] = "closed")
  /\ Go(c, "dead")
  /\ UNCHANGED <<frame, todo, target, sharedVars, unread, peerVars, written>>

Free(channel) == monitor[channel] = Nobody

(* SubscribeFrame.process: existsSubscription and subscribe, each under the *)
(* monitor.  A client that is subscribed is sent an ERROR instead of a      *)
(* RECEIPT, and unregistered.                                               *)
Subscribe(c) ==
  LET channel == frame[c].channel IN
  /\ at[c] = "SUBSCRIBE" /\ Free(channel)
  /\ Go(c, IF c \in subscribers[channel] THEN "error" ELSE "receipt")
  /\ subscribers' = [subscribers EXCEPT ![channel] = @ \cup {c}]
  /\ target' = [target EXCEPT ![c] = c]
  /\ UNCHANGED <<frame, todo, monitor, handlers, unread, peerVars, written>>

(* Unsubscribing takes no monitor. *)
Unsubscribe(c) ==
  /\ at[c] = "UNSUBSCRIBE"
  /\ Go(c, "receipt")
  /\ subscribers' = [subscribers EXCEPT ![frame[c].channel] = @ \ {c}]
  /\ target' = [target EXCEPT ![c] = c]
  /\ UNCHANGED <<frame, todo, monitor, handlers, unread, peerVars, written>>

(* DisconnectFrame.process writes the receipt, and then unregisters.        *)
Disconnect(c) ==
  /\ at[c] = "DISCONNECT"
  /\ Go(c, "bye")
  /\ target' = [target EXCEPT ![c] = c]
  /\ UNCHANGED <<frame, todo, sharedVars, unread, peerVars, written>>

(* A mutation of LockSubscribers: the set is copied, and the monitor is not *)
(* held while the copies are written.                                       *)
MutLockSubscribersCopy(c) ==
  LET channel == frame[c].channel IN
  /\ at[c] = "SEND" /\ Free(channel)
  /\ Go(c, "visit")
  /\ todo' = [todo EXCEPT ![c] = subscribers[channel]]
  /\ UNCHANGED <<frame, target, sharedVars, unread, peerVars, written>>

(* send(channel, msg) enters synchronized (subscribers).                    *)
LockSubscribers(c) ==
  LET channel == frame[c].channel IN
  /\ at[c] = "SEND" /\ Free(channel)
  /\ Go(c, "visit")
  /\ monitor' = [monitor EXCEPT ![channel] = c]
  /\ todo' = [todo EXCEPT ![c] = subscribers[channel]]
  /\ UNCHANGED <<frame, target, subscribers, handlers, unread, peerVars, written>>

(* The loop takes a subscriber; the iterator may miss one that has          *)
(* unsubscribed meanwhile.  A registered one is written to.                 *)
Visit(c) ==
  /\ at[c] = "visit"
  /\ \E d \in todo[c] :
       /\ todo' = [todo EXCEPT ![c] = @ \ {d}]
       /\ \/ /\ d \in handlers
             /\ target' = [target EXCEPT ![c] = d]
             /\ Go(c, "copy")
          \/ /\ d \notin handlers \cap subscribers[frame[c].channel]
             /\ UNCHANGED <<at, target>>
  /\ UNCHANGED <<frame, sharedVars, unread, peerVars, written>>

(* A mutation of LeaveSubscribers: an early return keeps the monitor.       *)
MutLeaveSubscribersLocked(c) ==
  /\ at[c] = "visit" /\ todo[c] = {}
  /\ Go(c, "read")
  /\ UNCHANGED <<frame, todo, target, sharedVars, unread, peerVars, written>>

LeaveSubscribers(c) ==
  /\ at[c] = "visit" /\ todo[c] = {}
  /\ Go(c, "read")
  /\ monitor' = [monitor EXCEPT ![frame[c].channel] = Nobody]
  /\ UNCHANGED <<frame, todo, target, subscribers, handlers, unread, peerVars, written>>

(* What follows the write of a frame *)
After == [copy |-> "visit", receipt |-> "read", error |-> "unregister", bye |-> "unregister"]

(* A mutation of Fails: a write waits for a client that has gone.           *)
MutFailsNever(d) == FALSE

(* sock.getOutputStream().write throws, which send catches: the socket has  *)
(* been closed by its thread or by its client.                              *)
Fails(d) == at[d] = "dead" \/ peer[d] = "closed"

Message(c) == <<frame[c].channel, c, frames[c]>>

(* BlockingConnectionHandler.send: the write returns when the frame is in   *)
(* the buffers of the socket.  An answer to a client that is no longer      *)
(* registered is not written.                                               *)
Write(c) ==
  LET d == target[c] IN
  /\ at[c] \in DOMAIN After
  /\ \/ /\ Fails(d) \/ (at[c] # "copy" /\ c \notin handlers)
        /\ UNCHANGED <<unread, written>>
     \/ /\ ~Fails(d) /\ (at[c] = "copy" \/ c \in handlers)
        /\ unread[d] < Window
        /\ unread' = [unread EXCEPT ![d] = @ + 1]
        /\ written' = IF at[c] = "copy" THEN [written EXCEPT ![d] = Append(@, Message(c))]
                      ELSE written
  /\ target' = [target EXCEPT ![c] = Nobody]
  /\ Go(c, After[at[c]])
  /\ UNCHANGED <<frame, todo, sharedVars, peerVars>>

(* connections.disconnect; its monitor is not held while anyone waits.  The *)
(* thread that has handled a DISCONNECT leaves its loop.                    *)
Unregister(c) ==
  /\ at[c] = "unregister"
  /\ handlers' = handlers \ {c}
  /\ Go(c, IF frame[c].type = "DISCONNECT" THEN "close" ELSE "read")
  /\ UNCHANGED <<frame, todo, target, subscribers, monitor, unread, peerVars, written>>

-----------------------------------------------------------------------------
Step(c) ==
  \/ End(c) \/ Subscribe(c) \/ Unsubscribe(c) \/ Disconnect(c)
  \/ LockSubscribers(c) \/ Visit(c) \/ LeaveSubscribers(c) \/ Write(c) \/ Unregister(c)

Next ==
  \E c \in Conn :
    \/ Accept(c) \/ (\E f \in Frame : Read(c, f)) \/ Step(c)
    \/ PeerRead(c) \/ PeerClose(c)

Spec == Init /\ [][Next]_vars

(* A thread that waits for nothing runs, and a client that is not idle      *)
(* reads.                                                                   *)
FairSpec == Spec /\ \A c \in Conn : WF_vars(Step(c)) /\ WF_vars(PeerRead(c))

-----------------------------------------------------------------------------
Label == {"off", "read", "visit", "unregister", "close", "dead"} \cup DOMAIN After
           \cup {"SUBSCRIBE", "UNSUBSCRIBE", "SEND", "DISCONNECT"}

(* A thread is in the synchronized block of its frame's channel exactly     *)
(* while it visits subscribers, and has a socket to write to while it       *)
(* writes.                                                                  *)
TypeOK ==
  /\ at \in [Conn -> Label]
  /\ frame \in [Conn -> Frame \cup {NoFrame}]
  /\ todo \in [Conn -> SUBSET Conn]
  /\ subscribers \in [Channel -> SUBSET Conn]
  /\ handlers \in SUBSET Conn
  /\ unread \in [Conn -> 0 .. Window]
  /\ \A c \in Conn :
       /\ target[c] \in (IF at[c] \in DOMAIN After THEN Conn ELSE {Nobody})
       /\ {channel \in Channel : monitor[channel] = c} =
            (IF at[c] \in {"visit", "copy"} THEN {frame[c].channel} ELSE {})

(* Two clients that get the same two messages of a channel get them in the  *)
(* same order, whoever published them.                                      *)
Before(s, m, n) == \E i, j \in DOMAIN s : i < j /\ s[i] = m /\ s[j] = n

SameOrder ==
  \A c, d \in Conn : \A i, j \in DOMAIN written[c] :
    i < j /\ written[c][i][1] = written[c][j][1]
      => ~Before(written[d], written[c][j], written[c][i])

(* A broadcast on the channel can wait for a client that reads nothing.     *)
Clogged(channel) ==
  \E d \in idle :
    \/ d \in subscribers[channel]
    \/ \E c \in Conn : frame[c].channel = channel /\ (d \in todo[c] \/ target[c] = d)

Busy(c) == at[c] \notin {"off", "read", "dead"}

(* A client that reads nothing stops nobody but those who use its channels: *)
(* every other frame is handled to its end, however broadcasts wait for     *)
(* each other's monitors and sockets.                                       *)
OthersServed ==
  \A c \in Conn :
    Busy(c) ~> \/ ~Busy(c)
               \/ c \in idle
               \/ \E channel \in Channel : frame[c].channel = channel /\ Clogged(channel)

(* The thread of a client that has gone ends, whoever waits for whom at the *)
(* time, unless a channel is stopped by a client that reads nothing.        *)
ThreadsEnd ==
  \A c \in Conn :
    peer[c] = "closed" ~> at[c] = "dead" \/ \E channel \in Channel : Clogged(channel)

=============================================================================
