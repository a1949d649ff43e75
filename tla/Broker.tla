------------------------------- MODULE Broker -------------------------------
(***************************************************************************)
(* The STOMP server as its clients see it: StompMessagesProtocol.process   *)
(* and the frames it dispatches to, over ServerStorage and ConnectionsImpl.*)
(*                                                                         *)
(* A frame is processed to its end before the next one starts.  That is    *)
(* the reactor with one worker thread, and every execution of either       *)
(* server in which the frames do not overlap.                              *)
(***************************************************************************)
EXTENDS ConnectionsImpl

CONSTANTS
  ServerType,     (* the second argument of StompServer.main               *)
  IdsOf,          (* IdsOf[c]: the id headers client c sends               *)
  Stripped,       (* Stripped[d]: d without its leading "/", if any        *)
  MaxMessageId    (* bounds messageIdCounter                               *)

ASSUME BrokerAssumption ==
  /\ ServerType \in {"tpc", "reactor"}
  /\ IdsOf \in [Conn -> SUBSET (SubId \cup {NoId})]
  /\ Stripped \in [Destination -> Destination]
  /\ MaxMessageId \in Nat
  /\ IsFiniteSet(Conn)

VARIABLES
  status,            (* of a connection's socket: "none", "open", "closed" *)
  shouldTerminate,   (* of its protocol object                             *)
  (* History, read by no guard. *)
  sent,              (* the frames handed to handlers by the last step     *)
  failed,            (* the connections that were handed an ERROR frame    *)
  sessions           (* the logins a connection was logged in with         *)

vars == <<users, registryVars, status, shouldTerminate, sent, failed, sessions>>

Response == [to: Conn, type: {"CONNECTED", "RECEIPT", "ERROR"}]
Message  == [to: Conn, type: {"MESSAGE"}, channel: Destination,
             subscription: SubId \cup {NoId}, id: Nat]

Init ==
  /\ StorageInit
  /\ RegistryInit
  /\ status = [c \in Conn |-> "none"]
  /\ shouldTerminate = [c \in Conn |-> FALSE]
  /\ sent = {}
  /\ failed = {}
  /\ sessions = [c \in Conn |-> {}]

-----------------------------------------------------------------------------
(* Connections *)

(* serve() and handleAccept: a new connection gets a fresh id, a protocol   *)
(* object and a handler, which is registered before it reads anything.      *)
Accept(c) ==
  /\ status[c] = "none"
  /\ status' = [status EXCEPT ![c] = "open"]
  /\ AddConnection(c)
  /\ sent' = {}
  /\ UNCHANGED <<users, shouldTerminate, failed, sessions>>

(* The handler closes the socket: the peer closed it, an IOException, or    *)
(* shouldTerminate.  Nothing tells ConnectionsImpl or ServerStorage.        *)
Close(c) ==
  /\ status[c] = "open"
  /\ status' = [status EXCEPT ![c] = "closed"]
  /\ sent' = {}
  /\ UNCHANGED <<users, registryVars, shouldTerminate, failed, sessions>>

(* A handler that may process a frame.  The thread of a client checks       *)
(* shouldTerminate before each byte and closes the socket itself.  The      *)
(* reactor's workers check neither: a task may hold any number of frames    *)
(* and run after the selector thread has closed the channel.                *)
Serving(c) ==
  IF ServerType = "tpc"
    THEN status[c] = "open" /\ ~shouldTerminate[c]
    ELSE status[c] # "none"

(* An unchecked exception leaves process or decodeNextByte.  The thread of  *)
(* a client dies and try-with-resources closes its socket; a worker of the  *)
(* reactor drops the rest of the buffer.                                    *)
Throw(c) ==
  /\ status' = IF ServerType = "tpc" THEN [status EXCEPT ![c] = "closed"] ELSE status
  /\ sent' = {}
  /\ UNCHANGED <<shouldTerminate, failed, sessions>>

(* The bytes up to a '\0' are not a frame: parse throws. *)
Malformed(c) ==
  /\ Serving(c)
  /\ Throw(c)
  /\ UNCHANGED <<users, registryVars>>

-----------------------------------------------------------------------------
(* Answers *)

(* process sends a RECEIPT after every frame but DISCONNECT if the frame    *)
(* has a receipt header.                                                    *)
Receipt(handlers, c, receipt) ==
  IF receipt THEN Deliver(handlers, c, "RECEIPT") ELSE {}

(* A mutation of Refuse: the client is not removed from the registry. *)
MutRefuseWithoutDisconnect(c, receipt) ==
  /\ sent' = Deliver(clientHandlers, c, "ERROR")
               \cup Receipt(clientHandlers, c, receipt)
  /\ failed' = IF c \in clientHandlers THEN failed \cup {c} ELSE failed
  /\ UNCHANGED <<users, registryVars, status, shouldTerminate, sessions>>

(* The error path of all frames: send an ERROR, disconnect, return to       *)
(* process.  process tests the class of the client's frame, which is never  *)
(* ErrorFrame, so it leaves shouldTerminate as it was and tries a RECEIPT.  *)
Refuse(c, receipt) ==
  /\ Disconnect(c)
  /\ sent' = Deliver(clientHandlers, c, "ERROR")
               \cup Receipt(clientHandlers', c, receipt)
  /\ failed' = IF c \in clientHandlers THEN failed \cup {c} ELSE failed
  /\ UNCHANGED <<status, shouldTerminate, sessions>>

Confirm(c, receipt) ==
  /\ sent' = Receipt(clientHandlers, c, receipt)
  /\ UNCHANGED <<status, shouldTerminate, failed, sessions>>

-----------------------------------------------------------------------------
(* Frames *)

(* CONNECT without login or passcode, SUBSCRIBE without destination, SEND   *)
(* without destination or body.                                             *)
ProcessIncomplete(c, receipt) ==
  /\ Serving(c)
  /\ Refuse(c, receipt)

(* The accounts after a successful CONNECT. *)
LogIn(login, pass, c) == ConnectUser(AddUser(users, login, pass), login, c)

(* A mutation of the check of an existing user. *)
MutMayLogInTwice(login, pass) ==
  login \in DOMAIN users => users[login].password = pass

MayLogIn(login, pass) ==
  login \in DOMAIN users =>
    /\ ~users[login].connected
    /\ users[login].password = pass

ProcessConnect(c, login, pass, receipt) ==
  /\ Serving(c)
  /\ \/ /\ MayLogIn(login, pass)
        /\ users' = LogIn(login, pass, c)
        /\ sessions' = [sessions EXCEPT ![c] = @ \cup {login}]
        /\ sent' = Deliver(clientHandlers, c, "CONNECTED")
                     \cup Receipt(clientHandlers, c, receipt)
        /\ UNCHANGED <<registryVars, status, shouldTerminate, failed>>
     \/ /\ ~MayLogIn(login, pass)
        /\ Refuse(c, receipt)

ProcessSubscribe(c, channel, id, receipt) ==
  /\ Serving(c)
  /\ \/ /\ ExistsSubscription(channel, c)
        /\ Refuse(c, receipt)
     \/ /\ ~ExistsSubscription(channel, c)
        /\ Subscribe(channel, id, c)
        /\ IF id = NoId THEN Throw(c) ELSE Confirm(c, receipt)
        /\ UNCHANGED users

ProcessUnsubscribe(c, id, receipt) ==
  /\ Serving(c)
  /\ \/ /\ id = NoId
        /\ Refuse(c, receipt)
     \/ /\ id # NoId
        /\ Unsubscribe(c, id)
        /\ Confirm(c, receipt)
        /\ UNCHANGED users

(* A leading "/" of the destination is stripped here and in no other frame. *)
ProcessSend(c, destination, receipt) ==
  LET channel == Stripped[destination] IN
  /\ Serving(c)
  /\ messageIdCounter + IdsUsed(channel) <= MaxMessageId
  /\ \E messages \in Broadcasts(channel) :
       sent' = messages \cup Receipt(clientHandlers, c, receipt)
  /\ messageIdCounter' = messageIdCounter + IdsUsed(channel)
  /\ UNCHANGED <<clientHandlers, topicSubscribers, channelSubscriptions, users,
                 status, shouldTerminate, failed, sessions>>

ProcessDisconnect(c, receipt) ==
  /\ Serving(c)
  /\ sent' = Receipt(clientHandlers, c, receipt)
  /\ Disconnect(c)
  /\ shouldTerminate' = [shouldTerminate EXCEPT ![c] = TRUE]
  /\ UNCHANGED <<status, failed, sessions>>

-----------------------------------------------------------------------------
(* A frame of client c *)
Process(c) ==
  \E receipt \in BOOLEAN :
    \/ ProcessIncomplete(c, receipt)
    \/ \E login \in Login, pass \in Passcode : ProcessConnect(c, login, pass, receipt)
    \/ \E channel \in Destination, id \in IdsOf[c] :
         ProcessSubscribe(c, channel, id, receipt)
    \/ \E id \in IdsOf[c] : ProcessUnsubscribe(c, id, receipt)
    \/ \E destination \in Destination : ProcessSend(c, destination, receipt)
    \/ ProcessDisconnect(c, receipt)

Next ==
  \E c \in Conn : Accept(c) \/ Close(c) \/ Malformed(c) \/ Process(c)

Spec == Init /\ [][Next]_vars
-----------------------------------------------------------------------------
(* Properties *)

TypeOK ==
  /\ StorageTypeOK
  /\ RegistryTypeOK
  /\ status \in [Conn -> {"none", "open", "closed"}]
  /\ shouldTerminate \in [Conn -> BOOLEAN]
  /\ sent \subseteq Response \cup Message
  /\ failed \subseteq Conn
  /\ sessions \in [Conn -> SUBSET Login]

(* A channel has a set of subscribers if and only if it has a map of        *)
(* subscriptions.  send(channel, msg) and unsubscribe look a channel up in  *)
(* one map and dereference what the other returns for it unchecked.         *)
KeysAgree == DOMAIN topicSubscribers = DOMAIN channelSubscriptions

(* A connection that is registered still owns the accounts it logged in     *)
(* to: they are online and name its id.  So no two registered connections   *)
(* share a login, however connects, errors and disconnects alternate.       *)
SessionsExclusive ==
  \A c \in clientHandlers : \A login \in sessions[c] :
    /\ login \in DOMAIN users
    /\ users[login].connected
    /\ users[login].connectionId = c

(* ERROR is the last frame a client is sent: the error path removes its     *)
(* handler before process tries the receipt, and no later frame of that     *)
(* client or broadcast of another one reaches it.                           *)
SilentAfterError ==
  [][\A frame \in sent' : frame.to \notin failed]_vars

(* Each frame has one outcome: apart from broadcasts, a step answers one    *)
(* client, and never both confirms and rejects its frame.                   *)
OneAnswer ==
  \A f, g \in sent :
    f.type # "MESSAGE" /\ g.type # "MESSAGE" =>
      /\ f.to = g.to
      /\ f.type = "ERROR" => g = f

(* The copies of a broadcast carry message ids that no frame carried        *)
(* before, and different ones.                                              *)
MessageIdsFresh ==
  [][\A f, g \in {m \in sent' : m.type = "MESSAGE"} :
       f.id # 0 =>
         /\ f.id > messageIdCounter /\ f.id <= messageIdCounter'
         /\ f.id = g.id => f = g]_vars

(* Clients that always send an id, and never the id of another client. *)
OwnIds ==
  /\ \A c \in Conn : NoId \notin IdsOf[c]
  /\ \A c, d \in Conn : c # d => IdsOf[c] \cap IdsOf[d] = {}

(* c is recorded as a subscriber of the channel under this id. *)
Holds(c, channel, id) ==
  /\ channel \in DOMAIN channelSubscriptions
  /\ c \in DOMAIN channelSubscriptions[channel]
  /\ channelSubscriptions[channel][c] = id

(* With such clients the two records of a registered connection's           *)
(* subscriptions agree, although the methods of ConnectionsImpl update them *)
(* by different rules and leave entries of connections that are gone.       *)
SubscribersAgree ==
  \A c \in clientHandlers, channel \in Destination :
    ExistsSubscription(channel, c) <=> \E id \in SubId : Holds(c, channel, id)

(* What PubSub sees of the registry and of the frames of the last step. *)
Records == {s \in Conn \X Destination \X SubId :
              s[1] \in clientHandlers /\ Holds(s[1], s[2], s[3])}

Deliveries == {<<m.to, m.channel>> : m \in {f \in sent : f.type = "MESSAGE"}}

(* With such clients the broker delivers each message to exactly the        *)
(* present subscribers of its channel, whatever stale entries the two maps  *)
(* hold.                                                                    *)
PS == INSTANCE PubSub WITH
  present <- clientHandlers,
  subscriptions <- Records,
  delivered <- Deliveries

ImplementsPubSub == PS!Spec

-----------------------------------------------------------------------------
(* What a comment of the sources says and the code does not do *)

(* ConnectionsImpl.java:110 says unsubscribe removes the subscription id    *)
(* for this connectionId: when c gives up a subscription of its own, those  *)
(* of the other connections stay.                                           *)
UnsubscribeOnlyOwn ==
  [][\A c, d \in Conn, id \in SubId, receipt \in BOOLEAN :
       /\ c # d
       /\ \E channel \in Destination : Holds(c, channel, id)
       /\ ProcessUnsubscribe(c, id, receipt)
       => \A channel \in Destination, own \in SubId :
            Holds(d, channel, own) => Holds(d, channel, own)']_vars

=============================================================================
