---------------------------- MODULE SerialBroker ----------------------------
(***************************************************************************)
(* BrokerThreads against Broker: a frame whose handler no other handler    *)
(* interrupts changes the registry and the accounts as the one step of     *)
(* Broker for that frame does.                                             *)
(***************************************************************************)
EXTENDS BrokerThreads

CONSTANT NoId   (* the null id of Broker, which no frame has here *)

ASSUME NoIdAssumption == NoId \notin SubId

VARIABLES
  settled,   (* history: what was shared when no frame was in progress      *)
  alone      (* history: no two frames have been in progress so far         *)

(* What the objects stand for *)
Shared ==
  [users |-> users,
   clientHandlers |-> clientHandlers,
   topicSubscribers |->
     [channel \in DOMAIN topicSubscribers |-> sets[topicSubscribers[channel]]],
   channelSubscriptions |->
     [channel \in DOMAIN channelSubscriptions |-> maps[channelSubscriptions[channel]]],
   shouldTerminate |-> shouldTerminate]

Quiet == \A c \in Conn : ~Busy(c)

(* A value for settled while it is not looked at *)
Unsettled ==
  [users |-> EmptyMap, clientHandlers |-> {}, topicSubscribers |-> EmptyMap,
   channelSubscriptions |-> EmptyMap, shouldTerminate |-> [c \in Conn |-> FALSE]]

SerialInit == Init /\ settled = Shared /\ alone = TRUE

SerialNext ==
  /\ Next
  /\ alone' = (alone /\ Cardinality({c \in Conn : Busy(c)'}) <= 1)
  /\ settled' = IF ~alone' THEN Unsettled ELSE IF Quiet' THEN Shared' ELSE settled

SerialSpec == SerialInit /\ [][SerialNext]_<<vars, settled, alone>>

B == INSTANCE Broker WITH
       users <- settled.users,
       clientHandlers <- settled.clientHandlers,
       topicSubscribers <- settled.topicSubscribers,
       channelSubscriptions <- settled.channelSubscriptions,
       shouldTerminate <- settled.shouldTerminate,
       messageIdCounter <- 0, status <- [c \in Conn |-> "open"],
       sent <- {}, failed <- {},
       Destination <- Channel, Stripped <- [channel \in Channel |-> channel],
       IdsOf <- [c \in Conn |-> SubId], MaxMessageId <- 0

(* What Broker's step for the frame does to the shared state *)
AtOnce(c, frame) ==
  \/ /\ frame.type = "CONNECT"
     /\ B!MayLogIn(frame.login, frame.passcode)
     /\ settled' = [settled EXCEPT !.users = B!LogIn(frame.login, frame.passcode, c)]
  \/ /\ frame.type = "CONNECT"
     /\ ~B!MayLogIn(frame.login, frame.passcode)
     /\ B!Disconnect(c)
  \/ /\ frame.type = "SUBSCRIBE"
     /\ B!ExistsSubscription(frame.destination, c)
     /\ B!Disconnect(c)
  \/ /\ frame.type = "SUBSCRIBE"
     /\ ~B!ExistsSubscription(frame.destination, c)
     /\ B!Subscribe(frame.destination, frame.id, c)
     /\ UNCHANGED settled.users
  \/ /\ frame.type = "UNSUBSCRIBE"
     /\ B!Unsubscribe(c, frame.id)
     /\ UNCHANGED settled.users
  \/ /\ frame.type = "SEND"
     /\ UNCHANGED settled
  \/ /\ frame.type = "DISCONNECT"
     /\ B!Disconnect(c)

(* A frame in progress that the others leave alone ends with the shared     *)
(* state that Broker gives for it: the accesses of ConnectFrame and of the  *)
(* methods of ConnectionsImpl, put together, are those methods.             *)
HandlersAreMethods ==
  [][\A c \in Conn : alone /\ Busy(c) /\ ~Busy(c)' =>
       /\ AtOnce(c, FrameOf(c))
       /\ settled'.shouldTerminate =
            [settled.shouldTerminate EXCEPT ![c] = @ \/ FrameOf(c).type = "DISCONNECT"]
    ]_<<vars, settled, alone>>

=============================================================================
