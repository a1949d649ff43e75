--------------------------- MODULE ConnectionsImpl ---------------------------
(***************************************************************************)
(* The registry of connections and subscriptions, ConnectionsImpl.java:    *)
(* which connection ids have a handler, which connections subscribe to a   *)
(* channel, and under which subscription id.  The code keeps a channel's   *)
(* subscribers twice, as the set topicSubscribers.get(channel) and as the  *)
(* keys of channelSubscriptions.get(channel), and no two methods change    *)
(* the two in the same way.                                                *)
(*                                                                         *)
(* Here each method runs to its end before another one starts.             *)
(***************************************************************************)
EXTENDS Naturals, FiniteSets, Functions, ServerStorage

CONSTANTS
  Destination,    (* channel names, as the frames carry them               *)
  SubId,          (* subscription ids                                      *)
  NoId            (* the null of a frame without id header                 *)

ASSUME NoIdAssumption == NoId \notin SubId

VARIABLES
  clientHandlers,         (* the keys of clientHandlers                    *)
  topicSubscribers,       (* channel -> set of connection ids              *)
  channelSubscriptions,   (* channel -> (connection id -> subscription id) *)
  messageIdCounter        (* the next message id                           *)

registryVars ==
  <<clientHandlers, topicSubscribers, channelSubscriptions, messageIdCounter>>

RegistryTypeOK ==
  /\ clientHandlers \subseteq Conn
  /\ topicSubscribers \in MapsOf(Destination, SUBSET Conn)
  /\ channelSubscriptions \in MapsOf(Destination, MapsOf(Conn, SubId))
  /\ messageIdCounter \in Nat

RegistryInit ==
  /\ clientHandlers = {}
  /\ topicSubscribers = EmptyMap
  /\ channelSubscriptions = EmptyMap
  /\ messageIdCounter = 0

(* addConnection(connectionId, handler) *)
AddConnection(c) ==
  /\ clientHandlers' = clientHandlers \cup {c}
  /\ UNCHANGED <<topicSubscribers, channelSubscriptions, messageIdCounter>>

(* existsSubscription(channel, connectionId) *)
ExistsSubscription(channel, c) ==
  channel \in DOMAIN topicSubscribers /\ c \in topicSubscribers[channel]

-----------------------------------------------------------------------------
(* A mutation of subscribe: a map that takes the null id. *)
MutSubscribeNull(channel, id, c) ==
  /\ topicSubscribers' = [PutIfAbsent(topicSubscribers, channel, {})
                            EXCEPT ![channel] = @ \cup {c}]
  /\ channelSubscriptions' = [PutIfAbsent(channelSubscriptions, channel, EmptyMap)
                                EXCEPT ![channel] = Put(@, c, id)]
  /\ UNCHANGED <<clientHandlers, messageIdCounter>>

(* subscribe(channel, subscriptionId, connectionId).  With a null id the    *)
(* put after subscribers.add throws, so only the first half takes effect.   *)
Subscribe(channel, id, c) ==
  LET topics == PutIfAbsent(topicSubscribers, channel, {})
      subscriptions == PutIfAbsent(channelSubscriptions, channel, EmptyMap)
      isNew == c \notin topics[channel]
  IN  /\ topicSubscribers' = [topics EXCEPT ![channel] = @ \cup {c}]
      /\ channelSubscriptions' =
           IF isNew /\ id # NoId
             THEN [subscriptions EXCEPT ![channel] = Put(@, c, id)]
             ELSE subscriptions
      /\ UNCHANGED <<clientHandlers, messageIdCounter>>

(* The channels on which some connection, the caller or another one, has    *)
(* this subscription id: subscriptions.containsValue(subscriptionId).       *)
ChannelsWith(id) ==
  {channel \in DOMAIN channelSubscriptions :
     id \in Values(channelSubscriptions[channel])}

(* A mutation of unsubscribe: the set of subscribers is left as it was. *)
MutUnsubscribeHalf(c, id) ==
  /\ channelSubscriptions' =
       [channel \in DOMAIN channelSubscriptions |->
          RemoveValue(channelSubscriptions[channel], id)]
  /\ UNCHANGED <<topicSubscribers, clientHandlers, messageIdCounter>>

(* unsubscribe(connectionId, subscriptionId): on each such channel every    *)
(* entry with the id goes, and the caller leaves the set of subscribers.    *)
Unsubscribe(c, id) ==
  /\ channelSubscriptions' =
       [channel \in DOMAIN channelSubscriptions |->
          RemoveValue(channelSubscriptions[channel], id)]
  /\ topicSubscribers' =
       [channel \in DOMAIN topicSubscribers |->
          IF channel \in ChannelsWith(id)
            THEN topicSubscribers[channel] \ {c}
            ELSE topicSubscribers[channel]]
  /\ UNCHANGED <<clientHandlers, messageIdCounter>>

(* The channels disconnect finds without subscriptions once those of c are  *)
(* removed.                                                                 *)
EmptiedBy(c) ==
  {channel \in DOMAIN channelSubscriptions :
     DOMAIN channelSubscriptions[channel] \subseteq {c}}

(* A mutation of disconnect: the handler stays registered. *)
MutDisconnectKeepsHandler(c) ==
  /\ channelSubscriptions' =
       [channel \in DOMAIN channelSubscriptions \ EmptiedBy(c) |->
          RemoveKeys(channelSubscriptions[channel], {c})]
  /\ topicSubscribers' = RemoveKeys(topicSubscribers, EmptiedBy(c))
  /\ DisconnectUser(c)
  /\ UNCHANGED <<clientHandlers, messageIdCounter>>

(* A mutation of disconnect: emptied channels are dropped from one map. *)
MutDisconnectOneMap(c) ==
  /\ channelSubscriptions' =
       [channel \in DOMAIN channelSubscriptions \ EmptiedBy(c) |->
          RemoveKeys(channelSubscriptions[channel], {c})]
  /\ clientHandlers' = clientHandlers \ {c}
  /\ DisconnectUser(c)
  /\ UNCHANGED <<topicSubscribers, messageIdCounter>>

(* disconnect(connectionId).  It does not take c out of the subscribers of   *)
(* the channels that keep a subscription.                                   *)
Disconnect(c) ==
  /\ channelSubscriptions' =
       [channel \in DOMAIN channelSubscriptions \ EmptiedBy(c) |->
          RemoveKeys(channelSubscriptions[channel], {c})]
  /\ topicSubscribers' = RemoveKeys(topicSubscribers, EmptiedBy(c))
  /\ clientHandlers' = clientHandlers \ {c}
  /\ DisconnectUser(c)
  /\ UNCHANGED messageIdCounter

-----------------------------------------------------------------------------
(* The frames send(connectionId, frame) hands to a handler, given the       *)
(* connections that have one: it returns false if there is none.            *)
Deliver(handlers, c, type) ==
  IF c \in handlers THEN {[to |-> c, type |-> type]} ELSE {}

(* The connections the loop of send(channel, msg) visits. *)
Receivers(channel) ==
  IF channel \in DOMAIN topicSubscribers THEN topicSubscribers[channel] ELSE {}

(* For each of them it generates one message id per subscription of the     *)
(* channel; each overwrites the headers of the same copy.                   *)
IdsPerCopy(channel) ==
  IF channel \in DOMAIN channelSubscriptions
    THEN Cardinality(DOMAIN channelSubscriptions[channel])
    ELSE 0

IdsUsed(channel) == Cardinality(Receivers(channel)) * IdsPerCopy(channel)

(* The subscription header a copy can end up with: that of the entry that   *)
(* values() yields last, or none when the channel has no subscriptions.     *)
LastHeader(channel) ==
  IF IdsPerCopy(channel) = 0 THEN {NoId} ELSE Values(channelSubscriptions[channel])

(* The message-id header of the copy made n-th; 0 stands for no header, so  *)
(* the id i is represented by i + 1.                                        *)
MutCopyIdShared(channel, n) == messageIdCounter + IdsPerCopy(channel)

CopyId(channel, n) ==
  IF IdsPerCopy(channel) = 0 THEN 0 ELSE messageIdCounter + n * IdsPerCopy(channel)

(* The sets of MESSAGE frames that send(channel, msg) may hand to handlers, *)
(* one for each order of the receivers and each last subscription.          *)
Broadcasts(channel) ==
  {{[to |-> c, type |-> "MESSAGE", channel |-> channel,
     subscription |-> header, id |-> CopyId(channel, visit[c])] :
       c \in Receivers(channel) \cap clientHandlers} :
     visit \in Injection(Receivers(channel), 1 .. Cardinality(Receivers(channel))),
     header \in LastHeader(channel)}

=============================================================================
