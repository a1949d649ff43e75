---------------------------- MODULE BrokerProofs ----------------------------
(***************************************************************************)
(* Theorems about Broker, for every set of connections, channels, ids and  *)
(* accounts.                                                               *)
(***************************************************************************)
EXTENDS Broker, FiniteSetTheorems, TLAPS

-----------------------------------------------------------------------------
(* Maps and accounts *)

(* A function on a set of keys is one of the maps. *)
LEMMA MapIntro ==
  ASSUME NEW K, NEW V, NEW D \in SUBSET K, NEW f \in [D -> V]
  PROVE  f \in MapsOf(K, V)
BY DEF MapsOf

(* A map is a function from its keys, which are in K, to V. *)
LEMMA MapElim ==
  ASSUME NEW K, NEW V, NEW m \in MapsOf(K, V)
  PROVE  DOMAIN m \subseteq K /\ m \in [DOMAIN m -> V]
BY DEF MapsOf

(* The empty map is a map. *)
LEMMA EmptyMapType ==
  ASSUME NEW K, NEW V
  PROVE  EmptyMap \in MapsOf(K, V) /\ DOMAIN EmptyMap = {}
<1>1. EmptyMap \in [{} -> V] /\ DOMAIN EmptyMap = {}
  BY DEF EmptyMap
<1> QED BY <1>1, MapIntro

(* put adds one key and leaves the values of the others. *)
LEMMA PutType ==
  ASSUME NEW K, NEW V, NEW m \in MapsOf(K, V), NEW k \in K, NEW v \in V
  PROVE  /\ Put(m, k, v) \in MapsOf(K, V)
         /\ DOMAIN Put(m, k, v) = DOMAIN m \cup {k}
         /\ Put(m, k, v)[k] = v
         /\ \A x \in DOMAIN m : x # k => Put(m, k, v)[x] = m[x]
<1>1. DOMAIN m \subseteq K /\ m \in [DOMAIN m -> V]
  BY MapElim
<1>2. Put(m, k, v) \in [DOMAIN m \cup {k} -> V]
  BY <1>1 DEF Put
<1>3. DOMAIN m \cup {k} \in SUBSET K
  BY <1>1
<1> QED BY <1>2, <1>3, MapIntro DEF Put

(* putIfAbsent keeps every key and value and makes k a key. *)
LEMMA PutIfAbsentType ==
  ASSUME NEW K, NEW V, NEW m \in MapsOf(K, V), NEW k \in K, NEW v \in V
  PROVE  /\ PutIfAbsent(m, k, v) \in MapsOf(K, V)
         /\ DOMAIN PutIfAbsent(m, k, v) = DOMAIN m \cup {k}
         /\ \A x \in DOMAIN m : PutIfAbsent(m, k, v)[x] = m[x]
         /\ k \notin DOMAIN m => PutIfAbsent(m, k, v)[k] = v
<1>1. CASE k \in DOMAIN m
  BY <1>1 DEF PutIfAbsent
<1>2. CASE k \notin DOMAIN m
  BY <1>2, PutType DEF PutIfAbsent
<1> QED BY <1>1, <1>2

(* Removing keys leaves the values of the other keys. *)
LEMMA RemoveKeysType ==
  ASSUME NEW K, NEW V, NEW m \in MapsOf(K, V), NEW keys
  PROVE  /\ RemoveKeys(m, keys) \in MapsOf(K, V)
         /\ DOMAIN RemoveKeys(m, keys) = DOMAIN m \ keys
         /\ \A x \in DOMAIN m \ keys : RemoveKeys(m, keys)[x] = m[x]
<1>1. DOMAIN m \subseteq K /\ m \in [DOMAIN m -> V]
  BY MapElim
<1>2. RemoveKeys(m, keys) \in [DOMAIN m \ keys -> V] /\ DOMAIN m \ keys \in SUBSET K
  BY <1>1 DEF RemoveKeys
<1> QED BY <1>2, MapIntro DEF RemoveKeys

(* Removing a value leaves the entries with another value. *)
LEMMA RemoveValueType ==
  ASSUME NEW K, NEW V, NEW m \in MapsOf(K, V), NEW v
  PROVE  /\ RemoveValue(m, v) \in MapsOf(K, V)
         /\ DOMAIN RemoveValue(m, v) = {x \in DOMAIN m : m[x] # v}
         /\ \A x \in DOMAIN m : m[x] # v => RemoveValue(m, v)[x] = m[x]
<1>1. DOMAIN m \subseteq K /\ m \in [DOMAIN m -> V]
  BY MapElim
<1> DEFINE D == {x \in DOMAIN m : m[x] # v}
<1>2. RemoveValue(m, v) \in [D -> V] /\ D \in SUBSET K
  BY <1>1 DEF RemoveValue
<1> QED BY <1>2, MapIntro DEF RemoveValue

(* The values of a map are in V. *)
LEMMA ValuesType ==
  ASSUME NEW K, NEW V, NEW m \in MapsOf(K, V)
  PROVE  Values(m) \subseteq V
<1>1. m \in [DOMAIN m -> V]
  BY MapElim
<1> QED BY <1>1 DEF Values

(* disconnectUser only changes whether a user is connected. *)
LEMMA DisconnectUserKeeps ==
  ASSUME StorageTypeOK, NEW c \in Conn, DisconnectUser(c)
  PROVE  /\ StorageTypeOK'
         /\ DOMAIN users' = DOMAIN users
         /\ \A login \in DOMAIN users :
              /\ users'[login].connectionId = users[login].connectionId
              /\ users'[login].password = users[login].password
              /\ users[login].connectionId # c =>
                   users'[login].connected = users[login].connected
<1>1. users \in [DOMAIN users -> User] /\ DOMAIN users \subseteq Login
  BY MapElim DEF StorageTypeOK
<1>2. CASE UNCHANGED users
  BY <1>2 DEF StorageTypeOK
<1>3. ASSUME NEW login \in UsersOf(users, c),
             users' = [users EXCEPT ![login].connected = FALSE]
      PROVE  /\ users' \in [DOMAIN users -> User]
             /\ \A l \in DOMAIN users :
                  /\ users'[l].connectionId = users[l].connectionId
                  /\ users'[l].password = users[l].password
                  /\ users[l].connectionId # c => users'[l].connected = users[l].connected
  BY <1>1, <1>3 DEF UsersOf, User
<1> QED BY <1>1, <1>2, <1>3, MapIntro DEF DisconnectUser, StorageTypeOK

-----------------------------------------------------------------------------

(* The invariant behind the theorems on types and keys. *)
Inv == TypeOK /\ KeysAgree

-----------------------------------------------------------------------------
(* The number of receivers and of subscriptions of a channel is a number. *)
LEMMA CountsAreNumbers ==
  ASSUME RegistryTypeOK, NEW channel
  PROVE  /\ Receivers(channel) \subseteq Conn
         /\ Cardinality(Receivers(channel)) \in Nat
         /\ IdsPerCopy(channel) \in Nat
         /\ IdsUsed(channel) \in Nat
<1>1. Receivers(channel) \subseteq Conn
  BY MapElim DEF RegistryTypeOK, Receivers
<1>2. Cardinality(Receivers(channel)) \in Nat
  BY <1>1, BrokerAssumption, FS_Subset, FS_CardinalityType
<1>3. IdsPerCopy(channel) \in Nat
  <2>1. CASE channel \in DOMAIN channelSubscriptions
    <3>1. channelSubscriptions[channel] \in MapsOf(Conn, SubId)
      BY <2>1, MapElim DEF RegistryTypeOK
    <3>2. DOMAIN channelSubscriptions[channel] \subseteq Conn
      BY <3>1, MapElim
    <3> QED BY <2>1, <3>2, BrokerAssumption, FS_Subset, FS_CardinalityType DEF IdsPerCopy
  <2>2. CASE channel \notin DOMAIN channelSubscriptions
    BY <2>2 DEF IdsPerCopy
  <2> QED BY <2>1, <2>2
<1>4. IdsUsed(channel) \in Nat
  BY <1>2, <1>3 DEF IdsUsed
<1> QED BY <1>1, <1>2, <1>3, <1>4

(* subscribe keeps the types of the two maps and gives both the channel.    *)
LEMMA SubscribeKeeps ==
  ASSUME RegistryTypeOK, KeysAgree,
         NEW channel \in Destination, NEW id \in SubId \cup {NoId}, NEW c \in Conn,
         Subscribe(channel, id, c)
  PROVE  RegistryTypeOK' /\ KeysAgree'
<1> DEFINE topics == PutIfAbsent(topicSubscribers, channel, {})
           subs == PutIfAbsent(channelSubscriptions, channel, EmptyMap)
<1>1. /\ topics \in MapsOf(Destination, SUBSET Conn)
      /\ DOMAIN topics = DOMAIN topicSubscribers \cup {channel}
  <2>1. topicSubscribers \in MapsOf(Destination, SUBSET Conn) /\ {} \in SUBSET Conn
    BY DEF RegistryTypeOK
  <2> QED BY <2>1, PutIfAbsentType
<1>2. /\ subs \in MapsOf(Destination, MapsOf(Conn, SubId))
      /\ DOMAIN subs = DOMAIN channelSubscriptions \cup {channel}
  <2>1. EmptyMap \in MapsOf(Conn, SubId)
    BY EmptyMapType
  <2>2. channelSubscriptions \in MapsOf(Destination, MapsOf(Conn, SubId))
    BY DEF RegistryTypeOK
  <2> QED BY <2>1, <2>2, PutIfAbsentType
<1>3. topicSubscribers' = [topics EXCEPT ![channel] = @ \cup {c}]
  BY DEF Subscribe
<1>4. /\ topicSubscribers' \in MapsOf(Destination, SUBSET Conn)
      /\ DOMAIN topicSubscribers' = DOMAIN topics
  <2> HIDE DEF topics
  <2>1. topics \in [DOMAIN topics -> SUBSET Conn] /\ DOMAIN topics \subseteq Destination
    BY <1>1, MapElim
  <2>2. topicSubscribers' \in [DOMAIN topics -> SUBSET Conn]
    BY <1>3, <2>1
  <2> QED BY <2>1, <2>2, MapIntro
<1>5. \/ channelSubscriptions' = subs
      \/ id \in SubId /\ channelSubscriptions' = [subs EXCEPT ![channel] = Put(@, c, id)]
  BY DEF Subscribe
<1>6. /\ channelSubscriptions' \in MapsOf(Destination, MapsOf(Conn, SubId))
      /\ DOMAIN channelSubscriptions' = DOMAIN subs
  <2> HIDE DEF subs
  <2>1. /\ subs \in [DOMAIN subs -> MapsOf(Conn, SubId)]
        /\ DOMAIN subs \subseteq Destination
        /\ channel \in DOMAIN subs
    BY <1>2, MapElim
  <2>2. id \in SubId => Put(subs[channel], c, id) \in MapsOf(Conn, SubId)
    BY <2>1, PutType
  <2>3. channelSubscriptions' \in [DOMAIN subs -> MapsOf(Conn, SubId)]
    BY <1>5, <2>1, <2>2
  <2> QED BY <2>1, <2>3, MapIntro
<1>7. UNCHANGED <<clientHandlers, messageIdCounter>>
  BY DEF Subscribe
<1> QED BY <1>1, <1>2, <1>4, <1>6, <1>7 DEF RegistryTypeOK, KeysAgree

(* unsubscribe changes the values of the two maps and none of their keys. *)
LEMMA UnsubscribeKeeps ==
  ASSUME RegistryTypeOK, KeysAgree, NEW c \in Conn, NEW id, Unsubscribe(c, id)
  PROVE  RegistryTypeOK' /\ KeysAgree'
<1>1. /\ topicSubscribers \in [DOMAIN topicSubscribers -> SUBSET Conn]
      /\ DOMAIN topicSubscribers \subseteq Destination
      /\ channelSubscriptions \in [DOMAIN channelSubscriptions -> MapsOf(Conn, SubId)]
      /\ DOMAIN channelSubscriptions \subseteq Destination
  BY MapElim DEF RegistryTypeOK
<1>2. \A channel \in DOMAIN channelSubscriptions :
        RemoveValue(channelSubscriptions[channel], id) \in MapsOf(Conn, SubId)
  BY <1>1, RemoveValueType
<1>3. /\ channelSubscriptions' \in [DOMAIN channelSubscriptions -> MapsOf(Conn, SubId)]
      /\ topicSubscribers' \in [DOMAIN topicSubscribers -> SUBSET Conn]
      /\ UNCHANGED <<clientHandlers, messageIdCounter>>
  BY <1>1, <1>2 DEF Unsubscribe
<1> QED BY <1>1, <1>3, MapIntro DEF RegistryTypeOK, KeysAgree

(* disconnect drops the same channels from both maps. *)
LEMMA DisconnectKeeps ==
  ASSUME StorageTypeOK, RegistryTypeOK, KeysAgree, NEW c \in Conn, Disconnect(c)
  PROVE  StorageTypeOK' /\ RegistryTypeOK' /\ KeysAgree'
<1>1. /\ channelSubscriptions \in [DOMAIN channelSubscriptions -> MapsOf(Conn, SubId)]
      /\ DOMAIN channelSubscriptions \subseteq Destination
  BY MapElim DEF RegistryTypeOK
<1>2. \A channel \in DOMAIN channelSubscriptions :
        RemoveKeys(channelSubscriptions[channel], {c}) \in MapsOf(Conn, SubId)
  BY <1>1, RemoveKeysType
<1>3. channelSubscriptions' \in
        [DOMAIN channelSubscriptions \ EmptiedBy(c) -> MapsOf(Conn, SubId)]
  BY <1>2 DEF Disconnect
<1>4. channelSubscriptions' \in MapsOf(Destination, MapsOf(Conn, SubId))
  BY <1>1, <1>3, MapIntro
<1>5. /\ topicSubscribers' \in MapsOf(Destination, SUBSET Conn)
      /\ DOMAIN topicSubscribers' = DOMAIN topicSubscribers \ EmptiedBy(c)
  <2>1. /\ topicSubscribers \in [DOMAIN topicSubscribers -> SUBSET Conn]
        /\ DOMAIN topicSubscribers \subseteq Destination
    BY MapElim DEF RegistryTypeOK
  <2>2. topicSubscribers' = RemoveKeys(topicSubscribers, EmptiedBy(c))
    BY DEF Disconnect
  <2>3. topicSubscribers' \in [DOMAIN topicSubscribers \ EmptiedBy(c) -> SUBSET Conn]
    BY <2>1, <2>2 DEF RemoveKeys
  <2> QED BY <2>1, <2>3, MapIntro
<1>6. StorageTypeOK'
  BY DisconnectUserKeeps DEF Disconnect
<1> QED BY <1>3, <1>4, <1>5, <1>6 DEF RegistryTypeOK, KeysAgree, Disconnect

(* Logging in keeps the accounts well typed and puts the user online. *)
LEMMA LogInKeeps ==
  ASSUME StorageTypeOK, NEW login \in Login, NEW pass \in Passcode, NEW c \in Conn,
         users' = LogIn(login, pass, c)
  PROVE  /\ StorageTypeOK'
         /\ DOMAIN users' = DOMAIN users \cup {login}
         /\ users'[login].connected /\ users'[login].connectionId = c
         /\ \A l \in DOMAIN users : l # login => users'[l] = users[l]
<1> DEFINE added == AddUser(users, login, pass)
<1>1. NewUser(pass) \in User
  BY DEF NewUser, User
<1>2. /\ added \in MapsOf(Login, User)
      /\ DOMAIN added = DOMAIN users \cup {login}
      /\ \A l \in DOMAIN users : added[l] = users[l]
  BY <1>1, PutIfAbsentType DEF AddUser, StorageTypeOK
<1> HIDE DEF added
<1>3. users' = [added EXCEPT ![login].connected = TRUE, ![login].connectionId = c]
  <2>1. login \in DOMAIN added
    BY <1>2
  <2> QED BY <2>1 DEF LogIn, ConnectUser, added
<1>4. added \in [DOMAIN added -> User] /\ DOMAIN added \subseteq Login
  BY <1>2, MapElim
<1>5. /\ users' \in [DOMAIN added -> User]
      /\ users'[login].connected /\ users'[login].connectionId = c
      /\ \A l \in DOMAIN added : l # login => users'[l] = added[l]
  <2>1. login \in DOMAIN added /\ added[login] \in User
    BY <1>2, <1>4
  <2>2. \A l \in DOMAIN added : l # login => users'[l] = added[l]
    BY <1>3
  <2>3. users'[login] = [password |-> added[login].password, connected |-> TRUE,
                         connectionId |-> c]
    BY <1>3, <2>1 DEF User
  <2>4. DOMAIN users' = DOMAIN added /\ users' = [l \in DOMAIN added |-> users'[l]]
    BY <1>3
  <2>5. users'[login] \in User
    BY <2>1, <2>3 DEF User
  <2>6. \A l \in DOMAIN added : users'[l] \in User
    BY <1>4, <2>2, <2>5
  <2>7. users'[login].connected /\ users'[login].connectionId = c
    BY <2>3
  <2> QED BY <2>2, <2>4, <2>6, <2>7
<1>6. users' \in MapsOf(Login, User)
  BY <1>4, <1>5, MapIntro
<1>7. DOMAIN users' = DOMAIN users \cup {login}
  BY <1>2, <1>5
<1>8. \A l \in DOMAIN users : l # login => users'[l] = users[l]
  BY <1>2, <1>5
<1> QED BY <1>5, <1>6, <1>7, <1>8 DEF StorageTypeOK

-----------------------------------------------------------------------------
(* The copies of a broadcast are messages on its channel, handed to           *)
(* connections with a handler.                                              *)
LEMMA BroadcastType ==
  ASSUME RegistryTypeOK, NEW channel \in Destination,
         NEW messages \in Broadcasts(channel)
  PROVE  messages \subseteq Message
<1>1. /\ Receivers(channel) \subseteq Conn
      /\ Cardinality(Receivers(channel)) \in Nat
      /\ IdsPerCopy(channel) \in Nat
  BY CountsAreNumbers
<1>2. PICK visit \in Injection(Receivers(channel), 1 .. Cardinality(Receivers(channel))),
           header \in LastHeader(channel) :
        messages = {[to |-> c, type |-> "MESSAGE", channel |-> channel,
                     subscription |-> header, id |-> CopyId(channel, visit[c])] :
                      c \in Receivers(channel) \cap clientHandlers}
  BY DEF Broadcasts
<1>3. header \in SubId \cup {NoId}
  <2>1. CASE IdsPerCopy(channel) = 0
    BY <2>1, <1>2 DEF LastHeader
  <2>2. CASE IdsPerCopy(channel) # 0
    <3>1. channel \in DOMAIN channelSubscriptions
      BY <2>2 DEF IdsPerCopy
    <3>2. channelSubscriptions[channel] \in MapsOf(Conn, SubId)
      BY <3>1, MapElim DEF RegistryTypeOK
    <3>3. Values(channelSubscriptions[channel]) \subseteq SubId
      BY <3>2, ValuesType
    <3> QED BY <1>2, <2>2, <3>3 DEF LastHeader
  <2> QED BY <2>1, <2>2
<1>4. visit \in [Receivers(channel) -> 1 .. Cardinality(Receivers(channel))]
  BY <1>2 DEF Injection
<1>5. \A c \in Receivers(channel) : CopyId(channel, visit[c]) \in Nat
  <2> TAKE c \in Receivers(channel)
  <2>1. visit[c] \in Nat
    BY <1>1, <1>4
  <2>2. messageIdCounter \in Nat
    BY DEF RegistryTypeOK
  <2> QED BY <1>1, <2>1, <2>2 DEF CopyId
<1> QED BY <1>1, <1>2, <1>3, <1>5 DEF Message

(* The answers are well typed. *)
LEMMA AnswerType ==
  ASSUME NEW handlers, NEW c \in Conn, NEW receipt \in BOOLEAN
  PROVE  /\ Deliver(handlers, c, "CONNECTED") \subseteq Response
         /\ Deliver(handlers, c, "ERROR") \subseteq Response
         /\ Receipt(handlers, c, receipt) \subseteq Response
BY DEF Deliver, Receipt, Response

(* A refused frame. *)
LEMMA RefuseKeeps ==
  ASSUME Inv, NEW c \in Conn, NEW receipt \in BOOLEAN, Refuse(c, receipt)
  PROVE  Inv'
<1>1. StorageTypeOK' /\ RegistryTypeOK' /\ KeysAgree'
  BY DisconnectKeeps DEF Inv, TypeOK, Refuse
<1>2. sent' \subseteq Response \cup Message
  BY AnswerType DEF Refuse
<1>3. failed' \subseteq Conn
  BY DEF Refuse, Inv, TypeOK
<1>4. UNCHANGED <<status, shouldTerminate, sessions>>
  BY DEF Refuse
<1> QED BY <1>1, <1>2, <1>3, <1>4 DEF Inv, TypeOK

(* What a step leaves of the invariant if it leaves the maps and accounts.  *)
LEMMA ThrowKeeps ==
  ASSUME Inv, NEW c \in Conn, Throw(c)
  PROVE  /\ status' \in [Conn -> {"none", "open", "closed"}]
         /\ sent' \subseteq Response \cup Message
         /\ UNCHANGED <<shouldTerminate, failed, sessions>>
BY DEF Throw, Inv, TypeOK

LEMMA ConfirmKeeps ==
  ASSUME Inv, NEW c \in Conn, NEW receipt \in BOOLEAN, Confirm(c, receipt)
  PROVE  /\ sent' \subseteq Response \cup Message
         /\ UNCHANGED <<status, shouldTerminate, failed, sessions>>
BY AnswerType DEF Confirm

-----------------------------------------------------------------------------
(* A frame keeps the invariant. *)
LEMMA ProcessKeeps ==
  ASSUME Inv, NEW c \in Conn, Process(c)
  PROVE  Inv'
<1> USE DEF Inv
<1>0. PICK receipt \in BOOLEAN :
        \/ ProcessIncomplete(c, receipt)
        \/ \E login \in Login, pass \in Passcode : ProcessConnect(c, login, pass, receipt)
        \/ \E channel \in Destination, id \in IdsOf[c] :
             ProcessSubscribe(c, channel, id, receipt)
        \/ \E id \in IdsOf[c] : ProcessUnsubscribe(c, id, receipt)
        \/ \E destination \in Destination : ProcessSend(c, destination, receipt)
        \/ ProcessDisconnect(c, receipt)
  BY DEF Process
<1>1. CASE ProcessIncomplete(c, receipt)
  BY <1>1, RefuseKeeps DEF ProcessIncomplete
<1>2. ASSUME NEW login \in Login, NEW pass \in Passcode,
             ProcessConnect(c, login, pass, receipt)
      PROVE  Inv'
  <2>1. CASE Refuse(c, receipt)
    BY <2>1, RefuseKeeps
  <2>2. CASE /\ users' = LogIn(login, pass, c)
             /\ sessions' = [sessions EXCEPT ![c] = @ \cup {login}]
             /\ sent' = Deliver(clientHandlers, c, "CONNECTED")
                          \cup Receipt(clientHandlers, c, receipt)
             /\ UNCHANGED <<registryVars, status, shouldTerminate, failed>>
    <3>1. StorageTypeOK'
      BY <2>2, LogInKeeps DEF TypeOK
    <3>2. sessions' \in [Conn -> SUBSET Login]
      BY <2>2 DEF TypeOK
    <3>3. sent' \subseteq Response \cup Message
      BY <2>2, AnswerType
    <3> QED BY <2>2, <3>1, <3>2, <3>3 DEF TypeOK, RegistryTypeOK, registryVars, KeysAgree
  <2> QED BY <1>2, <2>1, <2>2 DEF ProcessConnect
<1>3. ASSUME NEW channel \in Destination, NEW id \in IdsOf[c],
             ProcessSubscribe(c, channel, id, receipt)
      PROVE  Inv'
  <2>1. CASE Refuse(c, receipt)
    BY <2>1, RefuseKeeps
  <2>2. CASE Subscribe(channel, id, c)
             /\ (IF id = NoId THEN Throw(c) ELSE Confirm(c, receipt))
             /\ UNCHANGED users
    <3>1. id \in SubId \cup {NoId}
      BY BrokerAssumption
    <3>2. RegistryTypeOK' /\ KeysAgree'
      BY <2>2, <3>1, SubscribeKeeps DEF TypeOK
    <3> QED BY <2>2, <3>2, ThrowKeeps, ConfirmKeeps DEF TypeOK, StorageTypeOK
  <2> QED BY <1>3, <2>1, <2>2 DEF ProcessSubscribe
<1>4. ASSUME NEW id \in IdsOf[c], ProcessUnsubscribe(c, id, receipt)
      PROVE  Inv'
  <2>1. CASE Refuse(c, receipt)
    BY <2>1, RefuseKeeps
  <2>2. CASE Unsubscribe(c, id) /\ Confirm(c, receipt) /\ UNCHANGED users
    <3>1. RegistryTypeOK' /\ KeysAgree'
      BY <2>2, UnsubscribeKeeps DEF TypeOK
    <3> QED BY <2>2, <3>1, ConfirmKeeps DEF TypeOK, StorageTypeOK
  <2> QED BY <1>4, <2>1, <2>2 DEF ProcessUnsubscribe
<1>5. ASSUME NEW destination \in Destination, ProcessSend(c, destination, receipt)
      PROVE  Inv'
  <2> DEFINE channel == Stripped[destination]
  <2>1. channel \in Destination
    BY BrokerAssumption
  <2>2. messageIdCounter' \in Nat
    BY <1>5, CountsAreNumbers DEF ProcessSend, TypeOK, RegistryTypeOK
  <2>3. sent' \subseteq Response \cup Message
    <3>1. PICK messages \in Broadcasts(channel) :
            sent' = messages \cup Receipt(clientHandlers, c, receipt)
      BY <1>5 DEF ProcessSend
    <3>2. messages \subseteq Message
      BY <2>1, BroadcastType DEF TypeOK
    <3> QED BY <3>1, <3>2, AnswerType
  <2> QED BY <1>5, <2>2, <2>3
          DEF ProcessSend, TypeOK, StorageTypeOK, RegistryTypeOK, KeysAgree
<1>6. CASE ProcessDisconnect(c, receipt)
  <2>1. StorageTypeOK' /\ RegistryTypeOK' /\ KeysAgree'
    BY <1>6, DisconnectKeeps DEF ProcessDisconnect, TypeOK
  <2>2. sent' \subseteq Response \cup Message
    BY <1>6, AnswerType DEF ProcessDisconnect
  <2> QED BY <1>6, <2>1, <2>2 DEF ProcessDisconnect, TypeOK
<1> QED BY <1>0, <1>1, <1>2, <1>3, <1>4, <1>5, <1>6

LEMMA InitInv == Init => Inv
<1> SUFFICES ASSUME Init PROVE Inv
  OBVIOUS
<1>1. users \in MapsOf(Login, User)
  BY EmptyMapType DEF Init, StorageInit
<1>2. /\ topicSubscribers \in MapsOf(Destination, SUBSET Conn)
      /\ channelSubscriptions \in MapsOf(Destination, MapsOf(Conn, SubId))
      /\ topicSubscribers = channelSubscriptions
  BY EmptyMapType DEF Init, RegistryInit
<1> QED BY <1>1, <1>2
        DEF Init, RegistryInit, Inv, TypeOK, StorageTypeOK, RegistryTypeOK, KeysAgree

(* Every step keeps the invariant. *)
LEMMA NextInv == Inv /\ [Next]_vars => Inv'
<1> SUFFICES ASSUME Inv, [Next]_vars PROVE Inv'
  OBVIOUS
<1>1. ASSUME NEW c \in Conn, Accept(c)
      PROVE  Inv'
  BY <1>1 DEF Accept, AddConnection, Inv, TypeOK, StorageTypeOK, RegistryTypeOK, KeysAgree
<1>2. ASSUME NEW c \in Conn, Close(c)
      PROVE  Inv'
  BY <1>2 DEF Close, registryVars, Inv, TypeOK, StorageTypeOK, RegistryTypeOK, KeysAgree
<1>3. ASSUME NEW c \in Conn, Malformed(c)
      PROVE  Inv'
  BY <1>3, ThrowKeeps
     DEF Malformed, registryVars, Inv, TypeOK, StorageTypeOK, RegistryTypeOK, KeysAgree
<1>4. ASSUME NEW c \in Conn, Process(c)
      PROVE  Inv'
  BY <1>4, ProcessKeeps
<1>5. CASE UNCHANGED vars
  BY <1>5 DEF vars, registryVars, Inv, TypeOK, StorageTypeOK, RegistryTypeOK, KeysAgree
<1> QED BY <1>1, <1>2, <1>3, <1>4, <1>5 DEF Next

LEMMA InvAlways == Spec => []Inv
BY InitInv, NextInv, PTL DEF Spec

(* Whatever frames the clients send, the accounts, the maps and the frames  *)
(* handed to the handlers have their types.                                 *)
THEOREM TypeCorrect == Spec => []TypeOK
<1>1. Inv => TypeOK
  BY DEF Inv
<1> QED BY <1>1, InvAlways, PTL

(* The two maps of ConnectionsImpl always have the same channels.           *)
THEOREM KeysAlwaysAgree == Spec => []KeysAgree
<1>1. Inv => KeysAgree
  BY DEF Inv
<1> QED BY <1>1, InvAlways, PTL

-----------------------------------------------------------------------------
(* Who is logged in, and who is still sent frames *)

(* A connection that is not accepted yet has left no trace, and one that    *)
(* was handed an ERROR has no handler.                                      *)
Lifecycle ==
  /\ \A c \in Conn : status[c] = "none" =>
       /\ c \notin clientHandlers
       /\ c \notin failed
       /\ ~shouldTerminate[c]
       /\ sessions[c] = {}
  /\ failed \cap clientHandlers = {}

SessionInv == Lifecycle /\ SessionsExclusive

-----------------------------------------------------------------------------
(* disconnect of c leaves the sessions of the connections that stay. *)
LEMMA DisconnectKeepsSessions ==
  ASSUME Inv, SessionsExclusive, NEW c \in Conn, Disconnect(c), UNCHANGED sessions
  PROVE  SessionsExclusive'
<1>1. DisconnectUser(c) /\ clientHandlers' = clientHandlers \ {c}
  BY DEF Disconnect
<1>2. /\ DOMAIN users' = DOMAIN users
      /\ \A login \in DOMAIN users :
           /\ users'[login].connectionId = users[login].connectionId
           /\ users[login].connectionId # c =>
                users'[login].connected = users[login].connected
  BY <1>1, DisconnectUserKeeps DEF Inv, TypeOK
<1> QED BY <1>1, <1>2 DEF SessionsExclusive

(* A frame that is answered with ERROR. *)
LEMMA RefuseKeepsSessions ==
  ASSUME Inv, SessionInv, NEW c \in Conn, NEW receipt, Refuse(c, receipt), Serving(c)
  PROVE  SessionInv'
<1>1. SessionsExclusive'
  BY DisconnectKeepsSessions DEF SessionInv, Refuse
<1>2. status[c] # "none"
  BY DEF Serving
<1>3. /\ clientHandlers' = clientHandlers \ {c}
      /\ failed' \subseteq failed \cup {c}
      /\ UNCHANGED <<status, shouldTerminate, sessions>>
  BY DEF Refuse, Disconnect
<1>4. Lifecycle'
  BY <1>2, <1>3 DEF SessionInv, Lifecycle
<1> QED BY <1>1, <1>4 DEF SessionInv

(* A CONNECT that is accepted takes no account from a registered connection.*)
LEMMA LogInKeepsSessions ==
  ASSUME Inv, SessionInv, NEW c \in Conn, NEW login \in Login, NEW pass \in Passcode,
         Serving(c), MayLogIn(login, pass), users' = LogIn(login, pass, c),
         sessions' = [sessions EXCEPT ![c] = @ \cup {login}],
         UNCHANGED <<registryVars, status, shouldTerminate, failed>>
  PROVE  SessionInv'
<1>1. /\ DOMAIN users' = DOMAIN users \cup {login}
      /\ users'[login].connected /\ users'[login].connectionId = c
      /\ \A l \in DOMAIN users : l # login => users'[l] = users[l]
  BY LogInKeeps DEF Inv, TypeOK
<1>2. sessions \in [Conn -> SUBSET Login] /\ clientHandlers \subseteq Conn
  BY DEF Inv, TypeOK, RegistryTypeOK
<1>3. ASSUME NEW d \in clientHandlers, NEW l \in sessions'[d]
      PROVE  l \in DOMAIN users' /\ users'[l].connected /\ users'[l].connectionId = d
  <2>1. CASE l \in sessions[d]
    <3>1. l \in DOMAIN users /\ users[l].connected /\ users[l].connectionId = d
      BY <2>1 DEF SessionInv, SessionsExclusive
    <3>2. l # login
      BY <3>1 DEF MayLogIn
    <3> QED BY <1>1, <3>1, <3>2
  <2>2. CASE l \notin sessions[d]
    <3>1. d = c /\ l = login
      BY <1>2, <2>2
    <3> QED BY <1>1, <3>1
  <2> QED BY <2>1, <2>2
<1>4. SessionsExclusive'
  BY <1>3 DEF SessionsExclusive, registryVars
<1>5. Lifecycle'
  BY <1>2 DEF Lifecycle, SessionInv, Serving, registryVars
<1> QED BY <1>4, <1>5 DEF SessionInv

(* Frames that change neither the handlers nor the accounts. *)
LEMMA OthersKeepSessions ==
  ASSUME SessionInv, NEW c \in Conn, status[c] # "none",
         UNCHANGED <<clientHandlers, users, shouldTerminate, failed, sessions>>,
         \A d \in Conn : status[d] # "none" => status'[d] # "none"
  PROVE  SessionInv'
BY DEF SessionInv, Lifecycle, SessionsExclusive

LEMMA ProcessKeepsSessions ==
  ASSUME Inv, SessionInv, NEW c \in Conn, Process(c)
  PROVE  SessionInv'
<1>0. PICK receipt \in BOOLEAN :
        \/ ProcessIncomplete(c, receipt)
        \/ \E login \in Login, pass \in Passcode : ProcessConnect(c, login, pass, receipt)
        \/ \E channel \in Destination, id \in IdsOf[c] :
             ProcessSubscribe(c, channel, id, receipt)
        \/ \E id \in IdsOf[c] : ProcessUnsubscribe(c, id, receipt)
        \/ \E destination \in Destination : ProcessSend(c, destination, receipt)
        \/ ProcessDisconnect(c, receipt)
  BY DEF Process
<1>1. CASE ProcessIncomplete(c, receipt)
  BY <1>1, RefuseKeepsSessions DEF ProcessIncomplete
<1>2. ASSUME NEW login \in Login, NEW pass \in Passcode,
             ProcessConnect(c, login, pass, receipt)
      PROVE  SessionInv'
  BY <1>2, RefuseKeepsSessions, LogInKeepsSessions DEF ProcessConnect
<1>3. ASSUME NEW channel \in Destination, NEW id \in IdsOf[c],
             ProcessSubscribe(c, channel, id, receipt)
      PROVE  SessionInv'
  <2>1. CASE Refuse(c, receipt)
    BY <1>3, <2>1, RefuseKeepsSessions DEF ProcessSubscribe
  <2>2. CASE Subscribe(channel, id, c)
             /\ (IF id = NoId THEN Throw(c) ELSE Confirm(c, receipt))
             /\ UNCHANGED users
    <3>1. status[c] # "none"
      BY <1>3 DEF ProcessSubscribe, Serving
    <3>2. \A d \in Conn : status[d] # "none" => status'[d] # "none"
      BY <2>2 DEF Throw, Confirm, Inv, TypeOK
    <3>3. UNCHANGED <<clientHandlers, users, shouldTerminate, failed, sessions>>
      BY <2>2 DEF Throw, Confirm, Subscribe
    <3> QED BY <3>1, <3>2, <3>3, OthersKeepSessions
  <2> QED BY <1>3, <2>1, <2>2 DEF ProcessSubscribe
<1>4. ASSUME NEW id \in IdsOf[c], ProcessUnsubscribe(c, id, receipt)
      PROVE  SessionInv'
  <2>1. CASE Refuse(c, receipt)
    BY <1>4, <2>1, RefuseKeepsSessions DEF ProcessUnsubscribe
  <2>2. CASE Unsubscribe(c, id) /\ Confirm(c, receipt) /\ UNCHANGED users
    <3>1. status[c] # "none"
      BY <1>4 DEF ProcessUnsubscribe, Serving
    <3>2. UNCHANGED <<clientHandlers, users, shouldTerminate, failed, sessions, status>>
      BY <2>2 DEF Confirm, Unsubscribe
    <3> QED BY <3>1, <3>2, OthersKeepSessions
  <2> QED BY <1>4, <2>1, <2>2 DEF ProcessUnsubscribe
<1>5. ASSUME NEW destination \in Destination, ProcessSend(c, destination, receipt)
      PROVE  SessionInv'
  BY <1>5, OthersKeepSessions DEF ProcessSend, Serving
<1>6. CASE ProcessDisconnect(c, receipt)
  <2>1. SessionsExclusive'
    BY <1>6, DisconnectKeepsSessions DEF ProcessDisconnect, SessionInv
  <2>2. status[c] # "none"
    BY <1>6 DEF ProcessDisconnect, Serving
  <2>3. /\ clientHandlers' = clientHandlers \ {c}
        /\ shouldTerminate' = [shouldTerminate EXCEPT ![c] = TRUE]
        /\ UNCHANGED <<status, failed, sessions>>
    BY <1>6 DEF ProcessDisconnect, Disconnect
  <2>4. Lifecycle'
    BY <2>2, <2>3 DEF SessionInv, Lifecycle, Inv, TypeOK
  <2> QED BY <2>1, <2>4 DEF SessionInv
<1> QED BY <1>0, <1>1, <1>2, <1>3, <1>4, <1>5, <1>6

LEMMA NextSessionInv == Inv /\ SessionInv /\ [Next]_vars => SessionInv'
<1> SUFFICES ASSUME Inv, SessionInv, [Next]_vars PROVE SessionInv'
  OBVIOUS
<1>1. ASSUME NEW c \in Conn, Accept(c)
      PROVE  SessionInv'
  BY <1>1 DEF Accept, AddConnection, SessionInv, Lifecycle, SessionsExclusive, Inv, TypeOK
<1>2. ASSUME NEW c \in Conn, Close(c)
      PROVE  SessionInv'
  BY <1>2, OthersKeepSessions DEF Close, registryVars, Inv, TypeOK
<1>3. ASSUME NEW c \in Conn, Malformed(c)
      PROVE  SessionInv'
  BY <1>3, OthersKeepSessions DEF Malformed, Throw, Serving, registryVars, Inv, TypeOK
<1>4. ASSUME NEW c \in Conn, Process(c)
      PROVE  SessionInv'
  BY <1>4, ProcessKeepsSessions
<1>5. CASE UNCHANGED vars
  BY <1>5 DEF vars, registryVars, SessionInv, Lifecycle, SessionsExclusive
<1> QED BY <1>1, <1>2, <1>3, <1>4, <1>5 DEF Next

LEMMA SessionInvAlways == Spec => []SessionInv
<1>1. Init => SessionInv
  BY DEF Init, RegistryInit, SessionInv, Lifecycle, SessionsExclusive
<1> QED BY <1>1, NextSessionInv, InvAlways, PTL DEF Spec

(* Two registered connections are never logged in as the same user, and the *)
(* user of a registered connection is online under its id.                  *)
THEOREM SessionsAlwaysExclusive == Spec => []SessionsExclusive
<1>1. SessionInv => SessionsExclusive
  BY DEF SessionInv
<1> QED BY <1>1, SessionInvAlways, PTL

-----------------------------------------------------------------------------
(* A frame reaches only connections with a handler. *)
LEMMA FramesReachHandlers ==
  ASSUME Inv, Next
  PROVE  \A frame \in sent' : frame.to \in clientHandlers
<1>1. \A handlers, c, type :
        \A frame \in Deliver(handlers, c, type) : frame.to \in handlers
  BY DEF Deliver
<1>2. \A handlers, c, receipt :
        \A frame \in Receipt(handlers, c, receipt) : frame.to \in handlers
  BY <1>1 DEF Receipt
<1>6. ASSUME NEW c \in Conn, NEW receipt \in BOOLEAN, Refuse(c, receipt)
      PROVE  \A frame \in sent' : frame.to \in clientHandlers
  <2>1. clientHandlers' \subseteq clientHandlers
    BY <1>6 DEF Refuse, Disconnect
  <2>2. sent' = Deliver(clientHandlers, c, "ERROR")
                  \cup Receipt(clientHandlers', c, receipt)
    BY <1>6 DEF Refuse
  <2> QED BY <1>1, <1>2, <2>1, <2>2
<1>3. PICK c \in Conn : Accept(c) \/ Close(c) \/ Malformed(c) \/ Process(c)
  BY DEF Next
<1>4. CASE Accept(c) \/ Close(c) \/ Malformed(c)
  BY <1>4 DEF Accept, Close, Malformed, Throw
<1>5. CASE Process(c)
  <2>1. PICK receipt \in BOOLEAN :
        \/ ProcessIncomplete(c, receipt)
        \/ \E login \in Login, pass \in Passcode : ProcessConnect(c, login, pass, receipt)
        \/ \E channel \in Destination, id \in IdsOf[c] :
             ProcessSubscribe(c, channel, id, receipt)
        \/ \E id \in IdsOf[c] : ProcessUnsubscribe(c, id, receipt)
        \/ \E destination \in Destination : ProcessSend(c, destination, receipt)
        \/ ProcessDisconnect(c, receipt)
    BY <1>5 DEF Process
  <2>2. CASE ProcessIncomplete(c, receipt)
    BY <1>6, <2>2 DEF ProcessIncomplete
  <2>3. CASE \E login \in Login, pass \in Passcode : ProcessConnect(c, login, pass, receipt)
    BY <1>1, <1>2, <1>6, <2>3 DEF ProcessConnect
  <2>4. CASE \E channel \in Destination, id \in IdsOf[c] :
               ProcessSubscribe(c, channel, id, receipt)
    BY <1>1, <1>2, <1>6, <2>4 DEF ProcessSubscribe, Throw, Confirm
  <2>5. CASE \E id \in IdsOf[c] : ProcessUnsubscribe(c, id, receipt)
    BY <1>1, <1>2, <1>6, <2>5 DEF ProcessUnsubscribe, Confirm
  <2>6. CASE \E destination \in Destination : ProcessSend(c, destination, receipt)
    <3>1. PICK destination \in Destination : ProcessSend(c, destination, receipt)
      BY <2>6
    <3>2. PICK messages \in Broadcasts(Stripped[destination]) :
            sent' = messages \cup Receipt(clientHandlers, c, receipt)
      BY <3>1 DEF ProcessSend
    <3>3. \A frame \in messages : frame.to \in clientHandlers
      BY DEF Broadcasts
    <3> QED BY <1>2, <3>2, <3>3
  <2>7. CASE ProcessDisconnect(c, receipt)
    BY <1>2, <2>7 DEF ProcessDisconnect
  <2> QED BY <2>1, <2>2, <2>3, <2>4, <2>5, <2>6, <2>7
<1> QED BY <1>3, <1>4, <1>5

(* No frame follows an ERROR to the same connection.                        *)
THEOREM ErrorIsLast == Spec => SilentAfterError
<1>1. Inv /\ SessionInv /\ [Next]_vars => [\A frame \in sent' : frame.to \notin failed]_vars
  BY FramesReachHandlers DEF SessionInv, Lifecycle
<1> QED BY <1>1, InvAlways, SessionInvAlways, PTL DEF Spec, SilentAfterError

-----------------------------------------------------------------------------
(* Answers that are no ERROR go to one connection. *)
LEMMA ConfirmedOnce ==
  ASSUME NEW c, \A f \in sent' : f.type # "MESSAGE" => f.to = c /\ f.type # "ERROR"
  PROVE  OneAnswer'
BY DEF OneAnswer

(* A refused client has no handler any more when the RECEIPT is tried. *)
LEMMA RefusedOnce ==
  ASSUME NEW c \in Conn, NEW receipt \in BOOLEAN, Refuse(c, receipt)
  PROVE  OneAnswer'
<1>1. clientHandlers' = clientHandlers \ {c}
  BY DEF Refuse, Disconnect
<1>2. Receipt(clientHandlers', c, receipt) = {}
  BY <1>1 DEF Receipt, Deliver
<1>3. sent' = Deliver(clientHandlers, c, "ERROR")
  BY <1>2 DEF Refuse
<1>4. \A f \in sent' : f = [to |-> c, type |-> "ERROR"]
  BY <1>3 DEF Deliver
<1> QED BY <1>4 DEF OneAnswer

(* The frames of a broadcast and a RECEIPT. *)
LEMMA ReceiptsConfirm ==
  ASSUME NEW handlers, NEW c, NEW receipt
  PROVE  \A f \in Receipt(handlers, c, receipt) : f.to = c /\ f.type = "RECEIPT"
BY DEF Receipt, Deliver

LEMMA FrameAnsweredOnce ==
  ASSUME Inv, NEW c \in Conn, Process(c)
  PROVE  OneAnswer'
<1>0. PICK receipt \in BOOLEAN :
        \/ ProcessIncomplete(c, receipt)
        \/ \E login \in Login, pass \in Passcode : ProcessConnect(c, login, pass, receipt)
        \/ \E channel \in Destination, id \in IdsOf[c] :
             ProcessSubscribe(c, channel, id, receipt)
        \/ \E id \in IdsOf[c] : ProcessUnsubscribe(c, id, receipt)
        \/ \E destination \in Destination : ProcessSend(c, destination, receipt)
        \/ ProcessDisconnect(c, receipt)
  BY DEF Process
<1>1. CASE Refuse(c, receipt)
  BY <1>1, RefusedOnce
<1>2. CASE sent' = {}
  BY <1>2 DEF OneAnswer
<1>3. CASE sent' = Receipt(clientHandlers, c, receipt)
  BY <1>3, ReceiptsConfirm, ConfirmedOnce
<1>4. CASE sent' = Deliver(clientHandlers, c, "CONNECTED")
                     \cup Receipt(clientHandlers, c, receipt)
  <2>1. \A f \in Deliver(clientHandlers, c, "CONNECTED") :
          f.to = c /\ f.type = "CONNECTED"
    BY DEF Deliver
  <2> QED BY <1>4, <2>1, ReceiptsConfirm, ConfirmedOnce
<1>5. ASSUME NEW destination \in Destination, ProcessSend(c, destination, receipt)
      PROVE  OneAnswer'
  <2>1. PICK messages \in Broadcasts(Stripped[destination]) :
          sent' = messages \cup Receipt(clientHandlers, c, receipt)
    BY <1>5 DEF ProcessSend
  <2>2. \A f \in messages : f.type = "MESSAGE"
    BY DEF Broadcasts
  <2> QED BY <2>1, <2>2, ReceiptsConfirm, ConfirmedOnce
<1>6. CASE ProcessIncomplete(c, receipt)
  BY <1>1, <1>6 DEF ProcessIncomplete
<1>7. CASE \E login \in Login, pass \in Passcode : ProcessConnect(c, login, pass, receipt)
  BY <1>1, <1>4, <1>7 DEF ProcessConnect
<1>8. CASE \E channel \in Destination, id \in IdsOf[c] :
             ProcessSubscribe(c, channel, id, receipt)
  BY <1>1, <1>2, <1>3, <1>8 DEF ProcessSubscribe, Throw, Confirm
<1>9. CASE \E id \in IdsOf[c] : ProcessUnsubscribe(c, id, receipt)
  BY <1>1, <1>3, <1>9 DEF ProcessUnsubscribe, Confirm
<1>10. CASE ProcessDisconnect(c, receipt)
  BY <1>3, <1>10 DEF ProcessDisconnect
<1> QED BY <1>0, <1>5, <1>6, <1>7, <1>8, <1>9, <1>10

(* No frame of a client is both confirmed and refused, and its answer goes  *)
(* to that client alone.                                                    *)
THEOREM AnswersOnce == Spec => []OneAnswer
<1>1. Init => OneAnswer
  BY DEF Init, OneAnswer
<1>2. Inv /\ OneAnswer /\ [Next]_vars => OneAnswer'
  <2> SUFFICES ASSUME Inv, OneAnswer, [Next]_vars PROVE OneAnswer'
    OBVIOUS
  <2>1. ASSUME NEW c \in Conn, Accept(c) \/ Close(c) \/ Malformed(c)
        PROVE  OneAnswer'
    BY <2>1 DEF Accept, Close, Malformed, Throw, OneAnswer
  <2>2. ASSUME NEW c \in Conn, Process(c)
        PROVE  OneAnswer'
    BY <2>2, FrameAnsweredOnce
  <2>3. CASE UNCHANGED vars
    BY <2>3 DEF vars, OneAnswer
  <2> QED BY <2>1, <2>2, <2>3 DEF Next
<1> QED BY <1>1, <1>2, InvAlways, PTL DEF Spec

-----------------------------------------------------------------------------
(* The i-th of n blocks of k numbers lies in the first n * k, and the       *)
(* blocks are different ones.                                               *)
LEMMA Blocks ==
  ASSUME NEW n \in Nat, NEW k \in Nat, k # 0, NEW i \in 1 .. n
  PROVE  /\ i * k \in Nat /\ n * k \in Nat
         /\ 0 < i * k /\ i * k <= n * k
         /\ \A j \in 1 .. n : i * k = j * k => i = j
<1>1. i \in Nat /\ 1 <= i /\ i <= n
  OBVIOUS
<1>2. ASSUME NEW a \in Nat, NEW b \in Nat, a < b
      PROVE  a * k < b * k
  <2>1. (b - a) * k >= 1
    BY <1>2
  <2>2. (b - a) * k = b * k - a * k
    OBVIOUS
  <2>3. a * k \in Nat /\ b * k \in Nat
    OBVIOUS
  <2> QED BY <2>1, <2>2, <2>3
<1>3. i * k \in Nat /\ n * k \in Nat
  BY <1>1
<1>4. 0 < i * k
  BY <1>1
<1>5. i * k <= n * k
  BY <1>1, <1>2, <1>3
<1>6. ASSUME NEW j \in 1 .. n, i * k = j * k
      PROVE  i = j
  <2>1. j \in Nat /\ j * k \in Nat
    OBVIOUS
  <2> QED BY <1>1, <1>2, <1>3, <1>6, <2>1
<1> QED BY <1>3, <1>4, <1>5, <1>6

(* The ids of a broadcast are those that generateMessageId gives to it, and *)
(* no two copies carry the same.                                            *)
LEMMA BroadcastIds ==
  ASSUME RegistryTypeOK, NEW channel, NEW messages \in Broadcasts(channel),
         NEW f \in messages, NEW g \in messages, f.id # 0
  PROVE  /\ f.id > messageIdCounter
         /\ f.id <= messageIdCounter + IdsUsed(channel)
         /\ f.id = g.id => f = g
<1> DEFINE n == Cardinality(Receivers(channel))
           k == IdsPerCopy(channel)
<1>1. n \in Nat /\ k \in Nat /\ messageIdCounter \in Nat
  BY CountsAreNumbers DEF RegistryTypeOK
<1>2. PICK visit \in Injection(Receivers(channel), 1 .. n), header \in LastHeader(channel) :
        messages = {[to |-> c, type |-> "MESSAGE", channel |-> channel,
                     subscription |-> header, id |-> CopyId(channel, visit[c])] :
                      c \in Receivers(channel) \cap clientHandlers}
  BY DEF Broadcasts
<1>3. PICK c \in Receivers(channel) :
        f = [to |-> c, type |-> "MESSAGE", channel |-> channel,
             subscription |-> header, id |-> CopyId(channel, visit[c])]
  BY <1>2
<1>4. PICK d \in Receivers(channel) :
        g = [to |-> d, type |-> "MESSAGE", channel |-> channel,
             subscription |-> header, id |-> CopyId(channel, visit[d])]
  BY <1>2
<1>5. f.id = CopyId(channel, visit[c]) /\ g.id = CopyId(channel, visit[d])
  BY <1>3, <1>4
<1>6. k # 0
  BY <1>3 DEF CopyId
<1>7. /\ visit[c] \in 1 .. n /\ visit[d] \in 1 .. n
      /\ visit[c] = visit[d] => c = d
  BY <1>2 DEF Injection, IsInjective
<1>8. f.id = messageIdCounter + visit[c] * k /\ g.id = messageIdCounter + visit[d] * k
  BY <1>5, <1>6 DEF CopyId
<1>9. IdsUsed(channel) = n * k
  BY DEF IdsUsed
<1> HIDE DEF n, k
<1>10. /\ visit[c] * k \in Nat /\ n * k \in Nat /\ visit[d] * k \in Nat
       /\ 0 < visit[c] * k /\ visit[c] * k <= n * k
       /\ visit[c] * k = visit[d] * k => visit[c] = visit[d]
  BY <1>1, <1>6, <1>7, Blocks
<1>11. f.id > messageIdCounter /\ f.id <= messageIdCounter + IdsUsed(channel)
  BY <1>1, <1>8, <1>9, <1>10
<1>12. ASSUME f.id = g.id PROVE f = g
  <2>1. visit[c] * k = visit[d] * k
    BY <1>1, <1>8, <1>10, <1>12
  <2> QED BY <1>3, <1>4, <1>7, <1>10, <2>1
<1> QED BY <1>11, <1>12

(* A frame other than SEND hands on no MESSAGE, and SEND those of one       *)
(* broadcast.                                                               *)
LEMMA StepMessagesFresh ==
  ASSUME Inv, Next,
         NEW f \in {m \in sent' : m.type = "MESSAGE"},
         NEW g \in {m \in sent' : m.type = "MESSAGE"},
         f.id # 0
  PROVE  /\ f.id > messageIdCounter /\ f.id <= messageIdCounter'
         /\ f.id = g.id => f = g
<1>1. \A handlers, c, receipt : \A m \in Receipt(handlers, c, receipt) : m.type # "MESSAGE"
  BY ReceiptsConfirm
<1>2. \A handlers, c : /\ \A m \in Deliver(handlers, c, "ERROR") : m.type # "MESSAGE"
                       /\ \A m \in Deliver(handlers, c, "CONNECTED") : m.type # "MESSAGE"
  BY DEF Deliver
<1>3. PICK c \in Conn : Accept(c) \/ Close(c) \/ Malformed(c) \/ Process(c)
  BY DEF Next
<1>4. Process(c)
  BY <1>3 DEF Accept, Close, Malformed, Throw
<1>5. PICK receipt \in BOOLEAN :
        \/ ProcessIncomplete(c, receipt)
        \/ \E login \in Login, pass \in Passcode : ProcessConnect(c, login, pass, receipt)
        \/ \E channel \in Destination, id \in IdsOf[c] :
             ProcessSubscribe(c, channel, id, receipt)
        \/ \E id \in IdsOf[c] : ProcessUnsubscribe(c, id, receipt)
        \/ \E destination \in Destination : ProcessSend(c, destination, receipt)
        \/ ProcessDisconnect(c, receipt)
  BY <1>4 DEF Process
<1>6. ~Refuse(c, receipt)
  BY <1>1, <1>2 DEF Refuse
<1>7. ~ProcessIncomplete(c, receipt)
  BY <1>6 DEF ProcessIncomplete
<1>8. \A login, pass : ~ProcessConnect(c, login, pass, receipt)
  BY <1>1, <1>2, <1>6 DEF ProcessConnect
<1>9. \A channel, id : ~ProcessSubscribe(c, channel, id, receipt)
  BY <1>1, <1>6 DEF ProcessSubscribe, Throw, Confirm
<1>10. \A id : ~ProcessUnsubscribe(c, id, receipt)
  BY <1>1, <1>6 DEF ProcessUnsubscribe, Confirm
<1>11. ~ProcessDisconnect(c, receipt)
  BY <1>1 DEF ProcessDisconnect
<1>12. PICK destination \in Destination : ProcessSend(c, destination, receipt)
  BY <1>5, <1>7, <1>8, <1>9, <1>10, <1>11
<1>13. PICK messages \in Broadcasts(Stripped[destination]) :
         sent' = messages \cup Receipt(clientHandlers, c, receipt)
  BY <1>12 DEF ProcessSend
<1>14. f \in messages /\ g \in messages
  BY <1>1, <1>13
<1>15. messageIdCounter' = messageIdCounter + IdsUsed(Stripped[destination])
  BY <1>12 DEF ProcessSend
<1> QED BY <1>14, <1>15, BroadcastIds DEF Inv, TypeOK

(* No message id is used twice. *)
THEOREM MessageIdsAlwaysFresh == Spec => MessageIdsFresh
<1>1. Inv /\ [Next]_vars =>
        [\A f, g \in {m \in sent' : m.type = "MESSAGE"} :
           f.id # 0 =>
             /\ f.id > messageIdCounter /\ f.id <= messageIdCounter'
             /\ f.id = g.id => f = g]_vars
  BY StepMessagesFresh
<1> QED BY <1>1, InvAlways, PTL DEF Spec, MessageIdsFresh

-----------------------------------------------------------------------------
(***************************************************************************)
(* Broker implements PubSub for every set of connections, channels, ids    *)
(* and accounts, provided that no two clients use the same id.             *)
(***************************************************************************)

(* An id belongs to the client that recorded it, and a connection that is   *)
(* not accepted yet is recorded nowhere.                                    *)
Recorded ==
  /\ \A c \in Conn, channel \in Destination, id \in SubId :
       Holds(c, channel, id) => id \in IdsOf[c]
  /\ \A c \in Conn, channel \in Destination : status[c] = "none" =>
       /\ ~ExistsSubscription(channel, c)
       /\ \A id \in SubId : ~Holds(c, channel, id)

AgreeInv == Recorded /\ SubscribersAgree

-----------------------------------------------------------------------------
(* What subscribe records. *)
LEMMA SubscribeEffect ==
  ASSUME Inv, NEW channel \in Destination, NEW id \in SubId, NEW c \in Conn,
         ~ExistsSubscription(channel, c), Subscribe(channel, id, c)
  PROVE  \A d \in Conn, ch \in Destination :
           /\ ExistsSubscription(ch, d)' <=>
                ExistsSubscription(ch, d) \/ (ch = channel /\ d = c)
           /\ \A i \in SubId :
                Holds(d, ch, i)' <=>
                  IF ch = channel /\ d = c THEN i = id ELSE Holds(d, ch, i)
<1> DEFINE topics == PutIfAbsent(topicSubscribers, channel, {})
           subs == PutIfAbsent(channelSubscriptions, channel, EmptyMap)
<1>1. /\ DOMAIN topics = DOMAIN topicSubscribers \cup {channel}
      /\ \A x \in DOMAIN topicSubscribers : topics[x] = topicSubscribers[x]
      /\ channel \notin DOMAIN topicSubscribers => topics[channel] = {}
  BY DEF PutIfAbsent, Put
<1>2. /\ DOMAIN subs = DOMAIN channelSubscriptions \cup {channel}
      /\ \A x \in DOMAIN channelSubscriptions : subs[x] = channelSubscriptions[x]
      /\ channel \notin DOMAIN channelSubscriptions => subs[channel] = EmptyMap
  BY DEF PutIfAbsent, Put
<1>3. c \notin topics[channel]
  BY <1>1 DEF ExistsSubscription
<1>4. id # NoId
  BY NoIdAssumption
<1>5. /\ topicSubscribers' = [topics EXCEPT ![channel] = @ \cup {c}]
      /\ channelSubscriptions' = [subs EXCEPT ![channel] = Put(@, c, id)]
  BY <1>3, <1>4 DEF Subscribe
<1> HIDE DEF topics, subs
<1>6. \A d \in Conn, ch \in Destination :
        ExistsSubscription(ch, d)' <=>
          ExistsSubscription(ch, d) \/ (ch = channel /\ d = c)
  <2>1. /\ DOMAIN topicSubscribers' = DOMAIN topicSubscribers \cup {channel}
        /\ topicSubscribers'[channel] = topics[channel] \cup {c}
        /\ \A x \in DOMAIN topicSubscribers :
             x # channel => topicSubscribers'[x] = topicSubscribers[x]
    BY <1>1, <1>5
  <2> QED BY <1>1, <2>1 DEF ExistsSubscription
<1>7. /\ DOMAIN Put(subs[channel], c, id) = DOMAIN subs[channel] \cup {c}
      /\ Put(subs[channel], c, id)[c] = id
      /\ \A x \in DOMAIN subs[channel] :
           x # c => Put(subs[channel], c, id)[x] = subs[channel][x]
  BY DEF Put
<1>8. /\ DOMAIN channelSubscriptions' = DOMAIN channelSubscriptions \cup {channel}
      /\ channelSubscriptions'[channel] = Put(subs[channel], c, id)
      /\ \A x \in DOMAIN channelSubscriptions :
           x # channel => channelSubscriptions'[x] = channelSubscriptions[x]
  BY <1>2, <1>5
<1>9. DOMAIN EmptyMap = {}
  BY DEF EmptyMap
<1>10. ASSUME NEW d \in Conn, NEW i \in SubId
       PROVE  Holds(d, channel, i)' <=> IF d = c THEN i = id ELSE Holds(d, channel, i)
  BY <1>2, <1>7, <1>8, <1>9 DEF Holds
<1>11. ASSUME NEW d \in Conn, NEW ch \in Destination, NEW i \in SubId, ch # channel
       PROVE  Holds(d, ch, i)' <=> Holds(d, ch, i)
  BY <1>8, <1>11 DEF Holds
<1> QED BY <1>6, <1>10, <1>11

(* What unsubscribe removes: every record under the id, and the caller from *)
(* the subscribers of the channels that have such a record.                 *)
LEMMA UnsubscribeEffect ==
  ASSUME Inv, NEW id \in SubId, NEW c \in Conn, Unsubscribe(c, id)
  PROVE  \A d \in Conn, ch \in Destination :
           /\ ExistsSubscription(ch, d)' <=>
                /\ ExistsSubscription(ch, d)
                /\ ~(d = c /\ \E e \in Conn : Holds(e, ch, id))
           /\ \A i \in SubId : Holds(d, ch, i)' <=> Holds(d, ch, i) /\ i # id
<1>1. /\ channelSubscriptions \in [DOMAIN channelSubscriptions -> MapsOf(Conn, SubId)]
      /\ DOMAIN channelSubscriptions = DOMAIN topicSubscribers
  BY MapElim DEF Inv, TypeOK, RegistryTypeOK, KeysAgree
<1>2. \A ch \in DOMAIN channelSubscriptions :
        DOMAIN channelSubscriptions[ch] \subseteq Conn
  BY <1>1, MapElim
<1>3. \A ch \in Destination : ch \in ChannelsWith(id) <=> \E e \in Conn : Holds(e, ch, id)
  BY <1>2 DEF ChannelsWith, Values, Holds
<1>4. \A d \in Conn, ch \in Destination :
        ExistsSubscription(ch, d)' <=>
          /\ ExistsSubscription(ch, d)
          /\ ~(d = c /\ \E e \in Conn : Holds(e, ch, id))
  BY <1>3 DEF ExistsSubscription, Unsubscribe
<1>5. \A d \in Conn, ch \in Destination, i \in SubId :
        Holds(d, ch, i)' <=> Holds(d, ch, i) /\ i # id
  BY DEF Holds, Unsubscribe, RemoveValue
<1> QED BY <1>4, <1>5

(* What disconnect removes: the records of c, and the channels on which no  *)
(* other connection has one.                                                *)
LEMMA DisconnectEffect ==
  ASSUME Inv, NEW c \in Conn, Disconnect(c)
  PROVE  \A d \in Conn, ch \in Destination :
           /\ ExistsSubscription(ch, d)' <=>
                /\ ExistsSubscription(ch, d)
                /\ \E e \in Conn, i \in SubId : e # c /\ Holds(e, ch, i)
           /\ \A i \in SubId : Holds(d, ch, i)' <=> Holds(d, ch, i) /\ d # c
<1>1. /\ channelSubscriptions \in [DOMAIN channelSubscriptions -> MapsOf(Conn, SubId)]
      /\ DOMAIN channelSubscriptions = DOMAIN topicSubscribers
  BY MapElim DEF Inv, TypeOK, RegistryTypeOK, KeysAgree
<1>2. \A ch \in DOMAIN channelSubscriptions :
        /\ DOMAIN channelSubscriptions[ch] \subseteq Conn
        /\ \A e \in DOMAIN channelSubscriptions[ch] : channelSubscriptions[ch][e] \in SubId
  <2> TAKE ch \in DOMAIN channelSubscriptions
  <2>1. channelSubscriptions[ch] \in MapsOf(Conn, SubId)
    BY <1>1
  <2> QED BY <2>1, MapElim
<1>3. \A ch \in DOMAIN channelSubscriptions :
        ch \notin EmptiedBy(c) <=> \E e \in Conn, i \in SubId : e # c /\ Holds(e, ch, i)
  BY <1>2 DEF EmptiedBy, Holds
<1>4. \A d \in Conn, ch \in Destination :
        ExistsSubscription(ch, d)' <=>
          /\ ExistsSubscription(ch, d)
          /\ \E e \in Conn, i \in SubId : e # c /\ Holds(e, ch, i)
  BY <1>1, <1>3 DEF ExistsSubscription, Disconnect, RemoveKeys
<1>5. \A d \in Conn, ch \in Destination, i \in SubId :
        Holds(d, ch, i)' <=> Holds(d, ch, i) /\ d # c
  BY DEF Holds, Disconnect, RemoveKeys, EmptiedBy
<1> QED BY <1>4, <1>5

-----------------------------------------------------------------------------
(* A step that hands out no MESSAGE delivers nothing. *)
LEMMA AnswersDeliverNothing ==
  ASSUME NEW handlers, NEW c, NEW receipt
  PROVE  /\ \A f \in Deliver(handlers, c, "CONNECTED") : f.type # "MESSAGE"
         /\ \A f \in Deliver(handlers, c, "ERROR") : f.type # "MESSAGE"
         /\ \A f \in Receipt(handlers, c, receipt) : f.type # "MESSAGE"
BY DEF Deliver, Receipt

LEMMA NothingDelivered ==
  ASSUME \A f \in sent' : f.type # "MESSAGE"
  PROVE  Deliveries' = {}
BY DEF Deliveries

(* Steps that leave the registry alone. *)
LEMMA QuietStep ==
  ASSUME AgreeInv, UNCHANGED <<clientHandlers, topicSubscribers, channelSubscriptions>>,
         \A d \in Conn : status'[d] = "none" => status[d] = "none"
  PROVE  /\ AgreeInv'
         /\ Deliveries' = {} => PS!Next
<1>1. AgreeInv'
  BY DEF AgreeInv, Recorded, SubscribersAgree, Holds, ExistsSubscription
<1>2. UNCHANGED Records
  BY DEF Records, Holds
<1> QED BY <1>1, <1>2 DEF PS!Next, PS!Quiet

(* A new connection. *)
LEMMA AcceptStep ==
  ASSUME Inv, AgreeInv, NEW c \in Conn, Accept(c)
  PROVE  AgreeInv' /\ PS!Next
<1>1. /\ clientHandlers' = clientHandlers \cup {c}
      /\ UNCHANGED <<topicSubscribers, channelSubscriptions>>
      /\ status[c] = "none"
      /\ status' = [status EXCEPT ![c] = "open"]
      /\ sent' = {}
  BY DEF Accept, AddConnection
<1>2. status \in [Conn -> {"none", "open", "closed"}]
  BY DEF Inv, TypeOK
<1>3. \A channel \in Destination :
        /\ ~ExistsSubscription(channel, c)
        /\ \A id \in SubId : ~Holds(c, channel, id)
  BY <1>1 DEF AgreeInv, Recorded
<1>4. \A d \in Conn, channel \in Destination :
        /\ ExistsSubscription(channel, d)' <=> ExistsSubscription(channel, d)
        /\ \A id \in SubId : Holds(d, channel, id)' <=> Holds(d, channel, id)
  BY <1>1 DEF ExistsSubscription, Holds
<1>5. clientHandlers \subseteq Conn
  BY DEF Inv, TypeOK, RegistryTypeOK
<1>6. AgreeInv'
  BY <1>1, <1>2, <1>3, <1>4, <1>5 DEF AgreeInv, Recorded, SubscribersAgree
<1>7. Records' = Records
  BY <1>1, <1>3, <1>4 DEF Records
<1>8. PS!Arrive(c)
  BY <1>1, <1>7 DEF PS!Arrive, Deliveries
<1> QED BY <1>6, <1>8 DEF PS!Next

(* A frame that ends in disconnect: an ERROR or a DISCONNECT. *)
LEMMA LeaveStep ==
  ASSUME Inv, AgreeInv, NEW c \in Conn, Disconnect(c), UNCHANGED status,
         Deliveries' = {}
  PROVE  AgreeInv' /\ PS!Next
<1>1. clientHandlers' = clientHandlers \ {c}
  BY DEF Disconnect
<1>2. clientHandlers \subseteq Conn
  BY DEF Inv, TypeOK, RegistryTypeOK
<1>3. \A d \in Conn, ch \in Destination :
        /\ ExistsSubscription(ch, d)' <=>
             /\ ExistsSubscription(ch, d)
             /\ \E e \in Conn, i \in SubId : e # c /\ Holds(e, ch, i)
        /\ \A i \in SubId : Holds(d, ch, i)' <=> Holds(d, ch, i) /\ d # c
  BY DisconnectEffect
<1>4. AgreeInv'
  BY <1>1, <1>2, <1>3 DEF AgreeInv, Recorded, SubscribersAgree
<1>5. Records' = {s \in Records : s[1] # c}
  BY <1>1, <1>3 DEF Records
<1>6. PS!Leave(c)
  BY <1>1, <1>5 DEF PS!Leave
<1> QED BY <1>4, <1>6 DEF PS!Next

(* A SUBSCRIBE that is accepted: of a registered connection it is a Join. *)
LEMMA JoinStep ==
  ASSUME Inv, AgreeInv, NEW channel \in Destination, NEW c \in Conn,
         NEW id \in IdsOf[c] \cap SubId,
         ~ExistsSubscription(channel, c), Subscribe(channel, id, c),
         UNCHANGED status, status[c] # "none", Deliveries' = {}
  PROVE  AgreeInv' /\ PS!Next
<1>1. UNCHANGED clientHandlers /\ clientHandlers \subseteq Conn
  BY DEF Subscribe, Inv, TypeOK, RegistryTypeOK
<1>2. \A d \in Conn, ch \in Destination :
        /\ ExistsSubscription(ch, d)' <=>
             ExistsSubscription(ch, d) \/ (ch = channel /\ d = c)
        /\ \A i \in SubId :
             Holds(d, ch, i)' <=>
               IF ch = channel /\ d = c THEN i = id ELSE Holds(d, ch, i)
  BY SubscribeEffect
<1>3. AgreeInv'
  BY <1>1, <1>2 DEF AgreeInv, Recorded, SubscribersAgree
<1>4. CASE c \in clientHandlers
  <2>1. \A i \in SubId : ~Holds(c, channel, i)
    BY <1>4 DEF AgreeInv, SubscribersAgree
  <2>2. Records' = Records \cup {<<c, channel, id>>}
    BY <1>1, <1>2, <1>4, <2>1 DEF Records
  <2>3. c \notin PS!Subscribers(channel)
    BY <2>1 DEF PS!Subscribers, Records
  <2>4. PS!Join(c, channel, id)
    BY <1>1, <1>4, <2>2, <2>3 DEF PS!Join
  <2> QED BY <1>3, <2>4 DEF PS!Next
<1>5. CASE c \notin clientHandlers
  <2>1. Records' = Records
    BY <1>1, <1>2, <1>5 DEF Records
  <2> QED BY <1>1, <1>3, <2>1 DEF PS!Next, PS!Quiet
<1> QED BY <1>4, <1>5

(* An UNSUBSCRIBE with an id: only the caller has records under it. *)
LEMMA PartStep ==
  ASSUME OwnIds, Inv, AgreeInv, NEW c \in Conn, NEW id \in IdsOf[c] \cap SubId,
         Unsubscribe(c, id), UNCHANGED status, Deliveries' = {}
  PROVE  AgreeInv' /\ PS!Next
<1>1. UNCHANGED clientHandlers /\ clientHandlers \subseteq Conn
  BY DEF Unsubscribe, Inv, TypeOK, RegistryTypeOK
<1>2. \A d \in Conn, ch \in Destination :
        /\ ExistsSubscription(ch, d)' <=>
             /\ ExistsSubscription(ch, d)
             /\ ~(d = c /\ \E e \in Conn : Holds(e, ch, id))
        /\ \A i \in SubId : Holds(d, ch, i)' <=> Holds(d, ch, i) /\ i # id
  BY UnsubscribeEffect
<1>3. \A e \in Conn, ch \in Destination : Holds(e, ch, id) => e = c
  BY DEF OwnIds, AgreeInv, Recorded
<1>4. \A e \in Conn, ch \in Destination : \A i, j \in SubId :
        Holds(e, ch, i) /\ Holds(e, ch, j) => i = j
  BY DEF Holds
<1>5. Recorded'
  BY <1>2 DEF AgreeInv, Recorded
<1>6. SubscribersAgree'
  BY <1>1, <1>2, <1>3, <1>4 DEF AgreeInv, SubscribersAgree
<1>7. Records' = {s \in Records : ~(s[1] = c /\ s[3] = id)}
  BY <1>1, <1>2, <1>3 DEF Records
<1>8. PS!Part(c, id)
  BY <1>1, <1>7 DEF PS!Part
<1> QED BY <1>5, <1>6, <1>8 DEF PS!Next, AgreeInv

(* A SEND hands one copy to each registered subscriber of the channel. *)
LEMMA PublishStep ==
  ASSUME Inv, AgreeInv, NEW c \in Conn, NEW destination \in Destination, NEW receipt,
         ProcessSend(c, destination, receipt)
  PROVE  PS!Next
<1> DEFINE channel == Stripped[destination]
<1>1. channel \in Destination
  BY BrokerAssumption
<1>2. PICK messages \in Broadcasts(channel) :
        sent' = messages \cup Receipt(clientHandlers, c, receipt)
  BY DEF ProcessSend
<1>3. UNCHANGED <<clientHandlers, channelSubscriptions>>
  BY DEF ProcessSend
<1> HIDE DEF channel
<1>4. Deliveries' = {<<m.to, m.channel>> : m \in messages}
  <2>1. \A m \in messages : m.type = "MESSAGE"
    BY <1>2 DEF Broadcasts
  <2>2. {f \in sent' : f.type = "MESSAGE"} = messages
    BY <1>2, <2>1, AnswersDeliverNothing
  <2> QED BY <2>2 DEF Deliveries
<1>5. {<<m.to, m.channel>> : m \in messages} =
        (Receivers(channel) \cap clientHandlers) \X {channel}
  <2>1. PICK visit \in Injection(Receivers(channel), 1 .. Cardinality(Receivers(channel))),
             header \in LastHeader(channel) :
          messages = {[to |-> d, type |-> "MESSAGE", channel |-> channel,
                       subscription |-> header, id |-> CopyId(channel, visit[d])] :
                        d \in Receivers(channel) \cap clientHandlers}
    BY <1>2 DEF Broadcasts
  <2>2. \A m \in messages :
          m.to \in Receivers(channel) \cap clientHandlers /\ m.channel = channel
    BY <2>1
  <2>3. \A d \in Receivers(channel) \cap clientHandlers :
          \E m \in messages : m.to = d /\ m.channel = channel
    <3> TAKE d \in Receivers(channel) \cap clientHandlers
    <3> DEFINE copy == [to |-> d, type |-> "MESSAGE", channel |-> channel,
                        subscription |-> header, id |-> CopyId(channel, visit[d])]
    <3>1. copy \in messages
      BY <2>1
    <3>2. copy.to = d /\ copy.channel = channel
      OBVIOUS
    <3> QED BY <3>1, <3>2
  <2> QED BY <2>2, <2>3
<1>6. PS!Subscribers(channel) = Receivers(channel) \cap clientHandlers
  <2>1. \A d \in clientHandlers :
          d \in Receivers(channel) <=> \E id \in SubId : Holds(d, channel, id)
    BY <1>1 DEF AgreeInv, SubscribersAgree, ExistsSubscription, Receivers
  <2>2. clientHandlers \subseteq Conn
    BY DEF Inv, TypeOK, RegistryTypeOK
  <2> QED BY <1>1, <2>1, <2>2 DEF PS!Subscribers, Records
<1>7. UNCHANGED Records
  BY <1>3 DEF Records, Holds
<1>8. PS!Publish(channel)
  BY <1>3, <1>4, <1>5, <1>6, <1>7 DEF PS!Publish
<1> QED BY <1>1, <1>8 DEF PS!Next

-----------------------------------------------------------------------------
(* A frame that is answered with ERROR. *)
LEMMA RefuseStep ==
  ASSUME Inv, AgreeInv, NEW c \in Conn, NEW receipt, Refuse(c, receipt)
  PROVE  AgreeInv' /\ PS!Next
<1>1. Deliveries' = {}
  BY AnswersDeliverNothing, NothingDelivered DEF Refuse
<1> QED BY <1>1, LeaveStep DEF Refuse

(* Every frame is a step of PubSub. *)
LEMMA ProcessStep ==
  ASSUME OwnIds, Inv, AgreeInv, NEW c \in Conn, Process(c)
  PROVE  AgreeInv' /\ PS!Next
<1>0. PICK receipt \in BOOLEAN :
        \/ ProcessIncomplete(c, receipt)
        \/ \E login \in Login, pass \in Passcode : ProcessConnect(c, login, pass, receipt)
        \/ \E channel \in Destination, id \in IdsOf[c] :
             ProcessSubscribe(c, channel, id, receipt)
        \/ \E id \in IdsOf[c] : ProcessUnsubscribe(c, id, receipt)
        \/ \E destination \in Destination : ProcessSend(c, destination, receipt)
        \/ ProcessDisconnect(c, receipt)
  BY DEF Process
<1>1. CASE ProcessIncomplete(c, receipt)
  BY <1>1, RefuseStep DEF ProcessIncomplete
<1>2. ASSUME NEW login \in Login, NEW pass \in Passcode,
             ProcessConnect(c, login, pass, receipt)
      PROVE  AgreeInv' /\ PS!Next
  <2>1. CASE Refuse(c, receipt)
    BY <2>1, RefuseStep
  <2>2. CASE /\ sent' = Deliver(clientHandlers, c, "CONNECTED")
                          \cup Receipt(clientHandlers, c, receipt)
             /\ UNCHANGED <<registryVars, status>>
    <3>1. Deliveries' = {}
      BY <2>2, AnswersDeliverNothing, NothingDelivered
    <3> QED BY <2>2, <3>1, QuietStep DEF registryVars
  <2> QED BY <1>2, <2>1, <2>2 DEF ProcessConnect
<1>3. ASSUME NEW channel \in Destination, NEW id \in IdsOf[c],
             ProcessSubscribe(c, channel, id, receipt)
      PROVE  AgreeInv' /\ PS!Next
  <2>1. CASE Refuse(c, receipt)
    BY <2>1, RefuseStep
  <2>2. CASE ~ExistsSubscription(channel, c) /\ Subscribe(channel, id, c)
             /\ Confirm(c, receipt)
    <3>1. id \in IdsOf[c] \cap SubId
      BY BrokerAssumption DEF OwnIds
    <3>2. status[c] # "none"
      BY <1>3 DEF ProcessSubscribe, Serving
    <3>3. Deliveries' = {} /\ UNCHANGED status
      BY <2>2, AnswersDeliverNothing, NothingDelivered DEF Confirm
    <3> QED BY <2>2, <3>1, <3>2, <3>3, JoinStep
  <2>3. id # NoId
    BY DEF OwnIds
  <2> QED BY <1>3, <2>1, <2>2, <2>3 DEF ProcessSubscribe
<1>4. ASSUME NEW id \in IdsOf[c], ProcessUnsubscribe(c, id, receipt)
      PROVE  AgreeInv' /\ PS!Next
  <2>1. CASE Refuse(c, receipt)
    BY <2>1, RefuseStep
  <2>2. CASE Unsubscribe(c, id) /\ Confirm(c, receipt)
    <3>1. id \in IdsOf[c] \cap SubId
      BY BrokerAssumption DEF OwnIds
    <3>2. Deliveries' = {} /\ UNCHANGED status
      BY <2>2, AnswersDeliverNothing, NothingDelivered DEF Confirm
    <3> QED BY <2>2, <3>1, <3>2, PartStep
  <2> QED BY <1>4, <2>1, <2>2 DEF ProcessUnsubscribe
<1>5. ASSUME NEW destination \in Destination, ProcessSend(c, destination, receipt)
      PROVE  AgreeInv' /\ PS!Next
  <2>1. AgreeInv'
    BY <1>5, QuietStep DEF ProcessSend
  <2> QED BY <1>5, <2>1, PublishStep
<1>6. CASE ProcessDisconnect(c, receipt)
  <2>1. Deliveries' = {}
    BY <1>6, AnswersDeliverNothing, NothingDelivered DEF ProcessDisconnect
  <2> QED BY <1>6, <2>1, LeaveStep DEF ProcessDisconnect
<1> QED BY <1>0, <1>1, <1>2, <1>3, <1>4, <1>5, <1>6

LEMMA NextStep == OwnIds /\ Inv /\ AgreeInv /\ [Next]_vars => AgreeInv' /\ [PS!Next]_(PS!vars)
<1> SUFFICES ASSUME OwnIds, Inv, AgreeInv, [Next]_vars
             PROVE  AgreeInv' /\ [PS!Next]_(PS!vars)
  OBVIOUS
<1>1. ASSUME NEW c \in Conn, Accept(c)
      PROVE  AgreeInv' /\ PS!Next
  BY <1>1, AcceptStep
<1>2. ASSUME NEW c \in Conn, Close(c)
      PROVE  AgreeInv' /\ PS!Next
  <2>1. Deliveries' = {}
    BY <1>2, NothingDelivered DEF Close
  <2> QED BY <1>2, <2>1, QuietStep DEF Close, registryVars, Inv, TypeOK
<1>3. ASSUME NEW c \in Conn, Malformed(c)
      PROVE  AgreeInv' /\ PS!Next
  <2>1. Deliveries' = {}
    BY <1>3, NothingDelivered DEF Malformed, Throw
  <2> QED BY <1>3, <2>1, QuietStep DEF Malformed, Throw, Serving, registryVars, Inv, TypeOK
<1>4. ASSUME NEW c \in Conn, Process(c)
      PROVE  AgreeInv' /\ PS!Next
  BY <1>4, ProcessStep
<1>5. CASE UNCHANGED vars
  <2>1. AgreeInv'
    BY <1>5 DEF vars, registryVars, AgreeInv, Recorded, SubscribersAgree, Holds,
                ExistsSubscription
  <2>2. UNCHANGED PS!vars
    BY <1>5 DEF vars, registryVars, PS!vars, Records, Deliveries, Holds
  <2> QED BY <2>1, <2>2
<1> QED BY <1>1, <1>2, <1>3, <1>4, <1>5 DEF Next

LEMMA InitStep == Init => AgreeInv /\ PS!Init
<1> SUFFICES ASSUME Init PROVE AgreeInv /\ PS!Init
  OBVIOUS
<1>1. clientHandlers = {} /\ sent = {} /\ topicSubscribers = EmptyMap
      /\ channelSubscriptions = EmptyMap
  BY DEF Init, RegistryInit
<1>2. DOMAIN EmptyMap = {}
  BY DEF EmptyMap
<1> QED BY <1>1, <1>2 DEF AgreeInv, Recorded, SubscribersAgree, Holds,
        ExistsSubscription, PS!Init, Records, Deliveries

(* The two records of the subscriptions of a registered connection agree.   *)
THEOREM SubscribersAlwaysAgree ==
  ASSUME OwnIds
  PROVE  Spec => []SubscribersAgree
<1>1. Inv /\ AgreeInv /\ [Next]_vars => AgreeInv'
  BY NextStep
<1>2. AgreeInv => SubscribersAgree
  BY DEF AgreeInv
<1> QED BY <1>1, <1>2, InitStep, InvAlways, PTL DEF Spec

(* A message published on a channel reaches exactly the registered          *)
(* connections that subscribe to it at that moment.                         *)
THEOREM BrokerImplementsPubSub ==
  ASSUME OwnIds
  PROVE  Spec => ImplementsPubSub
<1>1. Inv /\ AgreeInv /\ [Next]_vars => AgreeInv' /\ [PS!Next]_(PS!vars)
  BY NextStep
<1> QED BY <1>1, InitStep, InvAlways, PTL DEF Spec, ImplementsPubSub, PS!Spec

=============================================================================
