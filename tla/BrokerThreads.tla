--------------------------- MODULE BrokerThreads ---------------------------
(***************************************************************************)
(* The frame handlers of Broker as the threads of the server run them:     *)
(* one frame per connection at a time, frames of different connections     *)
(* interleaved between any two accesses to what they share.  A label names *)
(* the access that comes next; a step is one call of a ConcurrentHashMap   *)
(* or of a synchronized method of ServerStorage.                           *)
(*                                                                         *)
(* The values of topicSubscribers and channelSubscriptions are objects: a  *)
(* thread may hold one that the map has dropped since.  Frames sent to     *)
(* handlers change nothing the handlers read, and are left to Broker, as   *)
(* are frames with missing headers.                                        *)
(***************************************************************************)
EXTENDS Naturals, FiniteSets, ServerStorage

CONSTANTS
  ServerType,   (* the second argument of StompServer.main                 *)
  MaxOverlap,   (* how many frames may be in progress: the reactor's       *)
                (* workers, or all clients                                 *)
  Channel,      (* the channels, numbered in the order of iteration        *)
  SubId,        (* the id headers of the clients                           *)
  Ref,          (* the objects that are values of the two maps; bounds how *)
                (* many are in use at a time                               *)
  NoRef,        (* the null a map returns                                  *)
  MaxFrames     (* bounds the frames of a client                           *)

ASSUME ThreadsAssumption ==
  /\ ServerType \in {"tpc", "reactor"}
  /\ Channel \subseteq Nat \ {0}
  /\ NoRef \notin Ref
  /\ MaxOverlap \in Nat \ {0}
  /\ MaxFrames \in Nat

VARIABLES
  clientHandlers,         (* the keys of clientHandlers                    *)
  topicSubscribers,       (* channel -> the object that is its set         *)
  channelSubscriptions,   (* channel -> the object that is its map         *)
  sets,                   (* object -> connection ids                      *)
  maps,                   (* object -> (connection id -> subscription id)  *)
  thread,                 (* connection -> what comes next, and its locals *)
  shouldTerminate,        (* of the protocol object of a connection        *)
  frames,                 (* how many frames it has sent                   *)
  sessions                (* history: the logins it was connected with     *)

registryVars == <<clientHandlers, topicSubscribers, channelSubscriptions, sets, maps>>
clientVars   == <<shouldTerminate, frames, sessions>>
vars == <<users, registryVars, thread, clientVars>>

Frame ==
  [type: {"CONNECT"}, login: Login, passcode: Passcode]
  \cup [type: {"SUBSCRIBE"}, destination: Channel, id: SubId]
  \cup [type: {"UNSUBSCRIBE"}, id: SubId]
  \cup [type: {"SEND"}, destination: Channel]
  \cup [type: {"DISCONNECT"}]

(* The first access of a frame's handler *)
Handler ==
  [CONNECT |-> "getUser", SUBSCRIBE |-> "exists", UNSUBSCRIBE |-> "nextOfUnsubscribe",
   SEND |-> "getSubscribers", DISCONNECT |-> "enterDisconnect"]

NoFrame == [type |-> "none"]

(* An iterator over channelSubscriptions holds the entry it returns next.   *)
NoEntry == [channel |-> 0, map |-> NoRef]

Local(at, frame) ==
  [at |-> at, frame |-> frame, set |-> NoRef, map |-> NoRef, todo |-> {},
   entry |-> NoEntry, next |-> NoEntry]

Init ==
  /\ StorageInit
  /\ clientHandlers = Conn
  /\ topicSubscribers = EmptyMap
  /\ channelSubscriptions = EmptyMap
  /\ sets = [r \in Ref |-> {}]
  /\ maps = [r \in Ref |-> EmptyMap]
  /\ thread = [c \in Conn |-> Local("idle", NoFrame)]
  /\ shouldTerminate = [c \in Conn |-> FALSE]
  /\ frames = [c \in Conn |-> 0]
  /\ sessions = [c \in Conn |-> {}]

-----------------------------------------------------------------------------
(* Threads *)

At(c, label) == thread[c].at = label
Busy(c) == thread[c].at \notin {"idle", "dead"}
FrameOf(c) == thread[c].frame

Go(c, label) == thread' = [thread EXCEPT ![c].at = label]
Finish(c) == thread' = [thread EXCEPT ![c] = Local("idle", NoFrame)]

(* The loop of a client's thread ends; a worker only drops the task. *)
Stop(c) ==
  thread' = [thread EXCEPT ![c] =
               Local(IF ServerType = "tpc" THEN "dead" ELSE "idle", NoFrame)]

(* A monitor is held by the threads between its synchronized and its end.   *)
HoldsSet(c, r) == thread[c].at \in {"add", "mapOf", "put", "visit"} /\ thread[c].set = r
FreeSet(r) == \A c \in Conn : ~HoldsSet(c, r)

InDisconnect(c) ==
  thread[c].at \in {"nextOfDisconnect", "removeOwn", "isEmpty", "dropMap", "dropTopic",
                    "removeHandler", "disconnectUser"}

(* The entry an iterator over channelSubscriptions reaches from channel n on. *)
EntryFrom(n) ==
  LET ahead == {k \in DOMAIN channelSubscriptions : k >= n}
  IN  IF ahead = {} THEN NoEntry
      ELSE LET k == CHOOSE k \in ahead : \A j \in ahead : k <= j
           IN  [channel |-> k, map |-> channelSubscriptions[k]]

(* iterator.next(), which looks for the entry after the one it returns *)
NextEntry(c, label) ==
  LET entry == thread[c].next
  IN  thread' = [thread EXCEPT ![c].at = label, ![c].entry = entry,
                               ![c].next = EntryFrom(entry.channel + 1)]

(* A client that is served sends its next frame. *)
Begin(c, frame) ==
  /\ At(c, "idle")
  /\ frames[c] < MaxFrames
  /\ Cardinality({d \in Conn : Busy(d)}) < MaxOverlap
  /\ frames' = [frames EXCEPT ![c] = @ + 1]
  /\ thread' = [thread EXCEPT ![c] =
                  [Local(Handler[frame.type], frame) EXCEPT
                     !.next = IF frame.type = "UNSUBSCRIBE" THEN EntryFrom(1) ELSE NoEntry]]
  /\ UNCHANGED <<users, registryVars, shouldTerminate, sessions>>

(* A client's socket closes: its thread ends without telling anyone. *)
Leave(c) ==
  /\ At(c, "idle")
  /\ Go(c, "dead")
  /\ UNCHANGED <<users, registryVars, clientVars>>

-----------------------------------------------------------------------------
(* CONNECT *)

(* ServerStorage.getUser(login): null, or the user. *)
GetUser(c) ==
  /\ At(c, "getUser")
  /\ Go(c, IF FrameOf(c).login \in DOMAIN users THEN "isConnected" ELSE "addUser")
  /\ UNCHANGED <<users, registryVars, clientVars>>

AddNewUser(c) ==
  /\ At(c, "addUser")
  /\ users' = AddUser(users, FrameOf(c).login, FrameOf(c).passcode)
  /\ Go(c, "connectNew")
  /\ UNCHANGED <<registryVars, clientVars>>

(* user.isConnected() and the test of the password, which never changes *)
TestUser(c) ==
  LET user == users[FrameOf(c).login] IN
  /\ At(c, "isConnected")
  /\ Go(c, IF user.connected \/ user.password # FrameOf(c).passcode
             THEN "enterDisconnect" ELSE "connectOld")
  /\ UNCHANGED <<users, registryVars, clientVars>>

(* ServerStorage.connectUser(login, connectionId) *)
Connect(c) ==
  /\ thread[c].at \in {"connectNew", "connectOld"}
  /\ users' = ConnectUser(users, FrameOf(c).login, c)
  /\ sessions' = [sessions EXCEPT ![c] = @ \cup {FrameOf(c).login}]
  /\ IF At(c, "connectNew") THEN Finish(c) ELSE Go(c, "setConnectionId")
  /\ UNCHANGED <<registryVars, shouldTerminate, frames>>

(* user.setConnectionId(connectionId), in no monitor *)
SetConnectionId(c) ==
  /\ At(c, "setConnectionId")
  /\ users' = [users EXCEPT ![FrameOf(c).login].connectionId = c]
  /\ Finish(c)
  /\ UNCHANGED <<registryVars, clientVars>>

ProcessConnect(c) ==
  GetUser(c) \/ AddNewUser(c) \/ TestUser(c) \/ Connect(c) \/ SetConnectionId(c)

-----------------------------------------------------------------------------
(* SUBSCRIBE *)

Lookup(map, channel) == IF channel \in DOMAIN map THEN map[channel] ELSE NoRef

(* The objects that neither a map nor a thread refers to: the new ones. *)
FreshSets ==
  {r \in Ref : /\ r \notin Values(topicSubscribers)
               /\ \A c \in Conn : thread[c].set # r}

FreshMaps ==
  {r \in Ref : /\ r \notin Values(channelSubscriptions)
               /\ \A c \in Conn : r \notin {thread[c].map, thread[c].entry.map,
                                            thread[c].next.map}}

(* existsSubscription: the set is looked up, then its monitor is entered.   *)
(* No other thread adds or removes this connection id.                      *)
Exists(c) ==
  LET set == Lookup(topicSubscribers, FrameOf(c).destination) IN
  /\ At(c, "exists")
  /\ thread' = [thread EXCEPT ![c].at = IF set = NoRef THEN "addTopic" ELSE "contains",
                              ![c].set = set]
  /\ UNCHANGED <<users, registryVars, clientVars>>

Contains(c) ==
  /\ At(c, "contains")
  /\ FreeSet(thread[c].set)
  /\ thread' = [thread EXCEPT ![c].at = IF c \in sets[thread[c].set]
                                          THEN "enterDisconnect" ELSE "addTopic",
                              ![c].set = NoRef]
  /\ UNCHANGED <<users, registryVars, clientVars>>

(* A mutation of AddTopic: the map is given no set. *)
MutAddTopicNull(c) ==
  /\ At(c, "addTopic")
  /\ topicSubscribers' = PutIfAbsent(topicSubscribers, FrameOf(c).destination, NoRef)
  /\ Go(c, "addMap")
  /\ UNCHANGED <<users, clientHandlers, channelSubscriptions, sets, maps, clientVars>>

(* putIfAbsent evaluates its second argument in any case. *)
AddTopic(c) ==
  LET set == CHOOSE r \in FreshSets : TRUE IN
  /\ At(c, "addTopic")
  /\ FreshSets # {}
  /\ topicSubscribers' = PutIfAbsent(topicSubscribers, FrameOf(c).destination, set)
  /\ sets' = [sets EXCEPT ![set] = {}]
  /\ Go(c, "addMap")
  /\ UNCHANGED <<users, clientHandlers, channelSubscriptions, maps, clientVars>>

AddMap(c) ==
  LET map == CHOOSE r \in FreshMaps : TRUE IN
  /\ At(c, "addMap")
  /\ FreshMaps # {}
  /\ channelSubscriptions' =
       PutIfAbsent(channelSubscriptions, FrameOf(c).destination, map)
  /\ maps' = [maps EXCEPT ![map] = EmptyMap]
  /\ Go(c, "lockOf")
  /\ UNCHANGED <<users, clientHandlers, topicSubscribers, sets, clientVars>>

(* topicSubscribers.get(channel), whose monitor is entered next *)
LockOf(c) ==
  LET set == Lookup(topicSubscribers, FrameOf(c).destination) IN
  /\ At(c, "lockOf")
  /\ IF set = NoRef THEN Stop(c)
     ELSE thread' = [thread EXCEPT ![c].at = "lock", ![c].set = set]
  /\ UNCHANGED <<users, registryVars, clientVars>>

Lock(c) ==
  /\ At(c, "lock")
  /\ FreeSet(thread[c].set)
  /\ Go(c, "add")
  /\ UNCHANGED <<users, registryVars, clientVars>>

(* The set is looked up again, and the connection added to what is found.   *)
Add(c) ==
  LET set == Lookup(topicSubscribers, FrameOf(c).destination) IN
  /\ At(c, "add")
  /\ \/ /\ set = NoRef
        /\ Stop(c)
        /\ UNCHANGED sets
     \/ /\ set # NoRef
        /\ sets' = [sets EXCEPT ![set] = @ \cup {c}]
        /\ IF c \in sets[set] THEN Finish(c) ELSE Go(c, "mapOf")
  /\ UNCHANGED <<users, clientHandlers, topicSubscribers, channelSubscriptions, maps,
                 clientVars>>

MapOf(c) ==
  LET map == Lookup(channelSubscriptions, FrameOf(c).destination) IN
  /\ At(c, "mapOf")
  /\ IF map = NoRef THEN Stop(c)
     ELSE thread' = [thread EXCEPT ![c].at = "put", ![c].map = map]
  /\ UNCHANGED <<users, registryVars, clientVars>>

PutId(c) ==
  /\ At(c, "put")
  /\ maps' = [maps EXCEPT ![thread[c].map] = Put(@, c, FrameOf(c).id)]
  /\ Finish(c)
  /\ UNCHANGED <<users, clientHandlers, topicSubscribers, channelSubscriptions, sets,
                 clientVars>>

ProcessSubscribe(c) ==
  \/ Exists(c) \/ Contains(c) \/ AddTopic(c) \/ AddMap(c) \/ LockOf(c) \/ Lock(c)
  \/ Add(c) \/ MapOf(c) \/ PutId(c)

-----------------------------------------------------------------------------
(* UNSUBSCRIBE, in no monitor *)

NextOfUnsubscribe(c) ==
  /\ At(c, "nextOfUnsubscribe")
  /\ IF thread[c].next = NoEntry THEN Finish(c) ELSE NextEntry(c, "containsValue")
  /\ UNCHANGED <<users, registryVars, clientVars>>

ContainsValue(c) ==
  /\ At(c, "containsValue")
  /\ Go(c, IF FrameOf(c).id \in Values(maps[thread[c].entry.map])
             THEN "removeIf" ELSE "nextOfUnsubscribe")
  /\ UNCHANGED <<users, registryVars, clientVars>>

RemoveIf(c) ==
  /\ At(c, "removeIf")
  /\ maps' = [maps EXCEPT ![thread[c].entry.map] = RemoveValue(@, FrameOf(c).id)]
  /\ Go(c, "leave")
  /\ UNCHANGED <<users, clientHandlers, topicSubscribers, channelSubscriptions, sets,
                 clientVars>>

(* topicSubscribers.get(channel).remove(connectionId) *)
LeaveSet(c) ==
  LET set == Lookup(topicSubscribers, thread[c].entry.channel) IN
  /\ At(c, "leave")
  /\ \/ /\ set = NoRef
        /\ Stop(c)
        /\ UNCHANGED sets
     \/ /\ set # NoRef
        /\ sets' = [sets EXCEPT ![set] = @ \ {c}]
        /\ Go(c, "nextOfUnsubscribe")
  /\ UNCHANGED <<users, clientHandlers, topicSubscribers, channelSubscriptions, maps,
                 clientVars>>

ProcessUnsubscribe(c) ==
  NextOfUnsubscribe(c) \/ ContainsValue(c) \/ RemoveIf(c) \/ LeaveSet(c)

-----------------------------------------------------------------------------
(* SEND: the monitor of the set is held while the receivers are visited.    *)

GetSubscribers(c) ==
  LET set == Lookup(topicSubscribers, FrameOf(c).destination) IN
  /\ At(c, "getSubscribers")
  /\ IF set = NoRef THEN Finish(c)
     ELSE thread' = [thread EXCEPT ![c].at = "lockSubscribers", ![c].set = set]
  /\ UNCHANGED <<users, registryVars, clientVars>>

LockSubscribers(c) ==
  /\ At(c, "lockSubscribers")
  /\ FreeSet(thread[c].set)
  /\ thread' = [thread EXCEPT ![c].at = "visit", ![c].todo = sets[thread[c].set]]
  /\ UNCHANGED <<users, registryVars, clientVars>>

(* channelSubscriptions.get(channel), whose values the copy takes; one that *)
(* has left the set may still be visited.                                   *)
Visit(c) ==
  /\ At(c, "visit")
  /\ \/ \E receiver \in thread[c].todo :
          IF Lookup(channelSubscriptions, FrameOf(c).destination) = NoRef
            THEN Stop(c)
            ELSE thread' = [thread EXCEPT ![c].todo = @ \ {receiver}]
     \/ /\ thread[c].todo \cap sets[thread[c].set] = {}
        /\ Finish(c)
  /\ UNCHANGED <<users, registryVars, clientVars>>

ProcessSend(c) == GetSubscribers(c) \/ LockSubscribers(c) \/ Visit(c)

-----------------------------------------------------------------------------
(* DISCONNECT and the error paths: disconnect is synchronized.              *)

EnterDisconnect(c) ==
  /\ At(c, "enterDisconnect")
  /\ \A d \in Conn : ~InDisconnect(d)
  /\ thread' = [thread EXCEPT ![c].at = "nextOfDisconnect", ![c].next = EntryFrom(1)]
  /\ UNCHANGED <<users, registryVars, clientVars>>

NextOfDisconnect(c) ==
  /\ At(c, "nextOfDisconnect")
  /\ IF thread[c].next = NoEntry THEN Go(c, "removeHandler") ELSE NextEntry(c, "removeOwn")
  /\ UNCHANGED <<users, registryVars, clientVars>>

RemoveOwn(c) ==
  /\ At(c, "removeOwn")
  /\ maps' = [maps EXCEPT ![thread[c].entry.map] = RemoveKeys(@, {c})]
  /\ Go(c, "isEmpty")
  /\ UNCHANGED <<users, clientHandlers, topicSubscribers, channelSubscriptions, sets,
                 clientVars>>

IsEmpty(c) ==
  /\ At(c, "isEmpty")
  /\ Go(c, IF maps[thread[c].entry.map] = EmptyMap THEN "dropMap" ELSE "nextOfDisconnect")
  /\ UNCHANGED <<users, registryVars, clientVars>>

(* A mutation of DropMap: the set of the channel is never dropped. *)
MutDropMapOnly(c) ==
  /\ At(c, "dropMap")
  /\ channelSubscriptions' = RemoveKeys(channelSubscriptions, {thread[c].entry.channel})
  /\ Go(c, "nextOfDisconnect")
  /\ UNCHANGED <<users, clientHandlers, topicSubscribers, sets, maps, clientVars>>

DropMap(c) ==
  /\ At(c, "dropMap")
  /\ channelSubscriptions' = RemoveKeys(channelSubscriptions, {thread[c].entry.channel})
  /\ Go(c, "dropTopic")
  /\ UNCHANGED <<users, clientHandlers, topicSubscribers, sets, maps, clientVars>>

(* A mutation of DropTopic: the loop ends with the first channel it empties. *)
MutDropTopicReturns(c) ==
  /\ At(c, "dropTopic")
  /\ topicSubscribers' = RemoveKeys(topicSubscribers, {thread[c].entry.channel})
  /\ Go(c, "removeHandler")
  /\ UNCHANGED <<users, clientHandlers, channelSubscriptions, sets, maps, clientVars>>

DropTopic(c) ==
  /\ At(c, "dropTopic")
  /\ topicSubscribers' = RemoveKeys(topicSubscribers, {thread[c].entry.channel})
  /\ Go(c, "nextOfDisconnect")
  /\ UNCHANGED <<users, clientHandlers, channelSubscriptions, sets, maps, clientVars>>

RemoveHandler(c) ==
  /\ At(c, "removeHandler")
  /\ clientHandlers' = clientHandlers \ {c}
  /\ Go(c, "disconnectUser")
  /\ UNCHANGED <<users, topicSubscribers, channelSubscriptions, sets, maps, clientVars>>

(* A mutation of LeaveStorage: the user of a DISCONNECT stays online. *)
MutLeaveStorageOnline(c) ==
  /\ At(c, "disconnectUser")
  /\ \/ /\ FrameOf(c).type = "DISCONNECT"
        /\ shouldTerminate' = [shouldTerminate EXCEPT ![c] = TRUE]
        /\ Stop(c)
        /\ UNCHANGED users
     \/ /\ FrameOf(c).type # "DISCONNECT"
        /\ DisconnectUser(c)
        /\ Finish(c)
        /\ UNCHANGED shouldTerminate
  /\ UNCHANGED <<registryVars, frames, sessions>>

(* disconnectUser(connectionId); then process sets shouldTerminate, which   *)
(* ends the thread of a client, if the frame is a DISCONNECT.               *)
LeaveStorage(c) ==
  /\ At(c, "disconnectUser")
  /\ DisconnectUser(c)
  /\ \/ /\ FrameOf(c).type = "DISCONNECT"
        /\ shouldTerminate' = [shouldTerminate EXCEPT ![c] = TRUE]
        /\ Stop(c)
     \/ /\ FrameOf(c).type # "DISCONNECT"
        /\ Finish(c)
        /\ UNCHANGED shouldTerminate
  /\ UNCHANGED <<registryVars, frames, sessions>>

ProcessDisconnect(c) ==
  \/ EnterDisconnect(c) \/ NextOfDisconnect(c) \/ RemoveOwn(c) \/ IsEmpty(c)
  \/ DropMap(c) \/ DropTopic(c) \/ RemoveHandler(c) \/ LeaveStorage(c)

-----------------------------------------------------------------------------
Step(c) ==
  \/ ProcessConnect(c) \/ ProcessSubscribe(c) \/ ProcessUnsubscribe(c)
  \/ ProcessSend(c) \/ ProcessDisconnect(c)

Next == \E c \in Conn : (\E frame \in Frame : Begin(c, frame)) \/ Leave(c) \/ Step(c)

Spec == Init /\ [][Next]_vars

-----------------------------------------------------------------------------
(* Properties *)

Entry == [channel: Channel, map: Ref] \cup {NoEntry}

ConnectLabel ==
  {"getUser", "addUser", "connectNew", "isConnected", "connectOld", "setConnectionId"}
SubscribeLabel ==
  {"exists", "contains", "addTopic", "addMap", "lockOf", "lock", "add", "mapOf", "put"}
UnsubscribeLabel == {"nextOfUnsubscribe", "containsValue", "removeIf", "leave"}
SendLabel == {"getSubscribers", "lockSubscribers", "visit"}
DisconnectLabel ==
  {"enterDisconnect", "nextOfDisconnect", "removeOwn", "isEmpty", "dropMap", "dropTopic",
   "removeHandler", "disconnectUser"}

Label ==
  {"idle", "dead"} \cup ConnectLabel \cup SubscribeLabel \cup UnsubscribeLabel
    \cup SendLabel \cup DisconnectLabel

LocalType ==
  [at: Label, frame: Frame \cup {NoFrame}, set: Ref \cup {NoRef}, map: Ref \cup {NoRef},
   todo: SUBSET Conn, entry: Entry, next: Entry]

TypeOK ==
  /\ StorageTypeOK
  /\ clientHandlers \subseteq Conn
  /\ topicSubscribers \in MapsOf(Channel, Ref)
  /\ channelSubscriptions \in MapsOf(Channel, Ref)
  /\ sets \in [Ref -> SUBSET Conn]
  /\ maps \in [Ref -> MapsOf(Conn, SubId)]
  /\ thread \in [Conn -> LocalType]
  /\ shouldTerminate \in [Conn -> BOOLEAN]
  /\ frames \in [Conn -> 0 .. MaxFrames]
  /\ sessions \in [Conn -> SUBSET Login]

(* Whatever logins race, a user that is online belongs to a connection that *)
(* has not logged out, whose logout will therefore free it.  (A connection  *)
(* that logged in to two users frees one of them only.)                     *)
OnlineHasOwner ==
  \A login \in DOMAIN users, c \in Conn :
    /\ users[login].connected
    /\ users[login].connectionId = c
    /\ sessions[c] = {login}
    => ~shouldTerminate[c]

(* A channel has a set of subscribers and no map of subscriptions only while *)
(* a thread is between putting one and the other (lines 83, 84) or dropping *)
(* them (68, 69): a broadcast that finds the set fails to find the map, and *)
(* throws, in no state that lasts.                                          *)
TopicsHaveMaps ==
  \A channel \in DOMAIN topicSubscribers \ DOMAIN channelSubscriptions :
    \E c \in Conn :
      \/ At(c, "addMap") /\ FrameOf(c).destination = channel
      \/ At(c, "dropTopic") /\ thread[c].entry.channel = channel

(* A connection that has logged out is in no subscription map in use, and   *)
(* has no handler, whatever the other threads do with the channels.         *)
CleanLogout ==
  \A c \in Conn : shouldTerminate[c] =>
    /\ c \notin clientHandlers
    /\ \A channel \in DOMAIN channelSubscriptions :
         c \notin DOMAIN maps[channelSubscriptions[channel]]

-----------------------------------------------------------------------------
(* What a comment of the sources says and overlapping frames break *)

(* ConnectFrame.java:43 says a user that is already connected is refused:   *)
(* two connections that are registered are never logged in to one user.     *)
LoginsExclusive ==
  \A c, d \in clientHandlers : c # d => sessions[c] \cap sessions[d] = {}

=============================================================================
