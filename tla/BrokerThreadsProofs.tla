------------------------ MODULE BrokerThreadsProofs ------------------------
(***************************************************************************)
(* Theorems about BrokerThreads, for every number of connections, logins,  *)
(* channels and objects, and every interleaving of their frames; and about *)
(* SerialBroker, in which no two handlers overlap.                         *)
(***************************************************************************)
EXTENDS SerialBroker, WellFoundedInduction, FiniteSetTheorems, TLAPS

-----------------------------------------------------------------------------
(* Maps and accounts *)

(* A function on a set of keys is one of the maps. *)
LEMMA MapIntro ==
  ASSUME NEW K, NEW V, NEW D \in SUBSET K, NEW f \in [D -> V]
  PROVE  f \in MapsOf(K, V)
BY DEF MapsOf

(* A map is a function from its keys, which are in K, to V. *)
LEMMA MapElim ==
  ASSUME NEW K, NEW V, NEW m \in MapsOf(K, V)
  PROVE  DOMAIN m \subseteq K /\ m \in [DOMAIN m -> V]
BY DEF MapsOf

(* The empty map is a map. *)
LEMMA EmptyMapType ==
  ASSUME NEW K, NEW V
  PROVE  EmptyMap \in MapsOf(K, V) /\ DOMAIN EmptyMap = {}
<1>1. EmptyMap \in [{} -> V] /\ DOMAIN EmptyMap = {}
  BY DEF EmptyMap
<1> QED BY <1>1, MapIntro

(* put adds one key and leaves the values of the others. *)
LEMMA PutType ==
  ASSUME NEW K, NEW V, NEW m \in MapsOf(K, V), NEW k \in K, NEW v \in V
  PROVE  /\ Put(m, k, v) \in MapsOf(K, V)
         /\ DOMAIN Put(m, k, v) = DOMAIN m \cup {k}
         /\ Put(m, k, v)[k] = v
         /\ \A x \in DOMAIN m : x # k => Put(m, k, v)[x] = m[x]
<1>1. DOMAIN m \subseteq K /\ m \in [DOMAIN m -> V]
  BY MapElim
<1>2. Put(m, k, v) \in [DOMAIN m \cup {k} -> V]
  BY <1>1 DEF Put
<1>3. DOMAIN m \cup {k} \in SUBSET K
  BY <1>1
<1> QED BY <1>2, <1>3, MapIntro DEF Put

(* putIfAbsent keeps every key and value and makes k a key. *)
LEMMA PutIfAbsentType ==
  ASSUME NEW K, NEW V, NEW m \in MapsOf(K, V), NEW k \in K, NEW v \in V
  PROVE  /\ PutIfAbsent(m, k, v) \in MapsOf(K, V)
         /\ DOMAIN PutIfAbsent(m, k, v) = DOMAIN m \cup {k}
         /\ \A x \in DOMAIN m : PutIfAbsent(m, k, v)[x] = m[x]
         /\ k \notin DOMAIN m => PutIfAbsent(m, k, v)[k] = v
<1>1. CASE k \in DOMAIN m
  BY <1>1 DEF PutIfAbsent
<1>2. CASE k \notin DOMAIN m
  BY <1>2, PutType DEF PutIfAbsent
<1> QED BY <1>1, <1>2

(* Removing keys leaves the values of the other keys. *)
LEMMA RemoveKeysType ==
  ASSUME NEW K, NEW V, NEW m \in MapsOf(K, V), NEW keys
  PROVE  /\ RemoveKeys(m, keys) \in MapsOf(K, V)
         /\ DOMAIN RemoveKeys(m, keys) = DOMAIN m \ keys
         /\ \A x \in DOMAIN m \ keys : RemoveKeys(m, keys)[x] = m[x]
<1>1. DOMAIN m \subseteq K /\ m \in [DOMAIN m -> V]
  BY MapElim
<1>2. RemoveKeys(m, keys) \in [DOMAIN m \ keys -> V] /\ DOMAIN m \ keys \in SUBSET K
  BY <1>1 DEF RemoveKeys
<1> QED BY <1>2, MapIntro DEF RemoveKeys

(* Removing a value leaves the entries with another value. *)
LEMMA RemoveValueType ==
  ASSUME NEW K, NEW V, NEW m \in MapsOf(K, V), NEW v
  PROVE  /\ RemoveValue(m, v) \in MapsOf(K, V)
         /\ DOMAIN RemoveValue(m, v) = {x \in DOMAIN m : m[x] # v}
         /\ \A x \in DOMAIN m : m[x] # v => RemoveValue(m, v)[x] = m[x]
<1>1. DOMAIN m \subseteq K /\ m \in [DOMAIN m -> V]
  BY MapElim
<1> DEFINE D == {x \in DOMAIN m : m[x] # v}
<1>2. RemoveValue(m, v) \in [D -> V] /\ D \in SUBSET K
  BY <1>1 DEF RemoveValue
<1> QED BY <1>2, MapIntro DEF RemoveValue

(* addUser adds an account or changes nothing. *)
LEMMA AddUserKeeps ==
  ASSUME NEW us \in MapsOf(Login, User), NEW login \in Login, NEW pass \in Passcode
  PROVE  /\ AddUser(us, login, pass) \in MapsOf(Login, User)
         /\ DOMAIN AddUser(us, login, pass) = DOMAIN us \cup {login}
         /\ \A l \in DOMAIN us : AddUser(us, login, pass)[l] = us[l]
         /\ login \notin DOMAIN us => AddUser(us, login, pass)[login] = NewUser(pass)
<1>1. NewUser(pass) \in User
  BY DEF NewUser, User
<1> QED BY <1>1, PutIfAbsentType DEF AddUser

(* connectUser changes one account, if it exists. *)
LEMMA ConnectUserKeeps ==
  ASSUME NEW us \in MapsOf(Login, User), NEW login, NEW c \in Conn
  PROVE  /\ ConnectUser(us, login, c) \in MapsOf(Login, User)
         /\ DOMAIN ConnectUser(us, login, c) = DOMAIN us
         /\ \A l \in DOMAIN us : l # login => ConnectUser(us, login, c)[l] = us[l]
         /\ login \in DOMAIN us => /\ ConnectUser(us, login, c)[login].connected
                                  /\ ConnectUser(us, login, c)[login].connectionId = c
<1>1. us \in [DOMAIN us -> User] /\ DOMAIN us \subseteq Login
  BY MapElim
<1>2. /\ ConnectUser(us, login, c) \in [DOMAIN us -> User]
      /\ \A l \in DOMAIN us : l # login => ConnectUser(us, login, c)[l] = us[l]
      /\ login \in DOMAIN us => /\ ConnectUser(us, login, c)[login].connected
                               /\ ConnectUser(us, login, c)[login].connectionId = c
  BY <1>1 DEF ConnectUser, User
<1> QED BY <1>1, <1>2, MapIntro

(* disconnectUser only changes whether a user is connected. *)
LEMMA DisconnectUserKeeps ==
  ASSUME StorageTypeOK, NEW c \in Conn, DisconnectUser(c)
  PROVE  /\ StorageTypeOK'
         /\ DOMAIN users' = DOMAIN users
         /\ \A login \in DOMAIN users :
              /\ users'[login].connectionId = users[login].connectionId
              /\ users'[login].password = users[login].password
              /\ users[login].connectionId # c =>
                   users'[login].connected = users[login].connected
<1>1. users \in [DOMAIN users -> User] /\ DOMAIN users \subseteq Login
  BY MapElim DEF StorageTypeOK
<1>2. CASE UNCHANGED users
  BY <1>2 DEF StorageTypeOK
<1>3. ASSUME NEW login \in UsersOf(users, c),
             users' = [users EXCEPT ![login].connected = FALSE]
      PROVE  /\ users' \in [DOMAIN users -> User]
             /\ \A l \in DOMAIN users :
                  /\ users'[l].connectionId = users[l].connectionId
                  /\ users'[l].password = users[l].password
                  /\ users[l].connectionId # c => users'[l].connected = users[l].connected
  BY <1>1, <1>3 DEF UsersOf, User
<1> QED BY <1>1, <1>2, <1>3, MapIntro DEF DisconnectUser, StorageTypeOK

-----------------------------------------------------------------------------

(* What a thread runs is a handler of the frame it has, and it waits for the *)
(* monitor of a set that it has found.                                      *)
Fits(local) ==
  /\ local.at \in ConnectLabel => local.frame.type = "CONNECT"
  /\ local.at \in SubscribeLabel => local.frame.type = "SUBSCRIBE"
  /\ local.at \in UnsubscribeLabel => local.frame.type = "UNSUBSCRIBE"
  /\ local.at \in SendLabel => local.frame.type = "SEND"
  /\ local.at = "lockSubscribers" => local.set \in Ref

ThreadsOK ==
  /\ thread \in [Conn -> LocalType]
  /\ \A c \in Conn : Fits(thread[c])

TypeInv == TypeOK /\ \A c \in Conn : Fits(thread[c])

(* The headers of a frame are determined by its type. *)
LEMMA FrameFields ==
  ASSUME NEW frame \in Frame \cup {NoFrame}
  PROVE  /\ frame.type = "CONNECT" => frame.login \in Login /\ frame.passcode \in Passcode
         /\ frame.type = "SUBSCRIBE" => frame.destination \in Channel /\ frame.id \in SubId
         /\ frame.type = "UNSUBSCRIBE" => frame.id \in SubId
         /\ frame.type = "SEND" => frame.destination \in Channel
BY DEF Frame, NoFrame

(* A frame is handled by the handler of its type. *)
LEMMA HandlerFits ==
  ASSUME NEW frame \in Frame
  PROVE  \/ frame.type = "CONNECT" /\ Handler[frame.type] \in ConnectLabel
         \/ frame.type = "SUBSCRIBE" /\ Handler[frame.type] \in SubscribeLabel
         \/ frame.type = "UNSUBSCRIBE" /\ Handler[frame.type] \in UnsubscribeLabel
         \/ frame.type = "SEND" /\ Handler[frame.type] \in SendLabel
         \/ frame.type = "DISCONNECT" /\ Handler[frame.type] \in DisconnectLabel
<1>1. frame.type \in {"CONNECT", "SUBSCRIBE", "UNSUBSCRIBE", "SEND", "DISCONNECT"}
  BY DEF Frame
<1>2. /\ Handler["CONNECT"] \in ConnectLabel
      /\ Handler["SUBSCRIBE"] \in SubscribeLabel
      /\ Handler["UNSUBSCRIBE"] \in UnsubscribeLabel
      /\ Handler["SEND"] \in SendLabel
      /\ Handler["DISCONNECT"] \in DisconnectLabel
  BY DEF Handler, ConnectLabel, SubscribeLabel, UnsubscribeLabel, SendLabel,
         DisconnectLabel
<1> QED BY <1>1, <1>2

(* A label belongs to one handler. *)
LEMMA LabelsDiffer ==
  /\ ConnectLabel \cap (SubscribeLabel \cup UnsubscribeLabel \cup SendLabel
                          \cup DisconnectLabel \cup {"idle", "dead"}) = {}
  /\ SubscribeLabel \cap (UnsubscribeLabel \cup SendLabel
                          \cup DisconnectLabel \cup {"idle", "dead"}) = {}
  /\ UnsubscribeLabel \cap (SendLabel \cup DisconnectLabel \cup {"idle", "dead"}) = {}
  /\ SendLabel \cap (DisconnectLabel \cup {"idle", "dead"}) = {}
  /\ DisconnectLabel \cap {"idle", "dead"} = {}
BY DEF ConnectLabel, SubscribeLabel, UnsubscribeLabel, SendLabel, DisconnectLabel

(* A set of numbers has a least element. *)
LEMMA LeastNumber ==
  ASSUME NEW S \in SUBSET Nat, S # {}
  PROVE  \E x \in S : \A y \in S : x <= y
<1> DEFINE R == OpToRel(<, Nat)
<1>1. IsWellFoundedOn(R, Nat)
  BY NatLessThanWellFounded
<1>2. \E x \in S : \A y \in S : <<y, x>> \notin R
  <2> HIDE DEF R
  <2> QED BY <1>1, WFMin
<1>3. \A x, y \in Nat : <<y, x>> \in R <=> y < x
  BY DEF OpToRel
<1> HIDE DEF R
<1>4. PICK x \in S : \A y \in S : <<y, x>> \notin R
  BY <1>2
<1>5. ASSUME NEW y \in S
      PROVE  x <= y
  <2>1. x \in Nat /\ y \in Nat
    OBVIOUS
  <2>2. ~(y < x)
    BY <1>3, <1>4, <2>1
  <2> QED BY <2>1, <2>2
<1> QED BY <1>5

(* The entry an iterator reaches is an entry of the map, or none. *)
LEMMA EntryFromType ==
  ASSUME TypeOK, NEW n
  PROVE  EntryFrom(n) \in Entry
<1> DEFINE ahead == {k \in DOMAIN channelSubscriptions : k >= n}
           first == CHOOSE k \in ahead : \A j \in ahead : k <= j
<1>1. CASE ahead = {}
  BY <1>1 DEF EntryFrom, Entry
<1>2. CASE ahead # {}
  <2>1. /\ DOMAIN channelSubscriptions \subseteq Channel
        /\ channelSubscriptions \in [DOMAIN channelSubscriptions -> Ref]
    BY MapElim DEF TypeOK
  <2>2. ahead \in SUBSET Nat
    BY <2>1, ThreadsAssumption
  <2>3. \E k \in ahead : \A j \in ahead : k <= j
    BY <1>2, <2>2, LeastNumber
  <2>4. first \in ahead
    BY <2>3
  <2> QED BY <1>2, <2>1, <2>4 DEF EntryFrom, Entry
<1> QED BY <1>1, <1>2


-----------------------------------------------------------------------------
(* The steps of a thread on its own state *)

LEMMA LocalIsTyped ==
  ASSUME NEW label \in {"idle", "dead"}
  PROVE  Local(label, NoFrame) \in LocalType /\ Fits(Local(label, NoFrame))
BY LabelsDiffer DEF Local, LocalType, Label, Fits, Entry, NoEntry

LEMMA SetThread ==
  ASSUME ThreadsOK, NEW c \in Conn, NEW local \in LocalType, Fits(local),
         thread' = [thread EXCEPT ![c] = local]
  PROVE  ThreadsOK'
BY DEF ThreadsOK

LEMMA FinishKeeps ==
  ASSUME ThreadsOK, NEW c \in Conn, Finish(c)
  PROVE  ThreadsOK'
BY LocalIsTyped, SetThread DEF Finish

LEMMA StopKeeps ==
  ASSUME ThreadsOK, NEW c \in Conn, Stop(c)
  PROVE  ThreadsOK'
<1> DEFINE label == IF ServerType = "tpc" THEN "dead" ELSE "idle"
<1>1. label \in {"idle", "dead"}
  OBVIOUS
<1>2. thread' = [thread EXCEPT ![c] = Local(label, NoFrame)]
  BY DEF Stop
<1> HIDE DEF label
<1> QED BY <1>1, <1>2, LocalIsTyped, SetThread

(* A step to another label of the same handler, or to disconnect, which the *)
(* handlers of all frames call.                                             *)
Follows(a, b) ==
  \/ b \in DisconnectLabel
  \/ a \in ConnectLabel /\ b \in ConnectLabel
  \/ a \in SubscribeLabel /\ b \in SubscribeLabel
  \/ a \in UnsubscribeLabel /\ b \in UnsubscribeLabel
  \/ a \in SendLabel /\ b \in SendLabel \ {"lockSubscribers"}

LEMMA StepKeeps ==
  ASSUME ThreadsOK, NEW c \in Conn, NEW local \in LocalType,
         thread' = [thread EXCEPT ![c] = local],
         local.frame = thread[c].frame, Follows(thread[c].at, local.at)
  PROVE  ThreadsOK'
<1>1. Fits(thread[c])
  BY DEF ThreadsOK
<1>2. "lockSubscribers" \in SendLabel
  BY DEF SendLabel
<1>3. Fits(local)
  BY <1>1, <1>2, LabelsDiffer DEF Fits, Follows
<1> QED BY <1>3, SetThread

LEMMA GoKeeps ==
  ASSUME ThreadsOK, NEW c \in Conn, NEW label \in Label, Go(c, label),
         Follows(thread[c].at, label)
  PROVE  ThreadsOK'
<1> DEFINE local == [thread[c] EXCEPT !.at = label]
<1>1. thread[c] \in LocalType
  BY DEF ThreadsOK
<1>2. /\ local \in LocalType
      /\ local.frame = thread[c].frame
      /\ local.at = label
  BY <1>1 DEF LocalType
<1>3. thread' = [thread EXCEPT ![c] = local]
  BY DEF Go
<1> HIDE DEF local
<1> QED BY <1>2, <1>3, StepKeeps

(* A step that also assigns set *)
LEMMA SetKeeps ==
  ASSUME ThreadsOK, NEW c \in Conn, NEW label \in Label, NEW set \in Ref \cup {NoRef},
         thread' = [thread EXCEPT ![c].at = label, ![c].set = set],
         Follows(thread[c].at, label)
  PROVE  ThreadsOK'
<1> DEFINE local == [thread[c] EXCEPT !.at = label, !.set = set]
<1>1. thread[c] \in LocalType
  BY DEF ThreadsOK
<1>2. local \in LocalType /\ local.frame = thread[c].frame /\ local.at = label
  BY <1>1 DEF LocalType
<1>3. thread' = [thread EXCEPT ![c] = local]
  OBVIOUS
<1> HIDE DEF local
<1> QED BY <1>2, <1>3, StepKeeps

(* A step that also assigns map *)
LEMMA MapKeeps ==
  ASSUME ThreadsOK, NEW c \in Conn, NEW label \in Label, NEW map \in Ref \cup {NoRef},
         thread' = [thread EXCEPT ![c].at = label, ![c].map = map],
         Follows(thread[c].at, label)
  PROVE  ThreadsOK'
<1> DEFINE local == [thread[c] EXCEPT !.at = label, !.map = map]
<1>1. thread[c] \in LocalType
  BY DEF ThreadsOK
<1>2. local \in LocalType /\ local.frame = thread[c].frame /\ local.at = label
  BY <1>1 DEF LocalType
<1>3. thread' = [thread EXCEPT ![c] = local]
  OBVIOUS
<1> HIDE DEF local
<1> QED BY <1>2, <1>3, StepKeeps

(* A step that starts an iteration *)
LEMMA NextKeeps ==
  ASSUME ThreadsOK, NEW c \in Conn, NEW label \in Label, NEW next \in Entry,
         thread' = [thread EXCEPT ![c].at = label, ![c].next = next],
         Follows(thread[c].at, label)
  PROVE  ThreadsOK'
<1> DEFINE local == [thread[c] EXCEPT !.at = label, !.next = next]
<1>1. thread[c] \in LocalType
  BY DEF ThreadsOK
<1>2. local \in LocalType /\ local.frame = thread[c].frame /\ local.at = label
  BY <1>1 DEF LocalType
<1>3. thread' = [thread EXCEPT ![c] = local]
  OBVIOUS
<1> HIDE DEF local
<1> QED BY <1>2, <1>3, StepKeeps

(* A step of an iteration *)
LEMMA EntryKeeps ==
  ASSUME ThreadsOK, NEW c \in Conn, NEW label \in Label, NEW entry \in Entry, NEW next \in Entry,
         thread' = [thread EXCEPT ![c].at = label, ![c].entry = entry, ![c].next = next],
         Follows(thread[c].at, label)
  PROVE  ThreadsOK'
<1> DEFINE local == [thread[c] EXCEPT !.at = label, !.entry = entry, !.next = next]
<1>1. thread[c] \in LocalType
  BY DEF ThreadsOK
<1>2. local \in LocalType /\ local.frame = thread[c].frame /\ local.at = label
  BY <1>1 DEF LocalType
<1>3. thread' = [thread EXCEPT ![c] = local]
  OBVIOUS
<1> HIDE DEF local
<1> QED BY <1>2, <1>3, StepKeeps

-----------------------------------------------------------------------------
(* Types *)

LEMMA ThreadFields ==
  ASSUME TypeInv, NEW c \in Conn
  PROVE  /\ ThreadsOK
         /\ thread[c] \in LocalType
         /\ thread[c].at \in ConnectLabel =>
              FrameOf(c).login \in Login /\ FrameOf(c).passcode \in Passcode
         /\ thread[c].at \in SubscribeLabel =>
              FrameOf(c).destination \in Channel /\ FrameOf(c).id \in SubId
         /\ thread[c].at \in UnsubscribeLabel => FrameOf(c).id \in SubId
         /\ thread[c].at \in SendLabel => FrameOf(c).destination \in Channel
<1>1. ThreadsOK /\ thread[c] \in LocalType /\ Fits(thread[c])
  BY DEF TypeInv, TypeOK, ThreadsOK
<1>2. thread[c].frame \in Frame \cup {NoFrame}
  BY <1>1 DEF LocalType
<1> QED BY <1>1, <1>2, FrameFields DEF Fits, FrameOf

LEMMA TypesOfRest ==
  ASSUME ThreadsOK', StorageTypeOK',
         clientHandlers' \subseteq Conn,
         topicSubscribers' \in MapsOf(Channel, Ref),
         channelSubscriptions' \in MapsOf(Channel, Ref),
         sets' \in [Ref -> SUBSET Conn],
         maps' \in [Ref -> MapsOf(Conn, SubId)],
         shouldTerminate' \in [Conn -> BOOLEAN],
         frames' \in [Conn -> 0 .. MaxFrames],
         sessions' \in [Conn -> SUBSET Login]
  PROVE  TypeInv'
BY DEF TypeInv, TypeOK, ThreadsOK

(* A step that changes only the thread of c keeps the types. *)
LEMMA ThreadStepKeeps ==
  ASSUME TypeInv, ThreadsOK', UNCHANGED <<users, registryVars, clientVars>>
  PROVE  TypeInv'
BY TypesOfRest DEF TypeInv, TypeOK, registryVars, clientVars, StorageTypeOK

LEMMA ConnectKeepsTypes ==
  ASSUME TypeInv, NEW c \in Conn, ProcessConnect(c)
  PROVE  TypeInv'
<1> USE ThreadFields
<1>1. /\ "addUser" \in ConnectLabel \cap Label
      /\ "isConnected" \in ConnectLabel \cap Label
      /\ "connectNew" \in ConnectLabel \cap Label
      /\ "connectOld" \in ConnectLabel \cap Label
      /\ "setConnectionId" \in ConnectLabel \cap Label
      /\ "getUser" \in ConnectLabel
      /\ "enterDisconnect" \in DisconnectLabel \cap Label
  BY DEF ConnectLabel, DisconnectLabel, Label
<1>2. CASE GetUser(c)
  BY <1>1, <1>2, GoKeeps, ThreadStepKeeps DEF GetUser, At, Follows
<1>3. CASE AddNewUser(c)
  <2>1. ThreadsOK'
    BY <1>1, <1>3, GoKeeps DEF AddNewUser, At, Follows
  <2>2. StorageTypeOK'
    BY <1>1, <1>3, AddUserKeeps DEF AddNewUser, At, StorageTypeOK, TypeInv, TypeOK
  <2> QED BY <1>3, <2>1, <2>2, TypesOfRest
          DEF AddNewUser, TypeInv, TypeOK, registryVars, clientVars
<1>4. CASE TestUser(c)
  BY <1>1, <1>4, GoKeeps, ThreadStepKeeps DEF TestUser, At, Follows
<1>5. CASE Connect(c)
  <2>1. thread[c].at \in ConnectLabel
    BY <1>1, <1>5 DEF Connect
  <2>2. ThreadsOK'
    BY <1>1, <1>5, <2>1, GoKeeps, FinishKeeps DEF Connect, At, Follows
  <2>3. StorageTypeOK'
    BY <1>5, ConnectUserKeeps DEF Connect, StorageTypeOK, TypeInv, TypeOK
  <2>4. sessions' \in [Conn -> SUBSET Login]
    BY <1>5, <2>1 DEF Connect, TypeInv, TypeOK
  <2> QED BY <1>5, <2>2, <2>3, <2>4, TypesOfRest
          DEF Connect, TypeInv, TypeOK, registryVars
<1>6. CASE SetConnectionId(c)
  <2>1. ThreadsOK'
    BY <1>6, FinishKeeps DEF SetConnectionId
  <2>2. users \in [DOMAIN users -> User] /\ DOMAIN users \subseteq Login
    BY MapElim DEF StorageTypeOK, TypeInv, TypeOK
  <2>3. users' \in [DOMAIN users -> User]
    BY <1>6, <2>2 DEF SetConnectionId, User
  <2>4. StorageTypeOK'
    BY <2>2, <2>3, MapIntro DEF StorageTypeOK
  <2> QED BY <1>6, <2>1, <2>4, TypesOfRest
          DEF SetConnectionId, TypeInv, TypeOK, registryVars, clientVars
<1> QED BY <1>2, <1>3, <1>4, <1>5, <1>6 DEF ProcessConnect

(* The set, or the map, of a channel is an object or null. *)
LEMMA LookupType ==
  ASSUME NEW map \in MapsOf(Channel, Ref), NEW channel
  PROVE  Lookup(map, channel) \in Ref \cup {NoRef}
BY MapElim DEF Lookup

(* Entering one value in a map of objects keeps its type. *)
LEMMA NewEntryKeeps ==
  ASSUME NEW map \in MapsOf(Channel, Ref), NEW channel \in Channel,
         NEW S \in SUBSET Ref, S # {}
  PROVE  PutIfAbsent(map, channel, CHOOSE r \in S : TRUE) \in MapsOf(Channel, Ref)
<1>1. PICK r \in Ref : r = CHOOSE s \in S : TRUE
  OBVIOUS
<1>2. PutIfAbsent(map, channel, r) \in MapsOf(Channel, Ref)
  BY PutIfAbsentType
<1> QED BY <1>1, <1>2

LEMMA SubscribeLabels ==
  /\ {"exists", "contains", "addTopic", "addMap", "lockOf", "lock", "add", "mapOf", "put"}
       \subseteq SubscribeLabel \cap Label
  /\ "enterDisconnect" \in DisconnectLabel \cap Label
BY DEF SubscribeLabel, DisconnectLabel, Label

LEMMA SubscribeKeepsTypes ==
  ASSUME TypeInv, NEW c \in Conn, ProcessSubscribe(c)
  PROVE  TypeInv'
<1> USE ThreadFields, SubscribeLabels
<1>1. CASE Exists(c)
  <2> DEFINE set == Lookup(topicSubscribers, FrameOf(c).destination)
             label == IF set = NoRef THEN "addTopic" ELSE "contains"
  <2>1. set \in Ref \cup {NoRef}
    BY LookupType DEF TypeInv, TypeOK
  <2>2. thread' = [thread EXCEPT ![c].at = label, ![c].set = set]
    BY <1>1 DEF Exists
  <2>3. label \in SubscribeLabel \cap Label
    OBVIOUS
  <2> HIDE DEF set, label
  <2>4. Follows(thread[c].at, label)
    BY <1>1, <2>3 DEF Exists, At, Follows
  <2>5. ThreadsOK'
    BY <2>1, <2>2, <2>3, <2>4, SetKeeps
  <2> QED BY <1>1, <2>5, ThreadStepKeeps DEF Exists
<1>2. CASE Contains(c)
  <2> DEFINE label == IF c \in sets[thread[c].set] THEN "enterDisconnect" ELSE "addTopic"
  <2>1. thread' = [thread EXCEPT ![c].at = label, ![c].set = NoRef]
    BY <1>2 DEF Contains
  <2>2. label \in (SubscribeLabel \cup DisconnectLabel) \cap Label
    OBVIOUS
  <2> HIDE DEF label
  <2>3. Follows(thread[c].at, label)
    BY <1>2, <2>2 DEF Contains, At, Follows
  <2>4. ThreadsOK'
    BY <2>1, <2>2, <2>3, SetKeeps
  <2> QED BY <1>2, <2>4, ThreadStepKeeps DEF Contains
<1>3. CASE AddTopic(c)
  <2>1. ThreadsOK'
    BY <1>3, GoKeeps DEF AddTopic, At, Follows
  <2>2. FreshSets \in SUBSET Ref /\ FrameOf(c).destination \in Channel
    BY <1>3 DEF AddTopic, At, FreshSets
  <2>3. topicSubscribers' \in MapsOf(Channel, Ref)
    BY <1>3, <2>2, NewEntryKeeps DEF AddTopic, TypeInv, TypeOK
  <2>4. sets' \in [Ref -> SUBSET Conn]
    BY <1>3 DEF AddTopic, TypeInv, TypeOK
  <2> QED BY <1>3, <2>1, <2>3, <2>4, TypesOfRest
          DEF AddTopic, TypeInv, TypeOK, StorageTypeOK, clientVars
<1>4. CASE AddMap(c)
  <2>1. ThreadsOK'
    BY <1>4, GoKeeps DEF AddMap, At, Follows
  <2>2. FreshMaps \in SUBSET Ref /\ FrameOf(c).destination \in Channel
    BY <1>4 DEF AddMap, At, FreshMaps
  <2>3. channelSubscriptions' \in MapsOf(Channel, Ref)
    BY <1>4, <2>2, NewEntryKeeps DEF AddMap, TypeInv, TypeOK
  <2>4. maps' \in [Ref -> MapsOf(Conn, SubId)]
    BY <1>4, EmptyMapType DEF AddMap, TypeInv, TypeOK
  <2> QED BY <1>4, <2>1, <2>3, <2>4, TypesOfRest
          DEF AddMap, TypeInv, TypeOK, StorageTypeOK, clientVars
<1>5. CASE LockOf(c)
  <2> DEFINE set == Lookup(topicSubscribers, FrameOf(c).destination)
  <2>1. set \in Ref \cup {NoRef}
    BY LookupType DEF TypeInv, TypeOK
  <2>2. Stop(c) \/ thread' = [thread EXCEPT ![c].at = "lock", ![c].set = set]
    BY <1>5 DEF LockOf
  <2> HIDE DEF set
  <2>3. ThreadsOK'
    BY <1>5, <2>1, <2>2, SetKeeps, StopKeeps DEF LockOf, At, Follows
  <2> QED BY <1>5, <2>3, ThreadStepKeeps DEF LockOf
<1>6. CASE Lock(c)
  BY <1>6, GoKeeps, ThreadStepKeeps DEF Lock, At, Follows
<1>7. CASE Add(c)
  <2>1. ThreadsOK'
    BY <1>7, GoKeeps, FinishKeeps, StopKeeps DEF Add, At, Follows
  <2>2. sets' \in [Ref -> SUBSET Conn]
    BY <1>7 DEF Add, TypeInv, TypeOK
  <2> QED BY <1>7, <2>1, <2>2, TypesOfRest
          DEF Add, TypeInv, TypeOK, StorageTypeOK, clientVars
<1>8. CASE MapOf(c)
  <2> DEFINE map == Lookup(channelSubscriptions, FrameOf(c).destination)
  <2>1. map \in Ref \cup {NoRef}
    BY LookupType DEF TypeInv, TypeOK
  <2>2. Stop(c) \/ thread' = [thread EXCEPT ![c].at = "put", ![c].map = map]
    BY <1>8 DEF MapOf
  <2> HIDE DEF map
  <2>3. ThreadsOK'
    BY <1>8, <2>1, <2>2, MapKeeps, StopKeeps DEF MapOf, At, Follows
  <2> QED BY <1>8, <2>3, ThreadStepKeeps DEF MapOf
<1>9. CASE PutId(c)
  <2>1. ThreadsOK'
    BY <1>9, FinishKeeps DEF PutId
  <2>2. FrameOf(c).id \in SubId
    BY <1>9 DEF PutId, At
  <2>3. \A r \in Ref : Put(maps[r], c, FrameOf(c).id) \in MapsOf(Conn, SubId)
    BY <2>2, PutType DEF TypeInv, TypeOK
  <2>4. maps' \in [Ref -> MapsOf(Conn, SubId)]
    BY <1>9, <2>3 DEF PutId, TypeInv, TypeOK
  <2> QED BY <1>9, <2>1, <2>4, TypesOfRest
          DEF PutId, TypeInv, TypeOK, StorageTypeOK, clientVars
<1> QED BY <1>1, <1>2, <1>3, <1>4, <1>5, <1>6, <1>7, <1>8, <1>9 DEF ProcessSubscribe

LEMMA UnsubscribeLabels ==
  {"nextOfUnsubscribe", "containsValue", "removeIf", "leave"} \subseteq UnsubscribeLabel \cap Label
BY DEF UnsubscribeLabel, Label

(* iterator.next() *)
LEMMA NextEntryKeeps ==
  ASSUME TypeInv, NEW c \in Conn, NEW label \in Label, NextEntry(c, label),
         Follows(thread[c].at, label)
  PROVE  ThreadsOK'
<1> DEFINE entry == thread[c].next
           next == EntryFrom(entry.channel + 1)
<1>1. entry \in Entry
  BY ThreadFields DEF LocalType
<1>2. next \in Entry
  BY EntryFromType DEF TypeInv
<1>3. thread' = [thread EXCEPT ![c].at = label, ![c].entry = entry, ![c].next = next]
  BY DEF NextEntry
<1> HIDE DEF entry, next
<1> QED BY <1>1, <1>2, <1>3, EntryKeeps, ThreadFields

LEMMA UnsubscribeKeepsTypes ==
  ASSUME TypeInv, NEW c \in Conn, ProcessUnsubscribe(c)
  PROVE  TypeInv'
<1> USE ThreadFields, UnsubscribeLabels
<1>1. CASE NextOfUnsubscribe(c)
  <2>1. Follows(thread[c].at, "containsValue")
    BY <1>1 DEF NextOfUnsubscribe, At, Follows
  <2>2. ThreadsOK'
    BY <1>1, <2>1, NextEntryKeeps, FinishKeeps DEF NextOfUnsubscribe
  <2> QED BY <1>1, <2>2, ThreadStepKeeps DEF NextOfUnsubscribe
<1>2. CASE ContainsValue(c)
  BY <1>2, GoKeeps, ThreadStepKeeps DEF ContainsValue, At, Follows
<1>3. CASE RemoveIf(c)
  <2>1. ThreadsOK'
    BY <1>3, GoKeeps DEF RemoveIf, At, Follows
  <2>2. \A r \in Ref : RemoveValue(maps[r], FrameOf(c).id) \in MapsOf(Conn, SubId)
    BY RemoveValueType DEF TypeInv, TypeOK
  <2>3. maps' \in [Ref -> MapsOf(Conn, SubId)]
    BY <1>3, <2>2 DEF RemoveIf, TypeInv, TypeOK
  <2> QED BY <1>3, <2>1, <2>3, TypesOfRest
          DEF RemoveIf, TypeInv, TypeOK, StorageTypeOK, clientVars
<1>4. CASE LeaveSet(c)
  <2>1. ThreadsOK'
    BY <1>4, GoKeeps, StopKeeps DEF LeaveSet, At, Follows
  <2>2. sets' \in [Ref -> SUBSET Conn]
    BY <1>4 DEF LeaveSet, TypeInv, TypeOK
  <2> QED BY <1>4, <2>1, <2>2, TypesOfRest
          DEF LeaveSet, TypeInv, TypeOK, StorageTypeOK, clientVars
<1> QED BY <1>1, <1>2, <1>3, <1>4 DEF ProcessUnsubscribe

LEMMA SendKeepsTypes ==
  ASSUME TypeInv, NEW c \in Conn, ProcessSend(c)
  PROVE  TypeInv'
<1>1. thread[c] \in LocalType /\ Fits(thread[c]) /\ ThreadsOK
  BY ThreadFields DEF TypeInv
<1>2. {"getSubscribers", "lockSubscribers", "visit"} \subseteq SendLabel \cap Label
  BY DEF SendLabel, Label
<1>3. CASE GetSubscribers(c)
  <2> DEFINE set == Lookup(topicSubscribers, FrameOf(c).destination)
             local == [thread[c] EXCEPT !.at = "lockSubscribers", !.set = set]
  <2>1. set \in Ref \cup {NoRef}
    BY LookupType DEF TypeInv, TypeOK
  <2>2. Finish(c) \/ (set # NoRef /\ thread' = [thread EXCEPT ![c] = local])
    BY <1>3 DEF GetSubscribers
  <2>3. thread[c].frame.type = "SEND"
    BY <1>1, <1>2, <1>3 DEF GetSubscribers, At, Fits
  <2> HIDE DEF set
  <2>4. /\ local \in LocalType /\ local.frame = thread[c].frame
        /\ local.at = "lockSubscribers" /\ local.set = set
    BY <1>1, <1>2, <2>1 DEF LocalType
  <2> HIDE DEF local
  <2>5. set # NoRef => Fits(local)
    BY <1>2, <2>1, <2>3, <2>4, LabelsDiffer DEF Fits
  <2>6. ThreadsOK'
    BY <1>1, <2>2, <2>4, <2>5, FinishKeeps, SetThread
  <2> QED BY <1>3, <2>6, ThreadStepKeeps DEF GetSubscribers
<1>4. CASE LockSubscribers(c)
  <2> DEFINE todo == sets[thread[c].set]
             local == [thread[c] EXCEPT !.at = "visit", !.todo = todo]
  <2>1. todo \in SUBSET Conn
    BY <1>1, <1>4 DEF LockSubscribers, At, Fits, TypeInv, TypeOK
  <2>2. thread' = [thread EXCEPT ![c] = local]
    BY <1>4 DEF LockSubscribers
  <2> HIDE DEF todo
  <2>3. local \in LocalType /\ local.frame = thread[c].frame /\ local.at = "visit"
    BY <1>1, <1>2, <2>1 DEF LocalType
  <2> HIDE DEF local
  <2>4. Follows(thread[c].at, local.at)
    BY <1>2, <1>4, <2>3 DEF LockSubscribers, At, Follows
  <2>5. ThreadsOK'
    BY <1>1, <2>2, <2>3, <2>4, StepKeeps
  <2> QED BY <1>4, <2>5, ThreadStepKeeps DEF LockSubscribers
<1>5. CASE Visit(c)
  <2>1. ASSUME NEW receiver,
               thread' = [thread EXCEPT ![c].todo = @ \ {receiver}]
        PROVE  ThreadsOK'
    <3> DEFINE local == [thread[c] EXCEPT !.todo = @ \ {receiver}]
    <3>1. /\ local \in LocalType /\ local.frame = thread[c].frame
          /\ local.at = thread[c].at
      BY <1>1 DEF LocalType
    <3>2. thread' = [thread EXCEPT ![c] = local]
      BY <2>1
    <3> HIDE DEF local
    <3>3. Follows(thread[c].at, local.at)
      BY <1>2, <1>5, <3>1 DEF Visit, At, Follows
    <3> QED BY <1>1, <3>1, <3>2, <3>3, StepKeeps
  <2>2. ThreadsOK'
    BY <1>1, <1>5, <2>1, FinishKeeps, StopKeeps DEF Visit
  <2> QED BY <1>5, <2>2, ThreadStepKeeps DEF Visit
<1> QED BY <1>3, <1>4, <1>5 DEF ProcessSend

LEMMA DisconnectLabels ==
  {"enterDisconnect", "nextOfDisconnect", "removeOwn", "isEmpty", "dropMap", "dropTopic",
   "removeHandler", "disconnectUser"} \subseteq DisconnectLabel \cap Label
BY DEF DisconnectLabel, Label

LEMMA DisconnectKeepsTypes ==
  ASSUME TypeInv, NEW c \in Conn, ProcessDisconnect(c)
  PROVE  TypeInv'
<1> USE ThreadFields, DisconnectLabels
<1>1. CASE EnterDisconnect(c)
  <2>1. thread' = [thread EXCEPT ![c].at = "nextOfDisconnect", ![c].next = EntryFrom(1)]
    BY <1>1 DEF EnterDisconnect
  <2>2. EntryFrom(1) \in Entry
    BY EntryFromType DEF TypeInv
  <2>3. Follows(thread[c].at, "nextOfDisconnect")
    BY DEF Follows
  <2>4. ThreadsOK'
    BY <2>1, <2>2, <2>3, NextKeeps
  <2> QED BY <1>1, <2>4, ThreadStepKeeps DEF EnterDisconnect
<1>2. CASE NextOfDisconnect(c)
  <2>1. Follows(thread[c].at, "removeOwn") /\ Follows(thread[c].at, "removeHandler")
    BY DEF Follows
  <2>2. ThreadsOK'
    BY <1>2, <2>1, NextEntryKeeps, GoKeeps DEF NextOfDisconnect
  <2> QED BY <1>2, <2>2, ThreadStepKeeps DEF NextOfDisconnect
<1>3. CASE RemoveOwn(c)
  <2>1. ThreadsOK'
    BY <1>3, GoKeeps DEF RemoveOwn, Follows
  <2>2. \A r \in Ref : RemoveKeys(maps[r], {c}) \in MapsOf(Conn, SubId)
    BY RemoveKeysType DEF TypeInv, TypeOK
  <2>3. maps' \in [Ref -> MapsOf(Conn, SubId)]
    BY <1>3, <2>2 DEF RemoveOwn, TypeInv, TypeOK
  <2> QED BY <1>3, <2>1, <2>3, TypesOfRest
          DEF RemoveOwn, TypeInv, TypeOK, StorageTypeOK, clientVars
<1>4. CASE IsEmpty(c)
  <2>1. ThreadsOK'
    BY <1>4, GoKeeps DEF IsEmpty, Follows
  <2> QED BY <1>4, <2>1, ThreadStepKeeps DEF IsEmpty
<1>5. CASE DropMap(c)
  <2>1. ThreadsOK'
    BY <1>5, GoKeeps DEF DropMap, Follows
  <2>2. channelSubscriptions' \in MapsOf(Channel, Ref)
    BY <1>5, RemoveKeysType DEF DropMap, TypeInv, TypeOK
  <2> QED BY <1>5, <2>1, <2>2, TypesOfRest
          DEF DropMap, TypeInv, TypeOK, StorageTypeOK, clientVars
<1>6. CASE DropTopic(c)
  <2>1. ThreadsOK'
    BY <1>6, GoKeeps DEF DropTopic, Follows
  <2>2. topicSubscribers' \in MapsOf(Channel, Ref)
    BY <1>6, RemoveKeysType DEF DropTopic, TypeInv, TypeOK
  <2> QED BY <1>6, <2>1, <2>2, TypesOfRest
          DEF DropTopic, TypeInv, TypeOK, StorageTypeOK, clientVars
<1>7. CASE RemoveHandler(c)
  <2>1. ThreadsOK'
    BY <1>7, GoKeeps DEF RemoveHandler, Follows
  <2> QED BY <1>7, <2>1, TypesOfRest
          DEF RemoveHandler, TypeInv, TypeOK, StorageTypeOK, clientVars
<1>8. CASE LeaveStorage(c)
  <2>1. ThreadsOK'
    BY <1>8, FinishKeeps, StopKeeps DEF LeaveStorage
  <2>2. StorageTypeOK'
    BY <1>8, DisconnectUserKeeps DEF LeaveStorage, TypeInv, TypeOK
  <2>3. shouldTerminate' \in [Conn -> BOOLEAN]
    BY <1>8 DEF LeaveStorage, TypeInv, TypeOK
  <2> QED BY <1>8, <2>1, <2>2, <2>3, TypesOfRest
          DEF LeaveStorage, TypeInv, TypeOK, registryVars
<1> QED BY <1>1, <1>2, <1>3, <1>4, <1>5, <1>6, <1>7, <1>8 DEF ProcessDisconnect

LEMMA BeginKeepsTypes ==
  ASSUME TypeInv, NEW c \in Conn, NEW frame \in Frame, Begin(c, frame)
  PROVE  TypeInv'
<1> DEFINE next == IF frame.type = "UNSUBSCRIBE" THEN EntryFrom(1) ELSE NoEntry
           local == [Local(Handler[frame.type], frame) EXCEPT !.next = next]
<1>1. next \in Entry
  BY EntryFromType DEF TypeInv, Entry
<1>2. Handler[frame.type] \in Label
  BY HandlerFits DEF Label
<1>3. thread' = [thread EXCEPT ![c] = local]
  BY DEF Begin
<1> HIDE DEF next
<1>4. /\ local \in LocalType
      /\ local.at = Handler[frame.type] /\ local.frame = frame
  BY <1>1, <1>2 DEF Local, LocalType, Entry, NoEntry
<1> HIDE DEF local
<1>5. Handler[frame.type] # "lockSubscribers"
  BY DEF Handler, Frame
<1>6. Fits(local)
  BY <1>4, <1>5, HandlerFits, LabelsDiffer DEF Fits
<1>7. ThreadsOK'
  BY <1>3, <1>4, <1>6, SetThread, ThreadFields
<1>8. frames' \in [Conn -> 0 .. MaxFrames]
  BY ThreadsAssumption DEF Begin, TypeInv, TypeOK
<1> QED BY <1>7, <1>8, TypesOfRest
        DEF Begin, TypeInv, TypeOK, StorageTypeOK, registryVars

LEMMA LeaveKeepsTypes ==
  ASSUME TypeInv, NEW c \in Conn, Leave(c)
  PROVE  TypeInv'
<1> DEFINE local == [thread[c] EXCEPT !.at = "dead"]
<1>1. thread[c] \in LocalType /\ ThreadsOK
  BY ThreadFields
<1>2. local \in LocalType /\ local.at = "dead"
  BY <1>1 DEF LocalType, Label
<1>3. thread' = [thread EXCEPT ![c] = local]
  BY DEF Leave, Go
<1> HIDE DEF local
<1>4. Fits(local)
  BY <1>2, LabelsDiffer DEF Fits
<1>5. ThreadsOK'
  BY <1>1, <1>2, <1>3, <1>4, SetThread
<1> QED BY <1>5, ThreadStepKeeps DEF Leave

LEMMA InitTypes == Init => TypeInv
<1> SUFFICES ASSUME Init PROVE TypeInv
  OBVIOUS
<1>1. ThreadsOK
  BY LocalIsTyped DEF Init, ThreadsOK
<1>2. /\ users \in MapsOf(Login, User)
      /\ topicSubscribers \in MapsOf(Channel, Ref)
      /\ channelSubscriptions \in MapsOf(Channel, Ref)
      /\ EmptyMap \in MapsOf(Conn, SubId)
  BY EmptyMapType DEF Init, StorageInit
<1> QED BY <1>1, <1>2, ThreadsAssumption DEF Init, TypeInv, TypeOK, ThreadsOK, StorageTypeOK

LEMMA NextTypes == TypeInv /\ [Next]_vars => TypeInv'
<1> SUFFICES ASSUME TypeInv, [Next]_vars PROVE TypeInv'
  OBVIOUS
<1>1. ASSUME NEW c \in Conn, NEW frame \in Frame, Begin(c, frame)
      PROVE  TypeInv'
  BY <1>1, BeginKeepsTypes
<1>2. ASSUME NEW c \in Conn, Leave(c)
      PROVE  TypeInv'
  BY <1>2, LeaveKeepsTypes
<1>3. ASSUME NEW c \in Conn, Step(c)
      PROVE  TypeInv'
  BY <1>3, ConnectKeepsTypes, SubscribeKeepsTypes, UnsubscribeKeepsTypes, SendKeepsTypes,
     DisconnectKeepsTypes DEF Step
<1>4. CASE UNCHANGED vars
  <2>1. ThreadsOK'
    BY <1>4 DEF vars, TypeInv, TypeOK, ThreadsOK
  <2> QED BY <1>4, <2>1, ThreadStepKeeps DEF vars
<1> QED BY <1>1, <1>2, <1>3, <1>4 DEF Next

LEMMA TypeInvAlways == Spec => []TypeInv
BY InitTypes, NextTypes, PTL DEF Spec

(* Whatever the frames of the clients do to each other, an object that a    *)
(* map holds is a set or a map, and a thread has what its next step needs.  *)
THEOREM ThreadsTyped == Spec => []TypeOK
<1>1. TypeInv => TypeOK
  BY DEF TypeInv
<1> QED BY <1>1, TypeInvAlways, PTL

-----------------------------------------------------------------------------
(* What a step leaves alone *)

(* A step of the thread of c, which was not dead, changes no other thread. *)
OwnThread(c) == ~At(c, "dead") /\ \A d \in Conn \ {c} : thread'[d] = thread[d]

(* It does not touch the accounts nor come to the second half of a login. *)
OffAccounts(c) ==
  /\ thread'[c].at # "setConnectionId"
  /\ UNCHANGED <<users, sessions, shouldTerminate>>

(* It neither adds nor drops a channel. *)
OffChannels(c) ==
  /\ ~At(c, "addMap") /\ ~At(c, "dropTopic")
  /\ UNCHANGED <<topicSubscribers, channelSubscriptions>>

LEMMA ConnectLeaves ==
  ASSUME TypeInv, NEW c \in Conn, ProcessConnect(c)
  PROVE  /\ OwnThread(c) /\ OffChannels(c)
         /\ GetUser(c) \/ TestUser(c) => OffAccounts(c)
<1>1. thread \in [Conn -> LocalType]
  BY DEF TypeInv, TypeOK
<1>2. thread[c].at \in ConnectLabel
  BY DEF ProcessConnect, GetUser, AddNewUser, TestUser, Connect, SetConnectionId, At,
         ConnectLabel
<1>3. \A d \in Conn \ {c} : thread'[d] = thread[d]
  BY <1>1 DEF ProcessConnect, GetUser, AddNewUser, TestUser, Connect, SetConnectionId,
              Go, Finish
<1>4. UNCHANGED <<topicSubscribers, channelSubscriptions>>
  BY DEF ProcessConnect, GetUser, AddNewUser, TestUser, Connect, SetConnectionId,
         registryVars
<1>5. GetUser(c) \/ TestUser(c) => OffAccounts(c)
  BY <1>1 DEF GetUser, TestUser, Go, OffAccounts, clientVars, LocalType
<1> QED BY <1>2, <1>3, <1>4, <1>5 DEF OwnThread, OffChannels, ConnectLabel, At

LEMMA SubscribeLeaves ==
  ASSUME TypeInv, NEW c \in Conn, ProcessSubscribe(c)
  PROVE  /\ OwnThread(c) /\ OffAccounts(c)
         /\ AddTopic(c) \/ AddMap(c) \/ OffChannels(c)
<1>1. thread \in [Conn -> LocalType]
  BY DEF TypeInv, TypeOK
<1>2. thread[c].at \in SubscribeLabel
  BY DEF ProcessSubscribe, Exists, Contains, AddTopic, AddMap, LockOf, Lock, Add, MapOf,
         PutId, At, SubscribeLabel
<1>3. \A d \in Conn \ {c} : thread'[d] = thread[d]
  BY <1>1 DEF ProcessSubscribe, Exists, Contains, AddTopic, AddMap, LockOf, Lock, Add,
              MapOf, PutId, Go, Finish, Stop
<1>4. UNCHANGED <<users, sessions, shouldTerminate>>
  BY DEF ProcessSubscribe, Exists, Contains, AddTopic, AddMap, LockOf, Lock, Add, MapOf,
         PutId, clientVars
<1>5. thread'[c].at # "setConnectionId"
  <2> USE <1>1 DEF LocalType, Go, Finish, Stop, Local
  <2>1. CASE Exists(c) \/ Contains(c)
    BY <2>1 DEF Exists, Contains
  <2>2. CASE AddTopic(c) \/ AddMap(c) \/ LockOf(c) \/ Lock(c)
    BY <2>2 DEF AddTopic, AddMap, LockOf, Lock
  <2>3. CASE Add(c) \/ MapOf(c) \/ PutId(c)
    BY <2>3 DEF Add, MapOf, PutId
  <2> QED BY <2>1, <2>2, <2>3 DEF ProcessSubscribe
<1>6. AddTopic(c) \/ AddMap(c) \/ OffChannels(c)
  BY DEF ProcessSubscribe, Exists, Contains, LockOf, Lock, Add, MapOf, PutId, At,
         OffChannels, registryVars
<1> QED BY <1>2, <1>3, <1>4, <1>5, <1>6 DEF OwnThread, OffAccounts, SubscribeLabel, At

LEMMA UnsubscribeLeaves ==
  ASSUME TypeInv, NEW c \in Conn, ProcessUnsubscribe(c)
  PROVE  OwnThread(c) /\ OffAccounts(c) /\ OffChannels(c)
<1>1. thread \in [Conn -> LocalType]
  BY DEF TypeInv, TypeOK
<1> USE DEF NextOfUnsubscribe, ContainsValue, RemoveIf, LeaveSet
<1>2. thread[c].at \in UnsubscribeLabel
  BY DEF ProcessUnsubscribe, At, UnsubscribeLabel
<1>3. \A d \in Conn \ {c} : thread'[d] = thread[d]
  BY <1>1 DEF ProcessUnsubscribe, NextEntry, Go, Finish, Stop
<1>4. UNCHANGED <<users, sessions, shouldTerminate, topicSubscribers, channelSubscriptions>>
  BY DEF ProcessUnsubscribe, clientVars, registryVars
<1>5. thread'[c].at # "setConnectionId"
  BY <1>1 DEF ProcessUnsubscribe, LocalType, NextEntry, Go, Finish, Stop, Local
<1> QED BY <1>2, <1>3, <1>4, <1>5
        DEF OwnThread, OffAccounts, OffChannels, UnsubscribeLabel, At

LEMMA SendLeaves ==
  ASSUME TypeInv, NEW c \in Conn, ProcessSend(c)
  PROVE  OwnThread(c) /\ OffAccounts(c) /\ OffChannels(c)
<1>1. thread \in [Conn -> LocalType]
  BY DEF TypeInv, TypeOK
<1> USE DEF GetSubscribers, LockSubscribers, Visit
<1>2. thread[c].at \in SendLabel
  BY DEF ProcessSend, At, SendLabel
<1>3. \A d \in Conn \ {c} : thread'[d] = thread[d]
  BY <1>1 DEF ProcessSend, Finish, Stop
<1>4. UNCHANGED <<users, sessions, shouldTerminate, topicSubscribers, channelSubscriptions>>
  BY DEF ProcessSend, clientVars, registryVars
<1>5. thread'[c].at # "setConnectionId"
  BY <1>1 DEF ProcessSend, LocalType, Finish, Stop, Local, At
<1> QED BY <1>2, <1>3, <1>4, <1>5 DEF OwnThread, OffAccounts, OffChannels, SendLabel, At

LEMMA DisconnectLeaves ==
  ASSUME TypeInv, NEW c \in Conn, ProcessDisconnect(c)
  PROVE  /\ OwnThread(c)
         /\ DropMap(c) \/ DropTopic(c) \/ OffChannels(c)
         /\ LeaveStorage(c) \/ OffAccounts(c)
<1>1. thread \in [Conn -> LocalType]
  BY DEF TypeInv, TypeOK
<1>2. thread[c].at \in DisconnectLabel
  BY DEF ProcessDisconnect, EnterDisconnect, NextOfDisconnect, RemoveOwn, IsEmpty, DropMap,
         DropTopic, RemoveHandler, LeaveStorage, At, DisconnectLabel
<1>3. \A d \in Conn \ {c} : thread'[d] = thread[d]
  BY <1>1 DEF ProcessDisconnect, EnterDisconnect, NextOfDisconnect, RemoveOwn, IsEmpty,
              DropMap, DropTopic, RemoveHandler, LeaveStorage, NextEntry, Go, Finish, Stop
<1>4. DropMap(c) \/ DropTopic(c) \/ OffChannels(c)
  BY DEF ProcessDisconnect, EnterDisconnect, NextOfDisconnect, RemoveOwn, IsEmpty,
         RemoveHandler, LeaveStorage, OffChannels, At, registryVars
<1>5. LeaveStorage(c) \/ OffAccounts(c)
  <2>1. LeaveStorage(c) \/ thread'[c].at # "setConnectionId"
    BY <1>1 DEF ProcessDisconnect, EnterDisconnect, NextOfDisconnect, RemoveOwn, IsEmpty,
                DropMap, DropTopic, RemoveHandler, NextEntry, Go, LocalType
  <2>2. LeaveStorage(c) \/ UNCHANGED <<users, sessions, shouldTerminate>>
    BY DEF ProcessDisconnect, EnterDisconnect, NextOfDisconnect, RemoveOwn, IsEmpty,
           DropMap, DropTopic, RemoveHandler, clientVars
  <2> QED BY <2>1, <2>2 DEF OffAccounts
<1> QED BY <1>2, <1>3, <1>4, <1>5 DEF OwnThread, DisconnectLabel, At

LEMMA OtherLeaves ==
  ASSUME TypeInv, NEW c \in Conn,
         Leave(c) \/ \E frame \in Frame : Begin(c, frame)
  PROVE  OwnThread(c) /\ OffAccounts(c) /\ OffChannels(c)
<1>1. thread \in [Conn -> LocalType]
  BY DEF TypeInv, TypeOK
<1>2. CASE Leave(c)
  BY <1>1, <1>2 DEF Leave, Go, LocalType, OwnThread, OffAccounts, OffChannels, At,
                    registryVars, clientVars
<1>3. ASSUME NEW frame \in Frame, Begin(c, frame)
      PROVE  OwnThread(c) /\ OffAccounts(c) /\ OffChannels(c)
  <2>1. Handler[frame.type] # "setConnectionId"
    BY DEF Frame, Handler
  <2>2. thread'[c].at = Handler[frame.type]
    BY <1>1, <1>3 DEF Begin, Local
  <2>3. At(c, "idle") /\ \A d \in Conn \ {c} : thread'[d] = thread[d]
    BY <1>1, <1>3 DEF Begin
  <2>4. UNCHANGED <<users, sessions, shouldTerminate, topicSubscribers, channelSubscriptions>>
    BY <1>3 DEF Begin, registryVars
  <2> QED BY <2>1, <2>2, <2>3, <2>4 DEF OwnThread, OffAccounts, OffChannels, At
<1> QED BY <1>2, <1>3

-----------------------------------------------------------------------------
(* Channels *)

LEMMA OffChannelsKeeps ==
  ASSUME TopicsHaveMaps, NEW c \in Conn, OwnThread(c), OffChannels(c)
  PROVE  TopicsHaveMaps'
BY DEF TopicsHaveMaps, OwnThread, OffChannels, At, FrameOf

LEMMA AddKeepsMaps ==
  ASSUME TypeInv, TopicsHaveMaps, NEW c \in Conn, OwnThread(c), AddTopic(c) \/ AddMap(c)
  PROVE  TopicsHaveMaps'
<1> DEFINE channel == FrameOf(c).destination
<1>1. thread \in [Conn -> LocalType]
  BY DEF TypeInv, TypeOK
<1>2. \A map, k, v : DOMAIN PutIfAbsent(map, k, v) = DOMAIN map \cup {k}
  BY DEF PutIfAbsent, Put
<1>3. CASE AddTopic(c)
  <2>1. /\ DOMAIN topicSubscribers' = DOMAIN topicSubscribers \cup {channel}
        /\ UNCHANGED channelSubscriptions
    BY <1>2, <1>3 DEF AddTopic
  <2>2. At(c, "addMap")' /\ FrameOf(c)' = FrameOf(c) /\ ~At(c, "dropTopic") /\ ~At(c, "addMap")
    BY <1>1, <1>3 DEF AddTopic, Go, At, FrameOf, LocalType
  <2> QED BY <2>1, <2>2 DEF TopicsHaveMaps, OwnThread, At, FrameOf
<1>4. CASE AddMap(c)
  <2>1. /\ DOMAIN channelSubscriptions' = DOMAIN channelSubscriptions \cup {channel}
        /\ UNCHANGED topicSubscribers
    BY <1>2, <1>4 DEF AddMap
  <2>2. At(c, "addMap")
    BY <1>4 DEF AddMap
  <2> QED BY <2>1, <2>2 DEF TopicsHaveMaps, OwnThread, At, FrameOf
<1> QED BY <1>3, <1>4

LEMMA DropKeepsMaps ==
  ASSUME TypeInv, TopicsHaveMaps, NEW c \in Conn, OwnThread(c), DropMap(c) \/ DropTopic(c)
  PROVE  TopicsHaveMaps'
<1> DEFINE channel == thread[c].entry.channel
<1>1. thread \in [Conn -> LocalType]
  BY DEF TypeInv, TypeOK
<1>2. \A map, keys : DOMAIN RemoveKeys(map, keys) = DOMAIN map \ keys
  BY DEF RemoveKeys
<1>3. CASE DropMap(c)
  <2>1. /\ DOMAIN channelSubscriptions' = DOMAIN channelSubscriptions \ {channel}
        /\ UNCHANGED topicSubscribers
    BY <1>2, <1>3 DEF DropMap
  <2>2. /\ At(c, "dropTopic")' /\ thread'[c].entry = thread[c].entry
        /\ ~At(c, "addMap") /\ ~At(c, "dropTopic")
    BY <1>1, <1>3 DEF DropMap, Go, At, LocalType
  <2> QED BY <2>1, <2>2 DEF TopicsHaveMaps, OwnThread, At, FrameOf
<1>4. CASE DropTopic(c)
  <2>1. /\ DOMAIN topicSubscribers' = DOMAIN topicSubscribers \ {channel}
        /\ UNCHANGED channelSubscriptions
    BY <1>2, <1>4 DEF DropTopic
  <2>2. At(c, "dropTopic")
    BY <1>4 DEF DropTopic
  <2> QED BY <2>1, <2>2 DEF TopicsHaveMaps, OwnThread, At, FrameOf
<1> QED BY <1>3, <1>4

LEMMA NextKeepsMaps == TypeInv /\ TopicsHaveMaps /\ [Next]_vars => TopicsHaveMaps'
<1> SUFFICES ASSUME TypeInv, TopicsHaveMaps, [Next]_vars PROVE TopicsHaveMaps'
  OBVIOUS
<1>1. ASSUME NEW c \in Conn, Leave(c) \/ \E frame \in Frame : Begin(c, frame)
      PROVE  TopicsHaveMaps'
  BY <1>1, OtherLeaves, OffChannelsKeeps
<1>2. ASSUME NEW c \in Conn, ProcessConnect(c) \/ ProcessUnsubscribe(c) \/ ProcessSend(c)
      PROVE  TopicsHaveMaps'
  BY <1>2, ConnectLeaves, UnsubscribeLeaves, SendLeaves, OffChannelsKeeps
<1>3. ASSUME NEW c \in Conn, ProcessSubscribe(c)
      PROVE  TopicsHaveMaps'
  BY <1>3, SubscribeLeaves, OffChannelsKeeps, AddKeepsMaps
<1>4. ASSUME NEW c \in Conn, ProcessDisconnect(c)
      PROVE  TopicsHaveMaps'
  BY <1>4, DisconnectLeaves, OffChannelsKeeps, DropKeepsMaps
<1>5. CASE UNCHANGED vars
  BY <1>5 DEF vars, registryVars, TopicsHaveMaps, At, FrameOf
<1> QED BY <1>1, <1>2, <1>3, <1>4, <1>5 DEF Next, Step

(* No interleaving of subscribes and disconnects leaves a channel with a    *)
(* set of subscribers and no map of subscriptions.                          *)
THEOREM TopicsAlwaysHaveMaps == Spec => []TopicsHaveMaps
<1>1. Init => TopicsHaveMaps
  BY DEF Init, TopicsHaveMaps, EmptyMap
<1> QED BY <1>1, NextKeepsMaps, TypeInvAlways, PTL DEF Spec

-----------------------------------------------------------------------------
(* Accounts *)

(* A connection that logged out has no thread, and the id of a user is that *)
(* of a connection that was logged in as it.                                *)
Ownership ==
  /\ \A c \in Conn : shouldTerminate[c] => At(c, "dead")
  /\ \A login \in DOMAIN users, c \in Conn :
       users[login].connectionId = c => login \in sessions[c]
  /\ \A c \in Conn : At(c, "setConnectionId") => FrameOf(c).login \in sessions[c]

OwnerInv == Ownership /\ OnlineHasOwner

LEMMA OffAccountsKeeps ==
  ASSUME OwnerInv, NEW c \in Conn, OwnThread(c), OffAccounts(c)
  PROVE  OwnerInv'
<1>1. UNCHANGED <<users, sessions, shouldTerminate>>
  BY DEF OffAccounts
<1>2. Ownership'
  BY <1>1 DEF OwnerInv, Ownership, OwnThread, OffAccounts, At, FrameOf
<1>3. OnlineHasOwner'
  BY <1>1 DEF OwnerInv, OnlineHasOwner
<1> QED BY <1>2, <1>3 DEF OwnerInv

LEMMA AddNewUserKeepsOwners ==
  ASSUME TypeInv, OwnerInv, NEW c \in Conn, OwnThread(c), AddNewUser(c)
  PROVE  OwnerInv'
<1> DEFINE login == FrameOf(c).login
<1>1. /\ users \in MapsOf(Login, User)
      /\ login \in Login /\ FrameOf(c).passcode \in Passcode
      /\ thread \in [Conn -> LocalType]
  BY ThreadFields DEF TypeInv, TypeOK, StorageTypeOK, AddNewUser, At, ConnectLabel
<1>2. /\ DOMAIN users' = DOMAIN users \cup {login}
      /\ \A l \in DOMAIN users : users'[l] = users[l]
      /\ login \notin DOMAIN users => users'[login] = NewUser(FrameOf(c).passcode)
  BY <1>1, AddUserKeeps DEF AddNewUser
<1>3. login \notin DOMAIN users =>
        users'[login].connectionId = NoConn /\ users'[login].connected = FALSE
  BY <1>2 DEF NewUser
<1>4. thread'[c].at = "connectNew" /\ UNCHANGED <<sessions, shouldTerminate>>
  BY <1>1 DEF AddNewUser, Go, clientVars, LocalType
<1>5. Ownership'
  BY <1>2, <1>3, <1>4, NoConnAssumption DEF OwnerInv, Ownership, OwnThread, At, FrameOf
<1>6. OnlineHasOwner'
  BY <1>2, <1>3, <1>4 DEF OwnerInv, OnlineHasOwner
<1> QED BY <1>5, <1>6 DEF OwnerInv

LEMMA ConnectKeepsOwners ==
  ASSUME TypeInv, OwnerInv, NEW c \in Conn, OwnThread(c), Connect(c)
  PROVE  OwnerInv'
<1> DEFINE login == FrameOf(c).login
<1>1. /\ users \in MapsOf(Login, User)
      /\ DOMAIN users \subseteq Login
      /\ users \in [DOMAIN users -> User]
      /\ sessions \in [Conn -> SUBSET Login]
      /\ thread \in [Conn -> LocalType]
  BY MapElim DEF TypeInv, TypeOK, StorageTypeOK
<1>2. /\ DOMAIN users' = DOMAIN users
      /\ \A l \in DOMAIN users : l # login => users'[l] = users[l]
      /\ login \in DOMAIN users => users'[login].connectionId = c
  <2>1. users' = ConnectUser(users, login, c)
    BY DEF Connect
  <2> HIDE DEF login
  <2> QED BY <1>1, <2>1, ConnectUserKeeps
<1>3. \A l \in DOMAIN users : l = login => users'[l].connectionId = c
  BY <1>2
<1>4. /\ sessions'[c] = sessions[c] \cup {login}
      /\ \A d \in Conn \ {c} : sessions'[d] = sessions[d]
      /\ UNCHANGED shouldTerminate
  BY <1>1 DEF Connect
<1>5. ~shouldTerminate[c]
  BY DEF OwnerInv, Ownership, OwnThread
<1>6. thread'[c].frame = thread[c].frame \/ thread'[c].at = "idle"
  BY <1>1 DEF Connect, Go, Finish, Local, LocalType
<1>7. Ownership'
  <2>1. \A d \in Conn : shouldTerminate'[d] => At(d, "dead")'
    BY <1>4, <1>5 DEF OwnerInv, Ownership, OwnThread, At
  <2>2. \A l \in DOMAIN users', d \in Conn :
          users'[l].connectionId = d => l \in sessions'[d]
    <3> SUFFICES ASSUME NEW l \in DOMAIN users, NEW d \in Conn,
                        users'[l].connectionId = d
                 PROVE  l \in sessions'[d]
      BY <1>2
    <3>1. CASE l = login
      BY <1>3, <1>4, <3>1
    <3>2. CASE l # login
      <4>1. l \in sessions[d]
        BY <1>2, <3>2 DEF OwnerInv, Ownership
      <4> QED BY <1>4, <4>1
    <3> QED BY <3>1, <3>2
  <2>3. \A d \in Conn : At(d, "setConnectionId")' => FrameOf(d)'.login \in sessions'[d]
    BY <1>4, <1>6 DEF OwnerInv, Ownership, OwnThread, At, FrameOf
  <2> QED BY <2>1, <2>2, <2>3 DEF Ownership
<1>8. OnlineHasOwner'
  BY <1>2, <1>3, <1>4, <1>5 DEF OwnerInv, OnlineHasOwner
<1> QED BY <1>7, <1>8 DEF OwnerInv

LEMMA SetConnectionIdKeepsOwners ==
  ASSUME TypeInv, OwnerInv, NEW c \in Conn, OwnThread(c), SetConnectionId(c)
  PROVE  OwnerInv'
<1> DEFINE login == FrameOf(c).login
<1>1. /\ users \in [DOMAIN users -> User]
      /\ thread \in [Conn -> LocalType]
  BY MapElim DEF TypeInv, TypeOK, StorageTypeOK
<1>2. /\ DOMAIN users' = DOMAIN users
      /\ \A l \in DOMAIN users : l # login => users'[l] = users[l]
      /\ \A l \in DOMAIN users : l = login => users'[l].connectionId = c
  BY <1>1 DEF SetConnectionId, User
<1>3. UNCHANGED <<sessions, shouldTerminate>> /\ thread'[c].at = "idle"
  BY <1>1 DEF SetConnectionId, clientVars, Finish, Local
<1>4. ~shouldTerminate[c]
  BY DEF OwnerInv, Ownership, OwnThread
<1>5. login \in sessions[c]
  BY DEF SetConnectionId, OwnerInv, Ownership
<1>6. Ownership'
  BY <1>2, <1>3, <1>4, <1>5 DEF OwnerInv, Ownership, OwnThread, At, FrameOf
<1>7. OnlineHasOwner'
  BY <1>2, <1>3, <1>4 DEF OwnerInv, OnlineHasOwner
<1> QED BY <1>6, <1>7 DEF OwnerInv

(* disconnectUser frees a user with the id, if there is one. *)
LEMMA DisconnectUserFrees ==
  ASSUME StorageTypeOK, NEW c \in Conn, DisconnectUser(c)
  PROVE  /\ DOMAIN users' = DOMAIN users
         /\ \A l \in DOMAIN users :
              /\ users'[l].connectionId = users[l].connectionId
              /\ users'[l].connected => users[l].connected
         /\ UsersOf(users, c) # {} => \E l \in UsersOf(users, c) : ~users'[l].connected
<1>1. users \in [DOMAIN users -> User]
  BY MapElim DEF StorageTypeOK
<1>2. CASE UsersOf(users, c) = {} /\ UNCHANGED users
  BY <1>2
<1>3. ASSUME NEW login \in UsersOf(users, c),
             users' = [users EXCEPT ![login].connected = FALSE]
      PROVE  /\ DOMAIN users' = DOMAIN users
             /\ \A l \in DOMAIN users :
                  /\ users'[l].connectionId = users[l].connectionId
                  /\ users'[l].connected => users[l].connected
             /\ ~users'[login].connected
  <2>1. login \in DOMAIN users
    BY DEF UsersOf
  <2>2. users'[login] = [users[login] EXCEPT !.connected = FALSE]
    BY <1>1, <1>3, <2>1
  <2>3. \A l \in DOMAIN users : l # login => users'[l] = users[l]
    BY <1>1, <1>3
  <2> QED BY <1>1, <1>3, <2>1, <2>2, <2>3 DEF User
<1> QED BY <1>2, <1>3 DEF DisconnectUser

LEMMA LeaveStorageKeepsOwners ==
  ASSUME ServerType = "tpc", TypeInv, OwnerInv,
         NEW c \in Conn, OwnThread(c), LeaveStorage(c)
  PROVE  OwnerInv'
<1>1. /\ StorageTypeOK
      /\ thread \in [Conn -> LocalType]
      /\ shouldTerminate \in [Conn -> BOOLEAN]
  BY DEF TypeInv, TypeOK
<1>2. /\ DOMAIN users' = DOMAIN users
      /\ \A l \in DOMAIN users :
           /\ users'[l].connectionId = users[l].connectionId
           /\ users'[l].connected => users[l].connected
      /\ UsersOf(users, c) # {} => \E l \in UsersOf(users, c) : ~users'[l].connected
  BY <1>1, DisconnectUserFrees DEF LeaveStorage
<1>3. /\ UNCHANGED sessions
      /\ \A d \in Conn \ {c} : shouldTerminate'[d] = shouldTerminate[d]
      /\ thread'[c].at \in {"idle", "dead"}
      /\ shouldTerminate'[c] => thread'[c].at = "dead"
  <2>1. ~shouldTerminate[c]
    BY DEF OwnerInv, Ownership, OwnThread
  <2> QED BY <1>1, <2>1 DEF LeaveStorage, Stop, Finish, Local
<1>4. Ownership'
  BY <1>2, <1>3 DEF OwnerInv, Ownership, OwnThread, At, FrameOf
<1>5. OnlineHasOwner'
  <2> SUFFICES ASSUME NEW login \in DOMAIN users, NEW d \in Conn,
                      users'[login].connected,
                      users'[login].connectionId = d,
                      sessions'[d] = {login}
               PROVE  ~shouldTerminate'[d]
    BY <1>2 DEF OnlineHasOwner
  <2>1. /\ users[login].connected /\ users[login].connectionId = d
        /\ sessions[d] = {login}
    BY <1>2, <1>3
  <2>2. CASE d = c
    <3>1. UsersOf(users, c) = {login}
      BY <2>1, <2>2 DEF UsersOf, OwnerInv, Ownership
    <3> QED BY <1>2, <3>1
  <2>3. CASE d # c
    BY <1>3, <2>1, <2>3 DEF OwnerInv, OnlineHasOwner
  <2> QED BY <2>2, <2>3
<1> QED BY <1>4, <1>5 DEF OwnerInv

LEMMA NextKeepsOwners ==
  ASSUME ServerType = "tpc"
  PROVE  TypeInv /\ OwnerInv /\ [Next]_vars => OwnerInv'
<1> SUFFICES ASSUME TypeInv, OwnerInv, [Next]_vars PROVE OwnerInv'
  OBVIOUS
<1>1. ASSUME NEW c \in Conn, Leave(c) \/ \E frame \in Frame : Begin(c, frame)
      PROVE  OwnerInv'
  BY <1>1, OtherLeaves, OffAccountsKeeps
<1>2. ASSUME NEW c \in Conn, ProcessConnect(c)
      PROVE  OwnerInv'
  BY <1>2, ConnectLeaves, OffAccountsKeeps, AddNewUserKeepsOwners, ConnectKeepsOwners,
     SetConnectionIdKeepsOwners DEF ProcessConnect
<1>3. ASSUME NEW c \in Conn, ProcessSubscribe(c) \/ ProcessUnsubscribe(c) \/ ProcessSend(c)
      PROVE  OwnerInv'
  BY <1>3, SubscribeLeaves, UnsubscribeLeaves, SendLeaves, OffAccountsKeeps
<1>4. ASSUME NEW c \in Conn, ProcessDisconnect(c)
      PROVE  OwnerInv'
  BY <1>4, DisconnectLeaves, OffAccountsKeeps, LeaveStorageKeepsOwners
<1>5. CASE UNCHANGED vars
  <2>1. UNCHANGED <<users, thread, sessions, shouldTerminate>>
    BY <1>5 DEF vars, clientVars
  <2>2. Ownership'
    BY <2>1 DEF OwnerInv, Ownership, At, FrameOf
  <2>3. OnlineHasOwner'
    BY <2>1 DEF OwnerInv, OnlineHasOwner
  <2> QED BY <2>2, <2>3 DEF OwnerInv
<1> QED BY <1>1, <1>2, <1>3, <1>4, <1>5 DEF Next, Step

(* In the thread-per-client server, whatever logins and logouts race, a user *)
(* stays online only for a connection that can still free it.               *)
THEOREM OnlineAlwaysHasOwner ==
  ASSUME ServerType = "tpc"
  PROVE  Spec => []OnlineHasOwner
<1>1. Init => OwnerInv
  BY DEF Init, StorageInit, EmptyMap, OwnerInv, Ownership, OnlineHasOwner, At, Local
<1>2. OwnerInv => OnlineHasOwner
  BY DEF OwnerInv
<1> QED BY <1>1, <1>2, NextKeepsOwners, TypeInvAlways, PTL DEF Spec

-----------------------------------------------------------------------------
(* Logouts *)

(* The connection is in the subscription map of the channel. *)
Subscribed(c, channel) ==
  /\ channel \in DOMAIN channelSubscriptions
  /\ c \in DOMAIN maps[channelSubscriptions[channel]]

(* The iterator has yet to return the entry of the channel. *)
IsAhead(next, channel) ==
  /\ next # NoEntry
  /\ \/ next.channel < channel
     \/ next.channel = channel /\ next.map = channelSubscriptions[channel]

(* A disconnect has yet to remove the connection from the channel's map. *)
ToBeRemoved(c, channel) ==
  /\ ~shouldTerminate[c]
  /\ ~At(c, "removeHandler") /\ ~At(c, "disconnectUser")
  /\ thread[c].at \in {"nextOfDisconnect", "isEmpty", "dropMap", "dropTopic"} =>
       IsAhead(thread[c].next, channel)
  /\ At(c, "removeOwn") =>
       \/ thread[c].entry.map = channelSubscriptions[channel]
       \/ IsAhead(thread[c].next, channel)

(* A connection that has logged out, or is about to, has no handler and no  *)
(* thread; one that disconnects leaves nothing behind its iterator.         *)
LogsOutClean(c) ==
  /\ shouldTerminate[c] => At(c, "dead")
  /\ shouldTerminate[c] \/ At(c, "disconnectUser") => c \notin clientHandlers
  /\ \A channel \in Channel : Subscribed(c, channel) => ToBeRemoved(c, channel)

LogoutInv == \A c \in Conn : LogsOutClean(c)

(* A step that takes the connection into no map in use, nor back to the     *)
(* handlers.                                                                *)
OnlyRemoves(c) ==
  /\ c \in clientHandlers' => c \in clientHandlers
  /\ \A channel \in Channel :
       Subscribed(c, channel)' =>
         /\ Subscribed(c, channel)
         /\ channelSubscriptions'[channel] = channelSubscriptions[channel]

(* The entry an iterator reaches from n on is before no channel it skips.   *)
LEMMA EntryFromIsAhead ==
  ASSUME TypeOK, NEW n, NEW channel \in DOMAIN channelSubscriptions, channel >= n
  PROVE  IsAhead(EntryFrom(n), channel)
<1> DEFINE ahead == {k \in DOMAIN channelSubscriptions : k >= n}
           first == CHOOSE k \in ahead : \A j \in ahead : k <= j
<1>1. /\ DOMAIN channelSubscriptions \subseteq Channel
      /\ channelSubscriptions \in [DOMAIN channelSubscriptions -> Ref]
  BY MapElim DEF TypeOK
<1>2. ahead \in SUBSET Nat /\ channel \in ahead
  BY <1>1, ThreadsAssumption
<1>3. \E k \in ahead : \A j \in ahead : k <= j
  BY <1>2, LeastNumber
<1>4. first \in ahead /\ first <= channel
  BY <1>2, <1>3
<1>5. EntryFrom(n) = [channel |-> first, map |-> channelSubscriptions[first]]
  BY <1>2 DEF EntryFrom
<1> HIDE DEF first
<1>6. first \in Nat \ {0} /\ channel \in Nat
  BY <1>1, <1>2, <1>4, ThreadsAssumption
<1>7. EntryFrom(n) # NoEntry
  BY <1>5, <1>6 DEF NoEntry
<1>8. first < channel \/ first = channel
  BY <1>4, <1>6
<1> QED BY <1>5, <1>7, <1>8 DEF IsAhead

-----------------------------------------------------------------------------
(* Steps on the maps of subscriptions *)

LEMMA SameMapsOnlyRemove ==
  ASSUME NEW c \in Conn, clientHandlers' \subseteq clientHandlers,
         UNCHANGED <<channelSubscriptions, maps>>
  PROVE  OnlyRemoves(c)
BY DEF OnlyRemoves, Subscribed

(* A step on one map that does not add the connection to it *)
LEMMA OneMapOnlyRemoves ==
  ASSUME TypeInv, NEW c \in Conn, NEW r, NEW map, c \in DOMAIN map => c \in DOMAIN maps[r],
         maps' = [maps EXCEPT ![r] = map],
         UNCHANGED <<clientHandlers, channelSubscriptions>>
  PROVE  OnlyRemoves(c)
<1>1. /\ maps \in [Ref -> MapsOf(Conn, SubId)]
      /\ channelSubscriptions \in [DOMAIN channelSubscriptions -> Ref]
  BY MapElim DEF TypeInv, TypeOK
<1>2. \A s \in Ref : c \in DOMAIN maps'[s] => c \in DOMAIN maps[s]
  BY <1>1
<1> QED BY <1>1, <1>2 DEF OnlyRemoves, Subscribed

(* The map a new channel is given is empty. *)
LEMMA AddMapOnlyRemoves ==
  ASSUME TypeInv, NEW c \in Conn, NEW d \in Conn, AddMap(d)
  PROVE  OnlyRemoves(c)
<1> DEFINE channel == FrameOf(d).destination
<1>1. /\ maps \in [Ref -> MapsOf(Conn, SubId)]
      /\ channelSubscriptions \in [DOMAIN channelSubscriptions -> Ref]
  BY MapElim DEF TypeInv, TypeOK
<1>2. PICK map \in Ref : /\ channelSubscriptions' =
                              PutIfAbsent(channelSubscriptions, channel, map)
                         /\ maps' = [maps EXCEPT ![map] = EmptyMap]
  BY DEF AddMap, FreshMaps
<1> HIDE DEF channel
<1>3. /\ DOMAIN channelSubscriptions' = DOMAIN channelSubscriptions \cup {channel}
      /\ \A k \in DOMAIN channelSubscriptions :
           channelSubscriptions'[k] = channelSubscriptions[k]
      /\ channel \notin DOMAIN channelSubscriptions => channelSubscriptions'[channel] = map
  BY <1>2 DEF PutIfAbsent, Put
<1>4. /\ c \notin DOMAIN maps'[map]
      /\ \A s \in Ref : c \in DOMAIN maps'[s] => c \in DOMAIN maps[s]
  BY <1>1, <1>2, EmptyMapType
<1>5. UNCHANGED clientHandlers
  BY DEF AddMap
<1> QED BY <1>1, <1>3, <1>4, <1>5 DEF OnlyRemoves, Subscribed

LEMMA DropMapOnlyRemoves ==
  ASSUME TypeInv, NEW c \in Conn, NEW d \in Conn, DropMap(d)
  PROVE  OnlyRemoves(c)
<1> DEFINE channel == thread[d].entry.channel
<1>1. /\ channelSubscriptions' = RemoveKeys(channelSubscriptions, {channel})
      /\ UNCHANGED <<clientHandlers, maps>>
  BY DEF DropMap
<1> HIDE DEF channel
<1>2. /\ DOMAIN channelSubscriptions' = DOMAIN channelSubscriptions \ {channel}
      /\ \A k \in DOMAIN channelSubscriptions' :
           channelSubscriptions'[k] = channelSubscriptions[k]
  BY <1>1 DEF RemoveKeys
<1> QED BY <1>1, <1>2 DEF OnlyRemoves, Subscribed

(* The steps of ProcessSubscribe on maps are AddMap and PutId. *)
LEMMA SubscribeOnlyRemoves ==
  ASSUME TypeInv, NEW c \in Conn, NEW d \in Conn, ProcessSubscribe(d),
         c # d \/ ~PutId(d)
  PROVE  OnlyRemoves(c)
<1>1. CASE AddMap(d)
  BY <1>1, AddMapOnlyRemoves
<1>2. CASE PutId(d)
  <2> DEFINE r == thread[d].map
             map == Put(maps[r], d, FrameOf(d).id)
  <2>1. DOMAIN map = DOMAIN maps[r] \cup {d}
    BY DEF Put
  <2>2. maps' = [maps EXCEPT ![r] = map]
    BY <1>2 DEF PutId
  <2>3. UNCHANGED <<clientHandlers, channelSubscriptions>>
    BY <1>2 DEF PutId
  <2> HIDE DEF r, map
  <2> QED BY <1>2, <2>1, <2>2, <2>3, OneMapOnlyRemoves
<1>3. CASE ~AddMap(d) /\ ~PutId(d)
  <2>1. UNCHANGED <<clientHandlers, channelSubscriptions, maps>>
    BY <1>3 DEF ProcessSubscribe, Exists, Contains, AddTopic, LockOf, Lock, Add, MapOf,
                registryVars
  <2> QED BY <2>1, SameMapsOnlyRemove
<1> QED BY <1>1, <1>2, <1>3

LEMMA UnsubscribeOnlyRemoves ==
  ASSUME TypeInv, NEW c \in Conn, NEW d \in Conn, ProcessUnsubscribe(d)
  PROVE  OnlyRemoves(c)
<1>1. CASE RemoveIf(d)
  <2> DEFINE r == thread[d].entry.map
             map == RemoveValue(maps[r], FrameOf(d).id)
  <2>1. DOMAIN map \subseteq DOMAIN maps[r]
    BY DEF RemoveValue
  <2>2. maps' = [maps EXCEPT ![r] = map]
    BY <1>1 DEF RemoveIf
  <2>3. UNCHANGED <<clientHandlers, channelSubscriptions>>
    BY <1>1 DEF RemoveIf
  <2> HIDE DEF r, map
  <2> QED BY <2>1, <2>2, <2>3, OneMapOnlyRemoves
<1>2. CASE ~RemoveIf(d)
  <2>1. UNCHANGED <<clientHandlers, channelSubscriptions, maps>>
    BY <1>2 DEF ProcessUnsubscribe, NextOfUnsubscribe, ContainsValue, LeaveSet, registryVars
  <2> QED BY <2>1, SameMapsOnlyRemove
<1> QED BY <1>1, <1>2

LEMMA DisconnectOnlyRemoves ==
  ASSUME TypeInv, NEW c \in Conn, NEW d \in Conn, ProcessDisconnect(d)
  PROVE  OnlyRemoves(c)
<1>1. CASE RemoveOwn(d)
  <2> DEFINE r == thread[d].entry.map
             map == RemoveKeys(maps[r], {d})
  <2>1. DOMAIN map \subseteq DOMAIN maps[r]
    BY DEF RemoveKeys
  <2>2. maps' = [maps EXCEPT ![r] = map]
    BY <1>1 DEF RemoveOwn
  <2>3. UNCHANGED <<clientHandlers, channelSubscriptions>>
    BY <1>1 DEF RemoveOwn
  <2> HIDE DEF r, map
  <2> QED BY <2>1, <2>2, <2>3, OneMapOnlyRemoves
<1>2. CASE DropMap(d)
  BY <1>2, DropMapOnlyRemoves
<1>3. CASE ~RemoveOwn(d) /\ ~DropMap(d)
  <2>1. clientHandlers' \subseteq clientHandlers /\ UNCHANGED <<channelSubscriptions, maps>>
    BY <1>3 DEF ProcessDisconnect, EnterDisconnect, NextOfDisconnect, IsEmpty, DropTopic,
                RemoveHandler, LeaveStorage, registryVars
  <2> QED BY <2>1, SameMapsOnlyRemove
<1> QED BY <1>1, <1>2, <1>3

(* Only the put of its own id takes a connection into a map in use. *)
LEMMA StepsOnlyRemove ==
  ASSUME TypeInv, NEW c \in Conn, NEW d \in Conn,
         \/ Leave(d) \/ \E frame \in Frame : Begin(d, frame)
         \/ Step(d),
         c # d \/ ~PutId(d)
  PROVE  OnlyRemoves(c)
<1>1. CASE Leave(d) \/ (\E frame \in Frame : Begin(d, frame)) \/ ProcessConnect(d)
             \/ ProcessSend(d)
  <2>1. UNCHANGED <<clientHandlers, channelSubscriptions, maps>>
    BY <1>1 DEF Leave, Begin, ProcessConnect, GetUser, AddNewUser, TestUser, Connect,
                SetConnectionId, ProcessSend, GetSubscribers, LockSubscribers, Visit,
                registryVars
  <2> QED BY <2>1, SameMapsOnlyRemove
<1> QED BY <1>1, SubscribeOnlyRemoves, UnsubscribeOnlyRemoves, DisconnectOnlyRemoves DEF Step

-----------------------------------------------------------------------------
(* Steps and the logout of a connection *)

(* A step of another thread *)
LEMMA OthersLogsOutClean ==
  ASSUME LogoutInv, NEW c \in Conn, OnlyRemoves(c),
         thread'[c] = thread[c], shouldTerminate'[c] = shouldTerminate[c]
  PROVE  LogsOutClean(c)'
BY DEF LogoutInv, LogsOutClean, OnlyRemoves, ToBeRemoved, IsAhead, At

(* A step that is not one of disconnect's *)
LEMMA OutsideLogsOutClean ==
  ASSUME LogoutInv, NEW c \in Conn, OwnThread(c), UNCHANGED shouldTerminate,
         ~InDisconnect(c)'
  PROVE  LogsOutClean(c)'
BY DEF LogoutInv, LogsOutClean, ToBeRemoved, OwnThread, InDisconnect, At

LEMMA HandlersStayOutside ==
  ASSUME TypeInv, NEW c \in Conn,
         \/ Leave(c) \/ \E frame \in Frame : Begin(c, frame)
         \/ ProcessConnect(c) \/ ProcessSubscribe(c) \/ ProcessUnsubscribe(c)
         \/ ProcessSend(c)
  PROVE  UNCHANGED shouldTerminate /\ ~InDisconnect(c)'
<1>1. thread \in [Conn -> LocalType]
  BY DEF TypeInv, TypeOK
<1>2. UNCHANGED shouldTerminate
  BY DEF Leave, Begin, ProcessConnect, GetUser, AddNewUser, TestUser, Connect,
         SetConnectionId, ProcessSubscribe, Exists, Contains, AddTopic, AddMap, LockOf,
         Lock, Add, MapOf, PutId, ProcessUnsubscribe, NextOfUnsubscribe, ContainsValue,
         RemoveIf, LeaveSet, ProcessSend, GetSubscribers, LockSubscribers, Visit, clientVars
<1> SUFFICES ~InDisconnect(c)'
  BY <1>2
<1> USE <1>1 DEF LocalType, Go, Finish, Stop, Local, InDisconnect, At
<1>3. CASE Leave(c)
  BY <1>3 DEF Leave
<1>4. ASSUME NEW frame \in Frame, Begin(c, frame)
      PROVE  ~InDisconnect(c)'
  <2>1. thread'[c].at = Handler[frame.type]
    BY <1>4 DEF Begin
  <2> QED BY <2>1 DEF Frame, Handler
<1>5. CASE ProcessConnect(c)
  BY <1>5 DEF ProcessConnect, GetUser, AddNewUser, TestUser, Connect, SetConnectionId
<1>6. CASE Exists(c) \/ Contains(c)
  BY <1>6 DEF Exists, Contains
<1>7. CASE AddTopic(c) \/ AddMap(c) \/ LockOf(c) \/ Lock(c)
  BY <1>7 DEF AddTopic, AddMap, LockOf, Lock
<1>8. CASE Add(c) \/ MapOf(c) \/ PutId(c)
  BY <1>8 DEF Add, MapOf, PutId
<1>9. CASE ProcessUnsubscribe(c)
  BY <1>9 DEF ProcessUnsubscribe, NextOfUnsubscribe, ContainsValue, RemoveIf, LeaveSet,
              NextEntry
<1>10. CASE ProcessSend(c)
  BY <1>10 DEF ProcessSend, GetSubscribers, LockSubscribers, Visit
<1> QED BY <1>2, <1>3, <1>4, <1>5, <1>6, <1>7, <1>8, <1>9, <1>10 DEF ProcessSubscribe

(* disconnect visits every channel whose map has the connection. *)
LEMMA IterationLogsOutClean ==
  ASSUME TypeInv, LogoutInv, NEW c \in Conn, OwnThread(c), OnlyRemoves(c),
         EnterDisconnect(c) \/ NextOfDisconnect(c)
  PROVE  LogsOutClean(c)'
<1>1. /\ thread \in [Conn -> LocalType]
      /\ thread[c].next \in Entry
      /\ DOMAIN channelSubscriptions \subseteq Channel
  BY MapElim DEF TypeInv, TypeOK, LocalType
<1>2. /\ UNCHANGED <<channelSubscriptions, maps, clientHandlers, shouldTerminate>>
      /\ ~shouldTerminate[c]
  BY DEF EnterDisconnect, NextOfDisconnect, registryVars, clientVars, LogoutInv,
         LogsOutClean, OwnThread
<1>3. thread'[c].at \in {"nextOfDisconnect", "removeOwn", "removeHandler"}
  BY <1>1 DEF EnterDisconnect, NextOfDisconnect, NextEntry, Go, LocalType
<1> SUFFICES ASSUME NEW channel \in Channel, Subscribed(c, channel)
             PROVE  ToBeRemoved(c, channel)'
  BY <1>2, <1>3 DEF LogsOutClean, Subscribed, At
<1>4. channel \in DOMAIN channelSubscriptions /\ channel \in Nat \ {0}
  BY ThreadsAssumption DEF Subscribed
<1>5. CASE EnterDisconnect(c)
  <2>1. thread'[c].at = "nextOfDisconnect" /\ thread'[c].next = EntryFrom(1)
    BY <1>1, <1>5 DEF EnterDisconnect, LocalType
  <2>2. channel >= 1
    BY <1>4
  <2>3. IsAhead(EntryFrom(1), channel)
    BY <1>4, <2>2, EntryFromIsAhead DEF TypeInv
  <2> QED BY <1>2, <2>1, <2>3 DEF ToBeRemoved, IsAhead, At
<1>6. CASE NextOfDisconnect(c)
  <2> DEFINE entry == thread[c].next
  <2>1. IsAhead(entry, channel)
    BY <1>6 DEF NextOfDisconnect, At, LogoutInv, LogsOutClean, ToBeRemoved
  <2>2. /\ thread'[c].at = "removeOwn"
        /\ thread'[c].entry = entry
        /\ thread'[c].next = EntryFrom(entry.channel + 1)
    BY <1>1, <1>6, <2>1 DEF NextOfDisconnect, NextEntry, IsAhead, LocalType
  <2>3. entry.channel \in Nat
    BY <1>1, <2>1, ThreadsAssumption DEF IsAhead, Entry
  <2> HIDE DEF entry
  <2>4. CASE entry.channel < channel
    <3>1. channel >= entry.channel + 1
      BY <1>4, <2>3, <2>4
    <3>2. IsAhead(EntryFrom(entry.channel + 1), channel)
      BY <1>4, <3>1, EntryFromIsAhead DEF TypeInv
    <3> QED BY <1>2, <2>2, <3>2 DEF ToBeRemoved, IsAhead, At
  <2>5. CASE entry.map = channelSubscriptions[channel]
    BY <1>2, <2>2, <2>5 DEF ToBeRemoved, At
  <2> QED BY <2>1, <2>4, <2>5 DEF IsAhead
<1> QED BY <1>5, <1>6

(* What disconnect does to the channel the iterator has returned, and to    *)
(* the handler when there is none left                                      *)
LEMMA RemovalLogsOutClean ==
  ASSUME TypeInv, LogoutInv, NEW c \in Conn, OwnThread(c), OnlyRemoves(c),
         RemoveOwn(c) \/ IsEmpty(c) \/ DropMap(c) \/ DropTopic(c) \/ RemoveHandler(c)
  PROVE  LogsOutClean(c)'
<1>1. /\ thread \in [Conn -> LocalType]
      /\ maps \in [Ref -> MapsOf(Conn, SubId)]
      /\ channelSubscriptions \in [DOMAIN channelSubscriptions -> Ref]
  BY MapElim DEF TypeInv, TypeOK
<1>2. UNCHANGED shouldTerminate /\ ~shouldTerminate[c]
  BY DEF RemoveOwn, IsEmpty, DropMap, DropTopic, RemoveHandler, registryVars, clientVars,
         LogoutInv, LogsOutClean, OwnThread
<1>3. /\ thread'[c].next = thread[c].next
      /\ thread'[c].entry = thread[c].entry
      /\ ~RemoveHandler(c) =>
           thread'[c].at \in {"nextOfDisconnect", "isEmpty", "dropMap", "dropTopic"}
      /\ RemoveHandler(c) => thread'[c].at = "disconnectUser" /\ c \notin clientHandlers'
  BY <1>1 DEF RemoveOwn, IsEmpty, DropMap, DropTopic, RemoveHandler, Go, LocalType
<1> SUFFICES ASSUME NEW channel \in Channel, Subscribed(c, channel)'
             PROVE  ToBeRemoved(c, channel)'
  BY <1>2, <1>3 DEF LogsOutClean, At
<1>4. /\ Subscribed(c, channel) /\ ToBeRemoved(c, channel)
      /\ channelSubscriptions'[channel] = channelSubscriptions[channel]
  BY DEF OnlyRemoves, LogoutInv, LogsOutClean
<1>5. ~RemoveHandler(c)
  BY <1>4 DEF RemoveHandler, ToBeRemoved
<1>6. IsAhead(thread[c].next, channel)
  <2>1. CASE RemoveOwn(c)
    <3>1. channelSubscriptions[channel] \in Ref
      BY <1>1, <1>4 DEF Subscribed
    <3>2. c \in DOMAIN maps'[channelSubscriptions[channel]]
      BY <1>4 DEF Subscribed
    <3>3. maps' = [maps EXCEPT ![thread[c].entry.map] = RemoveKeys(@, {c})]
      BY <2>1 DEF RemoveOwn
    <3>4. \A map : c \notin DOMAIN RemoveKeys(map, {c})
      BY DEF RemoveKeys
    <3>5. thread[c].entry.map # channelSubscriptions[channel]
      BY <1>1, <3>1, <3>2, <3>3, <3>4
    <3> QED BY <1>4, <2>1, <3>5 DEF ToBeRemoved, RemoveOwn
  <2>2. CASE ~RemoveOwn(c)
    BY <1>4, <1>5, <2>2 DEF IsEmpty, DropMap, DropTopic, ToBeRemoved, At
  <2> QED BY <2>1, <2>2
<1> QED BY <1>2, <1>3, <1>4, <1>5, <1>6 DEF ToBeRemoved, IsAhead, At

(* The end of a logout: no map in use has the connection. *)
LEMMA EndLogsOutClean ==
  ASSUME ServerType = "tpc", TypeInv, LogoutInv, NEW c \in Conn, OwnThread(c),
         OnlyRemoves(c), LeaveStorage(c)
  PROVE  LogsOutClean(c)'
<1>1. thread \in [Conn -> LocalType] /\ shouldTerminate \in [Conn -> BOOLEAN]
  BY DEF TypeInv, TypeOK
<1>2. At(c, "disconnectUser") /\ ~shouldTerminate[c]
  BY DEF LeaveStorage, LogoutInv, LogsOutClean, OwnThread
<1>3. c \notin clientHandlers /\ \A channel \in Channel : ~Subscribed(c, channel)
  BY <1>2 DEF LogoutInv, LogsOutClean, ToBeRemoved
<1>4. c \notin clientHandlers' /\ \A channel \in Channel : ~Subscribed(c, channel)'
  BY <1>3 DEF OnlyRemoves
<1>5. shouldTerminate'[c] => thread'[c].at = "dead"
  BY <1>1, <1>2 DEF LeaveStorage, Stop, Local
<1> QED BY <1>4, <1>5 DEF LogsOutClean, At

LEMMA DisconnectLogsOutClean ==
  ASSUME ServerType = "tpc", TypeInv, LogoutInv, NEW c \in Conn, OwnThread(c),
         OnlyRemoves(c), ProcessDisconnect(c)
  PROVE  LogsOutClean(c)'
BY IterationLogsOutClean, RemovalLogsOutClean, EndLogsOutClean DEF ProcessDisconnect

LEMMA StepKeepsLogouts ==
  ASSUME ServerType = "tpc", TypeInv, LogoutInv, NEW d \in Conn,
         \/ Leave(d) \/ \E frame \in Frame : Begin(d, frame)
         \/ Step(d)
  PROVE  LogoutInv'
<1>1. OwnThread(d)
  BY OtherLeaves, ConnectLeaves, SubscribeLeaves, UnsubscribeLeaves, SendLeaves,
     DisconnectLeaves DEF Step
<1>2. ASSUME NEW c \in Conn, c # d
      PROVE  LogsOutClean(c)'
  <2>1. OnlyRemoves(c)
    BY <1>2, StepsOnlyRemove
  <2>2. thread'[c] = thread[c]
    BY <1>1, <1>2 DEF OwnThread
  <2>3. shouldTerminate'[c] = shouldTerminate[c]
    <3>1. CASE LeaveStorage(d)
      BY <1>2, <3>1 DEF LeaveStorage, TypeInv, TypeOK
    <3>2. CASE ~LeaveStorage(d)
      BY <3>2, HandlersStayOutside, DisconnectLeaves DEF Step, OffAccounts
    <3> QED BY <3>1, <3>2
  <2> QED BY <2>1, <2>2, <2>3, OthersLogsOutClean
<1>3. LogsOutClean(d)'
  <2>1. CASE ProcessDisconnect(d)
    BY <1>1, <2>1, DisconnectOnlyRemoves, DisconnectLogsOutClean
  <2>2. CASE ~ProcessDisconnect(d)
    BY <1>1, <2>2, HandlersStayOutside, OutsideLogsOutClean DEF Step
  <2> QED BY <2>1, <2>2
<1> QED BY <1>2, <1>3 DEF LogoutInv

LEMMA NextKeepsLogouts ==
  ASSUME ServerType = "tpc"
  PROVE  TypeInv /\ LogoutInv /\ [Next]_vars => LogoutInv'
<1> SUFFICES ASSUME TypeInv, LogoutInv, [Next]_vars PROVE LogoutInv'
  OBVIOUS
<1>1. CASE Next
  BY <1>1, StepKeepsLogouts DEF Next
<1>2. CASE UNCHANGED vars
  BY <1>2 DEF vars, registryVars, clientVars, LogoutInv, LogsOutClean, Subscribed,
              ToBeRemoved, IsAhead, At
<1> QED BY <1>1, <1>2

(* In the thread-per-client server, whatever channels come and go while a   *)
(* client logs out, its logout leaves it in no map of subscriptions.        *)
THEOREM LogoutsAlwaysClean ==
  ASSUME ServerType = "tpc"
  PROVE  Spec => []CleanLogout
<1>1. Init => LogoutInv
  BY DEF Init, EmptyMap, LogoutInv, LogsOutClean, Subscribed, At, Local
<1>2. TypeInv /\ LogoutInv => CleanLogout
  <2>1. TypeInv => DOMAIN channelSubscriptions \subseteq Channel
    BY MapElim DEF TypeInv, TypeOK
  <2> QED BY <2>1 DEF LogoutInv, LogsOutClean, ToBeRemoved, Subscribed, CleanLogout
<1> QED BY <1>1, <1>2, NextKeepsLogouts, TypeInvAlways, PTL DEF Spec

-----------------------------------------------------------------------------
(* A handler that no other handler interrupts is one step of Broker: the    *)
(* invariant says, for each label of BrokerThreads, how far the shared      *)
(* state is on its way from that at the start of the frame, which settled   *)
(* keeps, to the one that Broker gives for the frame.                       *)

(* The values of the two maps are different objects. *)
Separate(map) == \A x, y \in DOMAIN map : map[x] = map[y] => x = y

ObjectsSeparate == Separate(topicSubscribers) /\ Separate(channelSubscriptions)

(* A map with the values that its objects have *)
View(map, heap) == [channel \in DOMAIN map |-> heap[map[channel]]]

Topics == View(topicSubscribers, sets)
Subscriptions == View(channelSubscriptions, maps)

-----------------------------------------------------------------------------
(* Maps of objects *)

LEMMA NewObjectSeparate ==
  ASSUME NEW map, NEW k, NEW r, Separate(map), r \notin Values(map)
  PROVE  Separate(PutIfAbsent(map, k, r))
<1>1. CASE k \in DOMAIN map
  BY <1>1 DEF PutIfAbsent
<1>2. CASE k \notin DOMAIN map
  <2> DEFINE new == PutIfAbsent(map, k, r)
  <2>1. /\ DOMAIN new = DOMAIN map \cup {k}
        /\ new[k] = r
        /\ \A x \in DOMAIN map : new[x] = map[x]
    BY <1>2 DEF PutIfAbsent, Put
  <2>2. \A x \in DOMAIN map : map[x] # r
    BY DEF Values
  <2> SUFFICES ASSUME NEW x \in DOMAIN new, NEW y \in DOMAIN new, new[x] = new[y]
               PROVE  x = y
    BY DEF Separate
  <2> HIDE DEF new
  <2>3. CASE x = k \/ y = k
    BY <1>2, <2>1, <2>2, <2>3
  <2>4. CASE x # k /\ y # k
    BY <2>1, <2>4 DEF Separate
  <2> QED BY <2>3, <2>4
<1> QED BY <1>1, <1>2

LEMMA DropSeparate ==
  ASSUME NEW map, NEW keys, Separate(map)
  PROVE  Separate(RemoveKeys(map, keys))
BY DEF Separate, RemoveKeys

LEMMA NewObjectView ==
  ASSUME NEW heap, heap = [x \in Ref |-> heap[x]], NEW map, map \in [DOMAIN map -> Ref],
         NEW k, NEW r \in Ref, NEW v, r \notin Values(map)
  PROVE  View(PutIfAbsent(map, k, r), [heap EXCEPT ![r] = v]) =
           PutIfAbsent(View(map, heap), k, v)
<1>1. \A x \in DOMAIN map : map[x] # r
  BY DEF Values
<1>2. CASE k \in DOMAIN map
  BY <1>1, <1>2 DEF PutIfAbsent, View
<1>3. CASE k \notin DOMAIN map
  <2> DEFINE new == Put(map, k, r)
             old == View(map, heap)
  <2>1. /\ DOMAIN new = DOMAIN map \cup {k}
        /\ new[k] = r
        /\ \A x \in DOMAIN map : new[x] = map[x]
    BY <1>3 DEF Put
  <2>2. DOMAIN old = DOMAIN map /\ \A x \in DOMAIN map : old[x] = heap[map[x]]
    BY DEF View
  <2>3. View(new, [heap EXCEPT ![r] = v]) =
          [x \in DOMAIN map \cup {k} |-> IF x = k THEN v ELSE heap[map[x]]]
    <3> HIDE DEF new
    <3> QED BY <1>1, <1>3, <2>1 DEF View
  <2>4. Put(old, k, v) = [x \in DOMAIN map \cup {k} |-> IF x = k THEN v ELSE heap[map[x]]]
    <3> HIDE DEF old
    <3> QED BY <1>3, <2>2 DEF Put
  <2>5. PutIfAbsent(map, k, r) = new /\ PutIfAbsent(old, k, v) = Put(old, k, v)
    BY <1>3, <2>2 DEF PutIfAbsent
  <2> QED BY <2>3, <2>4, <2>5
<1> QED BY <1>2, <1>3

LEMMA ChangedObjectView ==
  ASSUME NEW heap, heap = [x \in Ref |-> heap[x]], NEW map, map \in [DOMAIN map -> Ref],
         NEW k \in DOMAIN map, NEW v, Separate(map)
  PROVE  View(map, [heap EXCEPT ![map[k]] = v]) = [View(map, heap) EXCEPT ![k] = v]
BY DEF View, Separate

LEMMA DroppedView ==
  ASSUME NEW map, NEW heap, NEW keys
  PROVE  View(RemoveKeys(map, keys), heap) = RemoveKeys(View(map, heap), keys)
BY DEF View, RemoveKeys

LEMMA ViewFields ==
  ASSUME NEW map, NEW heap
  PROVE  /\ DOMAIN View(map, heap) = DOMAIN map
         /\ \A k \in DOMAIN map : View(map, heap)[k] = heap[map[k]]
BY DEF View

(* What the types say of the two maps and their objects *)
LEMMA ObjectTypes ==
  ASSUME TypeInv
  PROVE  /\ DOMAIN topicSubscribers \subseteq Channel
         /\ DOMAIN channelSubscriptions \subseteq Channel
         /\ topicSubscribers \in [DOMAIN topicSubscribers -> Ref]
         /\ channelSubscriptions \in [DOMAIN channelSubscriptions -> Ref]
         /\ sets \in [Ref -> SUBSET Conn]
         /\ maps \in [Ref -> MapsOf(Conn, SubId)]
         /\ thread \in [Conn -> LocalType]
         /\ NoRef \notin Ref
BY MapElim, ThreadsAssumption DEF TypeInv, TypeOK

LEMMA ViewTypes ==
  ASSUME TypeInv
  PROVE  /\ Topics \in MapsOf(Channel, SUBSET Conn)
         /\ Subscriptions \in MapsOf(Channel, MapsOf(Conn, SubId))
         /\ DOMAIN Topics = DOMAIN topicSubscribers
         /\ DOMAIN Subscriptions = DOMAIN channelSubscriptions
<1>1. /\ Topics \in [DOMAIN topicSubscribers -> SUBSET Conn]
      /\ Subscriptions \in [DOMAIN channelSubscriptions -> MapsOf(Conn, SubId)]
  BY ObjectTypes DEF Topics, Subscriptions, View
<1> QED BY <1>1, ObjectTypes, MapIntro

LEMMA ViewTypesNext ==
  TypeInv' => /\ Topics' \in MapsOf(Channel, SUBSET Conn)
              /\ Subscriptions' \in MapsOf(Channel, MapsOf(Conn, SubId))
<1>1. TypeInv => /\ Topics \in MapsOf(Channel, SUBSET Conn)
                 /\ Subscriptions \in MapsOf(Channel, MapsOf(Conn, SubId))
  BY ViewTypes
<1>2. (TypeInv => /\ Topics \in MapsOf(Channel, SUBSET Conn)
                  /\ Subscriptions \in MapsOf(Channel, MapsOf(Conn, SubId)))'
  BY <1>1, PTL
<1> QED BY <1>2

LEMMA NextKeepsSeparate == TypeInv /\ ObjectsSeparate /\ [Next]_vars => ObjectsSeparate'
<1> SUFFICES ASSUME TypeInv, ObjectsSeparate, [Next]_vars PROVE ObjectsSeparate'
  OBVIOUS
<1>1. CASE UNCHANGED <<topicSubscribers, channelSubscriptions>>
  BY <1>1 DEF ObjectsSeparate, Separate
<1>2. ASSUME NEW c \in Conn, AddTopic(c) PROVE ObjectsSeparate'
  <2>1. PICK r \in FreshSets :
          topicSubscribers' = PutIfAbsent(topicSubscribers, FrameOf(c).destination, r)
    BY <1>2 DEF AddTopic
  <2>2. Separate(topicSubscribers')
    BY <2>1, NewObjectSeparate DEF FreshSets, ObjectsSeparate
  <2> QED BY <1>2, <2>2 DEF AddTopic, ObjectsSeparate, Separate
<1>3. ASSUME NEW c \in Conn, AddMap(c) PROVE ObjectsSeparate'
  <2>1. PICK r \in FreshMaps :
          channelSubscriptions' = PutIfAbsent(channelSubscriptions, FrameOf(c).destination, r)
    BY <1>3 DEF AddMap
  <2>2. Separate(channelSubscriptions')
    BY <2>1, NewObjectSeparate DEF FreshMaps, ObjectsSeparate
  <2> QED BY <1>3, <2>2 DEF AddMap, ObjectsSeparate, Separate
<1>4. ASSUME NEW c \in Conn, DropMap(c) \/ DropTopic(c) PROVE ObjectsSeparate'
  <2>1. Separate(channelSubscriptions') /\ Separate(topicSubscribers')
    BY <1>4, DropSeparate DEF DropMap, DropTopic, ObjectsSeparate
  <2> QED BY <2>1 DEF ObjectsSeparate, Separate
<1>5. ASSUME NEW c \in Conn,
             \/ Leave(c) \/ \E frame \in Frame : Begin(c, frame)
             \/ Step(c)
      PROVE  ObjectsSeparate'
  BY <1>1, <1>2, <1>3, <1>4, <1>5, OtherLeaves, ConnectLeaves, SubscribeLeaves,
     UnsubscribeLeaves, SendLeaves, DisconnectLeaves DEF Step, OffChannels
<1>6. CASE UNCHANGED vars
  BY <1>1, <1>6 DEF vars, registryVars
<1> QED BY <1>5, <1>6 DEF Next

-----------------------------------------------------------------------------
(* The accesses to objects, as the shared state shows them *)

LEMMA AddTopicView ==
  ASSUME TypeInv, NEW c \in Conn, AddTopic(c)
  PROVE  /\ Topics' = PutIfAbsent(Topics, FrameOf(c).destination, {})
         /\ UNCHANGED <<Subscriptions, users, clientHandlers, shouldTerminate>>
<1>1. PICK r \in FreshSets :
        /\ topicSubscribers' = PutIfAbsent(topicSubscribers, FrameOf(c).destination, r)
        /\ sets' = [sets EXCEPT ![r] = {}]
  BY DEF AddTopic
<1>2. r \in Ref /\ r \notin Values(topicSubscribers)
  BY DEF FreshSets
<1>3. sets = [x \in Ref |-> sets[x]] /\ topicSubscribers \in [DOMAIN topicSubscribers -> Ref]
  BY ObjectTypes
<1>4. \A v : View(PutIfAbsent(topicSubscribers, FrameOf(c).destination, r),
                 [sets EXCEPT ![r] = v])
               = PutIfAbsent(View(topicSubscribers, sets), FrameOf(c).destination, v)
  BY <1>2, <1>3, NewObjectView
<1>5. Topics' = PutIfAbsent(Topics, FrameOf(c).destination, {})
  BY <1>1, <1>4 DEF Topics
<1> QED BY <1>5 DEF AddTopic, Subscriptions, View, clientVars

LEMMA AddMapView ==
  ASSUME TypeInv, NEW c \in Conn, AddMap(c)
  PROVE  /\ Subscriptions' = PutIfAbsent(Subscriptions, FrameOf(c).destination, EmptyMap)
         /\ UNCHANGED <<Topics, users, clientHandlers, shouldTerminate>>
<1>1. PICK r \in FreshMaps :
        /\ channelSubscriptions' =
             PutIfAbsent(channelSubscriptions, FrameOf(c).destination, r)
        /\ maps' = [maps EXCEPT ![r] = EmptyMap]
  BY DEF AddMap
<1>2. r \in Ref /\ r \notin Values(channelSubscriptions)
  BY DEF FreshMaps
<1>3. /\ maps = [x \in Ref |-> maps[x]]
      /\ channelSubscriptions \in [DOMAIN channelSubscriptions -> Ref]
  BY ObjectTypes
<1>4. View(PutIfAbsent(channelSubscriptions, FrameOf(c).destination, r),
           [maps EXCEPT ![r] = EmptyMap])
        = PutIfAbsent(View(channelSubscriptions, maps), FrameOf(c).destination, EmptyMap)
  BY <1>2, <1>3, NewObjectView
<1>5. Subscriptions' = PutIfAbsent(Subscriptions, FrameOf(c).destination, EmptyMap)
  BY <1>1, <1>4 DEF Subscriptions
<1> QED BY <1>5 DEF AddMap, Topics, View, clientVars
(* A step that changes no object and no channel *)
LEMMA SameViews ==
  ASSUME UNCHANGED <<topicSubscribers, channelSubscriptions, sets, maps>>
  PROVE  UNCHANGED <<Topics, Subscriptions>>
BY DEF Topics, Subscriptions, View

LEMMA TopicSet ==
  ASSUME TypeInv, NEW channel \in DOMAIN Topics
  PROVE  /\ channel \in DOMAIN topicSubscribers
         /\ Lookup(topicSubscribers, channel) = topicSubscribers[channel]
         /\ topicSubscribers[channel] \in Ref
         /\ topicSubscribers[channel] # NoRef
         /\ Topics[channel] = sets[topicSubscribers[channel]]
         /\ Topics[channel] \subseteq Conn
<1>1. channel \in DOMAIN topicSubscribers
  BY ViewTypes
<1> QED BY <1>1, ObjectTypes DEF Topics, View, Lookup

LEMMA ChannelMap ==
  ASSUME TypeInv, NEW channel \in DOMAIN Subscriptions
  PROVE  /\ channel \in DOMAIN channelSubscriptions
         /\ Lookup(channelSubscriptions, channel) = channelSubscriptions[channel]
         /\ channelSubscriptions[channel] \in Ref
         /\ channelSubscriptions[channel] # NoRef
         /\ Subscriptions[channel] = maps[channelSubscriptions[channel]]
         /\ Subscriptions[channel] \in MapsOf(Conn, SubId)
<1>1. channel \in DOMAIN channelSubscriptions
  BY ViewTypes
<1> QED BY <1>1, ObjectTypes DEF Subscriptions, View, Lookup

(* A step that changes one object *)
LEMMA ChangedSetView ==
  ASSUME TypeInv, ObjectsSeparate, NEW channel \in DOMAIN Topics, NEW set,
         sets' = [sets EXCEPT ![topicSubscribers[channel]] = set],
         UNCHANGED <<topicSubscribers, channelSubscriptions, maps>>
  PROVE  Topics' = [Topics EXCEPT ![channel] = set] /\ UNCHANGED Subscriptions
<1>1. channel \in DOMAIN topicSubscribers
  BY ViewTypes
<1>2. sets = [x \in Ref |-> sets[x]] /\ topicSubscribers \in [DOMAIN topicSubscribers -> Ref]
  BY ObjectTypes
<1>3. Separate(topicSubscribers)
  BY DEF ObjectsSeparate
<1>4. View(topicSubscribers, [sets EXCEPT ![topicSubscribers[channel]] = set])
        = [View(topicSubscribers, sets) EXCEPT ![channel] = set]
  BY <1>1, <1>2, <1>3, ChangedObjectView
<1> QED BY <1>4 DEF Topics, Subscriptions, View

LEMMA ChangedMapView ==
  ASSUME TypeInv, ObjectsSeparate, NEW channel \in DOMAIN Subscriptions, NEW map,
         maps' = [maps EXCEPT ![channelSubscriptions[channel]] = map],
         UNCHANGED <<topicSubscribers, channelSubscriptions, sets>>
  PROVE  Subscriptions' = [Subscriptions EXCEPT ![channel] = map] /\ UNCHANGED Topics
<1>1. channel \in DOMAIN channelSubscriptions
  BY ViewTypes
<1>2. /\ maps = [x \in Ref |-> maps[x]]
      /\ channelSubscriptions \in [DOMAIN channelSubscriptions -> Ref]
  BY ObjectTypes
<1>3. Separate(channelSubscriptions)
  BY DEF ObjectsSeparate
<1>4. View(channelSubscriptions, [maps EXCEPT ![channelSubscriptions[channel]] = map])
        = [View(channelSubscriptions, maps) EXCEPT ![channel] = map]
  BY <1>1, <1>2, <1>3, ChangedObjectView
<1> QED BY <1>4 DEF Topics, Subscriptions, View

(* Steps of a thread on its own state *)
LEMMA Ended ==
  ASSUME TypeInv, NEW c \in Conn, Finish(c) \/ Stop(c)
  PROVE  ~Busy(c)'
BY ThreadFields DEF ThreadsOK, Finish, Stop, Local, Busy

LEMMA Went ==
  ASSUME TypeInv, NEW c \in Conn, NEW label, Go(c, label)
  PROVE  thread'[c] = [thread[c] EXCEPT !.at = label]
BY ThreadFields DEF ThreadsOK, Go

LEMMA GoFields ==
  ASSUME TypeInv, NEW c \in Conn, NEW label, Go(c, label)
  PROVE  /\ thread'[c].at = label
         /\ thread'[c].frame = thread[c].frame
         /\ thread'[c].set = thread[c].set
         /\ thread'[c].map = thread[c].map
         /\ thread'[c].entry = thread[c].entry
         /\ thread'[c].next = thread[c].next
<1> DEFINE local == thread[c]
<1>1. local \in LocalType
  BY ThreadFields
<1>2. thread'[c] = [local EXCEPT !.at = label]
  BY Went
<1> HIDE DEF local
<1>3. /\ thread'[c].at = label
      /\ thread'[c].frame = local.frame
      /\ thread'[c].set = local.set
      /\ thread'[c].map = local.map
      /\ thread'[c].entry = local.entry
      /\ thread'[c].next = local.next
  BY <1>1, <1>2 DEF LocalType
<1> QED BY <1>3 DEF local

(* What has changed since the frame began: accounts, handlers and channels. *)
Now(accounts, handlers, topics, subscriptions) ==
  /\ users = accounts
  /\ clientHandlers = handlers
  /\ Topics = topics
  /\ Subscriptions = subscriptions
  /\ shouldTerminate = settled.shouldTerminate

NowUsers(accounts) ==
  Now(accounts, settled.clientHandlers, settled.topicSubscribers, settled.channelSubscriptions)

NowChannels(topics, subscriptions) ==
  Now(settled.users, settled.clientHandlers, topics, subscriptions)

Unchanged == NowUsers(settled.users)

MayLogIn(c) == B!MayLogIn(FrameOf(c).login, FrameOf(c).passcode)

ConnectProgress(c) ==
  LET login == FrameOf(c).login
      accounts == AddUser(settled.users, login, FrameOf(c).passcode)
  IN
  /\ At(c, "getUser") => Unchanged
  /\ At(c, "addUser") => Unchanged /\ login \notin DOMAIN settled.users
  /\ At(c, "isConnected") => Unchanged /\ login \in DOMAIN settled.users
  /\ At(c, "connectNew") => NowUsers(accounts) /\ login \notin DOMAIN settled.users
  /\ At(c, "connectOld") => Unchanged /\ login \in DOMAIN settled.users /\ MayLogIn(c)
  /\ At(c, "setConnectionId") =>
       /\ NowUsers(ConnectUser(settled.users, login, c))
       /\ login \in DOMAIN settled.users /\ MayLogIn(c)

IsSubscribed(c) == B!ExistsSubscription(FrameOf(c).destination, c)

SubscribeProgress(c) ==
  LET channel == FrameOf(c).destination
      topics == PutIfAbsent(settled.topicSubscribers, channel, {})
      subscriptions == PutIfAbsent(settled.channelSubscriptions, channel, EmptyMap)
  IN
  /\ thread[c].at \in {"exists", "contains", "addTopic"} => Unchanged
  /\ At(c, "contains") =>
       channel \in DOMAIN topicSubscribers /\ thread[c].set = topicSubscribers[channel]
  /\ thread[c].at \in SubscribeLabel \ {"exists", "contains"} => ~IsSubscribed(c)
  /\ At(c, "addMap") => NowChannels(topics, settled.channelSubscriptions)
  /\ thread[c].at \in {"lockOf", "lock", "add"} => NowChannels(topics, subscriptions)
  /\ thread[c].at \in {"mapOf", "put"} =>
       NowChannels([topics EXCEPT ![channel] = @ \cup {c}], subscriptions)
  /\ At(c, "put") => thread[c].map = channelSubscriptions[channel]

SendProgress(c) == thread[c].at \in SendLabel => Unchanged

(* The channels that an iterator is past, or before, or has got to          *)
Past(next) == {k \in Channel : next = NoEntry \/ k < next.channel}
Before(entry) == {k \in Channel : k < entry.channel}
UpTo(entry) == {k \in Channel : k <= entry.channel}

(* An entry that is in the map *)
InMap(entry) ==
  entry.channel \in DOMAIN channelSubscriptions /\ entry.map = channelSubscriptions[entry.channel]

IsNext(c) == thread[c].next = EntryFrom(thread[c].entry.channel + 1)

(* The channels with an id removed in some, and the subscriber in others    *)
Removed(c, id, done, left) ==
  NowChannels(
    [k \in DOMAIN settled.topicSubscribers |->
       IF k \in left \cap B!ChannelsWith(id) THEN settled.topicSubscribers[k] \ {c}
       ELSE settled.topicSubscribers[k]],
    [k \in DOMAIN settled.channelSubscriptions |->
       IF k \in done THEN RemoveValue(settled.channelSubscriptions[k], id)
       ELSE settled.channelSubscriptions[k]])

UnsubscribeProgress(c) ==
  LET entry == thread[c].entry
      next  == thread[c].next
      id    == FrameOf(c).id
  IN
  /\ At(c, "nextOfUnsubscribe") =>
       /\ next # NoEntry => InMap(next)
       /\ Removed(c, id, Past(next), Past(next))
  /\ thread[c].at \in {"containsValue", "removeIf", "leave"} => InMap(entry) /\ IsNext(c)
  /\ thread[c].at \in {"containsValue", "removeIf"} =>
       Removed(c, id, Before(entry), Before(entry))
  /\ At(c, "leave") => Removed(c, id, UpTo(entry), Before(entry))
  /\ thread[c].at \in {"removeIf", "leave"} => entry.channel \in B!ChannelsWith(id)

(* The channels a disconnect has been through: in some it has removed the   *)
(* connection, some of those that this empties have lost their map, and     *)
(* some their set.                                                          *)
Emptied(c, handlers, done, dropped, closed) ==
  Now(settled.users, handlers,
      RemoveKeys(settled.topicSubscribers, closed \cap B!EmptiedBy(c)),
      [k \in DOMAIN settled.channelSubscriptions \ (dropped \cap B!EmptiedBy(c)) |->
         IF k \in done THEN RemoveKeys(settled.channelSubscriptions[k], {c})
         ELSE settled.channelSubscriptions[k]])

(* The frames that disconnect *)
Disconnects(c) ==
  \/ FrameOf(c).type = "CONNECT" /\ ~MayLogIn(c)
  \/ FrameOf(c).type = "SUBSCRIBE" /\ IsSubscribed(c)
  \/ FrameOf(c).type = "DISCONNECT"

DisconnectProgress(c) ==
  LET entry == thread[c].entry
      next  == thread[c].next
      handlers == settled.clientHandlers
  IN
  /\ thread[c].at \in DisconnectLabel => Disconnects(c)
  /\ At(c, "enterDisconnect") => Unchanged
  /\ At(c, "nextOfDisconnect") =>
       /\ next # NoEntry => InMap(next)
       /\ Emptied(c, handlers, Past(next), Past(next), Past(next))
  /\ thread[c].at \in {"removeOwn", "isEmpty", "dropMap", "dropTopic"} => IsNext(c)
  /\ thread[c].at \in {"removeOwn", "isEmpty", "dropMap"} => InMap(entry)
  /\ At(c, "removeOwn") => Emptied(c, handlers, Before(entry), Before(entry), Before(entry))
  /\ thread[c].at \in {"isEmpty", "dropMap"} =>
       Emptied(c, handlers, UpTo(entry), Before(entry), Before(entry))
  /\ At(c, "dropTopic") => Emptied(c, handlers, UpTo(entry), UpTo(entry), Before(entry))
  /\ thread[c].at \in {"dropMap", "dropTopic"} => entry.channel \in B!EmptiedBy(c)
  /\ At(c, "removeHandler") => Emptied(c, handlers, Channel, Channel, Channel)
  /\ At(c, "disconnectUser") =>
       Emptied(c, handlers \ {c}, Channel, Channel, Channel)

Progress(c) ==
  /\ ConnectProgress(c)
  /\ SubscribeProgress(c)
  /\ UnsubscribeProgress(c)
  /\ SendProgress(c)
  /\ DisconnectProgress(c)

SettledOK ==
  /\ settled \in [users: MapsOf(Login, User),
                  clientHandlers: SUBSET Conn,
                  topicSubscribers: MapsOf(Channel, SUBSET Conn),
                  channelSubscriptions: MapsOf(Channel, MapsOf(Conn, SubId)),
                  shouldTerminate: [Conn -> BOOLEAN]]
  /\ DOMAIN settled.topicSubscribers = DOMAIN settled.channelSubscriptions

(* At most one frame is in progress, and it is on its way from settled.     *)
AloneOK ==
  /\ \A c, d \in Conn : Busy(c) /\ Busy(d) => c = d
  /\ SettledOK
  /\ Quiet => settled = Shared
  /\ \A c \in Conn : Busy(c) => Progress(c)

SerialInv == ObjectsSeparate /\ alone \in BOOLEAN /\ (alone => AloneOK)
-----------------------------------------------------------------------------
(* Handlers on their way *)

(* What the end of a frame's handler does *)
Completes(c) ==
  /\ AtOnce(c, FrameOf(c))
  /\ settled'.shouldTerminate =
       [settled.shouldTerminate EXCEPT ![c] = @ \/ FrameOf(c).type = "DISCONNECT"]

(* A step of the handler goes on, or is the last. *)
Advances(c) ==
  /\ Busy(c)' /\ UNCHANGED settled => Progress(c)'
  /\ ~Busy(c)' /\ settled' = Shared' => Completes(c)

(* The label of a thread says which handler it is in. *)
OneHandler(c) ==
  /\ thread[c].at \in ConnectLabel /\ ConnectProgress(c) => Progress(c)
  /\ thread[c].at \in SubscribeLabel /\ SubscribeProgress(c) => Progress(c)
  /\ thread[c].at \in UnsubscribeLabel /\ UnsubscribeProgress(c) => Progress(c)
  /\ thread[c].at \in SendLabel /\ SendProgress(c) => Progress(c)
  /\ thread[c].at \in DisconnectLabel /\ DisconnectProgress(c) => Progress(c)

OneHandlerEach == \A c \in Conn : OneHandler(c)

LEMMA OneHandlerNow == OneHandlerEach
<1> SUFFICES ASSUME NEW c \in Conn
             PROVE  OneHandler(c)
  BY DEF OneHandlerEach
<1>1. thread[c].at \in ConnectLabel /\ ConnectProgress(c) => Progress(c)
  BY DEF Progress, SubscribeProgress, UnsubscribeProgress, SendProgress, DisconnectProgress,
     At, ConnectLabel, SubscribeLabel, UnsubscribeLabel, SendLabel, DisconnectLabel
<1>2. thread[c].at \in SubscribeLabel /\ SubscribeProgress(c) => Progress(c)
  BY DEF Progress, ConnectProgress, UnsubscribeProgress, SendProgress, DisconnectProgress,
     At, ConnectLabel, SubscribeLabel, UnsubscribeLabel, SendLabel, DisconnectLabel
<1>3. thread[c].at \in UnsubscribeLabel /\ UnsubscribeProgress(c) => Progress(c)
  BY DEF Progress, ConnectProgress, SubscribeProgress, SendProgress, DisconnectProgress,
     At, ConnectLabel, SubscribeLabel, UnsubscribeLabel, SendLabel, DisconnectLabel
<1>4. thread[c].at \in SendLabel /\ SendProgress(c) => Progress(c)
  BY DEF Progress, ConnectProgress, SubscribeProgress, UnsubscribeProgress, DisconnectProgress,
     At, ConnectLabel, SubscribeLabel, UnsubscribeLabel, SendLabel, DisconnectLabel
<1>5. thread[c].at \in DisconnectLabel /\ DisconnectProgress(c) => Progress(c)
  BY DEF Progress, ConnectProgress, SubscribeProgress, UnsubscribeProgress, SendProgress,
     At, ConnectLabel, SubscribeLabel, UnsubscribeLabel, SendLabel, DisconnectLabel
<1> QED BY <1>1, <1>2, <1>3, <1>4, <1>5 DEF OneHandler

LEMMA OneHandlerNext == OneHandlerEach'
BY OneHandlerNow, PTL

LEMMA OnlyThat ==
  ASSUME NEW c \in Conn
  PROVE  /\ thread'[c].at \in ConnectLabel /\ ConnectProgress(c)' => Progress(c)'
         /\ thread'[c].at \in SubscribeLabel /\ SubscribeProgress(c)' => Progress(c)'
         /\ thread'[c].at \in UnsubscribeLabel /\ UnsubscribeProgress(c)' => Progress(c)'
         /\ thread'[c].at \in SendLabel /\ SendProgress(c)' => Progress(c)'
         /\ thread'[c].at \in DisconnectLabel /\ DisconnectProgress(c)' => Progress(c)'
BY OneHandlerNext DEF OneHandlerEach, OneHandler

LEMMA SharedViews ==
  Shared = [users |-> users, clientHandlers |-> clientHandlers, topicSubscribers |-> Topics,
            channelSubscriptions |-> Subscriptions, shouldTerminate |-> shouldTerminate]
BY DEF Shared, Topics, Subscriptions, View

LEMMA SharedViewsNext ==
  Shared' = [users |-> users', clientHandlers |-> clientHandlers',
             topicSubscribers |-> Topics', channelSubscriptions |-> Subscriptions',
             shouldTerminate |-> shouldTerminate']
<1>1. (Shared = [users |-> users, clientHandlers |-> clientHandlers,
                 topicSubscribers |-> Topics, channelSubscriptions |-> Subscriptions,
                 shouldTerminate |-> shouldTerminate])'
  BY SharedViews, PTL
<1> QED BY <1>1

LEMMA SettledRecord ==
  ASSUME SettledOK
  PROVE  /\ settled = [users |-> settled.users,
                       clientHandlers |-> settled.clientHandlers,
                       topicSubscribers |-> settled.topicSubscribers,
                       channelSubscriptions |-> settled.channelSubscriptions,
                       shouldTerminate |-> settled.shouldTerminate]
         /\ settled.users \in MapsOf(Login, User)
         /\ settled.clientHandlers \subseteq Conn
         /\ settled.topicSubscribers \in MapsOf(Channel, SUBSET Conn)
         /\ settled.channelSubscriptions \in MapsOf(Channel, MapsOf(Conn, SubId))
         /\ settled.shouldTerminate \in [Conn -> BOOLEAN]
BY DEF SettledOK

(* A flag that a frame other than DISCONNECT leaves *)
LEMMA FlagKept ==
  ASSUME SettledOK, NEW c \in Conn, FrameOf(c).type # "DISCONNECT",
         settled'.shouldTerminate = settled.shouldTerminate
  PROVE  settled'.shouldTerminate =
           [settled.shouldTerminate EXCEPT ![c] = @ \/ FrameOf(c).type = "DISCONNECT"]
BY SettledRecord

-----------------------------------------------------------------------------
(* CONNECT *)

LEMMA ConnectAdvances ==
  ASSUME TypeInv, SettledOK, NEW c \in Conn, Progress(c), ProcessConnect(c)
  PROVE  Advances(c)
<1> DEFINE login == FrameOf(c).login
           pass  == FrameOf(c).passcode
<1>1. ConnectProgress(c)
  BY DEF Progress
<1>2. /\ "addUser" \in ConnectLabel /\ "isConnected" \in ConnectLabel
      /\ "connectNew" \in ConnectLabel /\ "connectOld" \in ConnectLabel
      /\ "setConnectionId" \in ConnectLabel /\ "getUser" \in ConnectLabel
      /\ "enterDisconnect" \in DisconnectLabel
  BY DEF ConnectLabel, DisconnectLabel
<1>3. thread[c].at \in ConnectLabel
  BY <1>2 DEF ProcessConnect, GetUser, AddNewUser, TestUser, Connect, SetConnectionId, At
<1>4. FrameOf(c).type = "CONNECT"
  BY <1>3 DEF TypeInv, Fits, FrameOf
<1>5. UNCHANGED <<clientHandlers, Topics, Subscriptions, shouldTerminate>>
  BY SameViews DEF ProcessConnect, GetUser, AddNewUser, TestUser, Connect,
     SetConnectionId, registryVars, clientVars
<1>6. CASE GetUser(c)
  <2>1. users' = users /\ Unchanged
    BY <1>1, <1>6 DEF GetUser, ConnectProgress
  <2>2. thread'[c].at = (IF login \in DOMAIN users THEN "isConnected" ELSE "addUser")
        /\ FrameOf(c)' = FrameOf(c)
    BY <1>6, GoFields DEF GetUser, FrameOf
  <2>3. ASSUME UNCHANGED settled PROVE Progress(c)'
    <3>1. ConnectProgress(c)'
      BY <1>5, <2>1, <2>2, <2>3 DEF ConnectProgress, At, Unchanged, NowUsers, Now
    <3> QED BY <1>2, <2>2, <3>1, OnlyThat
  <2>4. Busy(c)'
    BY <2>2 DEF Busy
  <2> QED BY <2>3, <2>4 DEF Advances
<1>7. CASE AddNewUser(c)
  <2>1. users' = AddUser(users, login, pass) /\ Unchanged /\ login \notin DOMAIN settled.users
    BY <1>1, <1>7 DEF AddNewUser, ConnectProgress
  <2>2. thread'[c].at = "connectNew" /\ FrameOf(c)' = FrameOf(c)
    BY <1>7, GoFields DEF AddNewUser, FrameOf
  <2>3. ASSUME UNCHANGED settled PROVE Progress(c)'
    <3>1. ConnectProgress(c)'
      BY <1>5, <2>1, <2>2, <2>3 DEF ConnectProgress, At, Unchanged, NowUsers, Now
    <3> QED BY <1>2, <2>2, <3>1, OnlyThat
  <2>4. Busy(c)'
    BY <2>2 DEF Busy
  <2> QED BY <2>3, <2>4 DEF Advances
<1>8. CASE TestUser(c)
  <2>1. users' = users /\ Unchanged /\ login \in DOMAIN settled.users /\ users = settled.users
    BY <1>1, <1>8 DEF TestUser, ConnectProgress, Unchanged, NowUsers, Now
  <2>2. /\ thread'[c].at = IF MayLogIn(c) THEN "connectOld" ELSE "enterDisconnect"
        /\ FrameOf(c)' = FrameOf(c)
    BY <1>8, <2>1, GoFields DEF TestUser, FrameOf, MayLogIn, B!MayLogIn
  <2>3. ASSUME UNCHANGED settled PROVE Progress(c)'
    <3>1. MayLogIn(c)' = MayLogIn(c) /\ Unchanged'
      BY <1>5, <2>1, <2>2, <2>3
         DEF MayLogIn, B!MayLogIn, Unchanged, NowUsers, Now
    <3>2. CASE MayLogIn(c)
      <4>1. ConnectProgress(c)'
        BY <2>1, <2>2, <2>3, <3>1, <3>2 DEF ConnectProgress, At
      <4> QED BY <1>2, <2>2, <3>2, <4>1, OnlyThat
    <3>3. CASE ~MayLogIn(c)
      <4>1. DisconnectProgress(c)'
        BY <1>4, <2>2, <2>3, <3>1, <3>3 DEF DisconnectProgress, Disconnects, At
      <4> QED BY <1>2, <2>2, <3>3, <4>1, OnlyThat
    <3> QED BY <3>2, <3>3
  <2>4. Busy(c)'
    BY <2>2 DEF Busy
  <2> QED BY <2>3, <2>4 DEF Advances
<1>9. CASE Connect(c) /\ At(c, "connectOld")
  <2>1. /\ users' = ConnectUser(users, login, c) /\ users = settled.users /\ Unchanged
        /\ login \in DOMAIN settled.users /\ MayLogIn(c)
    BY <1>1, <1>9 DEF Connect, ConnectProgress, Unchanged, NowUsers, Now
  <2>2. /\ thread'[c].at = "setConnectionId"
        /\ FrameOf(c)' = FrameOf(c)
    BY <1>9, GoFields DEF Connect, FrameOf, At
  <2>3. ASSUME UNCHANGED settled PROVE Progress(c)'
    <3>1. MayLogIn(c)' = MayLogIn(c)
      BY <2>2, <2>3 DEF MayLogIn, B!MayLogIn
    <3>2. NowUsers(ConnectUser(settled.users, login, c))'
      BY <1>5, <2>1, <2>2, <2>3 DEF Unchanged, NowUsers, Now
    <3>3. ConnectProgress(c)'
      BY <2>1, <2>2, <2>3, <3>1, <3>2 DEF ConnectProgress, At
    <3> QED BY <1>2, <2>2, <3>3, OnlyThat
  <2>4. Busy(c)'
    BY <2>2 DEF Busy
  <2> QED BY <2>3, <2>4 DEF Advances
<1>10. ASSUME users' = ConnectUser(AddUser(settled.users, login, pass), login, c),
              MayLogIn(c), ~Busy(c)',
              Now(users, settled.clientHandlers, settled.topicSubscribers,
                  settled.channelSubscriptions)
       PROVE  Advances(c)
  <2>1. ASSUME settled' = Shared' PROVE Completes(c)
    <3>1. settled' = [settled EXCEPT !.users = B!LogIn(login, pass, c)]
      <4> DEFINE accounts == B!LogIn(login, pass, c)
      <4>1. users' = accounts
        BY <1>10 DEF B!LogIn, B!ConnectUser, B!AddUser, ConnectUser, AddUser,
           B!PutIfAbsent, PutIfAbsent, B!NewUser, NewUser, B!Put, Put
      <4> HIDE DEF accounts
      <4>2. settled' = [users |-> accounts,
                        clientHandlers |-> settled.clientHandlers,
                        topicSubscribers |-> settled.topicSubscribers,
                        channelSubscriptions |-> settled.channelSubscriptions,
                        shouldTerminate |-> settled.shouldTerminate]
        BY <1>5, <1>10, <2>1, <4>1, SharedViewsNext DEF Now
      <4>3. settled' = [settled EXCEPT !.users = accounts]
        BY <4>2, SettledRecord
      <4> QED BY <4>3 DEF accounts
    <3>2. AtOnce(c, FrameOf(c))
      BY <1>4, <1>10, <3>1 DEF AtOnce, MayLogIn
    <3>3. settled'.shouldTerminate = settled.shouldTerminate
      BY <1>5, <1>10, <2>1, SharedViewsNext DEF Now
    <3> QED BY <1>4, <3>2, <3>3, FlagKept DEF Completes
  <2> QED BY <1>10, <2>1 DEF Advances
<1>11. CASE Connect(c) /\ At(c, "connectNew")
  <2>1. /\ users' = ConnectUser(users, login, c) /\ login \notin DOMAIN settled.users
        /\ NowUsers(AddUser(settled.users, login, pass))
    BY <1>1, <1>11 DEF Connect, ConnectProgress
  <2>2. ~Busy(c)'
    BY <1>11, Ended DEF Connect
  <2>3. MayLogIn(c)
    BY <2>1 DEF MayLogIn, B!MayLogIn
  <2> QED BY <1>10, <2>1, <2>2, <2>3 DEF NowUsers, Now
<1>12. CASE SetConnectionId(c)
  <2>1. /\ users' = [users EXCEPT ![login].connectionId = c] /\ login \in DOMAIN settled.users
        /\ NowUsers(ConnectUser(settled.users, login, c))
        /\ MayLogIn(c)
    BY <1>1, <1>12 DEF SetConnectionId, ConnectProgress
  <2>2. ~Busy(c)'
    BY <1>12, Ended DEF SetConnectionId
  <2>3. /\ settled.users \in [DOMAIN settled.users -> User]
        /\ AddUser(settled.users, login, pass) = settled.users
    BY <2>1, SettledRecord, MapElim DEF AddUser, PutIfAbsent
  <2>4. users' = ConnectUser(AddUser(settled.users, login, pass), login, c)
    BY <2>1, <2>3 DEF ConnectUser, NowUsers, Now, User
  <2> QED BY <1>10, <2>1, <2>2, <2>4 DEF NowUsers, Now
<1> QED BY <1>6, <1>7, <1>8, <1>9, <1>11, <1>12 DEF ProcessConnect, Connect, At

-----------------------------------------------------------------------------
(* SUBSCRIBE *)

LEMMA SetFields ==
  ASSUME TypeInv, NEW c \in Conn, NEW label, NEW set,
         thread' = [thread EXCEPT ![c].at = label, ![c].set = set]
  PROVE  /\ thread'[c].at = label
         /\ thread'[c].frame = thread[c].frame
         /\ thread'[c].set = set
<1> DEFINE local == thread[c]
<1>1. local \in LocalType
  BY ThreadFields
<1>2. thread'[c] = [local EXCEPT !.at = label, !.set = set]
  BY ThreadFields DEF ThreadsOK
<1> HIDE DEF local
<1>3. /\ thread'[c].at = label
      /\ thread'[c].frame = local.frame
      /\ thread'[c].set = set
  BY <1>1, <1>2 DEF LocalType
<1> QED BY <1>3 DEF local

LEMMA MapFields ==
  ASSUME TypeInv, NEW c \in Conn, NEW label, NEW map,
         thread' = [thread EXCEPT ![c].at = label, ![c].map = map]
  PROVE  /\ thread'[c].at = label
         /\ thread'[c].frame = thread[c].frame
         /\ thread'[c].map = map
<1> DEFINE local == thread[c]
<1>1. local \in LocalType
  BY ThreadFields
<1>2. thread'[c] = [local EXCEPT !.at = label, !.map = map]
  BY ThreadFields DEF ThreadsOK
<1> HIDE DEF local
<1>3. /\ thread'[c].at = label
      /\ thread'[c].frame = local.frame
      /\ thread'[c].map = map
  BY <1>1, <1>2 DEF LocalType
<1> QED BY <1>3 DEF local

(* The value of a key that putIfAbsent has put *)
LEMMA PutIfAbsentValue ==
  ASSUME NEW map, NEW k, NEW v
  PROVE  /\ k \in DOMAIN PutIfAbsent(map, k, v)
         /\ DOMAIN PutIfAbsent(map, k, v) = DOMAIN map \cup {k}
         /\ PutIfAbsent(map, k, v)[k] = IF k \in DOMAIN map THEN map[k] ELSE v
BY DEF PutIfAbsent, Put

LEMMA SubscribeLooksUp ==
  ASSUME TypeInv, SettledOK, NEW c \in Conn, Progress(c),
         Exists(c) \/ Contains(c) \/ LockOf(c) \/ Lock(c) \/ MapOf(c)
  PROVE  Advances(c)
<1> DEFINE channel == FrameOf(c).destination
           topics == PutIfAbsent(settled.topicSubscribers, channel, {})
           subscriptions == PutIfAbsent(settled.channelSubscriptions, channel, EmptyMap)
<1>1. SubscribeProgress(c)
  BY DEF Progress
<1>2. /\ UNCHANGED <<users, clientHandlers, topicSubscribers, channelSubscriptions,
                     shouldTerminate>>
      /\ UNCHANGED <<Topics, Subscriptions>>
  BY SameViews DEF Exists, Contains, LockOf, Lock, MapOf, registryVars, clientVars
<1>3. thread[c].at \in {"exists", "contains", "lockOf", "lock", "mapOf"}
  BY DEF Exists, Contains, LockOf, Lock, MapOf, At
<1>4. /\ FrameOf(c).type = "SUBSCRIBE"
      /\ channel \in Channel
      /\ {"exists", "contains", "addTopic", "lockOf", "lock", "add", "put"}
           \subseteq SubscribeLabel
      /\ "enterDisconnect" \in DisconnectLabel
  BY <1>3, ThreadFields, SubscribeLabels DEF TypeInv, Fits, FrameOf, SubscribeLabel
<1>5. CASE Exists(c)
  <2>1. Unchanged
    BY <1>1, <1>5 DEF Exists, At, SubscribeProgress
  <2> DEFINE set == Lookup(topicSubscribers, channel)
             label == IF set = NoRef THEN "addTopic" ELSE "contains"
  <2>2. thread'[c].at = label /\ FrameOf(c)' = FrameOf(c) /\ thread'[c].set = set
    <3>1. thread' = [thread EXCEPT ![c].at = label, ![c].set = set]
      BY <1>5 DEF Exists
    <3> HIDE DEF label, set
    <3> QED BY <3>1, SetFields DEF FrameOf
  <2>3. DOMAIN settled.topicSubscribers = DOMAIN topicSubscribers
    BY <2>1, ViewTypes DEF Unchanged, NowUsers, Now
  <2>4. CASE channel \in DOMAIN topicSubscribers
    <3>1. set = topicSubscribers[channel] /\ set # NoRef
      BY <2>4, ObjectTypes DEF Lookup
    <3>2. ASSUME UNCHANGED settled PROVE SubscribeProgress(c)'
      BY <1>2, <2>1, <2>2, <2>4, <3>1, <3>2
         DEF SubscribeProgress, At, Unchanged, NowUsers, Now
    <3> QED BY <1>4, <2>2, <3>1, <3>2, OnlyThat DEF Advances, Busy
  <2>5. CASE channel \notin DOMAIN topicSubscribers
    <3>1. set = NoRef /\ ~IsSubscribed(c)
      BY <2>3, <2>5 DEF Lookup, IsSubscribed, B!ExistsSubscription
    <3>2. ASSUME UNCHANGED settled PROVE SubscribeProgress(c)'
      <4>1. ~IsSubscribed(c)'
        BY <2>2, <3>1, <3>2 DEF IsSubscribed, B!ExistsSubscription
      <4> QED BY <1>2, <2>1, <2>2, <3>1, <3>2, <4>1
              DEF SubscribeProgress, At, Unchanged, NowUsers, Now
    <3> QED BY <1>4, <2>2, <3>1, <3>2, OnlyThat DEF Advances, Busy
  <2> QED BY <2>4, <2>5
<1>6. CASE Contains(c)
  <2>1. /\ Unchanged
        /\ channel \in DOMAIN topicSubscribers
        /\ thread[c].set = topicSubscribers[channel]
    BY <1>1, <1>6 DEF Contains, At, SubscribeProgress
  <2>2. /\ channel \in DOMAIN settled.topicSubscribers
        /\ settled.topicSubscribers[channel] = sets[thread[c].set]
    BY <2>1, ViewTypes, TopicSet DEF Unchanged, NowUsers, Now
  <2> DEFINE label == IF c \in sets[thread[c].set] THEN "enterDisconnect" ELSE "addTopic"
  <2>3. thread'[c].at = label /\ FrameOf(c)' = FrameOf(c)
    <3>1. thread' = [thread EXCEPT ![c].at = label, ![c].set = NoRef]
      BY <1>6 DEF Contains
    <3> HIDE DEF label
    <3> QED BY <3>1, SetFields DEF FrameOf
  <2>4. label = IF IsSubscribed(c) THEN "enterDisconnect" ELSE "addTopic"
    BY <2>2 DEF IsSubscribed, B!ExistsSubscription
  <2>5. ASSUME UNCHANGED settled
        PROVE  Unchanged' /\ IsSubscribed(c)' = IsSubscribed(c)
    BY <1>2, <2>1, <2>3, <2>5
       DEF IsSubscribed, B!ExistsSubscription, Unchanged, NowUsers, Now
  <2> HIDE DEF label
  <2>6. ASSUME UNCHANGED settled, IsSubscribed(c) PROVE DisconnectProgress(c)'
    BY <1>4, <2>3, <2>4, <2>5, <2>6 DEF DisconnectProgress, Disconnects, At
  <2>7. ASSUME UNCHANGED settled, ~IsSubscribed(c) PROVE SubscribeProgress(c)'
    BY <2>3, <2>4, <2>5, <2>7 DEF SubscribeProgress, At
  <2> QED BY <1>4, <2>3, <2>4, <2>6, <2>7, OnlyThat DEF Advances, Busy
<1>7. CASE LockOf(c)
  <2>1. NowChannels(topics, subscriptions) /\ ~IsSubscribed(c)
    BY <1>1, <1>4, <1>7 DEF LockOf, At, SubscribeProgress
  <2>2. Lookup(topicSubscribers, channel) # NoRef
    BY <2>1, TopicSet, PutIfAbsentValue DEF NowChannels, Now
  <2>3. thread'[c].at = "lock" /\ FrameOf(c)' = FrameOf(c)
    BY <1>7, <2>2, SetFields DEF LockOf, FrameOf
  <2>4. ASSUME UNCHANGED settled PROVE SubscribeProgress(c)'
    <3>1. ~IsSubscribed(c)'
      BY <2>1, <2>3, <2>4 DEF IsSubscribed, B!ExistsSubscription
    <3> QED BY <1>2, <2>1, <2>3, <2>4, <3>1 DEF SubscribeProgress, At, NowChannels, Now
  <2> QED BY <1>4, <2>3, <2>4, OnlyThat DEF Advances, Busy
<1>8. CASE Lock(c)
  <2>1. NowChannels(topics, subscriptions) /\ ~IsSubscribed(c)
    BY <1>1, <1>4, <1>8 DEF Lock, At, SubscribeProgress
  <2>2. thread'[c].at = "add" /\ FrameOf(c)' = FrameOf(c)
    BY <1>8, GoFields DEF Lock, FrameOf
  <2>3. ASSUME UNCHANGED settled PROVE SubscribeProgress(c)'
    <3>1. ~IsSubscribed(c)'
      BY <2>1, <2>2, <2>3 DEF IsSubscribed, B!ExistsSubscription
    <3> QED BY <1>2, <2>1, <2>2, <2>3, <3>1 DEF SubscribeProgress, At, NowChannels, Now
  <2> QED BY <1>4, <2>2, <2>3, OnlyThat DEF Advances, Busy
<1>9. CASE MapOf(c)
  <2>1. /\ NowChannels([topics EXCEPT ![channel] = @ \cup {c}], subscriptions)
        /\ ~IsSubscribed(c)
    BY <1>1, <1>9, SubscribeLabels DEF MapOf, At, SubscribeProgress
  <2>2. channel \in DOMAIN Subscriptions
    BY <2>1, PutIfAbsentValue DEF NowChannels, Now
  <2>3. /\ Lookup(channelSubscriptions, channel) # NoRef
        /\ Lookup(channelSubscriptions, channel) = channelSubscriptions[channel]
    BY <2>2, ChannelMap
  <2>4. /\ thread'[c].at = "put" /\ FrameOf(c)' = FrameOf(c)
        /\ thread'[c].map = channelSubscriptions[channel]
    BY <1>9, <2>3, MapFields DEF MapOf, FrameOf
  <2>5. ASSUME UNCHANGED settled PROVE SubscribeProgress(c)'
    <3>1. ~IsSubscribed(c)'
      BY <2>1, <2>4, <2>5 DEF IsSubscribed, B!ExistsSubscription
    <3> QED BY <1>2, <2>1, <2>4, <2>5, <3>1 DEF SubscribeProgress, At, NowChannels, Now
  <2> QED BY <1>4, <2>4, <2>5, OnlyThat DEF Advances, Busy
<1> QED BY <1>5, <1>6, <1>7, <1>8, <1>9

LEMMA NotSubscribed ==
  ASSUME NEW c, ~IsSubscribed(c)
  PROVE  LET channel == FrameOf(c).destination
         IN  c \notin PutIfAbsent(settled.topicSubscribers, channel, {})[channel]
<1> DEFINE channel == FrameOf(c).destination
           topics == settled.topicSubscribers
<1>1. PutIfAbsent(topics, channel, {})[channel] =
        IF channel \in DOMAIN topics THEN topics[channel] ELSE {}
  BY DEF PutIfAbsent, Put
<1>2. ~(channel \in DOMAIN topics /\ c \in topics[channel])
  BY DEF IsSubscribed, B!ExistsSubscription
<1> QED BY <1>1, <1>2

LEMMA SubscribeAdds ==
  ASSUME TypeInv, ObjectsSeparate, SettledOK, NEW c \in Conn, Progress(c),
         AddTopic(c) \/ AddMap(c) \/ Add(c)
  PROVE  Advances(c)
<1> DEFINE channel == FrameOf(c).destination
           topics == PutIfAbsent(settled.topicSubscribers, channel, {})
           subscriptions == PutIfAbsent(settled.channelSubscriptions, channel, EmptyMap)
<1>1. SubscribeProgress(c)
  BY DEF Progress
<1>2. ~IsSubscribed(c)
  BY <1>1 DEF AddTopic, AddMap, Add, At, SubscribeProgress, SubscribeLabel
<1>3. {"addMap", "lockOf", "mapOf"} \subseteq SubscribeLabel
  BY DEF SubscribeLabel
<1>4. ASSUME UNCHANGED settled, FrameOf(c)' = FrameOf(c) PROVE ~IsSubscribed(c)'
  BY <1>2, <1>4 DEF IsSubscribed, B!ExistsSubscription
<1>5. CASE AddTopic(c)
  <2>1. /\ Topics' = PutIfAbsent(Topics, channel, {})
        /\ UNCHANGED <<Subscriptions, users, clientHandlers, shouldTerminate>>
    BY <1>5, AddTopicView
  <2>2. thread'[c].at = "addMap" /\ FrameOf(c)' = FrameOf(c)
    BY <1>5, GoFields DEF AddTopic, FrameOf
  <2>3. Unchanged
    BY <1>1, <1>5 DEF AddTopic, At, SubscribeProgress
  <2>4. ASSUME UNCHANGED settled PROVE SubscribeProgress(c)'
    <3>1. NowChannels(topics, settled.channelSubscriptions)'
      BY <2>1, <2>2, <2>3, <2>4 DEF Unchanged, NowUsers, NowChannels, Now
    <3> QED BY <1>4, <2>2, <2>4, <3>1 DEF SubscribeProgress, At
  <2> QED BY <1>3, <2>2, <2>4, OnlyThat DEF Advances, Busy
<1>6. CASE AddMap(c)
  <2>1. /\ Subscriptions' = PutIfAbsent(Subscriptions, channel, EmptyMap)
        /\ UNCHANGED <<Topics, users, clientHandlers, shouldTerminate>>
    BY <1>6, AddMapView
  <2>2. thread'[c].at = "lockOf" /\ FrameOf(c)' = FrameOf(c)
    BY <1>6, GoFields DEF AddMap, FrameOf
  <2>3. NowChannels(topics, settled.channelSubscriptions)
    BY <1>1, <1>6 DEF AddMap, At, SubscribeProgress
  <2>4. ASSUME UNCHANGED settled PROVE SubscribeProgress(c)'
    <3>1. NowChannels(topics, subscriptions)'
      BY <2>1, <2>2, <2>3, <2>4 DEF NowChannels, Now
    <3> QED BY <1>4, <2>2, <2>4, <3>1 DEF SubscribeProgress, At
  <2> QED BY <1>3, <2>2, <2>4, OnlyThat DEF Advances, Busy
<1>7. CASE Add(c)
  <2>1. NowChannels(topics, subscriptions)
    BY <1>1, <1>7 DEF Add, At, SubscribeProgress
  <2>2. channel \in DOMAIN topics /\ c \notin topics[channel]
    BY <1>2, PutIfAbsentValue, NotSubscribed
  <2> DEFINE set == Lookup(topicSubscribers, channel)
  <2>3. /\ channel \in DOMAIN Topics /\ set = topicSubscribers[channel] /\ set # NoRef
        /\ sets[set] = topics[channel]
    BY <2>1, <2>2, TopicSet DEF NowChannels, Now
  <2>4. /\ sets' = [sets EXCEPT ![topicSubscribers[channel]] = topics[channel] \cup {c}]
        /\ UNCHANGED <<topicSubscribers, channelSubscriptions, maps>>
        /\ Go(c, "mapOf")
    BY <1>7, <2>2, <2>3 DEF Add
  <2>5. /\ Topics' = [topics EXCEPT ![channel] = @ \cup {c}]
        /\ UNCHANGED Subscriptions
    <3> DEFINE joined == topics[channel] \cup {c}
    <3> HIDE DEF joined, topics
    <3>1. sets' = [sets EXCEPT ![topicSubscribers[channel]] = joined]
      BY <2>4 DEF joined
    <3>2. Topics' = [Topics EXCEPT ![channel] = joined] /\ UNCHANGED Subscriptions
      BY <2>3, <2>4, <3>1, ChangedSetView
    <3>3. Topics = topics
      BY <2>1 DEF NowChannels, Now, topics
    <3> QED BY <3>2, <3>3 DEF joined
  <2>6. thread'[c].at = "mapOf" /\ FrameOf(c)' = FrameOf(c)
    BY <2>4, GoFields DEF FrameOf
  <2>7. ASSUME UNCHANGED settled PROVE SubscribeProgress(c)'
    <3>1. UNCHANGED <<users, clientHandlers, shouldTerminate>>
      BY <1>7 DEF Add, clientVars
    <3>2. NowChannels([topics EXCEPT ![channel] = @ \cup {c}], subscriptions)'
      BY <2>1, <2>5, <2>6, <2>7, <3>1 DEF NowChannels, Now
    <3> QED BY <1>4, <2>6, <2>7, <3>2 DEF SubscribeProgress, At
  <2> QED BY <1>3, <2>6, <2>7, OnlyThat DEF Advances, Busy
<1> QED BY <1>5, <1>6, <1>7

LEMMA SubscribeEnds ==
  ASSUME TypeInv, ObjectsSeparate, SettledOK, NEW c \in Conn, Progress(c), PutId(c)
  PROVE  Advances(c)
<1> DEFINE channel == FrameOf(c).destination
           id == FrameOf(c).id
           topics == PutIfAbsent(settled.topicSubscribers, channel, {})
           subscriptions == PutIfAbsent(settled.channelSubscriptions, channel, EmptyMap)
           joined == [topics EXCEPT ![channel] = @ \cup {c}]
           identified == [subscriptions EXCEPT ![channel] = Put(@, c, id)]
<1>1. /\ NowChannels(joined, subscriptions)
      /\ ~IsSubscribed(c)
      /\ thread[c].map = channelSubscriptions[channel]
  BY SubscribeLabels DEF Progress, PutId, At, SubscribeProgress
<1>2. FrameOf(c).type = "SUBSCRIBE" /\ id # NoId
  BY ThreadFields, SubscribeLabels, NoIdAssumption DEF PutId, At, TypeInv, Fits, FrameOf
<1>3. channel \in DOMAIN Subscriptions
  BY <1>1, PutIfAbsentValue DEF NowChannels, Now
<1>4. maps' = [maps EXCEPT ![channelSubscriptions[channel]] =
                 Put(Subscriptions[channel], c, id)]
  BY <1>1, <1>3, ChannelMap DEF PutId
<1>5. Subscriptions' = identified /\ Topics' = joined
  <2> DEFINE map == Put(Subscriptions[channel], c, id)
  <2> HIDE DEF map
  <2>1. maps' = [maps EXCEPT ![channelSubscriptions[channel]] = map]
    BY <1>4 DEF map
  <2>2. Subscriptions' = [Subscriptions EXCEPT ![channel] = map] /\ UNCHANGED Topics
    BY <1>3, <2>1, ChangedMapView DEF PutId
  <2> HIDE DEF subscriptions, joined
  <2>3. Subscriptions = subscriptions /\ Topics = joined
    BY <1>1 DEF NowChannels, Now
  <2> QED BY <2>2, <2>3 DEF map
<1>6. /\ users' = settled.users
      /\ clientHandlers' = settled.clientHandlers
      /\ shouldTerminate' = settled.shouldTerminate
  BY <1>1 DEF PutId, clientVars, NowChannels, Now
<1>7. ASSUME settled' = Shared' PROVE Completes(c)
  <2> HIDE DEF joined, identified
  <2>1. /\ settled'.users = settled.users
        /\ settled'.clientHandlers = settled.clientHandlers
        /\ settled'.topicSubscribers = joined
        /\ settled'.channelSubscriptions = identified
        /\ settled'.shouldTerminate = settled.shouldTerminate
    BY <1>5, <1>6, <1>7, SharedViewsNext
  <2>2. c \notin topics[channel]
    BY <1>1, NotSubscribed
  <2>3. B!Subscribe(channel, id, c)
    <3> SUFFICES /\ settled'.topicSubscribers =
                      [B!PutIfAbsent(settled.topicSubscribers, channel, {})
                         EXCEPT ![channel] = @ \cup {c}]
                 /\ settled'.channelSubscriptions =
                      [B!PutIfAbsent(settled.channelSubscriptions, channel, B!EmptyMap)
                         EXCEPT ![channel] = B!Put(@, c, id)]
                 /\ c \notin B!PutIfAbsent(settled.topicSubscribers, channel, {})[channel]
      BY <1>2, <2>1 DEF B!Subscribe
    <3> QED BY <2>1, <2>2 DEF joined, identified, B!PutIfAbsent, PutIfAbsent, B!Put, Put,
              B!EmptyMap, EmptyMap
  <2>4. AtOnce(c, FrameOf(c))
    BY <1>1, <1>2, <2>1, <2>3 DEF AtOnce, IsSubscribed
  <2> QED BY <1>2, <2>1, <2>4, FlagKept DEF Completes
<1>8. ~Busy(c)'
  BY Ended DEF PutId
<1> QED BY <1>7, <1>8 DEF Advances

LEMMA SubscribeAdvances ==
  ASSUME TypeInv, ObjectsSeparate, SettledOK, NEW c \in Conn, Progress(c),
         ProcessSubscribe(c)
  PROVE  Advances(c)
BY SubscribeLooksUp, SubscribeAdds, SubscribeEnds DEF ProcessSubscribe

-----------------------------------------------------------------------------
(* SEND *)

LEMMA SendAdvances ==
  ASSUME TypeInv, SettledOK, NEW c \in Conn, Progress(c), ProcessSend(c)
  PROVE  Advances(c)
<1>1. SendProgress(c)
  BY DEF Progress
<1>2. /\ UNCHANGED <<users, clientHandlers, shouldTerminate>>
      /\ UNCHANGED <<Topics, Subscriptions>>
  BY SameViews DEF ProcessSend, GetSubscribers, LockSubscribers, Visit, registryVars,
     clientVars
<1>3. /\ thread[c].at \in SendLabel
      /\ {"lockSubscribers", "visit"} \subseteq SendLabel
  BY DEF ProcessSend, GetSubscribers, LockSubscribers, Visit, At, SendLabel
<1>4. FrameOf(c).type = "SEND" /\ Unchanged
  BY <1>1, <1>3 DEF TypeInv, Fits, FrameOf, SendProgress
<1>5. ASSUME Busy(c)' PROVE thread'[c].at \in SendLabel
  <2>1. CASE GetSubscribers(c)
    BY <1>3, <1>5, <2>1, Ended, SetFields DEF GetSubscribers
  <2>2. CASE LockSubscribers(c)
    <3> DEFINE local == thread[c]
               todo == sets[thread[c].set]
    <3>1. thread'[c] = [local EXCEPT !.at = "visit", !.todo = todo]
      BY <2>2, ThreadFields DEF LockSubscribers, ThreadsOK
    <3> HIDE DEF todo
    <3> QED BY <1>3, <3>1, ThreadFields DEF LocalType
  <2>3. CASE Visit(c)
    <3>1. Finish(c) \/ Stop(c) \/ \E receiver \in thread[c].todo :
            thread' = [thread EXCEPT ![c].todo = @ \ {receiver}]
      BY <2>3 DEF Visit
    <3>2. ASSUME NEW receiver, thread' = [thread EXCEPT ![c].todo = @ \ {receiver}]
          PROVE  thread'[c].at = thread[c].at
      <4> DEFINE local == thread[c]
                 left == thread[c].todo \ {receiver}
      <4>1. thread'[c] = [local EXCEPT !.todo = left]
        BY <3>2, ThreadFields DEF ThreadsOK
      <4> HIDE DEF left
      <4> QED BY <4>1, ThreadFields DEF LocalType
    <3> QED BY <1>3, <1>5, <3>1, <3>2, Ended
  <2> QED BY <2>1, <2>2, <2>3 DEF ProcessSend
<1>6. ASSUME Busy(c)', UNCHANGED settled PROVE Progress(c)'
  <2>1. SendProgress(c)'
    BY <1>2, <1>4, <1>6 DEF SendProgress, Unchanged, NowUsers, Now
  <2> QED BY <1>5, <1>6, <2>1, OnlyThat
<1>7. ASSUME settled' = Shared' PROVE Completes(c)
  <2>1. settled' = settled
    BY <1>2, <1>4, <1>7, SharedViewsNext, SettledRecord DEF Unchanged, NowUsers, Now
  <2> QED BY <1>4, <2>1, FlagKept DEF Completes, AtOnce
<1> QED BY <1>6, <1>7 DEF Advances

-----------------------------------------------------------------------------
(* Iteration over the channels *)

(* The entry an iterator reaches from n on is the first one that is not     *)
(* before n.                                                                *)
LEMMA EntryFromIsFirst ==
  ASSUME TypeInv, NEW n \in Nat
  PROVE  /\ EntryFrom(n) # NoEntry =>
              InMap(EntryFrom(n)) /\ EntryFrom(n).channel \in Channel
                /\ n <= EntryFrom(n).channel
         /\ \A k \in DOMAIN channelSubscriptions : k \in Past(EntryFrom(n)) <=> k < n
<1> DEFINE ahead == {k \in DOMAIN channelSubscriptions : k >= n}
           first == CHOOSE k \in ahead : \A j \in ahead : k <= j
<1>1. DOMAIN channelSubscriptions \subseteq Channel /\ Channel \subseteq Nat \ {0}
  BY ObjectTypes, ThreadsAssumption
<1>2. CASE ahead = {}
  <2>1. EntryFrom(n) = NoEntry
    BY <1>2 DEF EntryFrom
  <2>2. ASSUME NEW k \in DOMAIN channelSubscriptions PROVE k < n
    <3>1. k \notin ahead /\ k \in Nat
      BY <1>1, <1>2
    <3> QED BY <3>1
  <2> QED BY <1>1, <2>1, <2>2 DEF Past
<1>3. CASE ahead # {}
  <2>1. ahead \in SUBSET Nat
    BY <1>1
  <2>2. \E k \in ahead : \A j \in ahead : k <= j
    BY <1>3, <2>1, LeastNumber
  <2>3. first \in ahead /\ \A j \in ahead : first <= j
    BY <2>2
  <2>4. EntryFrom(n) = [channel |-> first, map |-> channelSubscriptions[first]]
    BY <1>3 DEF EntryFrom
  <2> HIDE DEF first
  <2>5. EntryFrom(n) # NoEntry /\ EntryFrom(n).channel = first
    BY <1>1, <2>3, <2>4 DEF NoEntry
  <2>6. InMap(EntryFrom(n)) /\ first \in Channel /\ n <= first
    BY <1>1, <2>3, <2>4 DEF InMap
  <2>7. ASSUME NEW k \in DOMAIN channelSubscriptions PROVE k < first <=> k < n
    <3>1. k \in Nat /\ first \in Nat
      BY <1>1, <2>6
    <3>2. k >= n => first <= k
      BY <2>3
    <3> QED BY <2>6, <3>1, <3>2
  <2> QED BY <1>1, <2>5, <2>6, <2>7 DEF Past
<1> QED BY <1>2, <1>3

LEMMA InMapEntry ==
  ASSUME TypeInv, NEW entry, InMap(entry)
  PROVE  /\ entry.channel \in Channel
         /\ entry.channel \in Nat
         /\ entry.channel \in DOMAIN Subscriptions
         /\ maps[entry.map] = Subscriptions[entry.channel]
BY ObjectTypes, ViewTypes, ThreadsAssumption DEF InMap, Subscriptions, View

(* iterator.next() *)
LEMMA EntryFields ==
  ASSUME TypeInv, NEW c \in Conn, NEW label, NextEntry(c, label)
  PROVE  /\ thread'[c].at = label
         /\ thread'[c].frame = thread[c].frame
         /\ thread'[c].entry = thread[c].next
         /\ thread'[c].next = EntryFrom(thread[c].next.channel + 1)
<1> DEFINE local == thread[c]
           entry == thread[c].next
           next == EntryFrom(entry.channel + 1)
<1>1. local \in LocalType
  BY ThreadFields
<1>2. thread'[c] = [local EXCEPT !.at = label, !.entry = entry, !.next = next]
  BY ThreadFields DEF ThreadsOK, NextEntry
<1> HIDE DEF local, entry, next
<1>3. /\ thread'[c].at = label
      /\ thread'[c].frame = local.frame
      /\ thread'[c].entry = entry
      /\ thread'[c].next = next
  BY <1>1, <1>2 DEF LocalType
<1> QED BY <1>3 DEF local, entry, next

(* What iterators see while the map has the same entries *)
LEMMA SameEntries ==
  ASSUME UNCHANGED channelSubscriptions
  PROVE  /\ \A n : EntryFrom(n)' = EntryFrom(n)
         /\ \A entry : InMap(entry)' = InMap(entry)
BY DEF EntryFrom, InMap

(* Past the entry after this one are those up to it, among the channels that *)
(* are still in the map or that the iterator has been through.               *)
LEMMA PastNext ==
  ASSUME TypeInv, NEW c \in Conn, IsNext(c), thread[c].entry.channel \in Nat
  PROVE  /\ thread[c].next # NoEntry =>
              InMap(thread[c].next) /\ thread[c].next.channel \in Channel
         /\ \A k \in Channel :
              k \in DOMAIN channelSubscriptions \/ k <= thread[c].entry.channel =>
                (k \in Past(thread[c].next) <=> k \in UpTo(thread[c].entry))
<1> DEFINE n == thread[c].entry.channel + 1
           next == thread[c].next
<1>1. n \in Nat /\ next = EntryFrom(n)
  BY DEF IsNext
<1>2. /\ next # NoEntry => InMap(next) /\ next.channel \in Channel /\ n <= next.channel
      /\ \A k \in DOMAIN channelSubscriptions : k \in Past(next) <=> k < n
  BY <1>1, EntryFromIsFirst
<1>3. ASSUME NEW k \in Channel
      PROVE  /\ k < n <=> k \in UpTo(thread[c].entry)
             /\ k < n => k \in Past(next)
  <2>1. k \in Nat /\ Channel \subseteq Nat
    BY ThreadsAssumption
  <2>2. k < n <=> k <= thread[c].entry.channel
    BY <2>1
  <2>3. ASSUME k < n, next # NoEntry PROVE k < next.channel
    <3>1. next.channel \in Nat /\ n <= next.channel
      BY <1>2, <2>1, <2>3
    <3> HIDE DEF n, next
    <3> QED BY <1>1, <2>1, <2>3, <3>1
  <2> QED BY <2>2, <2>3 DEF UpTo, Past
<1>4. \A k \in Channel : k <= thread[c].entry.channel => k < n
  BY ThreadsAssumption
<1> QED BY <1>2, <1>3, <1>4

-----------------------------------------------------------------------------
(* UNSUBSCRIBE *)

(* Only the channels there are matter. *)
LEMMA RemovedSame ==
  ASSUME SettledOK, NEW c, NEW id, NEW done, NEW left, NEW done2, NEW left2,
         Removed(c, id, done, left),
         \A k \in DOMAIN settled.channelSubscriptions :
           (k \in done <=> k \in done2) /\ (k \in left <=> k \in left2)
  PROVE  Removed(c, id, done2, left2)
BY DEF Removed, NowChannels, Now, SettledOK

LEMMA RemovedDomains ==
  ASSUME SettledOK, NEW c, NEW id, NEW done, NEW left, Removed(c, id, done, left)
  PROVE  /\ DOMAIN Subscriptions = DOMAIN settled.channelSubscriptions
         /\ DOMAIN Topics = DOMAIN settled.channelSubscriptions
         /\ DOMAIN Subscriptions \subseteq Channel
BY SettledRecord, MapElim DEF Removed, NowChannels, Now, SettledOK

LEMMA WithoutValue ==
  ASSUME NEW map \in MapsOf(Conn, SubId), NEW id, id \notin Values(map)
  PROVE  RemoveValue(map, id) = map
<1>1. map \in [DOMAIN map -> SubId]
  BY MapElim
<1> QED BY <1>1 DEF RemoveValue, Values

LEMMA UnsubscribeIterates ==
  ASSUME TypeInv, SettledOK, NEW c \in Conn, Progress(c), NextOfUnsubscribe(c)
  PROVE  Advances(c)
<1> DEFINE id == FrameOf(c).id
           next == thread[c].next
<1>1. /\ next # NoEntry => InMap(next)
      /\ Removed(c, id, Past(next), Past(next))
  BY DEF Progress, NextOfUnsubscribe, At, UnsubscribeProgress
<1>2. /\ UNCHANGED <<users, clientHandlers, topicSubscribers, channelSubscriptions,
                     shouldTerminate>>
      /\ UNCHANGED <<Topics, Subscriptions>>
  BY SameViews DEF NextOfUnsubscribe, registryVars, clientVars
<1>3. /\ FrameOf(c).type = "UNSUBSCRIBE"
      /\ "containsValue" \in UnsubscribeLabel
  BY UnsubscribeLabels DEF NextOfUnsubscribe, At, TypeInv, Fits, FrameOf
<1>4. CASE next = NoEntry
  <2>1. ~Busy(c)'
    BY <1>4, Ended DEF NextOfUnsubscribe
  <2>2. Removed(c, id, Channel, Channel)
    <3>1. \A k \in DOMAIN settled.channelSubscriptions : k \in Channel /\ k \in Past(next)
      BY <1>1, <1>4, RemovedDomains DEF Past
    <3> QED BY <1>1, <3>1, RemovedSame
  <2>3. ASSUME settled' = Shared' PROVE Completes(c)
    <3>1. /\ settled'.users = settled.users
          /\ settled'.clientHandlers = settled.clientHandlers
          /\ settled'.topicSubscribers = Topics
          /\ settled'.channelSubscriptions = Subscriptions
          /\ settled'.shouldTerminate = settled.shouldTerminate
      BY <1>2, <2>2, <2>3, SharedViewsNext DEF Removed, NowChannels, Now
    <3>2. \A k \in DOMAIN settled.channelSubscriptions : k \in Channel
      BY <1>1, RemovedDomains
    <3>3. /\ Topics = [k \in DOMAIN settled.topicSubscribers |->
                         IF k \in B!ChannelsWith(id) THEN settled.topicSubscribers[k] \ {c}
                         ELSE settled.topicSubscribers[k]]
          /\ Subscriptions = [k \in DOMAIN settled.channelSubscriptions |->
                                B!RemoveValue(settled.channelSubscriptions[k], id)]
      BY <2>2, <3>2 DEF Removed, NowChannels, Now, SettledOK, B!RemoveValue, RemoveValue
    <3>4. B!Unsubscribe(c, id)
      BY <3>1, <3>3 DEF B!Unsubscribe
    <3> QED BY <1>3, <3>1, <3>4, FlagKept DEF Completes, AtOnce
  <2> QED BY <2>1, <2>3 DEF Advances
<1>5. CASE next # NoEntry
  <2>1. /\ thread'[c].at = "containsValue"
        /\ FrameOf(c)' = FrameOf(c)
        /\ thread'[c].entry = next
        /\ thread'[c].next = EntryFrom(next.channel + 1)
    BY <1>5, EntryFields DEF NextOfUnsubscribe, FrameOf
  <2>2. Removed(c, id, Before(next), Before(next))
    BY <1>1, <1>5, RemovedSame DEF Past, Before
  <2>3. ASSUME UNCHANGED settled PROVE UnsubscribeProgress(c)'
    <3>1. Removed(c, FrameOf(c).id, Before(thread[c].entry), Before(thread[c].entry))'
      BY <1>2, <2>1, <2>2, <2>3 DEF Removed, NowChannels, Now, B!ChannelsWith
    <3>2. InMap(thread[c].entry)' /\ IsNext(c)'
      BY <1>1, <1>2, <1>5, <2>1 DEF IsNext, EntryFrom, InMap
    <3> QED BY <2>1, <3>1, <3>2 DEF UnsubscribeProgress, At
  <2> QED BY <1>3, <2>1, <2>3, OnlyThat DEF Advances, Busy
<1> QED BY <1>4, <1>5

LEMMA UnsubscribeTests ==
  ASSUME TypeInv, SettledOK, NEW c \in Conn, Progress(c), ContainsValue(c)
  PROVE  Advances(c)
<1> DEFINE id == FrameOf(c).id
           entry == thread[c].entry
           channel == thread[c].entry.channel
           map == settled.channelSubscriptions[channel]
<1>1. InMap(entry) /\ IsNext(c) /\ Removed(c, id, Before(entry), Before(entry))
  BY DEF Progress, ContainsValue, At, UnsubscribeProgress
<1>2. /\ UNCHANGED <<users, clientHandlers, topicSubscribers, channelSubscriptions,
                     shouldTerminate>>
      /\ UNCHANGED <<Topics, Subscriptions>>
  BY SameViews DEF ContainsValue, registryVars, clientVars
<1>3. {"removeIf", "nextOfUnsubscribe"} \subseteq UnsubscribeLabel
  BY UnsubscribeLabels
<1>4. channel \in Channel /\ channel \in Nat /\ channel \in DOMAIN settled.channelSubscriptions
  BY <1>1, InMapEntry, RemovedDomains
<1>5. maps[entry.map] = map /\ map \in MapsOf(Conn, SubId)
  <2>1. channel \notin Before(entry)
    BY <1>4 DEF Before
  <2>2. Subscriptions[channel] = map
    BY <1>1, <1>4, <2>1 DEF Removed, NowChannels, Now
  <2> QED BY <1>1, <1>4, <2>2, InMapEntry, SettledRecord, MapElim
<1>6. /\ thread'[c].at = IF id \in Values(map) THEN "removeIf" ELSE "nextOfUnsubscribe"
      /\ FrameOf(c)' = FrameOf(c)
      /\ thread'[c].entry = entry
      /\ thread'[c].next = thread[c].next
  BY <1>5, GoFields DEF ContainsValue, FrameOf
<1>7. id \in Values(map) <=> channel \in B!ChannelsWith(id)
  BY <1>4 DEF B!ChannelsWith, B!Values, Values
<1>8. CASE id \in Values(map)
  <2>1. ASSUME UNCHANGED settled PROVE UnsubscribeProgress(c)'
    <3>1. Removed(c, FrameOf(c).id, Before(thread[c].entry), Before(thread[c].entry))'
      BY <1>1, <1>2, <1>6, <2>1 DEF Removed, NowChannels, Now, B!ChannelsWith
    <3>2. InMap(thread[c].entry)' /\ IsNext(c)'
      BY <1>1, <1>2, <1>6 DEF IsNext, EntryFrom, InMap
    <3>3. (thread[c].entry.channel \in B!ChannelsWith(FrameOf(c).id))'
      BY <1>6, <1>7, <1>8, <2>1 DEF B!ChannelsWith
    <3> QED BY <1>6, <1>8, <3>1, <3>2, <3>3 DEF UnsubscribeProgress, At
  <2> QED BY <1>3, <1>6, <1>8, <2>1, OnlyThat DEF Advances, Busy
<1>9. CASE id \notin Values(map)
  <2>1. Removed(c, id, UpTo(entry), UpTo(entry))
    <3>1. RemoveValue(map, id) = map
      BY <1>5, <1>9, WithoutValue
    <3>2. \A k \in DOMAIN settled.channelSubscriptions :
            k # channel => (k \in Before(entry) <=> k \in UpTo(entry))
      <4>1. \A k \in DOMAIN settled.channelSubscriptions : k \in Channel /\ k \in Nat
        BY <1>1, RemovedDomains, ThreadsAssumption
      <4> QED BY <1>4, <4>1 DEF Before, UpTo
    <3> QED BY <1>1, <1>7, <1>9, <3>1, <3>2 DEF Removed, NowChannels, Now, SettledOK
  <2>2. /\ thread[c].next # NoEntry => InMap(thread[c].next)
        /\ Removed(c, id, Past(thread[c].next), Past(thread[c].next))
    <3>1. \A k \in DOMAIN settled.channelSubscriptions :
            k \in Past(thread[c].next) <=> k \in UpTo(entry)
      BY <1>1, <1>4, PastNext, RemovedDomains, ViewTypes
    <3> QED BY <1>1, <1>4, <2>1, <3>1, PastNext, RemovedSame
  <2>3. ASSUME UNCHANGED settled PROVE UnsubscribeProgress(c)'
    <3>1. Removed(c, FrameOf(c).id, Past(thread[c].next), Past(thread[c].next))'
      BY <1>2, <1>6, <2>2, <2>3 DEF Removed, NowChannels, Now, B!ChannelsWith
    <3>2. thread'[c].next # NoEntry => InMap(thread[c].next)'
      BY <1>2, <1>6, <2>2 DEF InMap
    <3> QED BY <1>6, <1>9, <3>1, <3>2 DEF UnsubscribeProgress, At
  <2> QED BY <1>3, <1>6, <1>9, <2>3, OnlyThat DEF Advances, Busy
<1> QED BY <1>8, <1>9

LEMMA UnsubscribeRemoves ==
  ASSUME TypeInv, ObjectsSeparate, SettledOK, NEW c \in Conn, Progress(c), RemoveIf(c)
  PROVE  Advances(c)
<1> DEFINE id == FrameOf(c).id
           entry == thread[c].entry
           channel == thread[c].entry.channel
           map == settled.channelSubscriptions[channel]
<1>1. /\ InMap(entry) /\ IsNext(c) /\ Removed(c, id, Before(entry), Before(entry))
      /\ channel \in B!ChannelsWith(id)
  BY DEF Progress, RemoveIf, At, UnsubscribeProgress
<1>2. /\ UNCHANGED <<users, clientHandlers, topicSubscribers, channelSubscriptions, sets,
                     shouldTerminate>>
      /\ maps' = [maps EXCEPT ![channelSubscriptions[channel]] =
                    RemoveValue(Subscriptions[channel], id)]
  BY <1>1, InMapEntry DEF RemoveIf, clientVars, InMap
<1>3. channel \in Channel /\ channel \in Nat /\ channel \in DOMAIN Subscriptions
  BY <1>1, InMapEntry
<1>4. /\ Subscriptions' = [Subscriptions EXCEPT ![channel] = RemoveValue(@, id)]
      /\ Topics' = Topics
  <2> DEFINE without == RemoveValue(Subscriptions[channel], id)
  <2> HIDE DEF without
  <2>1. maps' = [maps EXCEPT ![channelSubscriptions[channel]] = without]
    BY <1>2 DEF without
  <2>2. Subscriptions' = [Subscriptions EXCEPT ![channel] = without] /\ UNCHANGED Topics
    BY <1>2, <1>3, <2>1, ChangedMapView
  <2> QED BY <2>2 DEF without
<1>5. /\ thread'[c].at = "leave"
      /\ FrameOf(c)' = FrameOf(c)
      /\ thread'[c].entry = entry
      /\ thread'[c].next = thread[c].next
  BY GoFields DEF RemoveIf, FrameOf
<1>6. ASSUME UNCHANGED settled PROVE UnsubscribeProgress(c)'
  <2>1. Removed(c, FrameOf(c).id, UpTo(thread[c].entry), Before(thread[c].entry))'
    <3>1. \A k \in DOMAIN settled.channelSubscriptions :
            /\ k # channel => (k \in Before(entry) <=> k \in UpTo(entry))
            /\ k = channel => k \in UpTo(entry) /\ k \notin Before(entry)
      <4>1. \A k \in DOMAIN settled.channelSubscriptions : k \in Channel /\ k \in Nat
        BY <1>1, RemovedDomains, ThreadsAssumption
      <4> QED BY <1>3, <4>1 DEF Before, UpTo
    <3>2. Subscriptions' =
            [k \in DOMAIN settled.channelSubscriptions |->
               IF k \in UpTo(entry) THEN RemoveValue(settled.channelSubscriptions[k], id)
               ELSE settled.channelSubscriptions[k]]
      BY <1>1, <1>3, <1>4, <3>1 DEF Removed, NowChannels, Now
    <3> QED BY <1>1, <1>2, <1>4, <1>5, <1>6, <3>2
            DEF Removed, NowChannels, Now, B!ChannelsWith
  <2>2. InMap(thread[c].entry)' /\ IsNext(c)'
    BY <1>1, <1>2, <1>5 DEF IsNext, EntryFrom, InMap
  <2>3. (thread[c].entry.channel \in B!ChannelsWith(FrameOf(c).id))'
    BY <1>1, <1>5, <1>6 DEF B!ChannelsWith
  <2> QED BY <1>5, <2>1, <2>2, <2>3 DEF UnsubscribeProgress, At
<1>7. "leave" \in UnsubscribeLabel
  BY UnsubscribeLabels
<1> QED BY <1>5, <1>6, <1>7, OnlyThat DEF Advances, Busy

LEMMA UnsubscribeLeavesSet ==
  ASSUME TypeInv, ObjectsSeparate, SettledOK, NEW c \in Conn, Progress(c), LeaveSet(c)
  PROVE  Advances(c)
<1> DEFINE id == FrameOf(c).id
           entry == thread[c].entry
           next == thread[c].next
           channel == thread[c].entry.channel
<1>1. /\ InMap(entry) /\ IsNext(c) /\ Removed(c, id, UpTo(entry), Before(entry))
      /\ channel \in B!ChannelsWith(id)
  BY DEF Progress, LeaveSet, At, UnsubscribeProgress
<1>2. channel \in Channel /\ channel \in Nat /\ channel \in DOMAIN Topics
  BY <1>1, InMapEntry, RemovedDomains
<1>3. /\ UNCHANGED <<users, clientHandlers, topicSubscribers, channelSubscriptions, maps,
                     shouldTerminate>>
      /\ sets' = [sets EXCEPT ![topicSubscribers[channel]] = Topics[channel] \ {c}]
      /\ Go(c, "nextOfUnsubscribe")
  BY <1>2, TopicSet DEF LeaveSet, clientVars
<1>4. Topics' = [Topics EXCEPT ![channel] = @ \ {c}] /\ Subscriptions' = Subscriptions
  <2> DEFINE without == Topics[channel] \ {c}
  <2> HIDE DEF without
  <2>1. sets' = [sets EXCEPT ![topicSubscribers[channel]] = without]
    BY <1>3 DEF without
  <2>2. Topics' = [Topics EXCEPT ![channel] = without] /\ UNCHANGED Subscriptions
    BY <1>2, <1>3, <2>1, ChangedSetView
  <2> QED BY <2>2 DEF without
<1>5. /\ thread'[c].at = "nextOfUnsubscribe"
      /\ FrameOf(c)' = FrameOf(c)
      /\ thread'[c].next = next
  BY <1>3, GoFields DEF FrameOf
<1>6. ASSUME UNCHANGED settled PROVE UnsubscribeProgress(c)'
  <2>1. \A k \in DOMAIN settled.channelSubscriptions : k \in Past(next) <=> k \in UpTo(entry)
    BY <1>1, <1>2, PastNext, RemovedDomains, ViewTypes
  <2>2. Removed(c, FrameOf(c).id, Past(thread[c].next), Past(thread[c].next))'
    <3>1. \A k \in DOMAIN settled.channelSubscriptions :
            /\ k # channel => (k \in Before(entry) <=> k \in UpTo(entry))
            /\ k = channel => k \in UpTo(entry) /\ k \notin Before(entry)
      <4>1. \A k \in DOMAIN settled.channelSubscriptions : k \in Channel /\ k \in Nat
        BY <1>1, RemovedDomains, ThreadsAssumption
      <4> QED BY <1>2, <4>1 DEF Before, UpTo
    <3>2. Topics' =
            [k \in DOMAIN settled.topicSubscribers |->
               IF k \in Past(next) \cap B!ChannelsWith(id)
                 THEN settled.topicSubscribers[k] \ {c}
               ELSE settled.topicSubscribers[k]]
      BY <1>1, <1>2, <1>4, <2>1, <3>1 DEF Removed, NowChannels, Now, SettledOK
    <3>3. Subscriptions' =
            [k \in DOMAIN settled.channelSubscriptions |->
               IF k \in Past(next) THEN RemoveValue(settled.channelSubscriptions[k], id)
               ELSE settled.channelSubscriptions[k]]
      BY <1>1, <1>4, <2>1 DEF Removed, NowChannels, Now
    <3> QED BY <1>1, <1>3, <1>5, <1>6, <3>2, <3>3
            DEF Removed, NowChannels, Now, B!ChannelsWith
  <2>3. thread'[c].next # NoEntry => InMap(thread[c].next)'
    BY <1>1, <1>2, <1>3, <1>5, PastNext DEF InMap
  <2> QED BY <1>5, <2>2, <2>3 DEF UnsubscribeProgress, At
<1>7. "nextOfUnsubscribe" \in UnsubscribeLabel
  BY UnsubscribeLabels
<1> QED BY <1>5, <1>6, <1>7, OnlyThat DEF Advances, Busy

LEMMA UnsubscribeAdvances ==
  ASSUME TypeInv, ObjectsSeparate, SettledOK, NEW c \in Conn, Progress(c),
         ProcessUnsubscribe(c)
  PROVE  Advances(c)
BY UnsubscribeIterates, UnsubscribeTests, UnsubscribeRemoves, UnsubscribeLeavesSet
   DEF ProcessUnsubscribe

-----------------------------------------------------------------------------
(* DISCONNECT and the error paths *)

LEMMA EmptiedSame ==
  ASSUME SettledOK, NEW c, NEW handlers, NEW done, NEW dropped, NEW closed,
         NEW done2, NEW dropped2, NEW closed2,
         Emptied(c, handlers, done, dropped, closed),
         \A k \in DOMAIN settled.channelSubscriptions :
           /\ k \in done <=> k \in done2
           /\ k \in dropped <=> k \in dropped2
           /\ k \in closed <=> k \in closed2
  PROVE  Emptied(c, handlers, done2, dropped2, closed2)
<1>1. B!EmptiedBy(c) \subseteq DOMAIN settled.channelSubscriptions
  BY DEF B!EmptiedBy
<1>2. /\ dropped \cap B!EmptiedBy(c) = dropped2 \cap B!EmptiedBy(c)
      /\ closed \cap B!EmptiedBy(c) = closed2 \cap B!EmptiedBy(c)
  BY <1>1
<1> QED BY <1>2 DEF Emptied, Now

(* The channels that are left *)
LEMMA EmptiedDomains ==
  ASSUME SettledOK, NEW c, NEW handlers, NEW done, NEW dropped, NEW closed,
         Emptied(c, handlers, done, dropped, closed)
  PROVE  /\ DOMAIN Subscriptions =
              DOMAIN settled.channelSubscriptions \ (dropped \cap B!EmptiedBy(c))
         /\ DOMAIN settled.channelSubscriptions \subseteq Channel
         /\ DOMAIN settled.topicSubscribers = DOMAIN settled.channelSubscriptions
BY SettledRecord, MapElim DEF Emptied, Now, SettledOK

LEMMA NothingEmptied ==
  ASSUME SettledOK, NEW c, Unchanged
  PROVE  Emptied(c, settled.clientHandlers, {}, {}, {})
<1>1. /\ settled.topicSubscribers \in
           [DOMAIN settled.topicSubscribers -> SUBSET Conn]
      /\ settled.channelSubscriptions \in
           [DOMAIN settled.channelSubscriptions -> MapsOf(Conn, SubId)]
  BY SettledRecord, MapElim
<1>2. /\ RemoveKeys(settled.topicSubscribers, {} \cap B!EmptiedBy(c)) =
           settled.topicSubscribers
      /\ settled.channelSubscriptions =
           [k \in DOMAIN settled.channelSubscriptions \ ({} \cap B!EmptiedBy(c)) |->
              settled.channelSubscriptions[k]]
  BY <1>1 DEF RemoveKeys
<1> QED BY <1>2 DEF Emptied, Unchanged, NowUsers, Now

LEMMA DisconnectEnters ==
  ASSUME TypeInv, SettledOK, NEW c \in Conn, Progress(c), EnterDisconnect(c)
  PROVE  Advances(c)
<1> DEFINE next == EntryFrom(1)
<1>1. Unchanged /\ Disconnects(c)
  BY DisconnectLabels DEF Progress, EnterDisconnect, At, DisconnectProgress
<1>2. /\ UNCHANGED <<users, clientHandlers, topicSubscribers, channelSubscriptions,
                     shouldTerminate>>
      /\ UNCHANGED <<Topics, Subscriptions>>
  BY SameViews DEF EnterDisconnect, registryVars, clientVars
<1>3. /\ thread'[c].at = "nextOfDisconnect"
      /\ FrameOf(c)' = FrameOf(c)
      /\ thread'[c].next = next
  <2> DEFINE local == thread[c]
  <2>1. local \in LocalType
    BY ThreadFields
  <2>2. thread'[c] = [local EXCEPT !.at = "nextOfDisconnect", !.next = next]
    BY ThreadFields DEF EnterDisconnect, ThreadsOK
  <2> HIDE DEF local, next
  <2>3. /\ thread'[c].at = "nextOfDisconnect"
        /\ thread'[c].frame = local.frame
        /\ thread'[c].next = next
    BY <2>1, <2>2 DEF LocalType
  <2> QED BY <2>3 DEF local, FrameOf
<1>4. /\ next # NoEntry => InMap(next)
      /\ Emptied(c, settled.clientHandlers, Past(next), Past(next), Past(next))
  <2>1. /\ next # NoEntry => InMap(next)
        /\ \A k \in DOMAIN channelSubscriptions : k \in Past(next) <=> k < 1
    BY EntryFromIsFirst
  <2>2. DOMAIN settled.channelSubscriptions = DOMAIN channelSubscriptions
    BY <1>1, ViewTypes DEF Unchanged, NowUsers, Now
  <2>3. \A k \in DOMAIN settled.channelSubscriptions : ~(k < 1)
    BY <2>2, ObjectTypes, ThreadsAssumption
  <2> QED BY <1>1, <2>1, <2>2, <2>3, NothingEmptied, EmptiedSame
<1>5. ASSUME UNCHANGED settled PROVE DisconnectProgress(c)'
  <2>1. Emptied(c, settled.clientHandlers, Past(thread[c].next), Past(thread[c].next),
                Past(thread[c].next))'
    BY <1>2, <1>3, <1>4, <1>5 DEF Emptied, Now, B!EmptiedBy
  <2>2. thread'[c].next # NoEntry => InMap(thread[c].next)'
    BY <1>2, <1>3, <1>4 DEF InMap
  <2>3. Disconnects(c)'
    BY <1>1, <1>3, <1>5
       DEF Disconnects, MayLogIn, B!MayLogIn, IsSubscribed, B!ExistsSubscription
  <2> QED BY <1>3, <2>1, <2>2, <2>3 DEF DisconnectProgress, At
<1> QED BY <1>3, <1>5, OnlyThat, DisconnectLabels DEF Advances, Busy

LEMMA DisconnectIterates ==
  ASSUME TypeInv, SettledOK, NEW c \in Conn, Progress(c), NextOfDisconnect(c)
  PROVE  Advances(c)
<1> DEFINE next == thread[c].next
           handlers == settled.clientHandlers
<1>1. /\ next # NoEntry => InMap(next)
      /\ Emptied(c, handlers, Past(next), Past(next), Past(next))
      /\ Disconnects(c)
  BY DisconnectLabels DEF Progress, NextOfDisconnect, At, DisconnectProgress
<1>2. /\ UNCHANGED <<users, clientHandlers, topicSubscribers, channelSubscriptions,
                     shouldTerminate>>
      /\ UNCHANGED <<Topics, Subscriptions>>
  BY SameViews DEF NextOfDisconnect, registryVars, clientVars
<1>3. ASSUME UNCHANGED settled, FrameOf(c)' = FrameOf(c) PROVE Disconnects(c)'
  BY <1>1, <1>3
     DEF Disconnects, MayLogIn, B!MayLogIn, IsSubscribed, B!ExistsSubscription
<1>4. CASE next = NoEntry
  <2>1. thread'[c].at = "removeHandler" /\ FrameOf(c)' = FrameOf(c)
    BY <1>4, GoFields DEF NextOfDisconnect, FrameOf
  <2>2. Emptied(c, handlers, Channel, Channel, Channel)
    <3>1. \A k \in DOMAIN settled.channelSubscriptions : k \in Channel /\ k \in Past(next)
      BY <1>1, <1>4, EmptiedDomains DEF Past
    <3> QED BY <1>1, <3>1, EmptiedSame
  <2>3. ASSUME UNCHANGED settled PROVE DisconnectProgress(c)'
    <3>1. Emptied(c, settled.clientHandlers, Channel, Channel, Channel)'
      BY <1>2, <2>1, <2>2, <2>3 DEF Emptied, Now, B!EmptiedBy
    <3> QED BY <1>3, <2>1, <2>3, <3>1 DEF DisconnectProgress, At
  <2> QED BY <2>1, <2>3, OnlyThat, DisconnectLabels DEF Advances, Busy
<1>5. CASE next # NoEntry
  <2>1. /\ thread'[c].at = "removeOwn"
        /\ FrameOf(c)' = FrameOf(c)
        /\ thread'[c].entry = next
        /\ thread'[c].next = EntryFrom(next.channel + 1)
    BY <1>5, EntryFields DEF NextOfDisconnect, FrameOf
  <2>2. Emptied(c, handlers, Before(next), Before(next), Before(next))
    BY <1>1, <1>5, EmptiedSame DEF Past, Before
  <2>3. ASSUME UNCHANGED settled PROVE DisconnectProgress(c)'
    <3>1. Emptied(c, settled.clientHandlers, Before(thread[c].entry),
                  Before(thread[c].entry), Before(thread[c].entry))'
      BY <1>2, <2>1, <2>2, <2>3 DEF Emptied, Now, B!EmptiedBy
    <3>2. InMap(thread[c].entry)' /\ IsNext(c)'
      BY <1>1, <1>2, <1>5, <2>1 DEF IsNext, EntryFrom, InMap
    <3> QED BY <1>3, <2>1, <2>3, <3>1, <3>2 DEF DisconnectProgress, At
  <2> QED BY <2>1, <2>3, OnlyThat, DisconnectLabels DEF Advances, Busy
<1> QED BY <1>4, <1>5

(* The entry of an iteration that its channel's objects are those of        *)
LEMMA EntryMap ==
  ASSUME TypeInv, SettledOK, NEW c \in Conn, NEW handlers, NEW done,
         InMap(thread[c].entry),
         Emptied(c, handlers, done, Before(thread[c].entry), Before(thread[c].entry))
  PROVE  LET channel == thread[c].entry.channel
             map == settled.channelSubscriptions[channel]
         IN  /\ channel \in Channel /\ channel \in Nat
             /\ channel \in DOMAIN settled.channelSubscriptions
             /\ channel \in DOMAIN Subscriptions
             /\ map \in [DOMAIN map -> SubId]
             /\ maps[thread[c].entry.map] = Subscriptions[channel]
             /\ Subscriptions[channel] = IF channel \in done THEN RemoveKeys(map, {c}) ELSE map
             /\ \A k \in DOMAIN settled.channelSubscriptions :
                  /\ k # channel =>
                       (k \in Before(thread[c].entry) <=> k \in UpTo(thread[c].entry))
                  /\ k = channel =>
                       k \in UpTo(thread[c].entry) /\ k \notin Before(thread[c].entry)
<1> DEFINE entry == thread[c].entry
           channel == entry.channel
           map == settled.channelSubscriptions[channel]
<1>1. /\ channel \in Channel /\ channel \in Nat
      /\ channel \in DOMAIN Subscriptions
      /\ maps[entry.map] = Subscriptions[channel]
  BY InMapEntry
<1>2. channel \in DOMAIN settled.channelSubscriptions
  BY <1>1, EmptiedDomains
<1>3. map \in [DOMAIN map -> SubId]
  <2>1. map \in MapsOf(Conn, SubId)
    BY <1>2, SettledRecord, MapElim
  <2> QED BY <2>1, MapElim
<1>4. Subscriptions[channel] = IF channel \in done THEN RemoveKeys(map, {c}) ELSE map
  BY <1>1 DEF Emptied, Now
<1>5. \A k \in DOMAIN settled.channelSubscriptions : k \in Channel /\ k \in Nat
  BY EmptiedDomains, ThreadsAssumption
<1>6. \A k \in DOMAIN settled.channelSubscriptions :
        /\ k # channel => (k \in Before(entry) <=> k \in UpTo(entry))
        /\ k = channel => k \in UpTo(entry) /\ k \notin Before(entry)
  BY <1>1, <1>5 DEF Before, UpTo
<1> QED BY <1>1, <1>2, <1>3, <1>4, <1>6

LEMMA DisconnectRemoves ==
  ASSUME TypeInv, ObjectsSeparate, SettledOK, NEW c \in Conn, Progress(c), RemoveOwn(c)
  PROVE  Advances(c)
<1> DEFINE entry == thread[c].entry
           channel == thread[c].entry.channel
           handlers == settled.clientHandlers
<1>1. /\ Disconnects(c) /\ IsNext(c) /\ InMap(entry)
      /\ Emptied(c, handlers, Before(entry), Before(entry), Before(entry))
  BY DisconnectLabels DEF Progress, RemoveOwn, At, DisconnectProgress
<1>2. /\ UNCHANGED <<users, clientHandlers, topicSubscribers, channelSubscriptions, sets,
                     shouldTerminate>>
      /\ maps' = [maps EXCEPT ![channelSubscriptions[channel]] =
                    RemoveKeys(Subscriptions[channel], {c})]
  BY <1>1, InMapEntry DEF RemoveOwn, clientVars, InMap
<1>3. channel \in DOMAIN Subscriptions
  BY <1>1, InMapEntry
<1>4. /\ Subscriptions' = [Subscriptions EXCEPT ![channel] = RemoveKeys(@, {c})]
      /\ Topics' = Topics
  <2> DEFINE without == RemoveKeys(Subscriptions[channel], {c})
  <2> HIDE DEF without
  <2>1. maps' = [maps EXCEPT ![channelSubscriptions[channel]] = without]
    BY <1>2 DEF without
  <2>2. Subscriptions' = [Subscriptions EXCEPT ![channel] = without] /\ UNCHANGED Topics
    BY <1>2, <1>3, <2>1, ChangedMapView
  <2> QED BY <2>2 DEF without
<1>5. /\ thread'[c].at = "isEmpty"
      /\ FrameOf(c)' = FrameOf(c)
      /\ thread'[c].entry = entry
      /\ thread'[c].next = thread[c].next
  BY GoFields DEF RemoveOwn, FrameOf
<1>6. ASSUME UNCHANGED settled PROVE DisconnectProgress(c)'
  <2>1. Emptied(c, settled.clientHandlers, UpTo(thread[c].entry),
                Before(thread[c].entry), Before(thread[c].entry))'
    <3>1. \A k \in DOMAIN settled.channelSubscriptions :
            /\ k # channel => (k \in Before(entry) <=> k \in UpTo(entry))
            /\ k = channel => k \in UpTo(entry) /\ k \notin Before(entry)
      BY <1>1, EntryMap
    <3>2. Subscriptions' =
            [k \in DOMAIN settled.channelSubscriptions \ (Before(entry) \cap B!EmptiedBy(c)) |->
               IF k \in UpTo(entry) THEN RemoveKeys(settled.channelSubscriptions[k], {c})
               ELSE settled.channelSubscriptions[k]]
      BY <1>1, <1>3, <1>4, <3>1 DEF Emptied, Now
    <3> QED BY <1>1, <1>2, <1>4, <1>5, <1>6, <3>2 DEF Emptied, Now, B!EmptiedBy
  <2>2. InMap(thread[c].entry)' /\ IsNext(c)'
    BY <1>1, <1>2, <1>5 DEF IsNext, EntryFrom, InMap
  <2>3. Disconnects(c)'
    BY <1>1, <1>5, <1>6
       DEF Disconnects, MayLogIn, B!MayLogIn, IsSubscribed, B!ExistsSubscription
  <2> QED BY <1>5, <2>1, <2>2, <2>3 DEF DisconnectProgress, At
<1> QED BY <1>5, <1>6, OnlyThat, DisconnectLabels DEF Advances, Busy

(* Where an iteration is when it has been through its entry *)
LEMMA PassedEntry ==
  ASSUME TypeInv, SettledOK, NEW c \in Conn, IsNext(c), thread[c].entry.channel \in Channel,
         NEW handlers, NEW dropped, NEW closed,
         \A k \in DOMAIN settled.channelSubscriptions :
           (k \in dropped \/ k \in closed => k \in UpTo(thread[c].entry))
             /\ (k \in UpTo(thread[c].entry) \cap B!EmptiedBy(c) =>
                   k \in dropped /\ k \in closed),
         Emptied(c, handlers, UpTo(thread[c].entry), dropped, closed)
  PROVE  LET next == thread[c].next
         IN  /\ next # NoEntry => InMap(next)
             /\ Emptied(c, handlers, Past(next), Past(next), Past(next))
<1> DEFINE next == thread[c].next
           entry == thread[c].entry
           D == DOMAIN settled.channelSubscriptions
<1>1. entry.channel \in Nat /\ Channel \subseteq Nat
  BY ThreadsAssumption
<1>2. B!EmptiedBy(c) \subseteq D
  BY DEF B!EmptiedBy
<1>3. Emptied(c, handlers, UpTo(entry), UpTo(entry), UpTo(entry))
  <2>1. /\ dropped \cap B!EmptiedBy(c) = UpTo(entry) \cap B!EmptiedBy(c)
        /\ closed \cap B!EmptiedBy(c) = UpTo(entry) \cap B!EmptiedBy(c)
    BY <1>2
  <2> QED BY <2>1 DEF Emptied, Now
<1>4. /\ DOMAIN channelSubscriptions = D \ (UpTo(entry) \cap B!EmptiedBy(c))
      /\ D \subseteq Channel
  BY <1>3, EmptiedDomains, ViewTypes
<1>5. \A k \in D : k \in Past(next) <=> k \in UpTo(entry)
  <2>1. \A k \in D : k \in DOMAIN channelSubscriptions \/ k <= entry.channel
    BY <1>4 DEF UpTo
  <2> QED BY <1>1, <1>4, <2>1, PastNext
<1>6. Emptied(c, handlers, Past(next), Past(next), Past(next))
  BY <1>3, <1>5, EmptiedSame
<1> QED BY <1>1, <1>6, PastNext

LEMMA DisconnectTests ==
  ASSUME TypeInv, SettledOK, NEW c \in Conn, Progress(c), IsEmpty(c)
  PROVE  Advances(c)
<1> DEFINE entry == thread[c].entry
           next == thread[c].next
           channel == thread[c].entry.channel
           map == settled.channelSubscriptions[channel]
           handlers == settled.clientHandlers
<1>1. /\ Disconnects(c) /\ IsNext(c) /\ InMap(entry)
      /\ Emptied(c, handlers, UpTo(entry), Before(entry), Before(entry))
  BY DisconnectLabels DEF Progress, IsEmpty, At, DisconnectProgress
<1>2. /\ UNCHANGED <<users, clientHandlers, topicSubscribers, channelSubscriptions,
                     shouldTerminate>>
      /\ UNCHANGED <<Topics, Subscriptions>>
  BY SameViews DEF IsEmpty, registryVars, clientVars
<1>3. /\ channel \in Channel
      /\ channel \in DOMAIN settled.channelSubscriptions
      /\ maps[entry.map] = RemoveKeys(map, {c})
      /\ \A k \in DOMAIN settled.channelSubscriptions :
           /\ k # channel => (k \in Before(entry) <=> k \in UpTo(entry))
           /\ k = channel => k \in UpTo(entry) /\ k \notin Before(entry)
  BY <1>1, EntryMap
<1>4. maps[entry.map] = EmptyMap <=> channel \in B!EmptiedBy(c)
  <2>1. RemoveKeys(map, {c}) = EmptyMap <=> DOMAIN map \ {c} = {}
    BY DEF RemoveKeys, EmptyMap
  <2> QED BY <1>3, <2>1 DEF B!EmptiedBy
<1>5. /\ thread'[c].at = IF channel \in B!EmptiedBy(c) THEN "dropMap" ELSE "nextOfDisconnect"
      /\ FrameOf(c)' = FrameOf(c)
      /\ thread'[c].entry = entry
      /\ thread'[c].next = next
  BY <1>4, GoFields DEF IsEmpty, FrameOf
<1>6. ASSUME UNCHANGED settled PROVE Disconnects(c)'
  BY <1>1, <1>5, <1>6
     DEF Disconnects, MayLogIn, B!MayLogIn, IsSubscribed, B!ExistsSubscription
<1>7. CASE channel \in B!EmptiedBy(c)
  <2>1. ASSUME UNCHANGED settled PROVE DisconnectProgress(c)'
    <3>1. Emptied(c, settled.clientHandlers, UpTo(thread[c].entry),
                  Before(thread[c].entry), Before(thread[c].entry))'
      BY <1>1, <1>2, <1>5, <2>1 DEF Emptied, Now, B!EmptiedBy
    <3>2. InMap(thread[c].entry)' /\ IsNext(c)'
      BY <1>1, <1>2, <1>5 DEF IsNext, EntryFrom, InMap
    <3>3. (thread[c].entry.channel \in B!EmptiedBy(c))'
      BY <1>5, <1>7, <2>1 DEF B!EmptiedBy
    <3> QED BY <1>5, <1>6, <1>7, <2>1, <3>1, <3>2, <3>3 DEF DisconnectProgress, At
  <2> QED BY <1>5, <1>7, <2>1, OnlyThat, DisconnectLabels DEF Advances, Busy
<1>8. CASE channel \notin B!EmptiedBy(c)
  <2>1. /\ next # NoEntry => InMap(next)
        /\ Emptied(c, handlers, Past(next), Past(next), Past(next))
    BY <1>1, <1>3, <1>8, PassedEntry
  <2>2. ASSUME UNCHANGED settled PROVE DisconnectProgress(c)'
    <3>1. Emptied(c, settled.clientHandlers, Past(thread[c].next),
                  Past(thread[c].next), Past(thread[c].next))'
      BY <1>2, <1>5, <2>1, <2>2 DEF Emptied, Now, B!EmptiedBy
    <3>2. thread'[c].next # NoEntry => InMap(thread[c].next)'
      BY <1>2, <1>5, <2>1 DEF InMap
    <3> QED BY <1>5, <1>6, <1>8, <2>2, <3>1, <3>2 DEF DisconnectProgress, At
  <2> QED BY <1>5, <1>8, <2>2, OnlyThat, DisconnectLabels DEF Advances, Busy
<1> QED BY <1>7, <1>8

(* An iterator that has passed a channel does not see that it is dropped.   *)
LEMMA DropBehind ==
  ASSUME TypeInv, NEW n \in Nat, NEW k \in Nat, k < n,
         channelSubscriptions' = RemoveKeys(channelSubscriptions, {k})
  PROVE  EntryFrom(n)' = EntryFrom(n)
<1>1. DOMAIN channelSubscriptions \subseteq Nat
  BY ObjectTypes, ThreadsAssumption
<1>2. /\ DOMAIN channelSubscriptions' = DOMAIN channelSubscriptions \ {k}
      /\ \A j \in DOMAIN channelSubscriptions' :
           channelSubscriptions'[j] = channelSubscriptions[j]
  BY DEF RemoveKeys
<1> DEFINE ahead == {j \in DOMAIN channelSubscriptions : j >= n}
           first == CHOOSE j \in ahead : \A i \in ahead : j <= i
<1>3. {j \in DOMAIN channelSubscriptions' : j >= n} = ahead
  BY <1>1, <1>2
<1>4. CASE ahead = {}
  BY <1>3, <1>4 DEF EntryFrom
<1>5. CASE ahead # {}
  <2>1. \E j \in ahead : \A i \in ahead : j <= i
    BY <1>1, <1>5, LeastNumber
  <2>2. first \in ahead
    BY <2>1
  <2>3. channelSubscriptions'[first] = channelSubscriptions[first]
    BY <1>2, <1>3, <2>2
  <2>4. EntryFrom(n)' = [channel |-> first, map |-> channelSubscriptions'[first]]
    BY <1>3, <1>5 DEF EntryFrom
  <2>5. EntryFrom(n) = [channel |-> first, map |-> channelSubscriptions[first]]
    BY <1>5 DEF EntryFrom
  <2> QED BY <2>3, <2>4, <2>5
<1> QED BY <1>4, <1>5

LEMMA DisconnectDropsMap ==
  ASSUME TypeInv, SettledOK, NEW c \in Conn, Progress(c), DropMap(c)
  PROVE  Advances(c)
<1> DEFINE entry == thread[c].entry
           next == thread[c].next
           channel == thread[c].entry.channel
           handlers == settled.clientHandlers
<1>1. /\ Disconnects(c) /\ IsNext(c) /\ InMap(entry)
      /\ Emptied(c, handlers, UpTo(entry), Before(entry), Before(entry))
      /\ channel \in B!EmptiedBy(c)
  BY DisconnectLabels DEF Progress, DropMap, At, DisconnectProgress
<1>2. /\ UNCHANGED <<users, clientHandlers, topicSubscribers, sets, maps, shouldTerminate>>
      /\ channelSubscriptions' = RemoveKeys(channelSubscriptions, {channel})
  BY DEF DropMap, clientVars
<1>3. /\ Subscriptions' = RemoveKeys(Subscriptions, {channel})
      /\ Topics' = Topics
  BY <1>2, DroppedView DEF Topics, Subscriptions, View
<1>4. /\ thread'[c].at = "dropTopic"
      /\ FrameOf(c)' = FrameOf(c)
      /\ thread'[c].entry = entry
      /\ thread'[c].next = next
  BY GoFields DEF DropMap, FrameOf
<1>5. /\ channel \in Nat
      /\ \A k \in DOMAIN settled.channelSubscriptions :
           /\ k # channel => (k \in Before(entry) <=> k \in UpTo(entry))
           /\ k = channel => k \in UpTo(entry) /\ k \notin Before(entry)
  BY <1>1, EntryMap
<1>6. ASSUME UNCHANGED settled PROVE DisconnectProgress(c)'
  <2>1. Emptied(c, settled.clientHandlers, UpTo(thread[c].entry),
                UpTo(thread[c].entry), Before(thread[c].entry))'
    <3> DEFINE D == DOMAIN settled.channelSubscriptions
    <3>1. B!EmptiedBy(c) \subseteq D
      BY DEF B!EmptiedBy
    <3>2. D \ (UpTo(entry) \cap B!EmptiedBy(c)) =
            (D \ (Before(entry) \cap B!EmptiedBy(c))) \ {channel}
      BY <1>1, <1>5, <3>1
    <3>3. Subscriptions' =
            [k \in D \ (UpTo(entry) \cap B!EmptiedBy(c)) |->
               IF k \in UpTo(entry) THEN RemoveKeys(settled.channelSubscriptions[k], {c})
               ELSE settled.channelSubscriptions[k]]
      <4> DEFINE left == D \ (Before(entry) \cap B!EmptiedBy(c))
                 value(k) == IF k \in UpTo(entry)
                               THEN RemoveKeys(settled.channelSubscriptions[k], {c})
                               ELSE settled.channelSubscriptions[k]
      <4>1. Subscriptions = [k \in left |-> value(k)]
        BY <1>1 DEF Emptied, Now
      <4> HIDE DEF left, value
      <4>2. Subscriptions' = [k \in left \ {channel} |-> value(k)]
        BY <1>3, <4>1 DEF RemoveKeys
      <4> QED BY <3>2, <4>2 DEF left, value
    <3> QED BY <1>1, <1>2, <1>3, <1>4, <1>6, <3>3 DEF Emptied, Now, B!EmptiedBy
  <2>2. IsNext(c)'
    <3>1. PICK n \in Nat : n = channel + 1
      BY <1>5
    <3>2. channel < n
      BY <1>5, <3>1
    <3>3. EntryFrom(n)' = EntryFrom(n)
      BY <1>2, <1>5, <3>2, DropBehind
    <3>4. thread'[c].entry.channel + 1 = n
      BY <1>4, <3>1
    <3>5. thread'[c].next = EntryFrom(n)
      BY <1>1, <1>4, <3>1 DEF IsNext
    <3> QED BY <3>3, <3>4, <3>5 DEF IsNext, EntryFrom
  <2>3. (thread[c].entry.channel \in B!EmptiedBy(c))'
    BY <1>1, <1>4, <1>6 DEF B!EmptiedBy
  <2>4. Disconnects(c)'
    BY <1>1, <1>4, <1>6
       DEF Disconnects, MayLogIn, B!MayLogIn, IsSubscribed, B!ExistsSubscription
  <2> QED BY <1>4, <2>1, <2>2, <2>3, <2>4 DEF DisconnectProgress, At
<1> QED BY <1>4, <1>6, OnlyThat, DisconnectLabels DEF Advances, Busy

LEMMA DisconnectDropsTopic ==
  ASSUME TypeInv, SettledOK, NEW c \in Conn, Progress(c), DropTopic(c)
  PROVE  Advances(c)
<1> DEFINE entry == thread[c].entry
           next == thread[c].next
           channel == thread[c].entry.channel
           handlers == settled.clientHandlers
           D == DOMAIN settled.channelSubscriptions
<1>1. /\ Disconnects(c) /\ IsNext(c)
      /\ Emptied(c, handlers, UpTo(entry), UpTo(entry), Before(entry))
      /\ channel \in B!EmptiedBy(c)
  BY DisconnectLabels DEF Progress, DropTopic, At, DisconnectProgress
<1>2. /\ UNCHANGED <<users, clientHandlers, channelSubscriptions, sets, maps, shouldTerminate>>
      /\ topicSubscribers' = RemoveKeys(topicSubscribers, {channel})
  BY DEF DropTopic, clientVars
<1>3. /\ Topics' = RemoveKeys(Topics, {channel})
      /\ Subscriptions' = Subscriptions
  BY <1>2, DroppedView DEF Topics, Subscriptions, View
<1>4. /\ thread'[c].at = "nextOfDisconnect"
      /\ FrameOf(c)' = FrameOf(c)
      /\ thread'[c].next = next
  BY GoFields DEF DropTopic, FrameOf
<1>5. /\ channel \in Channel /\ channel \in Nat /\ channel \in D
      /\ D \subseteq Channel /\ D \subseteq Nat
      /\ B!EmptiedBy(c) \subseteq D
  BY <1>1, EmptiedDomains, ThreadsAssumption DEF B!EmptiedBy
<1>6. /\ next # NoEntry => InMap(next)
      /\ \A k \in D : k \in Past(next) <=> k \in UpTo(entry)
  <2>1. D \ (UpTo(entry) \cap B!EmptiedBy(c)) = DOMAIN channelSubscriptions
    BY <1>1, EmptiedDomains, ViewTypes
  <2>2. \A k \in D : k \in DOMAIN channelSubscriptions \/ k <= channel
    BY <2>1 DEF UpTo
  <2> QED BY <1>1, <1>5, <2>2, PastNext
<1>7. ASSUME UNCHANGED settled PROVE DisconnectProgress(c)'
  <2>1. Emptied(c, settled.clientHandlers, Past(thread[c].next), Past(thread[c].next),
                Past(thread[c].next))'
    <3>1. \A k \in D :
            /\ k # channel => (k \in Before(entry) <=> k \in UpTo(entry))
            /\ k = channel => k \in UpTo(entry) /\ k \notin Before(entry)
      BY <1>5 DEF Before, UpTo
    <3>2. (Before(entry) \cap B!EmptiedBy(c)) \cup {channel} = Past(next) \cap B!EmptiedBy(c)
      BY <1>1, <1>5, <1>6, <3>1
    <3>3. Topics' = RemoveKeys(settled.topicSubscribers, Past(next) \cap B!EmptiedBy(c))
      <4> DEFINE closed == Before(entry) \cap B!EmptiedBy(c)
      <4>1. Topics = RemoveKeys(settled.topicSubscribers, closed)
        BY <1>1 DEF Emptied, Now
      <4> HIDE DEF closed
      <4>2. Topics' = RemoveKeys(settled.topicSubscribers, closed \cup {channel})
        BY <1>3, <4>1 DEF RemoveKeys
      <4> QED BY <3>2, <4>2 DEF closed
    <3>4. Past(next) \cap B!EmptiedBy(c) = UpTo(entry) \cap B!EmptiedBy(c)
      BY <1>5, <1>6
    <3>5. Subscriptions' =
            [k \in D \ (Past(next) \cap B!EmptiedBy(c)) |->
               IF k \in Past(next) THEN RemoveKeys(settled.channelSubscriptions[k], {c})
               ELSE settled.channelSubscriptions[k]]
      BY <1>1, <1>3, <1>6, <3>4 DEF Emptied, Now
    <3> QED BY <1>1, <1>2, <1>4, <1>7, <3>3, <3>5 DEF Emptied, Now, B!EmptiedBy
  <2>2. thread'[c].next # NoEntry => InMap(thread[c].next)'
    BY <1>2, <1>4, <1>6 DEF InMap
  <2>3. Disconnects(c)'
    BY <1>1, <1>4, <1>7
       DEF Disconnects, MayLogIn, B!MayLogIn, IsSubscribed, B!ExistsSubscription
  <2> QED BY <1>4, <2>1, <2>2, <2>3 DEF DisconnectProgress, At
<1> QED BY <1>4, <1>7, OnlyThat, DisconnectLabels DEF Advances, Busy

LEMMA DisconnectUnregisters ==
  ASSUME TypeInv, SettledOK, NEW c \in Conn, Progress(c), RemoveHandler(c)
  PROVE  Advances(c)
<1>1. /\ Disconnects(c)
      /\ Emptied(c, settled.clientHandlers, Channel, Channel, Channel)
  BY DisconnectLabels DEF Progress, RemoveHandler, At, DisconnectProgress
<1>2. /\ UNCHANGED <<users, Topics, Subscriptions, shouldTerminate>>
      /\ clientHandlers' = clientHandlers \ {c}
  BY SameViews DEF RemoveHandler, clientVars
<1>3. /\ thread'[c].at = "disconnectUser"
      /\ FrameOf(c)' = FrameOf(c)
  BY GoFields DEF RemoveHandler, FrameOf
<1>4. ASSUME UNCHANGED settled PROVE DisconnectProgress(c)'
  <2>1. Emptied(c, settled.clientHandlers \ {c}, Channel, Channel, Channel)'
    BY <1>1, <1>2, <1>3, <1>4 DEF Emptied, Now, B!EmptiedBy
  <2>2. Disconnects(c)'
    BY <1>1, <1>3, <1>4
       DEF Disconnects, MayLogIn, B!MayLogIn, IsSubscribed, B!ExistsSubscription
  <2> QED BY <1>3, <2>1, <2>2 DEF DisconnectProgress, At
<1> QED BY <1>3, <1>4, OnlyThat, DisconnectLabels DEF Advances, Busy

LEMMA DisconnectEnds ==
  ASSUME TypeInv, SettledOK, NEW c \in Conn, Progress(c), LeaveStorage(c)
  PROVE  Advances(c)
<1>1. /\ Disconnects(c)
      /\ Emptied(c, settled.clientHandlers \ {c}, Channel, Channel, Channel)
  BY DisconnectLabels DEF Progress, LeaveStorage, At, DisconnectProgress
<1>2. /\ UNCHANGED <<clientHandlers, Topics, Subscriptions>>
      /\ DisconnectUser(c)
  BY SameViews DEF LeaveStorage, registryVars
<1>3. ~Busy(c)'
  BY Ended DEF LeaveStorage
<1>4. ASSUME settled' = Shared' PROVE Completes(c)
  <2>1. /\ settled'.users = users'
        /\ settled'.clientHandlers = settled.clientHandlers \ {c}
        /\ settled'.topicSubscribers = Topics
        /\ settled'.channelSubscriptions = Subscriptions
        /\ settled'.shouldTerminate = shouldTerminate'
    BY <1>1, <1>2, <1>4, SharedViewsNext DEF Emptied, Now
  <2>2. B!DisconnectUser(c)
    <3>1. users = settled.users
      BY <1>1 DEF Emptied, Now
    <3> QED BY <1>2, <2>1, <3>1 DEF DisconnectUser, UsersOf, B!DisconnectUser, B!UsersOf
  <2>3. /\ Subscriptions = [k \in DOMAIN settled.channelSubscriptions \ B!EmptiedBy(c) |->
                              B!RemoveKeys(settled.channelSubscriptions[k], {c})]
        /\ Topics = B!RemoveKeys(settled.topicSubscribers, B!EmptiedBy(c))
    <3>1. DOMAIN settled.channelSubscriptions \subseteq Channel
      BY <1>1, EmptiedDomains
    <3>2. Channel \cap B!EmptiedBy(c) = B!EmptiedBy(c)
      BY <3>1 DEF B!EmptiedBy
    <3> HIDE DEF B!EmptiedBy
    <3> QED BY <1>1, <3>1, <3>2 DEF Emptied, Now, B!RemoveKeys, RemoveKeys
  <2>4. B!Disconnect(c)
    BY <2>1, <2>2, <2>3 DEF B!Disconnect
  <2>5. AtOnce(c, FrameOf(c))
    BY <1>1, <2>4 DEF AtOnce, Disconnects, MayLogIn, IsSubscribed
  <2>6. settled'.shouldTerminate =
          [settled.shouldTerminate EXCEPT ![c] = @ \/ FrameOf(c).type = "DISCONNECT"]
    <3>1. shouldTerminate = settled.shouldTerminate
      BY <1>1 DEF Emptied, Now
    <3>2. CASE FrameOf(c).type = "DISCONNECT"
      <4>1. shouldTerminate' = [settled.shouldTerminate EXCEPT ![c] = TRUE]
        BY <3>1, <3>2 DEF LeaveStorage
      <4> QED BY <2>1, <3>2, <4>1
    <3>3. CASE FrameOf(c).type # "DISCONNECT"
      <4>1. settled'.shouldTerminate = settled.shouldTerminate
        BY <2>1, <3>1, <3>3 DEF LeaveStorage
      <4> QED BY <3>3, <4>1, FlagKept
    <3> QED BY <3>2, <3>3
  <2> QED BY <2>5, <2>6 DEF Completes
<1> QED BY <1>3, <1>4 DEF Advances

LEMMA DisconnectAdvances ==
  ASSUME TypeInv, ObjectsSeparate, SettledOK, NEW c \in Conn, Progress(c),
         ProcessDisconnect(c)
  PROVE  Advances(c)
BY DisconnectEnters, DisconnectIterates, DisconnectRemoves, DisconnectTests,
   DisconnectDropsMap, DisconnectDropsTopic, DisconnectUnregisters, DisconnectEnds
   DEF ProcessDisconnect

LEMMA StepAdvances ==
  ASSUME TypeInv, ObjectsSeparate, SettledOK, NEW c \in Conn, Progress(c), Step(c)
  PROVE  Advances(c)
BY ConnectAdvances, SubscribeAdvances, UnsubscribeAdvances, SendAdvances,
   DisconnectAdvances DEF Step

-----------------------------------------------------------------------------
(* Frames that do not overlap *)

LEMMA StepIsBusy ==
  ASSUME TypeInv, NEW c \in Conn, Step(c)
  PROVE  Busy(c)
<1>1. thread[c].at \in ConnectLabel \cup SubscribeLabel \cup UnsubscribeLabel
                         \cup SendLabel \cup DisconnectLabel
  BY DEF Step, ProcessConnect, GetUser, AddNewUser, TestUser, Connect, SetConnectionId,
     ProcessSubscribe, Exists, Contains, AddTopic, AddMap, LockOf, Lock, Add, MapOf, PutId,
     ProcessUnsubscribe, NextOfUnsubscribe, ContainsValue, RemoveIf, LeaveSet,
     ProcessSend, GetSubscribers, LockSubscribers, Visit,
     ProcessDisconnect, EnterDisconnect, NextOfDisconnect, RemoveOwn, IsEmpty, DropMap,
     DropTopic, RemoveHandler, LeaveStorage, At,
     ConnectLabel, SubscribeLabel, UnsubscribeLabel, SendLabel, DisconnectLabel
<1> QED BY <1>1, LabelsDiffer DEF Busy

(* Of two frames in progress one was before, if only one thread has moved.  *)
LEMMA OneBusy ==
  ASSUME NEW busy, NEW before, NEW c, busy \subseteq before \cup {c},
         \A d, e \in before : d = e, Cardinality(busy) <= 1
  PROVE  \A d, e \in busy : d = e
<1>1. IsFiniteSet(before)
  <2>1. CASE before = {}
    BY <2>1, FS_EmptySet
  <2>2. CASE before # {}
    <3>1. PICK d : before = {d}
      BY <2>2
    <3> QED BY <3>1, FS_Singleton
  <2> QED BY <2>1, <2>2
<1>2. IsFiniteSet(busy)
  <2>1. IsFiniteSet(before \cup {c})
    BY <1>1, FS_AddElement
  <2> QED BY <2>1, FS_Subset
<1> SUFFICES ASSUME NEW d \in busy, NEW e \in busy, d # e PROVE FALSE
  OBVIOUS
<1>3. IsFiniteSet({d}) /\ Cardinality({d}) = 1
  BY FS_Singleton
<1>4. Cardinality({d} \cup {e}) = 2
  BY <1>3, FS_AddElement
<1>5. Cardinality({d} \cup {e}) <= Cardinality(busy)
  BY <1>2, FS_Subset
<1>6. Cardinality(busy) \in Nat
  BY <1>2, FS_CardinalityType
<1> QED BY <1>4, <1>5, <1>6

(* A frame whose thread does not move, nor anything that is shared *)
LEMMA ProgressKept ==
  ASSUME NEW c, Progress(c), thread'[c] = thread[c],
         UNCHANGED <<users, registryVars, shouldTerminate, settled>>
  PROVE  Progress(c)'
<1>1. UNCHANGED <<users, clientHandlers, topicSubscribers, channelSubscriptions, Topics,
                  Subscriptions, shouldTerminate, settled>>
  BY SameViews DEF registryVars
<1>2. FrameOf(c)' = FrameOf(c)
  BY DEF FrameOf
<1>3. MayLogIn(c)' = MayLogIn(c) /\ IsSubscribed(c)' = IsSubscribed(c)
  BY <1>1, <1>2 DEF MayLogIn, B!MayLogIn, IsSubscribed, B!ExistsSubscription
<1>4. ConnectProgress(c)'
  BY <1>1, <1>2, <1>3 DEF Progress, ConnectProgress, At, Unchanged, NowUsers, Now
<1>5. SubscribeProgress(c)'
  BY <1>1, <1>2, <1>3
     DEF Progress, SubscribeProgress, At, Unchanged, NowUsers, NowChannels, Now
<1>6. UnsubscribeProgress(c)'
  BY <1>1, <1>2
     DEF Progress, UnsubscribeProgress, At, Removed, NowChannels, Now, InMap, IsNext,
         EntryFrom, B!ChannelsWith
<1>7. SendProgress(c)'
  BY <1>1 DEF Progress, SendProgress, Unchanged, NowUsers, Now
<1>8. DisconnectProgress(c)'
  <2>1. DisconnectProgress(c) /\ Disconnects(c)' = Disconnects(c) /\ Unchanged' = Unchanged
    BY <1>1, <1>2, <1>3 DEF Progress, Disconnects, Unchanged, NowUsers, Now
  <2>2. /\ InMap(thread[c].next)' = InMap(thread[c].next)
        /\ InMap(thread[c].entry)' = InMap(thread[c].entry)
        /\ IsNext(c)' = IsNext(c)
    BY <1>1 DEF InMap, IsNext, EntryFrom
  <2>3. B!EmptiedBy(c)' = B!EmptiedBy(c)
    BY <1>1 DEF B!EmptiedBy
  <2>4. thread'[c].at \in DisconnectLabel => Disconnects(c)'
    BY <2>1 DEF DisconnectProgress
  <2>5. /\ At(c, "enterDisconnect")' => Unchanged'
        /\ At(c, "nextOfDisconnect")' =>
             /\ thread'[c].next # NoEntry => InMap(thread[c].next)'
             /\ Emptied(c, settled.clientHandlers, Past(thread[c].next),
                        Past(thread[c].next), Past(thread[c].next))'
    BY <1>1, <2>1, <2>2, <2>3 DEF DisconnectProgress, At, Emptied, Now
  <2>6. /\ thread'[c].at \in {"removeOwn", "isEmpty", "dropMap", "dropTopic"} => IsNext(c)'
        /\ thread'[c].at \in {"removeOwn", "isEmpty", "dropMap"} => InMap(thread[c].entry)'
        /\ thread'[c].at \in {"dropMap", "dropTopic"} =>
             (thread[c].entry.channel \in B!EmptiedBy(c))'
    BY <2>1, <2>2, <2>3 DEF DisconnectProgress
  <2>7. /\ At(c, "removeOwn")' =>
             Emptied(c, settled.clientHandlers, Before(thread[c].entry),
                     Before(thread[c].entry), Before(thread[c].entry))'
        /\ thread'[c].at \in {"isEmpty", "dropMap"} =>
             Emptied(c, settled.clientHandlers, UpTo(thread[c].entry),
                     Before(thread[c].entry), Before(thread[c].entry))'
        /\ At(c, "dropTopic")' =>
             Emptied(c, settled.clientHandlers, UpTo(thread[c].entry),
                     UpTo(thread[c].entry), Before(thread[c].entry))'
    BY <1>1, <2>1, <2>3 DEF DisconnectProgress, At, Emptied, Now
  <2>8. /\ At(c, "removeHandler")' =>
             Emptied(c, settled.clientHandlers, Channel, Channel, Channel)'
        /\ At(c, "disconnectUser")' =>
             Emptied(c, settled.clientHandlers \ {c}, Channel, Channel, Channel)'
    BY <1>1, <2>1, <2>3 DEF DisconnectProgress, At, Emptied, Now
  <2> QED BY <2>4, <2>5, <2>6, <2>7, <2>8 DEF DisconnectProgress
<1> QED BY <1>4, <1>5, <1>6, <1>7, <1>8 DEF Progress

(* The first label of a frame *)
LEMMA BeginAdvances ==
  ASSUME TypeInv, SettledOK, NEW c \in Conn, NEW frame \in Frame, Begin(c, frame),
         settled = Shared, UNCHANGED settled
  PROVE  Progress(c)' /\ Busy(c)'
<1>1. UNCHANGED <<users, clientHandlers, topicSubscribers, channelSubscriptions,
                  Topics, Subscriptions, shouldTerminate, settled>>
  BY SameViews DEF Begin, registryVars
<1>2. /\ thread'[c].at = Handler[frame.type]
      /\ thread'[c].frame = frame
      /\ thread'[c].next = IF frame.type = "UNSUBSCRIBE" THEN EntryFrom(1) ELSE NoEntry
  BY ThreadFields DEF Begin, Local, ThreadsOK
<1>3. Unchanged /\ Unchanged'
  BY <1>1, SharedViews DEF Unchanged, NowUsers, Now
<1>4. CASE frame.type = "CONNECT"
  <2>1. thread'[c].at = "getUser" /\ "getUser" \in ConnectLabel
    BY <1>2, <1>4 DEF Handler, ConnectLabel
  <2>2. ConnectProgress(c)'
    BY <1>3, <2>1 DEF ConnectProgress, At
  <2> QED BY <2>1, <2>2, OnlyThat DEF Busy
<1>5. CASE frame.type = "SUBSCRIBE"
  <2>1. thread'[c].at = "exists" /\ "exists" \in SubscribeLabel
    BY <1>2, <1>5 DEF Handler, SubscribeLabel
  <2>2. SubscribeProgress(c)'
    BY <1>3, <2>1 DEF SubscribeProgress, At
  <2> QED BY <2>1, <2>2, OnlyThat DEF Busy
<1>6. CASE frame.type = "UNSUBSCRIBE"
  <2>1. /\ thread'[c].at = "nextOfUnsubscribe" /\ "nextOfUnsubscribe" \in UnsubscribeLabel
        /\ thread'[c].next = EntryFrom(1)
    BY <1>2, <1>6 DEF Handler, UnsubscribeLabel
  <2> DEFINE next == EntryFrom(1)
  <2>2. /\ next # NoEntry => InMap(next)
        /\ \A k \in DOMAIN channelSubscriptions : k \notin Past(next)
    <3>1. \A k \in DOMAIN channelSubscriptions : ~(k < 1)
      BY ObjectTypes, ThreadsAssumption
    <3> QED BY <3>1, EntryFromIsFirst
  <2>3. /\ DOMAIN settled.channelSubscriptions = DOMAIN channelSubscriptions
        /\ DOMAIN settled.topicSubscribers = DOMAIN channelSubscriptions
    BY <1>3, ViewTypes DEF Unchanged, NowUsers, Now, SettledOK
  <2>4. Removed(c, frame.id, Past(next), Past(next))
    <3>1. /\ Topics \in [DOMAIN Topics -> SUBSET Conn]
          /\ Subscriptions \in [DOMAIN Subscriptions -> MapsOf(Conn, SubId)]
      BY ViewTypes, MapElim
    <3> QED BY <1>3, <2>2, <2>3, <3>1
            DEF Removed, NowChannels, Unchanged, NowUsers, Now
  <2>5. UnsubscribeProgress(c)'
    <3>1. Removed(c, FrameOf(c).id, Past(thread[c].next), Past(thread[c].next))'
      BY <1>1, <1>2, <2>1, <2>4 DEF Removed, NowChannels, Now, B!ChannelsWith, FrameOf
    <3>2. thread'[c].next # NoEntry => InMap(thread[c].next)'
      BY <1>1, <2>1, <2>2 DEF InMap
    <3> QED BY <2>1, <3>1, <3>2 DEF UnsubscribeProgress, At
  <2> QED BY <2>1, <2>5, OnlyThat DEF Busy
<1>7. CASE frame.type = "SEND"
  <2>1. thread'[c].at = "getSubscribers" /\ "getSubscribers" \in SendLabel
    BY <1>2, <1>7 DEF Handler, SendLabel
  <2>2. SendProgress(c)'
    BY <1>3 DEF SendProgress
  <2> QED BY <2>1, <2>2, OnlyThat DEF Busy
<1>8. CASE frame.type = "DISCONNECT"
  <2>1. thread'[c].at = "enterDisconnect" /\ "enterDisconnect" \in DisconnectLabel
    BY <1>2, <1>8 DEF Handler, DisconnectLabel
  <2>2. DisconnectProgress(c)'
    BY <1>2, <1>3, <1>8, <2>1 DEF DisconnectProgress, Disconnects, FrameOf, At
  <2> QED BY <2>1, <2>2, OnlyThat DEF Busy
<1> QED BY <1>4, <1>5, <1>6, <1>7, <1>8, HandlerFits

(* Broker's steps keep the keys of the two maps the same, and so does a     *)
(* handler.                                                                 *)
LEMMA CompletesKeepsKeys ==
  ASSUME SettledOK, NEW c, Completes(c)
  PROVE  DOMAIN settled'.topicSubscribers = DOMAIN settled'.channelSubscriptions
<1>1. DOMAIN settled.topicSubscribers = DOMAIN settled.channelSubscriptions
  BY DEF SettledOK
<1>2. ASSUME B!Disconnect(c)
      PROVE  DOMAIN settled'.topicSubscribers = DOMAIN settled'.channelSubscriptions
  BY <1>1, <1>2 DEF B!Disconnect, B!RemoveKeys
<1>3. ASSUME NEW channel, NEW id, B!Subscribe(channel, id, c)
      PROVE  DOMAIN settled'.topicSubscribers = DOMAIN settled'.channelSubscriptions
  BY <1>1, <1>3 DEF B!Subscribe, B!PutIfAbsent, B!Put
<1>4. ASSUME NEW id, B!Unsubscribe(c, id)
      PROVE  DOMAIN settled'.topicSubscribers = DOMAIN settled'.channelSubscriptions
  BY <1>1, <1>4 DEF B!Unsubscribe
<1>5. ASSUME NEW accounts, settled' = [settled EXCEPT !.users = accounts]
      PROVE  DOMAIN settled'.topicSubscribers = DOMAIN settled'.channelSubscriptions
  BY <1>1, <1>5, SettledRecord
<1> QED BY <1>1, <1>2, <1>3, <1>4, <1>5 DEF Completes, AtOnce

LEMMA SerialInvKept ==
  ASSUME TypeInv, TypeInv', SerialInv, SerialNext
  PROVE  /\ SerialInv'
         /\ \A c \in Conn : alone /\ Busy(c) /\ ~Busy(c)' => Completes(c)
<1>1. /\ ObjectsSeparate' /\ alone' \in BOOLEAN
      /\ ObjectsSeparate
      /\ alone => AloneOK
      /\ alone' => alone
  BY NextKeepsSeparate DEF SerialInv, SerialNext
<1> SUFFICES ASSUME alone
             PROVE  /\ alone' => AloneOK'
                    /\ \A c \in Conn : Busy(c) /\ ~Busy(c)' => Completes(c)
  BY <1>1 DEF SerialInv
<1>2. /\ \A c, d \in Conn : Busy(c) /\ Busy(d) => c = d
      /\ SettledOK
      /\ Quiet => settled = Shared
      /\ \A c \in Conn : Busy(c) => Progress(c)
  BY <1>1 DEF AloneOK
<1>3. PICK c \in Conn : Leave(c) \/ (\E frame \in Frame : Begin(c, frame)) \/ Step(c)
  BY DEF SerialNext, Next
<1>4. \A d \in Conn \ {c} : thread'[d] = thread[d] /\ Busy(d)' = Busy(d)
  BY <1>3, OtherLeaves, ConnectLeaves, SubscribeLeaves, UnsubscribeLeaves, SendLeaves,
     DisconnectLeaves DEF Step, OwnThread, Busy
<1>5. ASSUME alone' PROVE \A d, e \in Conn : Busy(d)' /\ Busy(e)' => d = e
  <2> DEFINE before == {d \in Conn : Busy(d)}
             busy == {d \in Conn : Busy(d)'}
  <2>1. busy \subseteq before \cup {c}
    BY <1>4
  <2>2. Cardinality(busy) <= 1
    BY <1>5 DEF SerialNext
  <2>3. \A d, e \in before : d = e
    BY <1>2
  <2> HIDE DEF before
  <2>4. \A d, e \in busy : d = e
    <3> HIDE DEF busy
    <3> QED BY <2>1, <2>2, <2>3, OneBusy
  <2> QED BY <2>4
<1>6. ASSUME alone', Quiet'
      PROVE  settled' = Shared'
  BY <1>6 DEF SerialNext
<1>7. ASSUME alone', ~Quiet'
      PROVE  UNCHANGED settled
  BY <1>7 DEF SerialNext
<1>8. ASSUME UNCHANGED settled PROVE SettledOK'
  BY <1>2, <1>8 DEF SettledOK
<1>9. CASE Leave(c)
  <2>1. /\ UNCHANGED <<users, registryVars, shouldTerminate>>
        /\ ~Busy(c) /\ ~Busy(c)'
    <3>1. thread'[c].at = "dead"
      BY <1>9, GoFields DEF Leave
    <3> QED BY <1>9, <3>1 DEF Leave, clientVars, At, Busy
  <2>2. ASSUME alone' PROVE UNCHANGED settled
    <3>1. CASE Quiet'
      <4>1. Quiet
        BY <1>4, <2>1, <3>1 DEF Quiet
      <4>2. Shared' = Shared
        BY <2>1 DEF Shared, registryVars
      <4> QED BY <1>2, <1>6, <2>2, <3>1, <4>1, <4>2
    <3> QED BY <1>7, <2>2, <3>1
  <2>3. ASSUME alone', NEW d \in Conn, Busy(d)' PROVE Progress(d)'
    <3>1. d # c /\ Busy(d) /\ thread'[d] = thread[d]
      BY <1>4, <2>1, <2>3
    <3> QED BY <1>2, <2>1, <2>2, <2>3, <3>1, ProgressKept
  <2>4. ASSUME alone' PROVE AloneOK'
    BY <1>5, <1>6, <1>8, <2>2, <2>3, <2>4 DEF AloneOK
  <2> QED BY <1>4, <2>1, <2>4
<1>10. ASSUME NEW frame \in Frame, Begin(c, frame)
       PROVE  /\ alone' => AloneOK'
              /\ \A d \in Conn : Busy(d) /\ ~Busy(d)' => Completes(d)
  <2>1. ~Busy(c)
    BY <1>10 DEF Begin, At, Busy
  <2>2. Busy(c)'
    <3>1. thread'[c].at = Handler[frame.type]
      BY <1>10, ThreadFields DEF Begin, Local, ThreadsOK
    <3> QED BY <3>1, HandlerFits, LabelsDiffer DEF Busy
  <2>3. ASSUME alone' PROVE AloneOK'
    <3>1. \A d \in Conn : Busy(d)' => d = c
      BY <1>5, <2>2, <2>3
    <3>2. Quiet
      BY <1>4, <2>1, <3>1 DEF Quiet
    <3>3. UNCHANGED settled /\ ~Quiet'
      BY <1>7, <2>2, <2>3 DEF Quiet
    <3>4. Progress(c)'
      BY <1>2, <1>10, <3>2, <3>3, BeginAdvances
    <3> QED BY <1>5, <1>8, <2>3, <3>1, <3>3, <3>4 DEF AloneOK
  <2> QED BY <1>4, <2>1, <2>3
<1>11. CASE Step(c)
  <2>1. Busy(c) /\ \A d \in Conn \ {c} : ~Busy(d) /\ ~Busy(d)'
    BY <1>2, <1>4, <1>11, StepIsBusy
  <2>2. Advances(c)
    BY <1>1, <1>2, <1>11, <2>1, StepAdvances
  <2>3. CASE Busy(c)'
    <3>1. ASSUME alone' PROVE AloneOK'
      <4>1. UNCHANGED settled /\ ~Quiet'
        BY <1>7, <2>3, <3>1 DEF Quiet
      <4> QED BY <1>5, <1>8, <2>1, <2>2, <2>3, <3>1, <4>1 DEF AloneOK, Advances
    <3> QED BY <2>1, <2>3, <3>1
  <2>4. CASE ~Busy(c)'
    <3>1. Quiet'
      BY <2>1, <2>4 DEF Quiet
    <3>2. alone'
      <4>1. {d \in Conn : Busy(d)'} = {}
        BY <2>1, <2>4
      <4>2. Cardinality({d \in Conn : Busy(d)'}) <= 1
        BY <4>1, FS_EmptySet
      <4> QED BY <4>2 DEF SerialNext
    <3>3. settled' = Shared' /\ Completes(c)
      BY <1>6, <2>2, <2>4, <3>1, <3>2 DEF Advances
    <3>4. SettledOK'
      <4>1. DOMAIN settled'.topicSubscribers = DOMAIN settled'.channelSubscriptions
        BY <1>2, <3>3, CompletesKeepsKeys
      <4>2. /\ Topics' \in MapsOf(Channel, SUBSET Conn)
            /\ Subscriptions' \in MapsOf(Channel, MapsOf(Conn, SubId))
        BY ViewTypesNext
      <4>3. /\ users' \in MapsOf(Login, User)
            /\ clientHandlers' \in SUBSET Conn
            /\ shouldTerminate' \in [Conn -> BOOLEAN]
        BY DEF TypeInv, TypeOK, StorageTypeOK
      <4> QED BY <3>3, <4>1, <4>2, <4>3, SharedViewsNext DEF SettledOK
    <3>5. AloneOK'
      BY <1>5, <2>1, <2>4, <3>2, <3>3, <3>4 DEF AloneOK
    <3> QED BY <2>1, <3>3, <3>5
  <2> QED BY <2>3, <2>4
<1> QED BY <1>3, <1>9, <1>10, <1>11

LEMMA SerialInvStutters ==
  ASSUME SerialInv, UNCHANGED <<vars, settled, alone>>
  PROVE  SerialInv'
<1>1. UNCHANGED <<users, registryVars, thread, shouldTerminate, settled, alone>>
  BY DEF vars, clientVars
<1>2. ObjectsSeparate'
  BY <1>1 DEF SerialInv, ObjectsSeparate, Separate, registryVars
<1>3. ASSUME alone PROVE AloneOK'
  <2>1. AloneOK
    BY <1>3 DEF SerialInv
  <2>2. \A c \in Conn : Busy(c)' = Busy(c) /\ thread'[c] = thread[c]
    BY <1>1 DEF Busy
  <2>3. Quiet' = Quiet /\ Shared' = Shared
    BY <1>1, <2>2 DEF Quiet, Shared, registryVars
  <2>4. SettledOK'
    BY <1>1, <2>1 DEF AloneOK, SettledOK
  <2>5. \A c \in Conn : Busy(c)' => Progress(c)'
    BY <1>1, <2>1, <2>2, ProgressKept DEF AloneOK
  <2> QED BY <1>1, <2>1, <2>2, <2>3, <2>4, <2>5 DEF AloneOK
<1> QED BY <1>1, <1>2, <1>3 DEF SerialInv

LEMMA SerialInitHolds ==
  ASSUME TypeInv, SerialInit
  PROVE  SerialInv
<1>1. ObjectsSeparate
  BY DEF SerialInit, Init, EmptyMap, ObjectsSeparate, Separate
<1>2. \A c \in Conn : ~Busy(c)
  BY DEF SerialInit, Init, Local, Busy
<1>3. SettledOK
  <2>1. settled = Shared /\ DOMAIN Topics = DOMAIN Subscriptions
    BY DEF SerialInit, Init, EmptyMap, Topics, Subscriptions, View
  <2>2. /\ users \in MapsOf(Login, User)
        /\ clientHandlers \in SUBSET Conn
        /\ shouldTerminate \in [Conn -> BOOLEAN]
    BY DEF TypeInv, TypeOK, StorageTypeOK
  <2> QED BY <2>1, <2>2, ViewTypes, SharedViews DEF SettledOK
<1>4. AloneOK
  BY <1>2, <1>3 DEF AloneOK, SerialInit
<1> QED BY <1>1, <1>4 DEF SerialInv, SerialInit

(* A frame that no other frame overlaps, however many accesses its handler  *)
(* makes and whatever was shared when it began, does what Broker's step for *)
(* that frame does.                                                         *)
THEOREM HandlersAlwaysMethods == SerialSpec => HandlersAreMethods
<1>1. SerialSpec => Spec
  <2>1. SerialInit => Init
    BY DEF SerialInit
  <2>2. [SerialNext]_<<vars, settled, alone>> => [Next]_vars
    BY DEF SerialNext
  <2> QED BY <2>1, <2>2, PTL DEF SerialSpec, Spec
<1>2. SerialSpec => []TypeInv
  BY <1>1, TypeInvAlways, PTL
<1>3. TypeInv /\ SerialInit => SerialInv
  BY SerialInitHolds
<1>4. TypeInv /\ TypeInv' /\ SerialInv /\ [SerialNext]_<<vars, settled, alone>> => SerialInv'
  BY SerialInvKept, SerialInvStutters
<1>5. SerialSpec => []SerialInv
  BY <1>2, <1>3, <1>4, PTL DEF SerialSpec
<1>6. TypeInv /\ TypeInv' /\ SerialInv /\ [SerialNext]_<<vars, settled, alone>> =>
        [\A c \in Conn : alone /\ Busy(c) /\ ~Busy(c)' =>
           /\ AtOnce(c, FrameOf(c))
           /\ settled'.shouldTerminate =
                [settled.shouldTerminate EXCEPT ![c] = @ \/ FrameOf(c).type = "DISCONNECT"]
        ]_<<vars, settled, alone>>
  BY SerialInvKept DEF Completes
<1> QED BY <1>2, <1>5, <1>6, PTL DEF SerialSpec, HandlersAreMethods

=============================================================================
