---------------------------- MODULE ServerStorage ----------------------------
(***************************************************************************)
(* The user accounts of the server: ServerStorage.java and User.java.  The *)
(* storage is a singleton that lives as long as the server, so an account  *)
(* is never removed and its password never changes.  Every method is one   *)
(* atomic step: addUser and getUser are single ConcurrentHashMap calls,    *)
(* connectUser and disconnectUser are synchronized.                        *)
(***************************************************************************)
EXTENDS ConcurrentMaps

CONSTANTS
  Conn,      (* connection ids; the server never gives one out twice       *)
  NoConn,    (* the -1 of a user that has never been connected             *)
  Login,     (* the user names clients send in the login header            *)
  Passcode   (* the passwords clients send in the passcode header          *)

ASSUME NoConnAssumption == NoConn \notin Conn

VARIABLE users   (* login -> User *)

User == [password: Passcode, connected: BOOLEAN, connectionId: Conn \cup {NoConn}]

StorageTypeOK == users \in MapsOf(Login, User)

StorageInit == users = EmptyMap

(* new User(username, password) *)
NewUser(pass) == [password |-> pass, connected |-> FALSE, connectionId |-> NoConn]

(* The accounts after addUser(username, password). *)
AddUser(us, login, pass) == PutIfAbsent(us, login, NewUser(pass))

(* The accounts after connectUser(username, connectionId). *)
ConnectUser(us, login, c) ==
  IF login \in DOMAIN us
    THEN [us EXCEPT ![login].connected = TRUE, ![login].connectionId = c]
    ELSE us

(* The users disconnectUser(connectionId) filters: a user keeps the id of   *)
(* its last connection after it is disconnected, so some may be offline.    *)
UsersOf(us, c) == {login \in DOMAIN us : us[login].connectionId = c}

(* disconnectUser(connectionId): findFirst() takes whichever of the users   *)
(* the map iterates over first.                                             *)
DisconnectUser(c) ==
  \/ /\ UsersOf(users, c) = {}
     /\ UNCHANGED users
  \/ \E login \in UsersOf(users, c) :
       users' = [users EXCEPT ![login].connected = FALSE]

=============================================================================
