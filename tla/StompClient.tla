---------------------------- MODULE StompClient ----------------------------
(***************************************************************************)
(* The client: inputThread, which reads the commands of the user, and      *)
(* communicationThread, which reads the frames of the server.  They share  *)
(* isConnected and connectionHandlerPtr without a lock, so that any of     *)
(* their accesses may interleave; a label names the access that comes next.*)
(*                                                                         *)
(* A ConnectionHandler is an object that new gives and delete takes back.  *)
(* What the code does with a deleted one, or with null, is undefined.      *)
(* The server is the thread that serves the connection, seen from the      *)
(* client: it takes the frames in order and answers as Broker says.        *)
(***************************************************************************)
EXTENDS Integers, Sequences, ConcurrentMaps

CONSTANTS
  Channel,       (* the channels the user names                            *)
  Handler,       (* the objects new may give; bounds the logins            *)
  NoHandler,     (* the null pointer                                       *)
  MaxCommands,   (* bounds the commands of the user                        *)
  MaxEvents,     (* bounds the events in a report's file                   *)
  MaxMessages    (* bounds the frames on the way when a MESSAGE is added   *)

ASSUME ClientAssumption ==
  /\ NoHandler \notin Handler
  /\ MaxCommands \in Nat /\ MaxEvents \in Nat /\ MaxMessages \in Nat

VARIABLES
  isConnected, connectionHandlerPtr,   (* shared by the threads            *)
  socket,           (* of a handler: "none" before new, "unconnected",     *)
                    (* "open", "closed", and "deleted"                     *)
  subscriptions,    (* channel -> the ids of the last join                 *)
  subscriptionId, receiptId,           (* static counters of buildFrame    *)
  myMap,            (* the receipt ids that are "active"                   *)
  input,            (* inputThread: what comes next, and its locals        *)
  comm,             (* communicationThread: the same                       *)
  commands,         (* how many commands the user has entered              *)
  session,          (* handler -> the server's end of its connection       *)
  toServer, toClient,                  (* handler -> the frames under way  *)
  crashed           (* whether the program has ended by undefined behaviour*)

sharedVars == <<isConnected, connectionHandlerPtr, socket>>
tableVars  == <<subscriptions, subscriptionId, receiptId>>
linkVars   == <<session, toServer, toClient>>
vars == <<sharedVars, tableVars, myMap, input, comm, commands, linkVars, crashed>>

Command ==
  [name: {"join", "exit"}, channel: Channel]
  \cup [name: {"join without channel", "login", "logout", "report", "summary"}]

NoCommand == [name |-> "none"]
NoFrame == [type |-> "none"]

(* Receipt ids of joins are not negative, those of logouts are: only the    *)
(* sign of the latter is looked at.                                         *)
LogoutReceipt == -1

Reading == [at |-> "getline", command |-> NoCommand, frame |-> NoFrame, left |-> 0]
Testing == [at |-> "isConnected", handler |-> NoHandler]

NoSession == [open |-> FALSE, registered |-> FALSE, subs |-> EmptyMap]
NewSession == [open |-> TRUE, registered |-> TRUE, subs |-> EmptyMap]

Init ==
  /\ isConnected = FALSE
  /\ connectionHandlerPtr = NoHandler
  /\ socket = [h \in Handler |-> "none"]
  /\ subscriptions = EmptyMap
  /\ subscriptionId = -1
  /\ receiptId = -1
  /\ myMap = {}
  /\ input = Reading
  /\ comm = Testing
  /\ commands = 0
  /\ session = [h \in Handler |-> NoSession]
  /\ toServer = [h \in Handler |-> <<>>]
  /\ toClient = [h \in Handler |-> <<>>]
  /\ crashed = FALSE

-----------------------------------------------------------------------------
(* ConnectionHandler *)

(* A call of a member function for h may be the end of the program, ...     *)
Deleted == {h \in Handler : socket[h] = "deleted"}

Undefined(h) == h \in Deleted \cup {NoHandler}

Crash ==
  /\ crashed' = TRUE
  /\ UNCHANGED <<sharedVars, tableVars, myMap, input, comm, commands, linkVars>>

(* ... and one that reads or writes may return false, which is also what    *)
(* happens to the socket of a deleted handler.                              *)
MayFail(h) == h # NoHandler /\ (socket[h] # "open" \/ ~session[h].open)

(* sendFrameAscii, if it returns true: the server gets the frame, unless it *)
(* has closed its end already.                                              *)
Deliver(h, frame) ==
  /\ h # NoHandler /\ socket[h] = "open"
  /\ toServer' = IF session[h].open THEN [toServer EXCEPT ![h] = Append(@, frame)]
                                    ELSE toServer

(* delete connectionHandlerPtr, whose destructor closes the socket *)
Delete ==
  LET h == connectionHandlerPtr IN
  socket' = IF h = NoHandler THEN socket ELSE [socket EXCEPT ![h] = "deleted"]

DeletedTwice == connectionHandlerPtr \in Deleted

-----------------------------------------------------------------------------
(* inputThread *)

InputAt(label) == input.at = label
Goto(label) == input' = [input EXCEPT !.at = label]
NextCommand == input' = Reading

(* The first access to what the threads share *)
FirstAccess(command) ==
  CASE command.name = "login"   -> "handler"
    [] command.name = "report"  -> "report"
    [] command.name = "summary" -> "summary"
    [] OTHER                    -> "isConnected"

(* The user enters a command; a report has a number of events. *)
Enter(command) ==
  /\ InputAt("getline")
  /\ commands < MaxCommands
  /\ commands' = commands + 1
  /\ \E left \in IF command.name = "report" THEN 0 .. MaxEvents ELSE {0} :
       input' = [at |-> FirstAccess(command), command |-> command, frame |-> NoFrame,
                 left |-> left]
  /\ UNCHANGED <<sharedVars, tableVars, myMap, comm, linkVars, crashed>>

(* login: if (!connectionHandlerPtr) *)
TestHandler ==
  /\ InputAt("handler")
  /\ Goto(IF connectionHandlerPtr = NoHandler THEN "new" ELSE "isConnected")
  /\ UNCHANGED <<sharedVars, tableVars, myMap, comm, commands, linkVars, crashed>>

New(h) ==
  /\ InputAt("new")
  /\ socket[h] = "none"
  /\ socket' = [socket EXCEPT ![h] = "unconnected"]
  /\ connectionHandlerPtr' = h
  /\ Goto("connect")
  /\ UNCHANGED <<isConnected, tableVars, myMap, comm, commands, linkVars, crashed>>

Connect ==
  LET h == connectionHandlerPtr IN
  /\ InputAt("connect")
  /\ \/ Undefined(h) /\ Crash
     \/ /\ h # NoHandler
        /\ \/ /\ socket[h] # "deleted"
              /\ socket' = [socket EXCEPT ![h] = "open"]
              /\ session' = [session EXCEPT ![h] = NewSession]
              /\ Goto("setConnected")
           \/ /\ Goto("delete")
              /\ UNCHANGED <<socket, session>>
        /\ UNCHANGED <<isConnected, connectionHandlerPtr, tableVars, myMap, comm, commands,
                       toServer, toClient, crashed>>

SetConnected ==
  /\ InputAt("setConnected")
  /\ isConnected' = TRUE
  /\ Goto("isConnected")
  /\ UNCHANGED <<connectionHandlerPtr, socket, tableVars, myMap, comm, commands, linkVars,
                 crashed>>

(* if (isConnected && connectionHandlerPtr) *)
TestConnected ==
  /\ InputAt("isConnected")
  /\ IF isConnected THEN Goto("pointer") ELSE NextCommand
  /\ UNCHANGED <<sharedVars, tableVars, myMap, comm, commands, linkVars, crashed>>

PointerIsNull ==
  /\ InputAt("pointer")
  /\ connectionHandlerPtr = NoHandler
  /\ NextCommand
  /\ UNCHANGED <<sharedVars, tableVars, myMap, comm, commands, linkVars, crashed>>

ToSend(frame) == input' = [input EXCEPT !.at = "send", !.frame = frame]

(* A mutation of Join: the receipt of all joins is the first one's. *)
MutJoinOneReceipt(channel) ==
  LET ids == [id |-> subscriptionId + 1, receipt |-> 0] IN
  /\ subscriptionId' = ids.id
  /\ receiptId' = ids.receipt
  /\ subscriptions' = Put(subscriptions, channel, ids)
  /\ ToSend([type |-> "SUBSCRIBE", channel |-> channel, ids |-> ids])

(* A second join of a channel forgets the ids of the first. *)
Join(channel) ==
  LET ids == [id |-> subscriptionId + 1, receipt |-> receiptId + 1] IN
  /\ subscriptionId' = ids.id
  /\ receiptId' = ids.receipt
  /\ subscriptions' = Put(subscriptions, channel, ids)
  /\ ToSend([type |-> "SUBSCRIBE", channel |-> channel, ids |-> ids])

(* An exit leaves the ids, and has the receipt of the join. *)
Exit(channel) ==
  /\ IF channel \in DOMAIN subscriptions
       THEN ToSend([type |-> "UNSUBSCRIBE", ids |-> subscriptions[channel]])
       ELSE NextCommand
  /\ UNCHANGED tableVars

(* buildFrame, once connectionHandlerPtr is not null.  What is no frame is  *)
(* not sent; join without an argument reads args[0] of an empty vector.     *)
BuildFrame ==
  LET command == input.command IN
  /\ InputAt("pointer")
  /\ connectionHandlerPtr # NoHandler
  /\ \/ /\ command.name = "login"
        /\ ToSend([type |-> "CONNECT"])
        /\ UNCHANGED <<tableVars, crashed>>
     \/ /\ command.name = "logout"
        /\ ToSend([type |-> "DISCONNECT"])
        /\ UNCHANGED <<tableVars, crashed>>
     \/ command.name = "join" /\ Join(command.channel) /\ UNCHANGED crashed
     \/ command.name = "exit" /\ Exit(command.channel) /\ UNCHANGED crashed
     \/ /\ command.name = "summary"
        /\ NextCommand
        /\ UNCHANGED <<tableVars, crashed>>
     \/ /\ command.name = "join without channel"
        /\ crashed' = TRUE
        /\ UNCHANGED <<tableVars, input>>
  /\ UNCHANGED <<sharedVars, myMap, comm, commands, linkVars>>

Send ==
  LET h == connectionHandlerPtr IN
  /\ InputAt("send")
  /\ \/ Undefined(h) /\ Crash
     \/ /\ Deliver(h, input.frame)
        /\ NextCommand
        /\ UNCHANGED <<sharedVars, tableVars, myMap, comm, commands, session, toClient,
                       crashed>>
     \/ /\ MayFail(h)
        /\ Goto("unsetConnected")
        /\ UNCHANGED <<sharedVars, tableVars, myMap, comm, commands, linkVars, crashed>>

UnsetConnected ==
  /\ InputAt("unsetConnected")
  /\ isConnected' = FALSE
  /\ Goto("delete")
  /\ UNCHANGED <<connectionHandlerPtr, socket, tableVars, myMap, comm, commands, linkVars,
                 crashed>>

(* After a send or connect that fails *)
InputDeletes ==
  /\ InputAt("delete")
  /\ \/ DeletedTwice /\ Crash
     \/ /\ Delete
        /\ Goto("null")
        /\ UNCHANGED <<isConnected, connectionHandlerPtr, tableVars, myMap, comm, commands,
                       linkVars, crashed>>

InputForgets ==
  /\ InputAt("null")
  /\ connectionHandlerPtr' = NoHandler
  /\ NextCommand
  /\ UNCHANGED <<isConnected, socket, tableVars, myMap, comm, commands, linkVars, crashed>>

(* handleReportCommand sends the events without looking at isConnected, and *)
(* goes on if a send fails.                                                 *)
Report ==
  LET h == connectionHandlerPtr IN
  /\ InputAt("report")
  /\ input.left > 0
  /\ \/ Undefined(h) /\ Crash
     \/ /\ \/ Deliver(h, [type |-> "SEND"])
           \/ MayFail(h) /\ UNCHANGED toServer
        /\ input' = [input EXCEPT !.left = @ - 1]
        /\ UNCHANGED <<sharedVars, tableVars, myMap, comm, commands, session, toClient,
                       crashed>>

ReportDone ==
  /\ InputAt("report")
  /\ input.left = 0
  /\ NextCommand
  /\ UNCHANGED <<sharedVars, tableVars, myMap, comm, commands, linkVars, crashed>>

(* summary reads sumerevent, which the other thread appends to.  Without    *)
(* its three arguments, or a file to write to, the thread returns.          *)
Summary ==
  /\ InputAt("summary")
  /\ Goto("isConnected") \/ Goto("ended")
  /\ UNCHANGED <<sharedVars, tableVars, myMap, comm, commands, linkVars, crashed>>

InputStep ==
  \/ TestHandler \/ (\E h \in Handler : New(h)) \/ Connect \/ SetConnected
  \/ TestConnected \/ PointerIsNull \/ BuildFrame \/ Send \/ UnsetConnected
  \/ InputDeletes \/ InputForgets \/ Report \/ ReportDone \/ Summary

-----------------------------------------------------------------------------
(* communicationThread *)

CommAt(label) == comm.at = label
CommGoto(label) == comm' = [comm EXCEPT !.at = label]
LoopAgain == comm' = Testing

(* if (!isConnected || !connectionHandlerPtr), after a sleep if so *)
CommTestsConnected ==
  /\ CommAt("isConnected")
  /\ isConnected
  /\ CommGoto("pointer")
  /\ UNCHANGED <<sharedVars, tableVars, myMap, input, commands, linkVars, crashed>>

CommTestsPointer ==
  /\ CommAt("pointer")
  /\ CommGoto(IF connectionHandlerPtr = NoHandler THEN "isConnected" ELSE "call")
  /\ UNCHANGED <<sharedVars, tableVars, myMap, input, commands, linkVars, crashed>>

(* connectionHandlerPtr->getFrameAscii: which handler is read from ... *)
Call ==
  LET h == connectionHandlerPtr IN
  /\ CommAt("call")
  /\ \/ Undefined(h) /\ Crash
     \/ /\ h # NoHandler
        /\ comm' = [at |-> "read", handler |-> h]
        /\ UNCHANGED <<sharedVars, tableVars, myMap, input, commands, linkVars, crashed>>

(* A mutation of IsLogout: -1 is not the receipt of a logout. *)
MutIsLogout(receipt) == receipt < -1

IsLogout(receipt) == receipt < 0

(* The receipt of a join is seen a second time when its channel is left.    *)
Toggled(receipt) == IF receipt \in myMap THEN myMap \ {receipt} ELSE myMap \cup {receipt}

(* ... and what is done with the next frame.  One that is appended to       *)
(* sumerevent while summary goes through it may end the program.            *)
Receive ==
  LET h == comm.handler
      frame == Head(toClient[h])
  IN
  /\ CommAt("read")
  /\ socket[h] = "open"
  /\ toClient[h] # <<>>
  /\ toClient' = [toClient EXCEPT ![h] = Tail(@)]
  /\ \/ /\ frame.type = "RECEIPT"
        /\ IF IsLogout(frame.receipt)
             THEN CommGoto("close") /\ UNCHANGED myMap
             ELSE LoopAgain /\ myMap' = Toggled(frame.receipt)
        /\ UNCHANGED crashed
     \/ /\ frame.type # "RECEIPT"
        /\ LoopAgain
        /\ crashed' \in {FALSE, frame.type = "MESSAGE" /\ InputAt("summary")}
        /\ UNCHANGED myMap
  /\ UNCHANGED <<sharedVars, tableVars, input, commands, session, toServer>>

(* A read from a handler that the other thread has deleted *)
ReadDeleted ==
  /\ CommAt("read")
  /\ Undefined(comm.handler)
  /\ Crash

ReadFails ==
  /\ CommAt("read")
  /\ MayFail(comm.handler)
  /\ CommGoto("lost")
  /\ UNCHANGED <<sharedVars, tableVars, myMap, input, commands, linkVars, crashed>>

(* A mutation of Lost: the thread tries again. *)
MutLostTriesAgain ==
  /\ CommAt("lost")
  /\ LoopAgain
  /\ UNCHANGED <<sharedVars, tableVars, myMap, input, commands, linkVars, crashed>>

(* "Disconnected from server.": the handler stays. *)
Lost ==
  /\ CommAt("lost")
  /\ isConnected' = FALSE
  /\ LoopAgain
  /\ UNCHANGED <<connectionHandlerPtr, socket, tableVars, myMap, input, commands, linkVars,
                 crashed>>

(* The receipt of a logout: close, delete, null, isConnected = false *)
Close ==
  LET h == connectionHandlerPtr IN
  /\ CommAt("close")
  /\ \/ Undefined(h) /\ Crash
     \/ /\ h # NoHandler
        /\ socket' = IF socket[h] = "deleted" THEN socket ELSE [socket EXCEPT ![h] = "closed"]
        /\ CommGoto("delete")
        /\ UNCHANGED <<isConnected, connectionHandlerPtr, tableVars, myMap, input, commands,
                       linkVars, crashed>>

CommDeletes ==
  /\ CommAt("delete")
  /\ \/ DeletedTwice /\ Crash
     \/ /\ Delete
        /\ CommGoto("null")
        /\ UNCHANGED <<isConnected, connectionHandlerPtr, tableVars, myMap, input, commands,
                       linkVars, crashed>>

CommForgets ==
  /\ CommAt("null")
  /\ connectionHandlerPtr' = NoHandler
  /\ CommGoto("unsetConnected")
  /\ UNCHANGED <<isConnected, socket, tableVars, myMap, input, commands, linkVars, crashed>>

CommDisconnected ==
  /\ CommAt("unsetConnected")
  /\ isConnected' = FALSE
  /\ LoopAgain
  /\ UNCHANGED <<connectionHandlerPtr, socket, tableVars, myMap, input, commands, linkVars,
                 crashed>>

CommStep ==
  \/ CommTestsConnected \/ CommTestsPointer \/ Call \/ Receive \/ ReadDeleted \/ ReadFails
  \/ Lost \/ Close \/ CommDeletes \/ CommForgets \/ CommDisconnected

-----------------------------------------------------------------------------
(* The server.  What it does once the client has closed the connection is   *)
(* of no consequence to the client.                                         *)

Served(h) == socket[h] = "open" /\ session[h].open

(* A refused client is removed from the registry: it gets an ERROR and no   *)
(* frame after it.                                                          *)
Answered(h, frame) ==
  IF session[h].registered THEN [toClient EXCEPT ![h] = Append(@, frame)] ELSE toClient

Refuse(h) ==
  /\ session' = [session EXCEPT ![h].registered = FALSE, ![h].subs = EmptyMap]
  /\ toClient' = Answered(h, [type |-> "ERROR"])

Receipt(h, receipt) == toClient' = Answered(h, [type |-> "RECEIPT", receipt |-> receipt])

(* An id that is not subscribed is no error. *)
Serve(h) ==
  LET frame == Head(toServer[h])
      subs == session[h].subs
  IN
  /\ Served(h)
  /\ toServer[h] # <<>>
  /\ toServer' = [toServer EXCEPT ![h] = Tail(@)]
  /\ \/ /\ frame.type = "CONNECT"
        /\ \/ toClient' = Answered(h, [type |-> "CONNECTED"]) /\ UNCHANGED session
           \/ Refuse(h)
     \/ /\ frame.type = "SUBSCRIBE"
        /\ IF frame.channel \in DOMAIN subs THEN Refuse(h)
           ELSE /\ Receipt(h, frame.ids.receipt)
                /\ session' = [session EXCEPT ![h].subs = Put(@, frame.channel, frame.ids)]
     \/ /\ frame.type = "UNSUBSCRIBE"
        /\ Receipt(h, frame.ids.receipt)
        /\ session' = [session EXCEPT ![h].subs = RemoveValue(@, frame.ids)]
     \/ /\ frame.type = "SEND"
        /\ UNCHANGED <<session, toClient>>
     \/ /\ frame.type = "DISCONNECT"
        /\ Receipt(h, LogoutReceipt)
        /\ session' = [session EXCEPT ![h] = NoSession]
  /\ UNCHANGED <<sharedVars, tableVars, myMap, input, comm, commands, crashed>>

(* Another client publishes to a channel of this one. *)
Publish(h) ==
  /\ Served(h)
  /\ session[h].registered /\ session[h].subs # EmptyMap
  /\ Len(toClient[h]) < MaxMessages
  /\ toClient' = Answered(h, [type |-> "MESSAGE"])
  /\ UNCHANGED <<sharedVars, tableVars, myMap, input, comm, commands, session, toServer,
                 crashed>>

(* The server ends, or an exception closes the connection. *)
ServerCloses(h) ==
  /\ Served(h)
  /\ session' = [session EXCEPT ![h] = NoSession]
  /\ UNCHANGED <<sharedVars, tableVars, myMap, input, comm, commands, toServer, toClient,
                 crashed>>

-----------------------------------------------------------------------------
Next ==
  /\ ~crashed
  /\ \/ \E command \in Command : Enter(command)
     \/ InputStep
     \/ CommStep
     \/ \E h \in Handler : Serve(h) \/ Publish(h) \/ ServerCloses(h)

Spec == Init /\ [][Next]_vars

(* The threads run, and the server serves.  The user owes nothing. *)
FairSpec ==
  /\ Spec
  /\ WF_vars(~crashed /\ InputStep)
  /\ WF_vars(~crashed /\ CommStep)
  /\ \A h \in Handler : WF_vars(~crashed /\ Serve(h))

-----------------------------------------------------------------------------
(* Properties *)

Ids == [id: Nat, receipt: Nat]

ClientFrame ==
  [type: {"CONNECT", "SEND", "DISCONNECT"}]
  \cup [type: {"SUBSCRIBE"}, channel: Channel, ids: Ids]
  \cup [type: {"UNSUBSCRIBE"}, ids: Ids]

ServerFrame ==
  [type: {"CONNECTED", "ERROR", "MESSAGE"}]
  \cup [type: {"RECEIPT"}, receipt: Nat \cup {LogoutReceipt}]

InputLabel ==
  {"getline", "handler", "new", "connect", "setConnected", "isConnected", "pointer", "send",
   "unsetConnected", "delete", "null", "report", "summary", "ended"}

CommLabel ==
  {"isConnected", "pointer", "call", "read", "lost", "close", "delete", "null",
   "unsetConnected"}

TypeOK ==
  /\ isConnected \in BOOLEAN
  /\ connectionHandlerPtr \in Handler \cup {NoHandler}
  /\ socket \in [Handler -> {"none", "unconnected", "open", "closed", "deleted"}]
  /\ DOMAIN subscriptions \subseteq Channel
  /\ \A channel \in DOMAIN subscriptions : subscriptions[channel] \in Ids
  /\ subscriptionId \in Nat \cup {-1}
  /\ receiptId \in Nat \cup {-1}
  /\ myMap \subseteq Nat
  /\ input \in [at: InputLabel, command: Command \cup {NoCommand},
                frame: ClientFrame \cup {NoFrame}, left: Nat]
  /\ comm \in [at: CommLabel, handler: Handler \cup {NoHandler}]
  /\ commands \in Nat
  /\ \A h \in Handler :
       /\ session[h].open \in BOOLEAN /\ session[h].registered \in BOOLEAN
       /\ DOMAIN session[h].subs \subseteq Channel
       /\ \A channel \in DOMAIN session[h].subs : session[h].subs[channel] \in Ids
  /\ toServer \in [Handler -> Seq(ClientFrame)]
  /\ toClient \in [Handler -> Seq(ServerFrame)]
  /\ crashed \in BOOLEAN

(* Once the client has read all that the server has sent on its present     *)
(* connection, each subscription the server holds for it is one that it has *)
(* confirmed to the user, although receipts toggle, ids outlive the         *)
(* sessions, and a channel may be joined and left again before the first    *)
(* answer.                                                                  *)
ReceiptsAgree ==
  \A h \in Handler :
    h = connectionHandlerPtr /\ session[h].registered /\ toClient[h] = <<>> =>
      \A channel \in DOMAIN session[h].subs : session[h].subs[channel].receipt \in myMap

LogsOut(h) == \E i \in 1 .. Len(toServer[h]) : toServer[h][i].type = "DISCONNECT"

(* A logout ends: the connection's handler goes, or the client learns that  *)
(* it is not connected, be it refused before or cut off by the server.      *)
LogoutEnds ==
  \A h \in Handler :
    LogsOut(h) ~> socket[h] = "deleted" \/ ~isConnected \/ crashed

=============================================================================
