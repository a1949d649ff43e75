------------------------- MODULE StompClientProofs -------------------------
(***************************************************************************)
(* Theorems about the client, for any number of commands, connections and  *)
(* channels.                                                               *)
(***************************************************************************)
EXTENDS StompClient, TLAPS

Session == [open: BOOLEAN, registered: BOOLEAN, subs: MapsOf(Channel, Ids)]

Types ==
  /\ isConnected \in BOOLEAN
  /\ connectionHandlerPtr \in Handler \cup {NoHandler}
  /\ socket \in [Handler -> {"none", "unconnected", "open", "closed", "deleted"}]
  /\ subscriptions \in MapsOf(Channel, Ids)
  /\ subscriptionId \in Nat \cup {-1}
  /\ receiptId \in Nat \cup {-1}
  /\ myMap \subseteq Nat
  /\ input \in [at: InputLabel, command: Command \cup {NoCommand},
                frame: ClientFrame \cup {NoFrame}, left: Nat]
  /\ comm \in [at: CommLabel, handler: Handler \cup {NoHandler}]
  /\ commands \in Nat
  /\ session \in [Handler -> Session]
  /\ toServer \in [Handler -> Seq(ClientFrame)]
  /\ toClient \in [Handler -> Seq(ServerFrame)]
  /\ crashed \in BOOLEAN
  /\ input.at = "send" => input.frame \in ClientFrame
  /\ comm.at = "read" => comm.handler \in Handler

-----------------------------------------------------------------------------
(* The connection whose answers the user reads is the present one. *)

Silent(h) == toServer[h] = <<>> /\ toClient[h] = <<>> /\ session[h] = NoSession

Present ==
  /\ comm.at = "read" /\ socket[comm.handler] = "open" => comm.handler = connectionHandlerPtr
  /\ input.at = "new" => connectionHandlerPtr = NoHandler
  /\ input.at = "null" /\ connectionHandlerPtr # NoHandler
       => socket[connectionHandlerPtr] = "deleted"
  /\ \A h \in Handler :
       /\ socket[h] = "none" => h # connectionHandlerPtr /\ Silent(h)
       /\ input.at = "connect" /\ h = connectionHandlerPtr => Silent(h)

(* buildFrame counts subscriptions and receipts together, and no receipt is *)
(* on its way or in the map before its join is sent.                        *)

HasIds(frame) == frame.type \in {"SUBSCRIBE", "UNSUBSCRIBE"}

Joining == input.at = "send" /\ input.frame.type = "SUBSCRIBE"

Limit == IF Joining THEN receiptId ELSE receiptId + 1

Counted(ids, limit) == ids.id = ids.receipt /\ ids.receipt < limit

Counts ==
  /\ subscriptionId = receiptId
  /\ \A channel \in DOMAIN subscriptions :
       /\ subscriptions[channel].id = subscriptions[channel].receipt
       /\ subscriptions[channel].receipt <= receiptId
  /\ input.at = "send" /\ HasIds(input.frame) =>
       /\ input.frame.ids.id = input.frame.ids.receipt
       /\ input.frame.ids.receipt <= receiptId
       /\ input.frame.type = "SUBSCRIBE" => input.frame.ids.receipt = receiptId
  /\ \A r \in myMap : r < Limit

Bounded(h) ==
  /\ \A i \in DOMAIN toServer[h] : HasIds(toServer[h][i]) => Counted(toServer[h][i].ids, Limit)
  /\ \A channel \in DOMAIN session[h].subs : Counted(session[h].subs[channel], Limit)
  /\ \A i \in DOMAIN toClient[h] :
       toClient[h][i].type = "RECEIPT" => toClient[h][i].receipt < Limit

(* How often the receipt r is among the frames s to the client.             *)
IsReceipt(frame, r) == frame.type = "RECEIPT" /\ frame.receipt = r

Never(s, r) == \A j \in DOMAIN s : ~IsReceipt(s[j], r)

Once(s, r) == \E i \in DOMAIN s : \A j \in DOMAIN s : IsReceipt(s[j], r) <=> j = i

(* Of a join that the server has not read there is no trace behind it. *)
Unanswered(h) ==
  \A i \in DOMAIN toServer[h] :
    toServer[h][i].type = "SUBSCRIBE" =>
      LET r == toServer[h][i].ids.receipt IN
      /\ r \notin myMap
      /\ Never(toClient[h], r)
      /\ \A channel \in DOMAIN session[h].subs : session[h].subs[channel].receipt # r
      /\ \A j \in DOMAIN toServer[h] :
           j < i /\ HasIds(toServer[h][j]) => toServer[h][j].ids.receipt # r

(* The receipt of a subscription is in the map or, once, on its way there.  *)
Confirmed(h) ==
  session[h].registered =>
    \A channel \in DOMAIN session[h].subs :
      LET r == session[h].subs[channel].receipt IN
      IF r \in myMap THEN Never(toClient[h], r) ELSE Once(toClient[h], r)

Receipts(h) == Bounded(h) /\ Unanswered(h) /\ Confirmed(h)

ReceiptInv ==
  /\ Types /\ Present /\ Counts
  /\ connectionHandlerPtr \in Handler => Receipts(connectionHandlerPtr)

-----------------------------------------------------------------------------
(* The operations of a map of ids *)

LEMMA MapsAreFunctions ==
  ASSUME NEW m
  PROVE  m \in MapsOf(Channel, Ids)
           <=> DOMAIN m \subseteq Channel /\ m \in [DOMAIN m -> Ids]
BY DEF MapsOf

LEMMA MapOperations ==
  ASSUME NEW m \in MapsOf(Channel, Ids), NEW channel \in Channel, NEW ids \in Ids
  PROVE  /\ EmptyMap \in MapsOf(Channel, Ids) /\ DOMAIN EmptyMap = {}
         /\ Put(m, channel, ids) \in MapsOf(Channel, Ids)
         /\ RemoveValue(m, ids) \in MapsOf(Channel, Ids)
<1>1. EmptyMap \in [{} -> Ids] /\ DOMAIN EmptyMap = {}
  BY DEF EmptyMap
<1>2. DOMAIN m \subseteq Channel /\ m \in [DOMAIN m -> Ids]
  BY MapsAreFunctions
<1>3. Put(m, channel, ids) \in [DOMAIN m \cup {channel} -> Ids]
  BY <1>2 DEF Put
<1>4. RemoveValue(m, ids) \in [{y \in DOMAIN m : m[y] # ids} -> Ids]
  BY <1>2 DEF RemoveValue
<1>5. EmptyMap \in MapsOf(Channel, Ids)
  BY <1>1 DEF MapsOf
<1>6. DOMAIN m \cup {channel} \in SUBSET Channel
  BY <1>2
<1>7. {y \in DOMAIN m : m[y] # ids} \in SUBSET Channel
  BY <1>2
<1> QED BY <1>1, <1>3, <1>4, <1>5, <1>6, <1>7 DEF MapsOf

LEMMA EmptyMapIsMap == EmptyMap \in MapsOf(Channel, Ids) /\ DOMAIN EmptyMap = {}
<1>1. EmptyMap \in [{} -> Ids] /\ DOMAIN EmptyMap = {}
  BY DEF EmptyMap
<1> QED BY <1>1 DEF MapsOf

LEMMA NewSessions == NoSession \in Session /\ NewSession \in Session
BY EmptyMapIsMap DEF NoSession, NewSession, Session

-----------------------------------------------------------------------------
(* Types *)

LEMMA InitTypes == Init => Types
<1> SUFFICES ASSUME Init PROVE Types
  OBVIOUS
<1>1. input \in [at: InputLabel, command: Command \cup {NoCommand},
                frame: ClientFrame \cup {NoFrame}, left: Nat] /\ input.at # "send"
  BY DEF Init, Reading, InputLabel
<1>2. comm \in [at: CommLabel, handler: Handler \cup {NoHandler}] /\ comm.at # "read"
  BY DEF Init, Testing, CommLabel
<1>3. session \in [Handler -> Session] /\ subscriptions \in MapsOf(Channel, Ids)
  BY EmptyMapIsMap, NewSessions DEF Init
<1>4. toServer \in [Handler -> Seq(ClientFrame)] /\ toClient \in [Handler -> Seq(ServerFrame)]
  BY DEF Init
<1> QED BY <1>1, <1>2, <1>3, <1>4 DEF Init, Types

(* Undefined behaviour only ends the program. *)
LEMMA CrashTypes == Types /\ Crash => Types'
BY DEF Types, Crash, sharedVars, tableVars, linkVars

LEMMA EnterTypes ==
  ASSUME Types, NEW command \in Command, Enter(command)
  PROVE  Types'
<1>1. FirstAccess(command) \in InputLabel \ {"send"}
  BY DEF FirstAccess, InputLabel
<1>2. PICK left \in 0 .. MaxEvents \cup {0} :
        input' = [at |-> FirstAccess(command), command |-> command, frame |-> NoFrame,
                  left |-> left]
  BY DEF Enter
<1>3. left \in Nat
  BY <1>2, ClientAssumption
<1>4. input' \in [at: InputLabel, command: Command \cup {NoCommand},
                  frame: ClientFrame \cup {NoFrame}, left: Nat]
      /\ input'.at # "send"
  BY <1>1, <1>2, <1>3
<1> QED BY <1>4 DEF Types, Enter, sharedVars, tableVars, linkVars

LEMMA BuildTypes ==
  ASSUME Types, BuildFrame
  PROVE  Types'
<1> DEFINE ids == [id |-> subscriptionId + 1, receipt |-> receiptId + 1]
<1>1. ids \in Ids
  BY DEF Types, Ids
<1>2. CASE input.command.name = "login" /\ ToSend([type |-> "CONNECT"])
           /\ UNCHANGED <<tableVars, crashed>>
  <2>1. [type |-> "CONNECT"] \in ClientFrame
    BY DEF ClientFrame
  <2> QED BY <1>2, <2>1 DEF BuildFrame, ToSend, Types, InputLabel, sharedVars, tableVars, linkVars
<1>3. CASE input.command.name = "logout" /\ ToSend([type |-> "DISCONNECT"])
           /\ UNCHANGED <<tableVars, crashed>>
  <2>1. [type |-> "DISCONNECT"] \in ClientFrame
    BY DEF ClientFrame
  <2> QED BY <1>3, <2>1 DEF BuildFrame, ToSend, Types, InputLabel, sharedVars, tableVars, linkVars
<1>4. CASE input.command.name = "join" /\ Join(input.command.channel) /\ UNCHANGED crashed
  <2>1. input.command.channel \in Channel
    <3>1. input.command \in Command \cup {NoCommand} /\ input.command.name = "join"
      BY <1>4 DEF Types
    <3>2. input.command \notin [name: {"join without channel", "login", "logout", "report",
                                      "summary"}]
      BY <3>1
    <3>3. input.command # NoCommand
      BY <3>1 DEF NoCommand
    <3>4. input.command \in [name: {"join", "exit"}, channel: Channel]
      BY <3>1, <3>2, <3>3 DEF Command
    <3> QED BY <3>4
  <2>2. [type |-> "SUBSCRIBE", channel |-> input.command.channel, ids |-> ids] \in ClientFrame
    BY <1>1, <2>1 DEF ClientFrame
  <2>3. Put(subscriptions, input.command.channel, ids) \in MapsOf(Channel, Ids)
    BY <1>1, <2>1, MapOperations DEF Types
  <2>4. subscriptionId + 1 \in Nat /\ receiptId + 1 \in Nat
    BY DEF Types
  <2>5. /\ subscriptionId' = subscriptionId + 1 /\ receiptId' = receiptId + 1
        /\ subscriptions' = Put(subscriptions, input.command.channel, ids)
        /\ input' = [input EXCEPT !.at = "send", !.frame =
                       [type |-> "SUBSCRIBE", channel |-> input.command.channel, ids |-> ids]]
    BY <1>4 DEF Join, ToSend
  <2> QED BY <1>4, <2>2, <2>3, <2>4, <2>5 DEF BuildFrame, Types, InputLabel, sharedVars, linkVars
<1>5. CASE input.command.name = "exit" /\ Exit(input.command.channel) /\ UNCHANGED crashed
  <2>1. CASE input.command.channel \in DOMAIN subscriptions
    <3>1. subscriptions[input.command.channel] \in Ids
      BY <2>1, MapsAreFunctions DEF Types
    <3>2. [type |-> "UNSUBSCRIBE", ids |-> subscriptions[input.command.channel]] \in ClientFrame
      BY <3>1 DEF ClientFrame
    <3> QED BY <1>5, <2>1, <3>2
            DEF BuildFrame, Exit, ToSend, Types, InputLabel, sharedVars, tableVars, linkVars
  <2>2. CASE input.command.channel \notin DOMAIN subscriptions
    BY <1>5, <2>2 DEF BuildFrame, Exit, NextCommand, Reading, Types, InputLabel, sharedVars,
                      tableVars, linkVars
  <2> QED BY <2>1, <2>2
<1>6. CASE input.command.name = "summary" /\ NextCommand /\ UNCHANGED <<tableVars, crashed>>
  BY <1>6 DEF BuildFrame, NextCommand, Reading, Types, InputLabel, sharedVars, tableVars, linkVars
<1>7. CASE crashed' = TRUE /\ UNCHANGED <<tableVars, input>>
  BY <1>7 DEF BuildFrame, Types, sharedVars, tableVars, linkVars
<1> QED BY <1>2, <1>3, <1>4, <1>5, <1>6, <1>7 DEF BuildFrame

LEMMA InputTypes ==
  ASSUME Types, InputStep
  PROVE  Types'
<1> DEFINE h == connectionHandlerPtr
<1>1. CASE Crash
  BY <1>1, CrashTypes
<1>2. ASSUME NEW label \in InputLabel \ {"send"}, Goto(label)
      PROVE  input' \in [at: InputLabel, command: Command \cup {NoCommand},
                         frame: ClientFrame \cup {NoFrame}, left: Nat]
             /\ input'.at # "send"
  BY <1>2 DEF Goto, Types
<1>3. ASSUME NextCommand
      PROVE  input' \in [at: InputLabel, command: Command \cup {NoCommand},
                         frame: ClientFrame \cup {NoFrame}, left: Nat]
             /\ input'.at # "send"
  BY <1>3 DEF NextCommand, Reading, InputLabel
<1> DEFINE GoesOn == \/ NextCommand
                     \/ \E label \in InputLabel \ {"send"} : Goto(label)
<1>4. ASSUME GoesOn
      PROVE  input' \in [at: InputLabel, command: Command \cup {NoCommand},
                         frame: ClientFrame \cup {NoFrame}, left: Nat]
             /\ input'.at # "send"
  BY <1>2, <1>3, <1>4
<1> HIDE DEF GoesOn
<1>5. ASSUME GoesOn, UNCHANGED <<sharedVars, tableVars, myMap, comm, commands, linkVars, crashed>>
      PROVE  Types'
  BY <1>4, <1>5 DEF Types, sharedVars, tableVars, linkVars
<1>6. CASE TestHandler
  <2>1. GoesOn
    BY <1>6 DEF TestHandler, GoesOn, InputLabel
  <2> QED BY <1>5, <1>6, <2>1 DEF TestHandler
<1>7. ASSUME NEW g \in Handler, New(g)
      PROVE  Types'
  <2>1. GoesOn
    BY <1>7 DEF New, GoesOn, InputLabel
  <2> QED BY <1>4, <1>7, <2>1 DEF New, Types, tableVars, linkVars
<1>8. CASE Connect
  <2>1. CASE ~Crash
    <3>1. GoesOn
      BY <1>8, <2>1 DEF Connect, GoesOn, InputLabel
    <3>2. h \in Handler
      BY <1>8, <2>1 DEF Connect, Types
    <3>3. socket' \in [Handler -> {"none", "unconnected", "open", "closed", "deleted"}]
      BY <1>8, <2>1, <3>2 DEF Connect, Types
    <3>4. session' \in [Handler -> Session]
      BY <1>8, <2>1, <3>2, NewSessions DEF Connect, Types
    <3>5. UNCHANGED <<isConnected, connectionHandlerPtr, tableVars, myMap, comm, commands,
                      toServer, toClient, crashed>>
      BY <1>8, <2>1 DEF Connect
    <3> QED BY <1>4, <3>1, <3>3, <3>4, <3>5 DEF Types, tableVars
  <2> QED BY <1>1, <2>1
<1>9. CASE SetConnected
  <2>1. GoesOn
    BY <1>9 DEF SetConnected, GoesOn, InputLabel
  <2> QED BY <1>4, <1>9, <2>1 DEF SetConnected, Types, tableVars, linkVars
<1>10. CASE TestConnected
  <2>1. GoesOn
    BY <1>10 DEF TestConnected, GoesOn, InputLabel
  <2> QED BY <1>5, <1>10, <2>1 DEF TestConnected
<1>11. CASE PointerIsNull
  BY <1>5, <1>11 DEF PointerIsNull, GoesOn
<1>12. CASE BuildFrame
  BY <1>12, BuildTypes
<1>13. CASE Send
  <2>1. CASE Deliver(h, input.frame) /\ NextCommand
             /\ UNCHANGED <<sharedVars, tableVars, myMap, comm, commands, session, toClient, crashed>>
    <3>1. input.frame \in ClientFrame
      BY <1>13 DEF Send, InputAt, Types
    <3>2. toServer' \in [Handler -> Seq(ClientFrame)]
      BY <2>1, <3>1 DEF Deliver, Types
    <3> QED BY <1>3, <2>1, <3>2 DEF Types, sharedVars, tableVars
  <2>2. CASE Goto("unsetConnected")
             /\ UNCHANGED <<sharedVars, tableVars, myMap, comm, commands, linkVars, crashed>>
    BY <1>5, <2>2 DEF GoesOn, InputLabel
  <2> QED BY <1>1, <1>13, <2>1, <2>2 DEF Send
<1>14. CASE UnsetConnected
  <2>1. GoesOn
    BY <1>14 DEF UnsetConnected, GoesOn, InputLabel
  <2> QED BY <1>4, <1>14, <2>1 DEF UnsetConnected, Types, tableVars, linkVars
<1>15. CASE InputDeletes
  <2>1. CASE ~Crash
    <3>1. GoesOn
      BY <1>15, <2>1 DEF InputDeletes, GoesOn, InputLabel
    <3>2. socket' \in [Handler -> {"none", "unconnected", "open", "closed", "deleted"}]
      BY <1>15, <2>1 DEF InputDeletes, Delete, Types
    <3>3. UNCHANGED <<isConnected, connectionHandlerPtr, tableVars, myMap, comm, commands, linkVars,
                      crashed>>
      BY <1>15, <2>1 DEF InputDeletes
    <3> QED BY <1>4, <3>1, <3>2, <3>3 DEF Types, tableVars, linkVars
  <2> QED BY <1>1, <2>1
<1>16. CASE InputForgets
  <2>1. GoesOn
    BY <1>16 DEF InputForgets, GoesOn
  <2> QED BY <1>4, <1>16, <2>1 DEF InputForgets, Types, tableVars, linkVars
<1>17. CASE Report
  <2>1. CASE ~Crash
    <3>1. [type |-> "SEND"] \in ClientFrame
      BY DEF ClientFrame
    <3>2. toServer' \in [Handler -> Seq(ClientFrame)]
      <4>1. toServer \in [Handler -> Seq(ClientFrame)] /\ (h # NoHandler => h \in Handler)
        BY DEF Types
      <4>2. \/ toServer' = toServer
            \/ h # NoHandler /\ toServer' = [toServer EXCEPT ![h] = Append(@, [type |-> "SEND"])]
        BY <1>17, <2>1 DEF Report, Deliver
      <4>3. CASE h # NoHandler
                 /\ toServer' = [toServer EXCEPT ![h] = Append(@, [type |-> "SEND"])]
        <5>1. Append(toServer[h], [type |-> "SEND"]) \in Seq(ClientFrame)
          BY <3>1, <4>1, <4>3
        <5> QED BY <4>1, <4>3, <5>1
      <4> QED BY <4>1, <4>2, <4>3
    <3>3. input.left - 1 \in Nat
      BY <1>17 DEF Report, Types
    <3>4. input' \in [at: InputLabel, command: Command \cup {NoCommand},
                      frame: ClientFrame \cup {NoFrame}, left: Nat]
          /\ input'.at # "send"
      BY <1>17, <2>1, <3>3 DEF Report, InputAt, Types
    <3>5. UNCHANGED <<sharedVars, tableVars, myMap, comm, commands, session, toClient, crashed>>
      BY <1>17, <2>1 DEF Report
    <3> QED BY <3>2, <3>4, <3>5 DEF Types, sharedVars, tableVars
  <2> QED BY <1>1, <2>1
<1>18. CASE ReportDone
  BY <1>5, <1>18 DEF ReportDone, GoesOn
<1>19. CASE Summary
  BY <1>5, <1>19 DEF Summary, GoesOn, InputLabel
<1> QED BY <1>6, <1>7, <1>8, <1>9, <1>10, <1>11, <1>12, <1>13, <1>14, <1>15, <1>16, <1>17,
           <1>18, <1>19 DEF InputStep

LEMMA CommTypes ==
  ASSUME Types, CommStep
  PROVE  Types'
<1>1. CASE Crash
  BY <1>1, CrashTypes
<1> DEFINE GoesOn == \/ LoopAgain
                     \/ \E label \in CommLabel \ {"read"} : CommGoto(label)
<1>2. ASSUME GoesOn
      PROVE  comm' \in [at: CommLabel, handler: Handler \cup {NoHandler}] /\ comm'.at # "read"
  <2>1. CASE LoopAgain
    BY <2>1 DEF LoopAgain, Testing, CommLabel
  <2>2. ASSUME NEW label \in CommLabel \ {"read"}, CommGoto(label)
        PROVE  comm' \in [at: CommLabel, handler: Handler \cup {NoHandler}] /\ comm'.at # "read"
    BY <2>2 DEF CommGoto, Types
  <2> QED BY <1>2, <2>1, <2>2 DEF GoesOn
<1> HIDE DEF GoesOn
<1>3. CASE CommTestsConnected
  <2>1. GoesOn
    BY <1>3 DEF CommTestsConnected, GoesOn, CommLabel
  <2> QED BY <1>2, <1>3, <2>1 DEF CommTestsConnected, Types, sharedVars, tableVars, linkVars
<1>4. CASE CommTestsPointer
  <2>1. GoesOn
    BY <1>4 DEF CommTestsPointer, GoesOn, CommLabel
  <2> QED BY <1>2, <1>4, <2>1 DEF CommTestsPointer, Types, sharedVars, tableVars, linkVars
<1>5. CASE Call
  <2>1. CASE ~Crash
    <3>1. connectionHandlerPtr \in Handler /\ "read" \in CommLabel
      BY <1>5, <2>1 DEF Call, CommLabel, Types
    <3>2. comm' \in [at: CommLabel, handler: Handler \cup {NoHandler}]
          /\ comm'.handler \in Handler
      BY <1>5, <2>1, <3>1 DEF Call
    <3>3. UNCHANGED <<sharedVars, tableVars, myMap, input, commands, linkVars, crashed>>
      BY <1>5, <2>1 DEF Call
    <3> QED BY <3>2, <3>3 DEF Types, sharedVars, tableVars, linkVars
  <2> QED BY <1>1, <2>1
<1>6. CASE Receive
  <2> DEFINE h == comm.handler
             frame == Head(toClient[h])
  <2>1. h \in Handler /\ toClient[h] \in Seq(ServerFrame) /\ toClient[h] # <<>>
    BY <1>6 DEF Receive, CommAt, Types
  <2>2. frame \in ServerFrame /\ Tail(toClient[h]) \in Seq(ServerFrame)
    BY <2>1
  <2>3. toClient' \in [Handler -> Seq(ServerFrame)]
    BY <1>6, <2>1, <2>2 DEF Receive, Types
  <2>4. GoesOn
    BY <1>6 DEF Receive, GoesOn, CommLabel
  <2>5. myMap' \subseteq Nat
    <3>1. CASE frame.type = "RECEIPT" /\ ~IsLogout(frame.receipt)
      <4>1. frame.receipt \in Nat \cup {-1}
        BY <2>2, <3>1 DEF ServerFrame, LogoutReceipt
      <4>2. frame.receipt \in Nat
        BY <4>1, <3>1 DEF IsLogout
      <4> QED BY <1>6, <3>1, <4>2 DEF Receive, Toggled, Types
    <3>2. CASE ~(frame.type = "RECEIPT" /\ ~IsLogout(frame.receipt))
      BY <1>6, <3>2 DEF Receive, Types
    <3> QED BY <3>1, <3>2
  <2>6. crashed' \in BOOLEAN
    BY <1>6 DEF Receive, Types
  <2> QED BY <1>2, <1>6, <2>3, <2>4, <2>5, <2>6 DEF Receive, Types, sharedVars, tableVars
<1>7. CASE ReadDeleted
  BY <1>1, <1>7 DEF ReadDeleted
<1>8. CASE ReadFails
  <2>1. GoesOn
    BY <1>8 DEF ReadFails, GoesOn, CommLabel
  <2> QED BY <1>2, <1>8, <2>1 DEF ReadFails, Types, sharedVars, tableVars, linkVars
<1>9. CASE Lost
  <2>1. GoesOn
    BY <1>9 DEF Lost, GoesOn
  <2> QED BY <1>2, <1>9, <2>1 DEF Lost, Types, tableVars, linkVars
<1>10. CASE Close
  <2>1. CASE ~Crash
    <3>1. GoesOn
      BY <1>10, <2>1 DEF Close, GoesOn, CommLabel
    <3>2. socket' \in [Handler -> {"none", "unconnected", "open", "closed", "deleted"}]
      BY <1>10, <2>1 DEF Close, Types
    <3>3. UNCHANGED <<isConnected, connectionHandlerPtr, tableVars, myMap, input, commands,
                      linkVars, crashed>>
      BY <1>10, <2>1 DEF Close
    <3> QED BY <1>2, <3>1, <3>2, <3>3 DEF Types, tableVars, linkVars
  <2> QED BY <1>1, <2>1
<1>11. CASE CommDeletes
  <2>1. CASE ~Crash
    <3>1. GoesOn
      BY <1>11, <2>1 DEF CommDeletes, GoesOn, CommLabel
    <3>2. socket' \in [Handler -> {"none", "unconnected", "open", "closed", "deleted"}]
      BY <1>11, <2>1 DEF CommDeletes, Delete, Types
    <3>3. UNCHANGED <<isConnected, connectionHandlerPtr, tableVars, myMap, input, commands,
                      linkVars, crashed>>
      BY <1>11, <2>1 DEF CommDeletes
    <3> QED BY <1>2, <3>1, <3>2, <3>3 DEF Types, tableVars, linkVars
  <2> QED BY <1>1, <2>1
<1>12. CASE CommForgets
  <2>1. GoesOn
    BY <1>12 DEF CommForgets, GoesOn, CommLabel
  <2> QED BY <1>2, <1>12, <2>1 DEF CommForgets, Types, tableVars, linkVars
<1>13. CASE CommDisconnected
  <2>1. GoesOn
    BY <1>13 DEF CommDisconnected, GoesOn
  <2> QED BY <1>2, <1>13, <2>1 DEF CommDisconnected, Types, tableVars, linkVars
<1> QED BY <1>3, <1>4, <1>5, <1>6, <1>7, <1>8, <1>9, <1>10, <1>11, <1>12, <1>13 DEF CommStep

LEMMA ServerTypes ==
  ASSUME Types, NEW h \in Handler, Serve(h) \/ Publish(h) \/ ServerCloses(h)
  PROVE  Types'
<1>1. ASSUME NEW frame \in ServerFrame, toClient' = Answered(h, frame)
      PROVE  toClient' \in [Handler -> Seq(ServerFrame)]
  BY <1>1 DEF Answered, Types
<1>2. /\ [type |-> "CONNECTED"] \in ServerFrame /\ [type |-> "ERROR"] \in ServerFrame
      /\ [type |-> "MESSAGE"] \in ServerFrame
      /\ \A r \in Nat \cup {LogoutReceipt} : [type |-> "RECEIPT", receipt |-> r] \in ServerFrame
  BY DEF ServerFrame
<1>3. ASSUME session' \in [Handler -> Session], toClient' \in [Handler -> Seq(ServerFrame)],
             toServer' \in [Handler -> Seq(ClientFrame)],
             UNCHANGED <<sharedVars, tableVars, myMap, input, comm, commands, crashed>>
      PROVE  Types'
  BY <1>3 DEF Types, sharedVars, tableVars
<1>4. CASE Publish(h)
  BY <1>1, <1>2, <1>3, <1>4 DEF Publish, Types
<1>5. CASE ServerCloses(h)
  BY <1>3, <1>5, NewSessions DEF ServerCloses, Types
<1>6. CASE Serve(h)
  <2> DEFINE frame == Head(toServer[h])
             subs == session[h].subs
  <2>1. toServer[h] \in Seq(ClientFrame) /\ toServer[h] # <<>>
    BY <1>6 DEF Serve, Types
  <2>2. frame \in ClientFrame /\ Tail(toServer[h]) \in Seq(ClientFrame)
    BY <2>1
  <2>3. toServer' \in [Handler -> Seq(ClientFrame)]
    BY <1>6, <2>2 DEF Serve, Types
  <2>4. session[h] \in Session /\ subs \in MapsOf(Channel, Ids)
    BY DEF Types, Session
  <2>5. ASSUME Refuse(h)
        PROVE  session' \in [Handler -> Session] /\ toClient' \in [Handler -> Seq(ServerFrame)]
    <3>1. [session[h] EXCEPT !.registered = FALSE, !.subs = EmptyMap] \in Session
      BY <2>4, EmptyMapIsMap DEF Session
    <3>2. session' = [session EXCEPT ![h] =
                        [session[h] EXCEPT !.registered = FALSE, !.subs = EmptyMap]]
      BY <2>5 DEF Refuse, Types
    <3>3. session' \in [Handler -> Session]
      BY <3>1, <3>2 DEF Types
    <3> QED BY <1>1, <1>2, <2>5, <3>3 DEF Refuse
  <2>6. ASSUME NEW m \in MapsOf(Channel, Ids), session' = [session EXCEPT ![h].subs = m]
        PROVE  session' \in [Handler -> Session]
    BY <2>4, <2>6 DEF Types, Session
  <2>7. frame.type \in {"SUBSCRIBE", "UNSUBSCRIBE"}
          => frame.ids \in Ids /\ frame.ids.receipt \in Nat
    BY <2>2 DEF ClientFrame, Ids
  <2>8. CASE frame.type = "CONNECT"
    BY <1>1, <1>2, <1>3, <1>6, <2>3, <2>5, <2>8 DEF Serve, Types
  <2>9. CASE frame.type = "SUBSCRIBE"
    <3>1. CASE frame.channel \in DOMAIN subs
      BY <1>3, <1>6, <2>3, <2>5, <2>9, <3>1 DEF Serve
    <3>2. CASE frame.channel \notin DOMAIN subs
      <4>1. frame.channel \in Channel
        BY <2>2, <2>9 DEF ClientFrame
      <4>2. Put(subs, frame.channel, frame.ids) \in MapsOf(Channel, Ids)
        BY <2>4, <2>7, <2>9, <4>1, MapOperations
      <4>3. session' = [session EXCEPT ![h].subs = Put(subs, frame.channel, frame.ids)]
        BY <1>6, <2>9, <3>2 DEF Serve
      <4>4. toClient' \in [Handler -> Seq(ServerFrame)]
        BY <1>1, <1>2, <1>6, <2>7, <2>9, <3>2 DEF Serve, Receipt
      <4> QED BY <1>3, <1>6, <2>3, <2>6, <4>2, <4>3, <4>4 DEF Serve
    <3> QED BY <3>1, <3>2
  <2>10. CASE frame.type = "UNSUBSCRIBE"
    <3>1. RemoveValue(subs, frame.ids) \in MapsOf(Channel, Ids)
      BY <2>4, <2>7, <2>10, MapsAreFunctions DEF RemoveValue
    <3>2. session' = [session EXCEPT ![h].subs = RemoveValue(subs, frame.ids)]
      BY <1>6, <2>10 DEF Serve
    <3>3. toClient' \in [Handler -> Seq(ServerFrame)]
      BY <1>1, <1>2, <1>6, <2>7, <2>10 DEF Serve, Receipt
    <3> QED BY <1>3, <1>6, <2>3, <2>6, <3>1, <3>2, <3>3 DEF Serve
  <2>11. CASE frame.type = "SEND"
    BY <1>3, <1>6, <2>3, <2>11 DEF Serve, Types
  <2>12. CASE frame.type = "DISCONNECT"
    <3>1. toClient' \in [Handler -> Seq(ServerFrame)]
      BY <1>1, <1>2, <1>6, <2>12 DEF Serve, Receipt
    <3>2. session' \in [Handler -> Session]
      BY <1>6, <2>12, NewSessions DEF Serve, Types
    <3> QED BY <1>3, <1>6, <2>3, <3>1, <3>2 DEF Serve
  <2> QED BY <1>6, <2>8, <2>9, <2>10, <2>11, <2>12 DEF Serve
<1> QED BY <1>4, <1>5, <1>6

LEMMA TypesKept == Types /\ [Next]_vars => Types'
<1> SUFFICES ASSUME Types, [Next]_vars PROVE Types'
  OBVIOUS
<1>1. CASE UNCHANGED vars
  BY <1>1 DEF vars, sharedVars, tableVars, linkVars, Types
<1> QED BY <1>1, EnterTypes, InputTypes, CommTypes, ServerTypes DEF Next

(* However the threads interleave, the tables, the connections and the      *)
(* frames under way have their types.                                       *)
THEOREM ClientTyped == Spec => []TypeOK
<1>1. Types => TypeOK
  <2> SUFFICES ASSUME Types PROVE TypeOK
    OBVIOUS
  <2>1. \A m \in MapsOf(Channel, Ids) :
          DOMAIN m \subseteq Channel /\ \A channel \in DOMAIN m : m[channel] \in Ids
    BY MapsAreFunctions
  <2>2. \A h \in Handler :
          /\ session[h].open \in BOOLEAN /\ session[h].registered \in BOOLEAN
          /\ session[h].subs \in MapsOf(Channel, Ids)
    BY DEF Types, Session
  <2>3. subscriptions \in MapsOf(Channel, Ids)
    BY DEF Types
  <2>4. \A h \in Handler :
          /\ DOMAIN session[h].subs \subseteq Channel
          /\ \A channel \in DOMAIN session[h].subs : session[h].subs[channel] \in Ids
    BY <2>1, <2>2
  <2>5. DOMAIN subscriptions \subseteq Channel
        /\ \A channel \in DOMAIN subscriptions : subscriptions[channel] \in Ids
    BY <2>1, <2>3
  <2> QED BY <2>2, <2>4, <2>5 DEF TypeOK, Types
<1> QED BY <1>1, InitTypes, TypesKept, PTL DEF Spec

-----------------------------------------------------------------------------
(* The present connection *)

LEMMA CrashPresent == Present /\ Crash => Present'
BY DEF Present, Silent, Crash, sharedVars, linkVars

LEMMA InputPresent ==
  ASSUME Types, Present, InputStep
  PROVE  Present'
<1> DEFINE ptr == connectionHandlerPtr
<1>1. CASE Crash
  BY <1>1, CrashPresent
<1>2. socket \in [Handler -> {"none", "unconnected", "open", "closed", "deleted"}]
      /\ ptr \in Handler \cup {NoHandler} /\ NoHandler \notin Handler
      /\ (comm.at = "read" => comm.handler \in Handler)
  BY ClientAssumption DEF Types
<1>3. DOMAIN input = {"at", "command", "frame", "left"}
  BY DEF Types
<1>4. \A label : Goto(label) => input'.at = label
  BY <1>3 DEF Goto
<1>5. NextCommand => input'.at = "getline"
  BY DEF NextCommand, Reading
<1>6. ASSUME NEW label, label \notin {"new", "null", "connect"}, input'.at = label,
             UNCHANGED <<connectionHandlerPtr, socket, comm, linkVars>>
      PROVE  Present'
  BY <1>6 DEF Present, Silent, linkVars
<1>7. CASE TestHandler
  <2>1. UNCHANGED <<connectionHandlerPtr, socket, comm, linkVars>>
    BY <1>7 DEF TestHandler, sharedVars
  <2>2. CASE ptr = NoHandler
    BY <1>2, <1>4, <1>7, <2>1, <2>2 DEF TestHandler, Present, Silent, linkVars
  <2>3. CASE ptr # NoHandler
    BY <1>4, <1>6, <1>7, <2>1, <2>3 DEF TestHandler
  <2> QED BY <2>2, <2>3
<1>8. ASSUME NEW g \in Handler, New(g)
      PROVE  Present'
  <2>1. ptr = NoHandler /\ Silent(g) /\ input'.at = "connect" /\ ptr' = g
        /\ socket' = [socket EXCEPT ![g] = "unconnected"] /\ UNCHANGED <<comm, linkVars>>
    BY <1>4, <1>8 DEF New, InputAt, Present
  <2>2. \A h \in Handler : Silent(h) => Silent(h)'
    BY <2>1 DEF Silent, linkVars
  <2>3. comm.at = "read" => socket[comm.handler] # "open"
    BY <1>2, <2>1 DEF Present
  <2>4. \A h \in Handler : socket[h] = "none" => Silent(h)
    BY DEF Present
  <2>5. comm'.at = "read" => socket'[comm'.handler] # "open"
    BY <1>2, <2>1, <2>3
  <2>6. \A h \in Handler : socket'[h] = "none" => h # g /\ Silent(h)'
    BY <1>2, <2>1, <2>2, <2>4
  <2>7. Silent(g)'
    BY <2>1, <2>2
  <2> QED BY <2>1, <2>5, <2>6, <2>7 DEF Present
<1>9. CASE Connect
  <2>1. CASE ~Crash
    <3>1. ptr \in Handler /\ UNCHANGED <<connectionHandlerPtr, comm, toServer, toClient>>
      BY <1>2, <1>9, <2>1 DEF Connect
    <3>2. CASE Goto("delete") /\ UNCHANGED <<socket, session>>
      BY <1>4, <1>6, <3>1, <3>2 DEF linkVars
    <3>3. CASE /\ socket[ptr] # "deleted"
               /\ socket' = [socket EXCEPT ![ptr] = "open"]
               /\ session' = [session EXCEPT ![ptr] = NewSession]
               /\ Goto("setConnected")
      <4>1. input'.at = "setConnected"
        BY <1>4, <3>3
      <4>2. \A h \in Handler : h # ptr /\ Silent(h) => Silent(h)'
        BY <3>1, <3>3 DEF Silent, Types
      <4> QED BY <1>2, <3>1, <3>3, <4>1, <4>2 DEF Present
    <3> QED BY <1>9, <2>1, <3>2, <3>3 DEF Connect
  <2> QED BY <1>1, <2>1
<1>10. CASE SetConnected
  BY <1>4, <1>6, <1>10 DEF SetConnected
<1>11. CASE TestConnected
  BY <1>4, <1>5, <1>6, <1>11 DEF TestConnected, sharedVars
<1>12. CASE PointerIsNull
  BY <1>5, <1>6, <1>12 DEF PointerIsNull, sharedVars
<1>13. CASE BuildFrame
  <2>1. input'.at \in {"getline", "send", "pointer"}
    BY <1>3, <1>5, <1>13 DEF BuildFrame, ToSend, Join, Exit, InputAt
  <2> QED BY <1>6, <1>13, <2>1 DEF BuildFrame, sharedVars
<1>14. CASE Send
  <2>1. CASE Deliver(ptr, input.frame) /\ NextCommand
             /\ UNCHANGED <<sharedVars, tableVars, myMap, comm, commands, session, toClient, crashed>>
    <3>1. input'.at = "getline" /\ UNCHANGED <<connectionHandlerPtr, socket, comm>>
      BY <1>5, <2>1 DEF sharedVars
    <3>2. \A h \in Handler : socket[h] = "none" /\ Silent(h) => Silent(h)'
      BY <2>1 DEF Deliver, Silent, Types
    <3> QED BY <1>2, <3>1, <3>2 DEF Present
  <2>2. CASE Goto("unsetConnected")
             /\ UNCHANGED <<sharedVars, tableVars, myMap, comm, commands, linkVars, crashed>>
    BY <1>4, <1>6, <2>2 DEF sharedVars
  <2> QED BY <1>1, <1>14, <2>1, <2>2 DEF Send
<1>15. CASE UnsetConnected
  BY <1>4, <1>6, <1>15 DEF UnsetConnected
<1>16. CASE InputDeletes
  <2>1. CASE ~Crash
    <3>1. input'.at = "null" /\ UNCHANGED <<connectionHandlerPtr, comm, linkVars>> /\ Delete
      BY <1>4, <1>16, <2>1 DEF InputDeletes
    <3>2. \A h \in Handler : Silent(h) => Silent(h)'
      BY <3>1 DEF Silent, linkVars
    <3> QED BY <1>2, <3>1, <3>2 DEF Present, Delete
  <2> QED BY <1>1, <2>1
<1>17. CASE InputForgets
  <2>1. /\ input'.at = "getline" /\ ptr' = NoHandler /\ input.at = "null"
        /\ UNCHANGED <<socket, comm, linkVars>>
    BY <1>5, <1>17 DEF InputForgets, InputAt
  <2>2. \A h \in Handler : Silent(h) => Silent(h)'
    BY <2>1 DEF Silent, linkVars
  <2> QED BY <1>2, <2>1, <2>2 DEF Present
<1>18. CASE Report
  <2>1. CASE ~Crash
    <3>1. input'.at = "report" /\ UNCHANGED <<connectionHandlerPtr, socket, comm>>
      BY <1>3, <1>18, <2>1 DEF Report, InputAt, sharedVars
    <3>2. \A h \in Handler : socket[h] = "none" /\ Silent(h) => Silent(h)'
      BY <1>18, <2>1 DEF Report, Deliver, Silent, Types
    <3> QED BY <1>2, <3>1, <3>2 DEF Present
  <2> QED BY <1>1, <2>1
<1>19. CASE ReportDone
  BY <1>5, <1>6, <1>19 DEF ReportDone, sharedVars
<1>20. CASE Summary
  BY <1>4, <1>6, <1>20 DEF Summary, sharedVars
<1> QED BY <1>7, <1>8, <1>9, <1>10, <1>11, <1>12, <1>13, <1>14, <1>15, <1>16, <1>17, <1>18,
           <1>19, <1>20 DEF InputStep

LEMMA CommPresent ==
  ASSUME Types, Present, CommStep
  PROVE  Present'
<1> DEFINE ptr == connectionHandlerPtr
<1>1. CASE Crash
  BY <1>1, CrashPresent
<1>2. socket \in [Handler -> {"none", "unconnected", "open", "closed", "deleted"}]
      /\ ptr \in Handler \cup {NoHandler} /\ NoHandler \notin Handler
  BY ClientAssumption DEF Types
<1>3. DOMAIN comm = {"at", "handler"}
  BY DEF Types
<1>4. \A label : CommGoto(label) => comm'.at = label
  BY <1>3 DEF CommGoto
<1>5. LoopAgain => comm'.at = "isConnected"
  BY DEF LoopAgain, Testing
<1>6. ASSUME NEW label, label # "read", comm'.at = label,
             UNCHANGED <<connectionHandlerPtr, socket, input, linkVars>>
      PROVE  Present'
  BY <1>6 DEF Present, Silent, linkVars
<1>7. CASE CommTestsConnected
  BY <1>4, <1>6, <1>7 DEF CommTestsConnected, sharedVars
<1>8. CASE CommTestsPointer
  BY <1>4, <1>6, <1>8 DEF CommTestsPointer, sharedVars
<1>9. CASE Call
  <2>1. CASE ~Crash
    <3>1. comm' = [at |-> "read", handler |-> ptr]
          /\ UNCHANGED <<connectionHandlerPtr, socket, input, linkVars>>
      BY <1>9, <2>1 DEF Call, sharedVars
    <3> QED BY <3>1 DEF Present, Silent, linkVars
  <2> QED BY <1>1, <2>1
<1>10. CASE Receive
  <2>1. /\ comm'.at # "read" /\ UNCHANGED <<connectionHandlerPtr, socket, input, session, toServer>>
        /\ toClient[comm.handler] # <<>>
        /\ toClient' = [toClient EXCEPT ![comm.handler] = Tail(@)]
    BY <1>4, <1>5, <1>10 DEF Receive, sharedVars
  <2>2. \A h \in Handler : Silent(h) => Silent(h)'
    BY <2>1 DEF Silent, Types
  <2> QED BY <2>1, <2>2 DEF Present
<1>11. CASE ReadDeleted
  BY <1>1, <1>11 DEF ReadDeleted
<1>12. CASE ReadFails
  BY <1>4, <1>6, <1>12 DEF ReadFails, sharedVars
<1>13. CASE Lost
  BY <1>5, <1>6, <1>13 DEF Lost
<1>14. CASE Close
  <2>1. CASE ~Crash
    <3>1. /\ comm'.at = "delete" /\ UNCHANGED <<connectionHandlerPtr, input, linkVars>>
          /\ ptr \in Handler
          /\ socket' = IF socket[ptr] = "deleted" THEN socket
                                                  ELSE [socket EXCEPT ![ptr] = "closed"]
      BY <1>2, <1>4, <1>14, <2>1 DEF Close
    <3>2. \A h \in Handler : Silent(h) => Silent(h)'
      BY <3>1 DEF Silent, linkVars
    <3> QED BY <1>2, <3>1, <3>2 DEF Present
  <2> QED BY <1>1, <2>1
<1>15. CASE CommDeletes
  <2>1. CASE ~Crash
    <3>1. comm'.at = "null" /\ UNCHANGED <<connectionHandlerPtr, input, linkVars>> /\ Delete
      BY <1>4, <1>15, <2>1 DEF CommDeletes
    <3>2. \A h \in Handler : Silent(h) => Silent(h)'
      BY <3>1 DEF Silent, linkVars
    <3> QED BY <1>2, <3>1, <3>2 DEF Present, Delete
  <2> QED BY <1>1, <2>1
<1>16. CASE CommForgets
  <2>1. /\ comm'.at = "unsetConnected" /\ ptr' = NoHandler
        /\ UNCHANGED <<socket, input, linkVars>>
    BY <1>4, <1>16 DEF CommForgets
  <2>2. \A h \in Handler : Silent(h) => Silent(h)'
    BY <2>1 DEF Silent, linkVars
  <2> QED BY <1>2, <2>1, <2>2 DEF Present
<1>17. CASE CommDisconnected
  BY <1>5, <1>6, <1>17 DEF CommDisconnected
<1> QED BY <1>7, <1>8, <1>9, <1>10, <1>11, <1>12, <1>13, <1>14, <1>15, <1>16, <1>17 DEF CommStep

LEMMA PresentKept ==
  ASSUME Types, Present, [Next]_vars
  PROVE  Present'
<1>1. CASE UNCHANGED vars
  BY <1>1 DEF vars, sharedVars, linkVars, Present, Silent
<1>2. ASSUME NEW command \in Command, Enter(command)
      PROVE  Present'
  <2>1. FirstAccess(command) \notin {"new", "null", "connect"}
    BY DEF FirstAccess
  <2>2. input'.at = FirstAccess(command)
    BY <1>2 DEF Enter
  <2> QED BY <1>2, <2>1, <2>2 DEF Enter, Present, Silent, sharedVars, linkVars
<1>3. ASSUME NEW h \in Handler, Serve(h) \/ Publish(h) \/ ServerCloses(h)
      PROVE  Present'
  <2>1. ~Silent(h)
    BY <1>3 DEF Serve, Publish, ServerCloses, Served, Silent, NoSession
  <2>2. \A g \in Handler : g # h /\ Silent(g) => Silent(g)'
    BY <1>3 DEF Serve, Publish, ServerCloses, Answered, Refuse, Receipt, Silent, Types
  <2>3. UNCHANGED <<connectionHandlerPtr, socket, input, comm>>
    BY <1>3 DEF Serve, Publish, ServerCloses, sharedVars
  <2> QED BY <2>1, <2>2, <2>3 DEF Present
<1> QED BY <1>1, <1>2, <1>3, InputPresent, CommPresent DEF Next

-----------------------------------------------------------------------------
(* What is added to the end of a queue and taken from its front *)

LEMMA AppendIndices ==
  ASSUME NEW S, NEW s \in Seq(S), NEW e \in S
  PROVE  /\ Append(s, e) \in Seq(S) /\ Len(s) \in Nat
         /\ DOMAIN Append(s, e) = DOMAIN s \cup {Len(s) + 1}
         /\ Len(s) + 1 \notin DOMAIN s
         /\ \A j \in DOMAIN s : Append(s, e)[j] = s[j] /\ j < Len(s) + 1
         /\ Append(s, e)[Len(s) + 1] = e
OBVIOUS

LEMMA TailIndices ==
  ASSUME NEW S, NEW s \in Seq(S), s # <<>>
  PROVE  /\ Tail(s) \in Seq(S) /\ Head(s) \in S /\ Head(s) = s[1] /\ 1 \in DOMAIN s
         /\ \A j \in DOMAIN Tail(s) : j \in Nat /\ j + 1 \in DOMAIN s /\ 1 < j + 1
                                      /\ Tail(s)[j] = s[j + 1]
         /\ \A j \in DOMAIN s : j # 1 => j - 1 \in DOMAIN Tail(s) /\ j \in Nat
OBVIOUS

LEMMA AppendCounts ==
  ASSUME NEW s \in Seq(ServerFrame), NEW frame \in ServerFrame, NEW r
  PROVE  /\ Never(s, r) /\ ~IsReceipt(frame, r) => Never(Append(s, frame), r)
         /\ Once(s, r) /\ ~IsReceipt(frame, r) => Once(Append(s, frame), r)
         /\ Never(s, r) /\ IsReceipt(frame, r) => Once(Append(s, frame), r)
<1>1. /\ DOMAIN Append(s, frame) = DOMAIN s \cup {Len(s) + 1}
      /\ Len(s) + 1 \notin DOMAIN s
      /\ \A j \in DOMAIN s : Append(s, frame)[j] = s[j]
      /\ Append(s, frame)[Len(s) + 1] = frame
  BY AppendIndices
<1> QED BY <1>1 DEF Never, Once

LEMMA TailCounts ==
  ASSUME NEW s \in Seq(ServerFrame), s # <<>>, NEW r
  PROVE  /\ Never(s, r) => Never(Tail(s), r) /\ ~IsReceipt(Head(s), r)
         /\ Once(s, r) /\ ~IsReceipt(Head(s), r) => Once(Tail(s), r)
         /\ Once(s, r) /\ IsReceipt(Head(s), r) => Never(Tail(s), r)
<1>1. /\ Head(s) = s[1] /\ 1 \in DOMAIN s
      /\ \A j \in DOMAIN Tail(s) : j \in Nat /\ j + 1 \in DOMAIN s /\ 1 < j + 1
                                   /\ Tail(s)[j] = s[j + 1]
      /\ \A j \in DOMAIN s : j # 1 => j - 1 \in DOMAIN Tail(s) /\ j \in Nat
  BY TailIndices
<1>2. Never(s, r) => Never(Tail(s), r) /\ ~IsReceipt(Head(s), r)
  BY <1>1 DEF Never
<1>3. ASSUME NEW i \in DOMAIN s, \A j \in DOMAIN s : IsReceipt(s[j], r) <=> j = i
      PROVE  /\ ~IsReceipt(Head(s), r) => Once(Tail(s), r)
             /\ IsReceipt(Head(s), r) => Never(Tail(s), r)
  <2>1. CASE i = 1
    <3>1. IsReceipt(Head(s), r)
      BY <1>1, <1>3, <2>1
    <3>2. Never(Tail(s), r)
      BY <1>1, <1>3, <2>1 DEF Never
    <3> QED BY <3>1, <3>2
  <2>2. CASE i # 1
    <3>1. ~IsReceipt(Head(s), r)
      BY <1>1, <1>3, <2>2
    <3>2. i - 1 \in DOMAIN Tail(s) /\ i \in Nat
      BY <1>1, <2>2
    <3>3. \A j \in DOMAIN Tail(s) : IsReceipt(Tail(s)[j], r) <=> j = i - 1
      <4> TAKE j \in DOMAIN Tail(s)
      <4>1. j \in Nat /\ j + 1 \in DOMAIN s /\ Tail(s)[j] = s[j + 1]
        BY <1>1
      <4>2. IsReceipt(Tail(s)[j], r) <=> j + 1 = i
        BY <1>3, <4>1
      <4> QED BY <3>2, <4>1, <4>2
    <3> QED BY <3>1, <3>2, <3>3 DEF Once
  <2> QED BY <2>1, <2>2
<1> QED BY <1>2, <1>3 DEF Once

-----------------------------------------------------------------------------
(* Counters *)

Ahead == receiptId \in Int /\ Limit \in Int /\ receiptId <= Limit /\ Limit <= receiptId + 1

LEMMA Limits == Types => Ahead
BY DEF Types, Limit, Ahead

(* Only buildFrame makes a frame to be sent. *)
LEMMA StepLimit ==
  ASSUME Types, [Next]_vars, ~(BuildFrame)
  PROVE  /\ UNCHANGED tableVars
         /\ input' = input \/ input'.at # "send"
<1> USE DEF Goto, NextCommand, Reading, Crash, Types
<1>1. CASE UNCHANGED vars
  BY <1>1 DEF vars
<1>2. ASSUME NEW command \in Command, Enter(command)
      PROVE  UNCHANGED tableVars /\ input'.at # "send"
  <2>1. FirstAccess(command) # "send"
    BY DEF FirstAccess
  <2> QED BY <1>2, <2>1 DEF Enter
<1>3. CASE CommStep
  BY <1>3 DEF CommStep, CommTestsConnected, CommTestsPointer, Call, Receive, ReadDeleted,
              ReadFails, Lost, Close, CommDeletes, CommForgets, CommDisconnected
<1>4. ASSUME NEW h \in Handler, Serve(h) \/ Publish(h) \/ ServerCloses(h)
      PROVE  UNCHANGED <<tableVars, input>>
  BY <1>4 DEF Serve, Publish, ServerCloses
<1>5. CASE TestHandler \/ (\E h \in Handler : New(h)) \/ Connect \/ SetConnected
  BY <1>5 DEF TestHandler, New, Connect, SetConnected
<1>6. CASE TestConnected \/ PointerIsNull \/ Send \/ UnsetConnected
  BY <1>6 DEF TestConnected, PointerIsNull, Send, UnsetConnected
<1>7. CASE InputDeletes \/ InputForgets \/ ReportDone \/ Summary
  BY <1>7 DEF InputDeletes, InputForgets, ReportDone, Summary
<1>8. CASE Report
  BY <1>8 DEF Report, InputAt
<1> QED BY <1>1, <1>2, <1>3, <1>4, <1>5, <1>6, <1>7, <1>8 DEF Next, InputStep

LEMMA SentFrame ==
  ASSUME Types, NEW frame, ToSend(frame)
  PROVE  input'.at = "send" /\ input'.frame = frame
<1>1. DOMAIN input = {"at", "command", "frame", "left"}
  BY DEF Types
<1> QED BY <1>1 DEF ToSend

LEMMA LimitGrows ==
  ASSUME Types, [Next]_vars
  PROVE  Limit <= Limit' /\ Limit \in Int /\ Limit' \in Int
<1>1. Limit \in Int /\ Limit' \in Int
  BY TypesKept, Limits DEF Types, Limit
<1>2. CASE BuildFrame
  <2>1. input.at = "pointer"
    BY <1>2 DEF BuildFrame, InputAt
  <2>2. Limit = receiptId + 1
    BY <2>1 DEF Limit, Joining
  <2>3. CASE UNCHANGED receiptId
    <3>1. ~Joining'
      <4>1. ~Join(input.command.channel)
        BY <2>3 DEF Join, Types
      <4>2. input' = input \/ NextCommand \/ \E frame : frame.type # "SUBSCRIBE" /\ ToSend(frame)
        BY <1>2, <4>1 DEF BuildFrame, Exit
      <4> QED BY <2>1, <4>2, SentFrame DEF NextCommand, Reading, Joining
    <3> QED BY <2>2, <2>3, <3>1 DEF Limit, Types
  <2>4. CASE receiptId' = receiptId + 1
    BY <2>2, <2>4, <1>1 DEF Limit, Types
  <2> QED BY <1>2, <2>3, <2>4 DEF BuildFrame, Join, Exit, tableVars
<1>3. CASE ~BuildFrame
  <2>1. UNCHANGED receiptId /\ (input' = input \/ input'.at # "send")
    BY <1>3, StepLimit DEF tableVars
  <2> QED BY <2>1 DEF Limit, Joining, Types
<1> QED BY <1>1, <1>2, <1>3

(* A receipt that the user has read is one that was on its way from the     *)
(* present connection.                                                      *)
LEMMA ReceiveIsPresent ==
  ASSUME Types, Present, Receive
  PROVE  /\ connectionHandlerPtr \in Handler /\ comm.handler = connectionHandlerPtr
         /\ toClient[connectionHandlerPtr] \in Seq(ServerFrame)
         /\ toClient[connectionHandlerPtr] # <<>>
         /\ toClient' = [toClient EXCEPT ![connectionHandlerPtr] = Tail(@)]
         /\ UNCHANGED <<connectionHandlerPtr, session, toServer>>
         /\ \/ UNCHANGED myMap
            \/ /\ Head(toClient[connectionHandlerPtr]).type = "RECEIPT"
               /\ myMap' = Toggled(Head(toClient[connectionHandlerPtr]).receipt)
<1>1. comm.handler \in Handler /\ comm.handler = connectionHandlerPtr
  BY DEF Receive, CommAt, Types, Present
<1> QED BY <1>1 DEF Receive, Types, sharedVars

LEMMA MapChanges ==
  ASSUME [Next]_vars, ~Receive
  PROVE  UNCHANGED myMap
<1>1. CASE InputStep
  BY <1>1 DEF InputStep, TestHandler, New, Connect, SetConnected, TestConnected, PointerIsNull,
              BuildFrame, Send, UnsetConnected, InputDeletes, InputForgets, Report, ReportDone,
              Summary, Crash
<1>2. CASE CommStep
  BY <1>2 DEF CommStep, CommTestsConnected, CommTestsPointer, Call, ReadDeleted, ReadFails, Lost,
              Close, CommDeletes, CommForgets, CommDisconnected, Crash
<1> QED BY <1>1, <1>2 DEF Next, vars, Enter, Serve, Publish, ServerCloses

LEMMA CountsKept ==
  ASSUME Types, Present, Counts, [Next]_vars,
         connectionHandlerPtr \in Handler => Receipts(connectionHandlerPtr)
  PROVE  Counts'
<1> DEFINE ptr == connectionHandlerPtr
           Tables == /\ subscriptionId = receiptId
                     /\ \A channel \in DOMAIN subscriptions :
                          /\ subscriptions[channel].id = subscriptions[channel].receipt
                          /\ subscriptions[channel].receipt <= receiptId
           Sending == input.at = "send" /\ HasIds(input.frame) =>
                        /\ input.frame.ids.id = input.frame.ids.receipt
                        /\ input.frame.ids.receipt <= receiptId
                        /\ input.frame.type = "SUBSCRIBE" => input.frame.ids.receipt = receiptId
<1>1. \A r \in myMap' : r < Limit'
  <2>1. \A r \in myMap' : r < Limit
    <3>1. CASE Receive
      <4>1. CASE UNCHANGED myMap
        BY <4>1 DEF Counts
      <4>2. CASE /\ Head(toClient[ptr]).type = "RECEIPT"
                 /\ myMap' = Toggled(Head(toClient[ptr]).receipt)
        <5>1. Head(toClient[ptr]) = toClient[ptr][1] /\ 1 \in DOMAIN toClient[ptr]
          BY <3>1, ReceiveIsPresent, TailIndices
        <5>2. Head(toClient[ptr]).receipt < Limit
          BY <3>1, <4>2, <5>1, ReceiveIsPresent DEF Receipts, Bounded
        <5> QED BY <4>2, <5>2 DEF Counts, Toggled
      <4> QED BY <3>1, <4>1, <4>2, ReceiveIsPresent
    <3>2. CASE ~Receive
      BY <3>2, MapChanges DEF Counts
    <3> QED BY <3>1, <3>2
  <2>2. \A r \in myMap' : r \in Int
    BY TypesKept DEF Types
  <2> QED BY <2>1, <2>2, LimitGrows
<1>2. CASE ~BuildFrame
  <2>1. Tables' /\ Sending'
    <3>1. UNCHANGED tableVars /\ (input' = input \/ input'.at # "send")
      BY <1>2, StepLimit
    <3> QED BY <3>1 DEF Counts, tableVars, HasIds
  <2> QED BY <1>1, <2>1 DEF Counts
<1>3. CASE BuildFrame
  <2>1. \A channel \in DOMAIN subscriptions : subscriptions[channel] \in Ids
    BY MapsAreFunctions DEF Types
  <2>2. CASE Join(input.command.channel)
    <3> DEFINE ids == [id |-> subscriptionId + 1, receipt |-> receiptId + 1]
               frame == [type |-> "SUBSCRIBE", channel |-> input.command.channel, ids |-> ids]
    <3>1. /\ subscriptionId' = subscriptionId + 1 /\ receiptId' = receiptId + 1
          /\ subscriptions' = Put(subscriptions, input.command.channel, ids)
          /\ input' = [input EXCEPT !.at = "send", !.frame = frame]
      BY <2>2 DEF Join, ToSend
    <3>2. ids.id = receiptId' /\ ids.receipt = receiptId'
      BY <3>1 DEF Counts
    <3>3. Tables'
      <4>1. subscriptionId' = receiptId'
        BY <3>1 DEF Counts
      <4>2. ASSUME NEW channel \in DOMAIN subscriptions'
            PROVE  /\ subscriptions'[channel].id = subscriptions'[channel].receipt
                   /\ subscriptions'[channel].receipt <= receiptId'
        <5>1. CASE channel = input.command.channel
          <6>1. subscriptions'[channel] = ids
            BY <3>1, <5>1 DEF Put
          <6> QED BY <3>1, <3>2, <6>1 DEF Types
        <5>2. CASE channel # input.command.channel
          <6>1. channel \in DOMAIN subscriptions
                /\ subscriptions'[channel] = subscriptions[channel]
            BY <3>1, <5>2 DEF Put
          <6>2. subscriptions[channel].receipt \in Int
            BY <2>1, <6>1 DEF Ids
          <6> QED BY <3>1, <6>1, <6>2 DEF Counts, Types
        <5> QED BY <5>1, <5>2
      <4> QED BY <4>1, <4>2
    <3>4. input'.frame = frame /\ input'.frame.ids = ids
      BY <3>1 DEF Types
    <3>5. Sending'
      BY <3>1, <3>2, <3>4 DEF Types
    <3> QED BY <1>1, <3>3, <3>5 DEF Counts
  <2>3. CASE UNCHANGED tableVars
    <3>1. Tables'
      BY <2>3 DEF Counts, tableVars
    <3>2. CASE input.command.name = "exit" /\ Exit(input.command.channel)
      <4>1. CASE input.command.channel \in DOMAIN subscriptions
        <5> DEFINE frame == [type |-> "UNSUBSCRIBE", ids |-> subscriptions[input.command.channel]]
        <5>1. input' = [input EXCEPT !.at = "send", !.frame = frame]
          BY <3>2, <4>1 DEF Exit, ToSend
        <5>2. input'.frame = frame
          BY <5>1 DEF Types
        <5>3. frame.ids = subscriptions[input.command.channel] /\ frame.type = "UNSUBSCRIBE"
          OBVIOUS
        <5>4. Sending'
          BY <2>3, <4>1, <5>2, <5>3 DEF Counts, tableVars
        <5> QED BY <1>1, <3>1, <5>4 DEF Counts
      <4>2. CASE input.command.channel \notin DOMAIN subscriptions
        <5>1. input'.at # "send"
          BY <3>2, <4>2 DEF Exit, NextCommand, Reading
        <5> QED BY <1>1, <3>1, <5>1 DEF Counts
      <4> QED BY <4>1, <4>2
    <3>3. CASE \/ ToSend([type |-> "CONNECT"]) \/ ToSend([type |-> "DISCONNECT"])
      <4>1. input'.frame.type \in {"CONNECT", "DISCONNECT"}
        BY <3>3, SentFrame
      <4> QED BY <1>1, <3>1, <4>1 DEF Counts, HasIds
    <3>4. CASE NextCommand
      BY <1>1, <3>1, <3>4 DEF Counts, NextCommand, Reading
    <3>5. CASE UNCHANGED input
      <4>1. input'.at # "send"
        BY <1>3, <3>5 DEF BuildFrame, InputAt
      <4> QED BY <1>1, <3>1, <4>1 DEF Counts
    <3>6. CASE Join(input.command.channel)
      BY <2>2, <3>6
    <3> QED BY <1>3, <3>2, <3>3, <3>4, <3>5, <3>6 DEF BuildFrame
  <2> QED BY <1>3, <2>2, <2>3 DEF BuildFrame, Exit
<1> QED BY <1>2, <1>3

-----------------------------------------------------------------------------
(* Receipts *)

(* Types of the ids and receipts that Receipts compares *)
LEMMA LinkTypes ==
  ASSUME Types, NEW h \in Handler
  PROVE  /\ toServer[h] \in Seq(ClientFrame) /\ toClient[h] \in Seq(ServerFrame)
         /\ session[h].registered \in BOOLEAN /\ session[h].subs \in MapsOf(Channel, Ids)
         /\ \A channel \in DOMAIN session[h].subs : session[h].subs[channel] \in Ids
         /\ \A frame \in ClientFrame : HasIds(frame) => frame.ids \in Ids
         /\ \A ids \in Ids : ids.id \in Nat /\ ids.receipt \in Nat
         /\ \A frame \in ServerFrame : frame.type = "RECEIPT" => frame.receipt \in Int
<1>1. /\ toServer[h] \in Seq(ClientFrame) /\ toClient[h] \in Seq(ServerFrame)
      /\ session[h].registered \in BOOLEAN /\ session[h].subs \in MapsOf(Channel, Ids)
  BY DEF Types, Session
<1>2. \A channel \in DOMAIN session[h].subs : session[h].subs[channel] \in Ids
  BY <1>1, MapsAreFunctions
<1>3. \A frame \in ClientFrame : HasIds(frame) => frame.ids \in Ids
  BY DEF ClientFrame, HasIds
<1>4. \A ids \in Ids : ids.id \in Nat /\ ids.receipt \in Nat
  BY DEF Ids
<1>5. \A frame \in ServerFrame : frame.type = "RECEIPT" => frame.receipt \in Int
  BY DEF ServerFrame, LogoutReceipt
<1> QED BY <1>1, <1>2, <1>3, <1>4, <1>5

(* What is counted stays counted. *)
LEMMA StillBounded ==
  ASSUME Types, [Next]_vars, NEW h \in Handler, Bounded(h)
  PROVE  /\ \A i \in DOMAIN toServer[h] :
              HasIds(toServer[h][i]) => Counted(toServer[h][i].ids, Limit')
         /\ \A channel \in DOMAIN session[h].subs : Counted(session[h].subs[channel], Limit')
         /\ \A i \in DOMAIN toClient[h] :
              toClient[h][i].type = "RECEIPT" => toClient[h][i].receipt < Limit'
<1>1. \A i \in DOMAIN toServer[h] : toServer[h][i] \in ClientFrame
  BY LinkTypes
<1>2. \A i \in DOMAIN toClient[h] : toClient[h][i] \in ServerFrame
  BY LinkTypes
<1>3. \A n \in Int : n < Limit => n < Limit'
  BY LimitGrows
<1>4. \A i \in DOMAIN toServer[h] : HasIds(toServer[h][i]) =>
        /\ toServer[h][i].ids.id = toServer[h][i].ids.receipt
        /\ toServer[h][i].ids.receipt < Limit'
  BY <1>1, <1>3, LinkTypes DEF Bounded, Counted
<1>5. \A channel \in DOMAIN session[h].subs :
        /\ session[h].subs[channel].id = session[h].subs[channel].receipt
        /\ session[h].subs[channel].receipt < Limit'
  BY <1>3, LinkTypes DEF Bounded, Counted
<1>6. \A i \in DOMAIN toClient[h] :
        toClient[h][i].type = "RECEIPT" => toClient[h][i].receipt < Limit'
  BY <1>2, <1>3, LinkTypes DEF Bounded
<1> QED BY <1>4, <1>5, <1>6 DEF Counted

(* A step that has nothing to do with a connection *)
LEMMA ReceiptsStay ==
  ASSUME Types, [Next]_vars, NEW h \in Handler, Receipts(h), UNCHANGED myMap,
         toServer'[h] = toServer[h], toClient'[h] = toClient[h], session'[h] = session[h]
  PROVE  Receipts(h)'
<1>1. Bounded(h)'
  BY StillBounded DEF Receipts, Bounded
<1>2. Unanswered(h)'
  BY DEF Receipts, Unanswered, Never, IsReceipt
<1>3. Confirmed(h)'
  BY DEF Receipts, Confirmed, Never, Once, IsReceipt
<1> QED BY <1>1, <1>2, <1>3 DEF Receipts

(* A connection on which nothing has been said *)
LEMMA FreshReceipts ==
  ASSUME NEW h \in Handler, toServer'[h] = <<>>, toClient'[h] = <<>>,
         DOMAIN session'[h].subs = {}
  PROVE  Receipts(h)'
BY DEF Receipts, Bounded, Unanswered, Confirmed

(* inputThread sends a frame: a join's receipt is new. *)
LEMMA SendReceipts ==
  ASSUME Types, Counts, [Next]_vars, NEW h \in Handler, Receipts(h), UNCHANGED myMap,
         NEW frame \in ClientFrame,
         toServer'[h] = Append(toServer[h], frame),
         toClient'[h] = toClient[h], session'[h] = session[h],
         HasIds(frame) => Counted(frame.ids, Limit'),
         frame.type = "SUBSCRIBE" => frame.ids.receipt = Limit
  PROVE  Receipts(h)'
<1> DEFINE s == toServer[h]
           new == Len(s) + 1
<1>1. /\ s \in Seq(ClientFrame) /\ Len(s) \in Nat
      /\ DOMAIN toServer'[h] = DOMAIN s \cup {new} /\ new \notin DOMAIN s
      /\ \A j \in DOMAIN s : toServer'[h][j] = s[j] /\ j < new
      /\ toServer'[h][new] = frame
  BY LinkTypes, AppendIndices
<1>2. Bounded(h)'
  <2>1. \A i \in DOMAIN toServer'[h] :
          HasIds(toServer'[h][i]) => Counted(toServer'[h][i].ids, Limit')
    BY <1>1, StillBounded DEF Receipts
  <2> QED BY <2>1, StillBounded DEF Receipts, Bounded, HasIds
<1>3. Confirmed(h)'
  BY DEF Receipts, Confirmed, Never, Once, IsReceipt
<1>4. Unanswered(h)'
  <2> SUFFICES ASSUME NEW i \in DOMAIN toServer'[h], toServer'[h][i].type = "SUBSCRIBE"
               PROVE  LET r == toServer'[h][i].ids.receipt IN
                      /\ r \notin myMap
                      /\ Never(toClient[h], r)
                      /\ \A channel \in DOMAIN session[h].subs :
                           session[h].subs[channel].receipt # r
                      /\ \A j \in DOMAIN toServer'[h] :
                           j < i /\ HasIds(toServer'[h][j]) => toServer'[h][j].ids.receipt # r
    BY DEF Unanswered, HasIds, Never, IsReceipt
  <2> DEFINE r == toServer'[h][i].ids.receipt
  <2>1. CASE i \in DOMAIN s
    <3>1. s[i].type = "SUBSCRIBE" /\ r = s[i].ids.receipt
      BY <1>1, <2>1
    <3>2. /\ r \notin myMap
          /\ Never(toClient[h], r)
          /\ \A channel \in DOMAIN session[h].subs : session[h].subs[channel].receipt # r
          /\ \A j \in DOMAIN s : j < i /\ HasIds(s[j]) => s[j].ids.receipt # r
      BY <2>1, <3>1 DEF Receipts, Unanswered
    <3>3. \A j \in DOMAIN toServer'[h] : j < i => j \in DOMAIN s /\ toServer'[h][j] = s[j]
      BY <1>1, <2>1
    <3> QED BY <3>2, <3>3
  <2>2. CASE i = new
    <3>1. r = Limit /\ Limit \in Int
      BY <1>1, <2>2, LimitGrows
    <3>2. \A j \in DOMAIN s : s[j] \in ClientFrame
      BY <1>1
    <3>3. r \notin myMap
      BY <3>1 DEF Counts
    <3>4. Never(toClient[h], r)
      BY <3>1 DEF Receipts, Bounded, Never, IsReceipt
    <3>5. \A channel \in DOMAIN session[h].subs : session[h].subs[channel].receipt # r
      BY <3>1 DEF Receipts, Bounded, Counted
    <3>6. \A j \in DOMAIN s : HasIds(s[j]) => s[j].ids.receipt # r
      BY <3>1 DEF Receipts, Bounded, Counted
    <3>7. \A j \in DOMAIN toServer'[h] : j < i => j \in DOMAIN s /\ toServer'[h][j] = s[j]
      BY <1>1, <2>2
    <3> QED BY <3>3, <3>4, <3>5, <3>6, <3>7
  <2> QED BY <1>1, <2>1, <2>2
<1> QED BY <1>2, <1>3, <1>4 DEF Receipts

(* communicationThread reads a frame. *)
LEMMA ReceiveReceipts ==
  ASSUME Types, Present, [Next]_vars, NEW h \in Handler, h = connectionHandlerPtr, Receipts(h),
         Receive
  PROVE  Receipts(h)'
<1> DEFINE s == toClient[h]
           got == Head(s).receipt
<1>1. /\ s \in Seq(ServerFrame) /\ s # <<>> /\ toClient'[h] = Tail(s)
      /\ toServer'[h] = toServer[h] /\ session'[h] = session[h]
      /\ \/ UNCHANGED myMap
         \/ Head(s).type = "RECEIPT" /\ myMap' = Toggled(got)
  <2>1. toClient \in [Handler -> Seq(ServerFrame)]
    BY DEF Types
  <2> QED BY <2>1, ReceiveIsPresent
<1>2. /\ Head(s) = s[1] /\ 1 \in DOMAIN s
      /\ \A j \in DOMAIN Tail(s) : j + 1 \in DOMAIN s /\ Tail(s)[j] = s[j + 1]
  BY <1>1, TailIndices
<1>3. Bounded(h)'
  <2>1. \A j \in DOMAIN toClient'[h] :
          toClient'[h][j].type = "RECEIPT" => toClient'[h][j].receipt < Limit'
    BY <1>1, <1>2, StillBounded DEF Receipts
  <2> QED BY <1>1, <2>1, StillBounded DEF Receipts, Bounded, HasIds
<1>4. Unanswered(h)'
  <2> SUFFICES ASSUME NEW i \in DOMAIN toServer[h], toServer[h][i].type = "SUBSCRIBE"
               PROVE  LET r == toServer[h][i].ids.receipt IN
                      /\ r \notin myMap'
                      /\ Never(toClient'[h], r)
                      /\ \A channel \in DOMAIN session[h].subs :
                           session[h].subs[channel].receipt # r
                      /\ \A j \in DOMAIN toServer[h] :
                           j < i /\ HasIds(toServer[h][j]) => toServer[h][j].ids.receipt # r
    BY <1>1 DEF Unanswered, HasIds, Never, IsReceipt
  <2> DEFINE r == toServer[h][i].ids.receipt
  <2>1. /\ r \notin myMap
        /\ Never(s, r)
        /\ \A channel \in DOMAIN session[h].subs : session[h].subs[channel].receipt # r
        /\ \A j \in DOMAIN toServer[h] :
             j < i /\ HasIds(toServer[h][j]) => toServer[h][j].ids.receipt # r
    BY DEF Receipts, Unanswered
  <2>2. Never(Tail(s), r) /\ ~IsReceipt(Head(s), r)
    BY <1>1, <2>1, TailCounts
  <2>3. r \notin myMap'
    BY <1>1, <2>1, <2>2 DEF IsReceipt, Toggled
  <2> QED BY <1>1, <2>1, <2>2, <2>3
<1>5. Confirmed(h)'
  <2> SUFFICES ASSUME session[h].registered, NEW channel \in DOMAIN session[h].subs
               PROVE  LET r == session[h].subs[channel].receipt IN
                      IF r \in myMap' THEN Never(toClient'[h], r) ELSE Once(toClient'[h], r)
    BY <1>1 DEF Confirmed, Never, Once, IsReceipt
  <2> DEFINE r == session[h].subs[channel].receipt
  <2>1. IF r \in myMap THEN Never(s, r) ELSE Once(s, r)
    BY DEF Receipts, Confirmed
  <2>2. r \in Nat
    BY LinkTypes
  <2>3. CASE IsReceipt(Head(s), r)
    <3>1. r \notin myMap /\ Never(Tail(s), r)
      BY <1>1, <2>1, <2>3, TailCounts
    <3>2. r \in myMap'
      <4>1. ~IsLogout(got)
        BY <2>2, <2>3 DEF IsReceipt, IsLogout
      <4>2. myMap' = Toggled(got)
        BY <1>1, <2>3, <4>1, ReceiveIsPresent DEF Receive, IsReceipt
      <4> QED BY <2>3, <3>1, <4>2 DEF IsReceipt, Toggled
    <3> QED BY <1>1, <3>1, <3>2
  <2>4. CASE ~IsReceipt(Head(s), r)
    <3>1. r \in myMap' <=> r \in myMap
      BY <1>1, <2>4 DEF IsReceipt, Toggled
    <3>2. /\ Never(s, r) => Never(Tail(s), r)
          /\ Once(s, r) => Once(Tail(s), r)
      BY <1>1, <2>4, TailCounts
    <3> QED BY <1>1, <2>1, <3>1, <3>2
  <2> QED BY <2>3, <2>4
<1> QED BY <1>3, <1>4, <1>5 DEF Receipts

LEMMA LimitIsNatural ==
  ASSUME Types, Counts
  PROVE  Limit \in Nat
<1>1. CASE Joining
  <2>1. input.frame \in ClientFrame /\ HasIds(input.frame)
    BY <1>1 DEF Types, Joining, HasIds
  <2>2. input.frame.ids.receipt \in Nat /\ input.frame.ids.receipt = receiptId
    BY <1>1, <2>1 DEF Counts, Joining, ClientFrame, HasIds, Ids
  <2> QED BY <1>1, <2>2 DEF Limit
<1>2. CASE ~Joining
  BY <1>2 DEF Limit, Types
<1> QED BY <1>1, <1>2

(* The server reads the next frame.  What it adds to the client's frames or *)
(* to the subscriptions is of that frame's ids.                             *)
LEMMA ServedFrame ==
  ASSUME Types, Counts, [Next]_vars, NEW h \in Handler, Receipts(h), UNCHANGED myMap,
         toServer[h] # <<>>, toServer'[h] = Tail(toServer[h]),
         NEW frame, frame = Head(toServer[h]),
         \/ toClient'[h] = toClient[h]
         \/ \E answer \in ServerFrame :
              /\ toClient'[h] = Append(toClient[h], answer)
              /\ answer.type = "RECEIPT" =>
                   answer.receipt = LogoutReceipt
                   \/ (HasIds(frame) /\ answer.receipt = frame.ids.receipt),
         \A channel \in DOMAIN session'[h].subs :
           \/ /\ channel \in DOMAIN session[h].subs
              /\ session'[h].subs[channel] = session[h].subs[channel]
           \/ HasIds(frame) /\ session'[h].subs[channel] = frame.ids
  PROVE  Bounded(h)' /\ Unanswered(h)'
<1> DEFINE s == toServer[h]
<1>1. /\ s \in Seq(ClientFrame) /\ frame \in ClientFrame /\ frame = s[1] /\ 1 \in DOMAIN s
      /\ \A j \in DOMAIN Tail(s) : j \in Nat /\ j + 1 \in DOMAIN s /\ 1 < j + 1
                                   /\ Tail(s)[j] = s[j + 1]
  BY LinkTypes, TailIndices
<1>2. HasIds(frame) => frame.ids \in Ids /\ frame.ids.receipt \in Nat
                       /\ Counted(frame.ids, Limit')
  BY <1>1, LinkTypes, StillBounded DEF Receipts
<1>3. toClient[h] \in Seq(ServerFrame)
  BY LinkTypes
<1>4. Bounded(h)'
  <2>1. \A i \in DOMAIN toServer'[h] :
          HasIds(toServer'[h][i]) => Counted(toServer'[h][i].ids, Limit')
    BY <1>1, StillBounded DEF Receipts
  <2>2. \A channel \in DOMAIN session'[h].subs : Counted(session'[h].subs[channel], Limit')
    BY <1>2, StillBounded DEF Receipts
  <2>3. \A i \in DOMAIN toClient'[h] :
          toClient'[h][i].type = "RECEIPT" => toClient'[h][i].receipt < Limit'
    <3>1. CASE toClient'[h] = toClient[h]
      BY <3>1, StillBounded DEF Receipts
    <3>2. ASSUME NEW answer \in ServerFrame, toClient'[h] = Append(toClient[h], answer),
                 answer.type = "RECEIPT" =>
                   answer.receipt = LogoutReceipt
                   \/ (HasIds(frame) /\ answer.receipt = frame.ids.receipt)
          PROVE  \A i \in DOMAIN toClient'[h] :
                   toClient'[h][i].type = "RECEIPT" => toClient'[h][i].receipt < Limit'
      <4>1. LogoutReceipt < Limit'
        BY LimitIsNatural, LimitGrows DEF LogoutReceipt
      <4>2. answer.type = "RECEIPT" => answer.receipt < Limit'
        BY <1>2, <3>2, <4>1 DEF Counted
      <4>3. \A i \in DOMAIN toClient'[h] :
              \/ i \in DOMAIN toClient[h] /\ toClient'[h][i] = toClient[h][i]
              \/ toClient'[h][i] = answer
        BY <1>3, <3>2, AppendIndices
      <4> QED BY <4>2, <4>3, StillBounded DEF Receipts
    <3> QED BY <3>1, <3>2
  <2> QED BY <2>1, <2>2, <2>3 DEF Bounded, HasIds
<1>5. Unanswered(h)'
  <2> SUFFICES ASSUME NEW i \in DOMAIN Tail(s), Tail(s)[i].type = "SUBSCRIBE"
               PROVE  LET r == Tail(s)[i].ids.receipt IN
                      /\ r \notin myMap
                      /\ Never(toClient'[h], r)
                      /\ \A channel \in DOMAIN session'[h].subs :
                           session'[h].subs[channel].receipt # r
                      /\ \A j \in DOMAIN Tail(s) :
                           j < i /\ HasIds(Tail(s)[j]) => Tail(s)[j].ids.receipt # r
    BY DEF Unanswered, HasIds, Never, IsReceipt
  <2> DEFINE r == Tail(s)[i].ids.receipt
  <2>1. i \in Nat /\ i + 1 \in DOMAIN s /\ 1 < i + 1 /\ Tail(s)[i] = s[i + 1]
    BY <1>1
  <2>2. s[i + 1].type = "SUBSCRIBE" /\ r = s[i + 1].ids.receipt
    BY <2>1
  <2>3. /\ r \notin myMap
        /\ Never(toClient[h], r)
        /\ \A channel \in DOMAIN session[h].subs : session[h].subs[channel].receipt # r
        /\ \A j \in DOMAIN s : j < i + 1 /\ HasIds(s[j]) => s[j].ids.receipt # r
    BY <2>1, <2>2 DEF Receipts, Unanswered
  <2>4. HasIds(frame) => frame.ids.receipt # r
    BY <1>1, <2>1, <2>3
  <2>5. r \in Nat
    <3>1. s[i + 1] \in ClientFrame /\ HasIds(s[i + 1])
      BY <1>1, <2>1, <2>2 DEF HasIds
    <3> QED BY <2>2, <3>1, LinkTypes
  <2>6. Never(toClient'[h], r)
    <3>1. ASSUME NEW answer \in ServerFrame, toClient'[h] = Append(toClient[h], answer),
                 answer.type = "RECEIPT" =>
                   answer.receipt = LogoutReceipt
                   \/ (HasIds(frame) /\ answer.receipt = frame.ids.receipt)
          PROVE  Never(toClient'[h], r)
      <4>1. ~IsReceipt(answer, r)
        BY <2>4, <2>5, <3>1 DEF IsReceipt, LogoutReceipt
      <4> QED BY <1>3, <2>3, <3>1, <4>1, AppendCounts
    <3> QED BY <2>3, <3>1
  <2>7. \A channel \in DOMAIN session'[h].subs : session'[h].subs[channel].receipt # r
    BY <2>3, <2>4
  <2>8. ASSUME NEW j \in DOMAIN Tail(s), j < i, HasIds(Tail(s)[j])
        PROVE  Tail(s)[j].ids.receipt # r
    <3>1. j \in Nat /\ j + 1 \in DOMAIN s /\ Tail(s)[j] = s[j + 1]
      BY <1>1
    <3>2. j + 1 < i + 1
      BY <2>1, <2>8, <3>1
    <3> QED BY <2>3, <2>8, <3>1, <3>2
  <2> QED BY <2>3, <2>6, <2>7, <2>8
<1> QED BY <1>4, <1>5

(* An answer that is not the receipt of a subscription changes none. *)
LEMMA OtherAnswer ==
  ASSUME Types, NEW h \in Handler, Confirmed(h), UNCHANGED myMap, NEW answer \in ServerFrame,
         toClient'[h] = toClient[h] \/ toClient'[h] = Append(toClient[h], answer),
         session'[h].registered = session[h].registered,
         \A channel \in DOMAIN session'[h].subs :
           /\ channel \in DOMAIN session[h].subs
           /\ session'[h].subs[channel] = session[h].subs[channel]
           /\ ~IsReceipt(answer, session'[h].subs[channel].receipt)
  PROVE  Confirmed(h)'
<1> SUFFICES ASSUME session[h].registered, NEW channel \in DOMAIN session'[h].subs
             PROVE  LET r == session'[h].subs[channel].receipt IN
                    IF r \in myMap THEN Never(toClient'[h], r) ELSE Once(toClient'[h], r)
  BY DEF Confirmed, Never, Once, IsReceipt
<1> DEFINE r == session'[h].subs[channel].receipt
<1>1. IF r \in myMap THEN Never(toClient[h], r) ELSE Once(toClient[h], r)
  BY DEF Confirmed
<1>2. toClient[h] \in Seq(ServerFrame) /\ ~IsReceipt(answer, r)
  BY LinkTypes
<1> QED BY <1>1, <1>2, AppendCounts

LEMMA ServeReceipts ==
  ASSUME Types, Counts, [Next]_vars, NEW h \in Handler, Receipts(h), Serve(h)
  PROVE  Receipts(h)'
<1> DEFINE frame == Head(toServer[h])
           subs == session[h].subs
           Answer(answer) == toClient'[h] = toClient[h] \/ toClient'[h] = Append(toClient[h], answer)
<1>1. /\ toServer[h] \in Seq(ClientFrame) /\ toServer[h] # <<>>
      /\ toServer'[h] = Tail(toServer[h]) /\ UNCHANGED myMap
  BY LinkTypes DEF Serve, Types
<1>2. frame \in ClientFrame /\ frame = toServer[h][1] /\ 1 \in DOMAIN toServer[h]
  BY <1>1, TailIndices
<1>3. /\ [type |-> "CONNECTED"] \in ServerFrame /\ [type |-> "ERROR"] \in ServerFrame
      /\ \A r \in Nat \cup {LogoutReceipt} : [type |-> "RECEIPT", receipt |-> r] \in ServerFrame
  BY DEF ServerFrame
<1>4. ASSUME NEW answer, toClient' = Answered(h, answer)
      PROVE  /\ Answer(answer)
             /\ session[h].registered => toClient'[h] = Append(toClient[h], answer)
  BY <1>4 DEF Answered, Types
<1>5. session[h] \in Session /\ session \in [Handler -> Session]
  BY DEF Types
<1>6. CASE Refuse(h)
  <2>1. ~session'[h].registered /\ DOMAIN session'[h].subs = {}
    <3>1. session' = [session EXCEPT ![h] =
                        [session[h] EXCEPT !.registered = FALSE, !.subs = EmptyMap]]
      BY <1>6 DEF Refuse, Types
    <3>2. session'[h] = [session[h] EXCEPT !.registered = FALSE, !.subs = EmptyMap]
      BY <1>5, <3>1
    <3> QED BY <1>5, <3>2, EmptyMapIsMap DEF Session
  <2>2. Answer([type |-> "ERROR"])
    BY <1>4, <1>6 DEF Refuse
  <2>3. Bounded(h)' /\ Unanswered(h)'
    BY <1>1, <1>3, <2>1, <2>2, ServedFrame
  <2> QED BY <2>1, <2>3 DEF Receipts, Confirmed
<1>7. CASE frame.type = "CONNECT" /\ ~Refuse(h)
  <2>1. Answer([type |-> "CONNECTED"]) /\ UNCHANGED session
    BY <1>4, <1>7 DEF Serve
  <2>2. Bounded(h)' /\ Unanswered(h)'
    BY <1>1, <1>3, <2>1, ServedFrame
  <2>3. Confirmed(h)'
    BY <1>1, <1>3, <2>1, OtherAnswer DEF Receipts, IsReceipt
  <2> QED BY <2>2, <2>3 DEF Receipts
<1>8. CASE frame.type = "SEND"
  <2>1. UNCHANGED <<session, toClient>>
    BY <1>8 DEF Serve
  <2>2. Bounded(h)' /\ Unanswered(h)'
    BY <1>1, <2>1, ServedFrame
  <2>3. Confirmed(h)'
    BY <1>1, <2>1 DEF Receipts, Confirmed, Never, Once, IsReceipt
  <2> QED BY <2>2, <2>3 DEF Receipts
<1>9. CASE frame.type = "DISCONNECT"
  <2>1. ~session'[h].registered /\ DOMAIN session'[h].subs = {}
    <3>1. session' = [session EXCEPT ![h] = NoSession]
      BY <1>9 DEF Serve
    <3>2. session'[h] = NoSession
      BY <1>5, <3>1
    <3> QED BY <3>2, EmptyMapIsMap DEF NoSession
  <2>2. Answer([type |-> "RECEIPT", receipt |-> LogoutReceipt])
    BY <1>4, <1>9 DEF Serve, Receipt
  <2>3. Bounded(h)' /\ Unanswered(h)'
    <3> DEFINE answer == [type |-> "RECEIPT", receipt |-> LogoutReceipt]
    <3>1. answer \in ServerFrame /\ answer.receipt = LogoutReceipt
      BY <1>3
    <3> HIDE DEF answer
    <3>2. toClient'[h] = toClient[h] \/ toClient'[h] = Append(toClient[h], answer)
      BY <2>2 DEF answer
    <3> QED BY <1>1, <2>1, <3>1, <3>2, ServedFrame
  <2> QED BY <2>1, <2>3 DEF Receipts, Confirmed
<1>10. CASE frame.type = "UNSUBSCRIBE"
  <2> DEFINE r == frame.ids.receipt
             answer == [type |-> "RECEIPT", receipt |-> r]
  <2>1. HasIds(frame) /\ frame.ids \in Ids /\ r \in Nat /\ frame.ids.id = r
    BY <1>2, <1>10, LinkTypes DEF HasIds, Receipts, Bounded, Counted
  <2>2. Answer(answer) /\ answer \in ServerFrame
    BY <1>3, <1>4, <1>10, <2>1 DEF Serve, Receipt
  <2>3. /\ session'[h].subs = RemoveValue(subs, frame.ids)
        /\ session'[h].registered = session[h].registered
    BY <1>5, <1>10 DEF Serve, Session
  <2>4. \A channel \in DOMAIN session'[h].subs :
          /\ channel \in DOMAIN subs /\ session'[h].subs[channel] = subs[channel]
          /\ subs[channel] # frame.ids
    BY <2>3 DEF RemoveValue
  <2>5. \A channel \in DOMAIN session'[h].subs : subs[channel].receipt # r
    <3> TAKE channel \in DOMAIN session'[h].subs
    <3>1. subs[channel] \in Ids /\ subs[channel] # frame.ids
      BY <2>4, LinkTypes
    <3>2. subs[channel].id = subs[channel].receipt
      BY <2>4 DEF Receipts, Bounded, Counted
    <3> QED BY <2>1, <3>1, <3>2 DEF Ids
  <2>6. Bounded(h)' /\ Unanswered(h)'
    BY <1>1, <2>1, <2>2, <2>4, ServedFrame
  <2>7. Confirmed(h)'
    BY <1>1, <2>2, <2>3, <2>4, <2>5, OtherAnswer DEF Receipts, IsReceipt
  <2> QED BY <2>6, <2>7 DEF Receipts
<1>11. CASE frame.type = "SUBSCRIBE" /\ ~Refuse(h)
  <2> DEFINE r == frame.ids.receipt
             answer == [type |-> "RECEIPT", receipt |-> r]
  <2>1. HasIds(frame) /\ frame.ids \in Ids /\ r \in Nat
    BY <1>2, <1>11, LinkTypes DEF HasIds
  <2>2. /\ Answer(answer) /\ answer \in ServerFrame
        /\ session[h].registered => toClient'[h] = Append(toClient[h], answer)
    BY <1>3, <1>4, <1>11, <2>1 DEF Serve, Receipt
  <2>3. /\ session'[h].subs = Put(subs, frame.channel, frame.ids)
        /\ session'[h].registered = session[h].registered
    BY <1>5, <1>11 DEF Serve, Session
  <2>4. \A channel \in DOMAIN session'[h].subs :
          \/ channel \in DOMAIN subs /\ session'[h].subs[channel] = subs[channel]
          \/ session'[h].subs[channel] = frame.ids
    BY <2>3 DEF Put
  <2>5. Bounded(h)' /\ Unanswered(h)'
    BY <1>1, <2>1, <2>2, <2>4, ServedFrame
  <2>6. /\ r \notin myMap /\ Never(toClient[h], r)
        /\ \A channel \in DOMAIN subs : subs[channel].receipt # r
    BY <1>2, <1>11 DEF Receipts, Unanswered
  <2>7. Confirmed(h)'
    <3> SUFFICES ASSUME session[h].registered, NEW channel \in DOMAIN session'[h].subs
                 PROVE  LET q == session'[h].subs[channel].receipt IN
                        IF q \in myMap THEN Never(toClient'[h], q) ELSE Once(toClient'[h], q)
      BY <1>1, <2>3 DEF Confirmed, Never, Once, IsReceipt
    <3>1. toClient'[h] = Append(toClient[h], answer) /\ toClient[h] \in Seq(ServerFrame)
      BY <2>2, LinkTypes
    <3>2. CASE session'[h].subs[channel] = frame.ids
      <4>1. Once(toClient'[h], r)
        BY <2>2, <2>6, <3>1, AppendCounts DEF IsReceipt
      <4> QED BY <2>6, <3>2, <4>1
    <3>3. CASE channel \in DOMAIN subs /\ session'[h].subs[channel] = subs[channel]
      <4> DEFINE q == subs[channel].receipt
      <4>1. ~IsReceipt(answer, q)
        BY <2>6, <3>3 DEF IsReceipt
      <4>2. IF q \in myMap THEN Never(toClient[h], q) ELSE Once(toClient[h], q)
        BY <3>3 DEF Receipts, Confirmed
      <4> QED BY <2>2, <3>1, <3>3, <4>1, <4>2, AppendCounts
    <3> QED BY <2>4, <3>2, <3>3
  <2> QED BY <2>5, <2>7 DEF Receipts
<1> QED BY <1>6, <1>7, <1>8, <1>9, <1>10, <1>11 DEF Serve

-----------------------------------------------------------------------------
(* The invariant *)

(* What inputThread sends is counted, and a join's receipt is new. *)
LEMMA DeliverReceipts ==
  ASSUME Types, Counts, [Next]_vars, NEW h \in Handler, Receipts(h),
         NEW frame \in ClientFrame, HasIds(frame) => InputAt("send") /\ frame = input.frame,
         input'.at # "send", Deliver(h, frame),
         UNCHANGED <<tableVars, myMap, session, toClient>>
  PROVE  Receipts(h)'
<1>1. CASE ~session[h].open
  BY <1>1, ReceiptsStay DEF Deliver
<1>2. CASE session[h].open
  <2>1. toServer'[h] = Append(toServer[h], frame)
    BY <1>2 DEF Deliver, Types
  <2>2. Limit' = receiptId + 1
    BY DEF Limit, Joining, tableVars
  <2>3. HasIds(frame) => Counted(frame.ids, Limit')
    <3>1. SUFFICES ASSUME HasIds(frame) PROVE Counted(frame.ids, Limit')
      OBVIOUS
    <3>2. frame.ids.id = frame.ids.receipt /\ frame.ids.receipt <= receiptId
      BY <3>1 DEF Counts, InputAt
    <3>3. frame.ids.receipt \in Int /\ receiptId \in Int
      BY <3>1, LinkTypes DEF Types
    <3> QED BY <2>2, <3>2, <3>3 DEF Counted
  <2>4. frame.type = "SUBSCRIBE" => frame.ids.receipt = Limit
    BY DEF Counts, InputAt, HasIds, Limit, Joining
  <2> QED BY <2>1, <2>3, <2>4, SendReceipts
<1> QED BY <1>1, <1>2

LEMMA PointerKept ==
  ASSUME Types, [Next]_vars, connectionHandlerPtr' \in Handler
  PROVE  \/ UNCHANGED connectionHandlerPtr
         \/ \E h \in Handler : New(h) /\ connectionHandlerPtr' = h
<1>1. connectionHandlerPtr' # NoHandler
  BY ClientAssumption
<1>2. CASE InputStep
  BY <1>1, <1>2 DEF InputStep, TestHandler, New, Connect, SetConnected, TestConnected, PointerIsNull,
              BuildFrame, Send, UnsetConnected, InputDeletes, InputForgets, Report, ReportDone,
              Summary, Crash, sharedVars
<1>3. CASE CommStep
  BY <1>1, <1>3 DEF CommStep, CommTestsConnected, CommTestsPointer, Call, Receive, ReadDeleted,
              ReadFails, Lost, Close, CommDeletes, CommForgets, CommDisconnected, Crash, sharedVars
<1> QED BY <1>2, <1>3 DEF Next, vars, sharedVars, Enter, Serve, Publish, ServerCloses

(* Apart from these actions, none changes what is under way. *)
LEMMA LinksKept ==
  ASSUME [Next]_vars, ~Connect, ~Send, ~Report, ~Receive,
         \A h \in Handler : ~Serve(h) /\ ~Publish(h) /\ ~ServerCloses(h)
  PROVE  UNCHANGED linkVars
<1>1. CASE InputStep
  BY <1>1 DEF InputStep, TestHandler, New, SetConnected, TestConnected, PointerIsNull,
              BuildFrame, UnsetConnected, InputDeletes, InputForgets, ReportDone, Summary, Crash
<1>2. CASE CommStep
  BY <1>2 DEF CommStep, CommTestsConnected, CommTestsPointer, Call, ReadDeleted, ReadFails, Lost,
              Close, CommDeletes, CommForgets, CommDisconnected, Crash
<1> QED BY <1>1, <1>2 DEF Next, vars, Enter

LEMMA ReceiptsKept ==
  ASSUME Types, Present, Counts, [Next]_vars, NEW h \in Handler, connectionHandlerPtr = h,
         Receipts(h), UNCHANGED connectionHandlerPtr
  PROVE  Receipts(h)'
<1>1. CASE Crash
  BY <1>1, ReceiptsStay DEF Crash, linkVars
<1>2. CASE Connect /\ ~Crash
  <2>1. CASE UNCHANGED session
    BY <1>2, <2>1, ReceiptsStay DEF Connect
  <2>2. CASE ~UNCHANGED session
    <3>1. session' = [session EXCEPT ![h] = NewSession] /\ InputAt("connect")
          /\ UNCHANGED <<toServer, toClient>>
      BY <1>2, <2>2 DEF Connect
    <3>2. Silent(h)
      BY <3>1 DEF Present, InputAt
    <3>3. DOMAIN session'[h].subs = {}
      BY <3>1, EmptyMapIsMap DEF NewSession, Types
    <3> QED BY <3>1, <3>2, <3>3, FreshReceipts DEF Silent
  <2> QED BY <2>1, <2>2
<1>3. CASE Send /\ ~Crash
  <2>1. CASE Deliver(h, input.frame) /\ NextCommand
             /\ UNCHANGED <<sharedVars, tableVars, myMap, comm, commands, session, toClient, crashed>>
    <3>1. input.frame \in ClientFrame /\ InputAt("send")
      BY <1>3 DEF Send, InputAt, Types
    <3>2. input'.at # "send"
      BY <2>1 DEF NextCommand, Reading
    <3> QED BY <2>1, <3>1, <3>2, DeliverReceipts
  <2>2. CASE UNCHANGED <<sharedVars, tableVars, myMap, comm, commands, linkVars, crashed>>
    BY <2>2, ReceiptsStay DEF linkVars
  <2> QED BY <1>3, <2>1, <2>2 DEF Send
<1>4. CASE Report /\ ~Crash
  <2>1. UNCHANGED <<tableVars, myMap, session, toClient>> /\ input'.at # "send"
    BY <1>4 DEF Report, InputAt, Types
  <2>2. [type |-> "SEND"] \in ClientFrame /\ ~HasIds([type |-> "SEND"])
    BY DEF ClientFrame, HasIds
  <2>3. CASE Deliver(h, [type |-> "SEND"])
    BY <2>1, <2>2, <2>3, DeliverReceipts
  <2>4. CASE UNCHANGED toServer
    BY <2>1, <2>4, ReceiptsStay
  <2> QED BY <1>4, <2>3, <2>4 DEF Report
<1>5. CASE Receive
  BY <1>5, ReceiveReceipts
<1>6. ASSUME NEW g \in Handler, Serve(g) \/ Publish(g) \/ ServerCloses(g)
      PROVE  Receipts(h)'
  <2>1. UNCHANGED myMap
    BY <1>6 DEF Serve, Publish, ServerCloses
  <2>2. CASE g # h
    <3>1. toServer'[h] = toServer[h] /\ toClient'[h] = toClient[h] /\ session'[h] = session[h]
      BY <1>6, <2>2 DEF Serve, Publish, ServerCloses, Answered, Refuse, Receipt, Types
    <3> QED BY <2>1, <3>1, ReceiptsStay
  <2>3. CASE g = h /\ Serve(h)
    BY <2>3, ServeReceipts
  <2>4. CASE g = h /\ Publish(h)
    <3>1. toClient'[h] = Append(toClient[h], [type |-> "MESSAGE"])
          /\ UNCHANGED <<session, toServer>>
      BY <2>4 DEF Publish, Answered, Types
    <3>2. [type |-> "MESSAGE"] \in ServerFrame
          /\ \A r : ~IsReceipt([type |-> "MESSAGE"], r)
      BY DEF ServerFrame, IsReceipt
    <3>3. toClient[h] \in Seq(ServerFrame)
      BY LinkTypes
    <3>4. \A i \in DOMAIN toClient'[h] :
            toClient'[h][i].type = "RECEIPT" =>
              i \in DOMAIN toClient[h] /\ toClient'[h][i] = toClient[h][i]
      BY <3>1, <3>2, <3>3, AppendIndices
    <3>5. Bounded(h)'
      BY <3>1, <3>4, StillBounded DEF Receipts, Bounded, HasIds
    <3>6. Unanswered(h)'
      BY <2>1, <3>1, <3>2, <3>3, AppendCounts DEF Receipts, Unanswered, Never, IsReceipt, HasIds
    <3>7. Confirmed(h)'
      BY <2>1, <3>1, <3>2, OtherAnswer DEF Receipts
    <3> QED BY <3>5, <3>6, <3>7 DEF Receipts
  <2>5. CASE g = h /\ ServerCloses(h)
    <3>1. session'[h] = NoSession /\ UNCHANGED <<toServer, toClient>>
      BY <2>5 DEF ServerCloses, Types
    <3>2. DOMAIN session'[h].subs = {} /\ ~session'[h].registered
      BY <3>1, EmptyMapIsMap DEF NoSession
    <3>3. Bounded(h)'
      BY <3>1, <3>2, StillBounded DEF Receipts, Bounded, HasIds
    <3>4. Unanswered(h)'
      BY <2>1, <3>1, <3>2 DEF Receipts, Unanswered, Never, IsReceipt, HasIds
    <3>5. Confirmed(h)'
      BY <3>2 DEF Confirmed
    <3> QED BY <3>3, <3>4, <3>5 DEF Receipts
  <2> QED BY <1>6, <2>2, <2>3, <2>4, <2>5
<1>7. CASE /\ ~Connect /\ ~Send /\ ~Report /\ ~Receive
           /\ \A g \in Handler : ~Serve(g) /\ ~Publish(g) /\ ~ServerCloses(g)
  BY <1>7, LinksKept, MapChanges, ReceiptsStay DEF linkVars
<1> QED BY <1>1, <1>2, <1>3, <1>4, <1>5, <1>6, <1>7

LEMMA InitReceipts == Init => ReceiptInv
<1> SUFFICES ASSUME Init PROVE ReceiptInv
  OBVIOUS
<1>1. Present
  BY ClientAssumption DEF Init, Present, Silent, Reading, Testing
<1>2. Counts
  BY EmptyMapIsMap DEF Init, Counts, Reading
<1>3. connectionHandlerPtr \notin Handler
  BY ClientAssumption DEF Init
<1> QED BY <1>1, <1>2, <1>3, InitTypes DEF ReceiptInv

LEMMA NextReceipts == ReceiptInv /\ [Next]_vars => ReceiptInv'
<1> SUFFICES ASSUME ReceiptInv, [Next]_vars PROVE ReceiptInv'
  OBVIOUS
<1>1. Types' /\ Present' /\ Counts'
  BY TypesKept, PresentKept, CountsKept DEF ReceiptInv
<1>2. ASSUME connectionHandlerPtr' \in Handler
      PROVE  Receipts(connectionHandlerPtr)'
  <2>1. CASE UNCHANGED connectionHandlerPtr
    <3>1. PICK h \in Handler : h = connectionHandlerPtr
      BY <1>2, <2>1
    <3>2. Receipts(h)'
      BY <2>1, <3>1, ReceiptsKept DEF ReceiptInv
    <3> QED BY <2>1, <3>1, <3>2 DEF Receipts, Bounded, Unanswered, Confirmed
  <2>2. ASSUME NEW h \in Handler, New(h), connectionHandlerPtr' = h
        PROVE  Receipts(connectionHandlerPtr)'
    <3>1. Silent(h) /\ UNCHANGED linkVars
      BY <2>2 DEF New, ReceiptInv, Present
    <3>2. DOMAIN session'[h].subs = {}
      BY <3>1, EmptyMapIsMap DEF Silent, NoSession, linkVars
    <3>3. Receipts(h)'
      BY <3>1, <3>2, FreshReceipts DEF Silent, linkVars
    <3> QED BY <2>2, <3>3 DEF Receipts, Bounded, Unanswered, Confirmed
  <2> QED BY <1>2, <2>1, <2>2, PointerKept DEF ReceiptInv
<1> QED BY <1>1, <1>2 DEF ReceiptInv

(* The user has been told of each subscription that the server holds for    *)
(* the present connection, once the client has read all that was sent.      *)
THEOREM ReceiptsAlwaysAgree == Spec => []ReceiptsAgree
<1>1. ReceiptInv => ReceiptsAgree
  BY DEF ReceiptInv, Receipts, Confirmed, Once, ReceiptsAgree
<1> QED BY <1>1, InitReceipts, NextReceipts, PTL DEF Spec
=============================================================================
