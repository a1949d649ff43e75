----------------------- MODULE ThreadPerClientProofs -----------------------
(***************************************************************************)
(* Theorems about ThreadPerClient, for any number of clients, channels and *)
(* frames and any size of the buffers.                                     *)
(***************************************************************************)
EXTENDS ThreadPerClient, TLAPS

(* The threads in a synchronized block *)
InMonitor == {"visit", "copy"}

Types ==
  /\ at \in [Conn -> Label]
  /\ frame \in [Conn -> Frame \cup {NoFrame}]
  /\ todo \in [Conn -> SUBSET Conn]
  /\ target \in [Conn -> Conn \cup {Nobody}]
  /\ subscribers \in [Channel -> SUBSET Conn]
  /\ monitor \in [Channel -> Conn \cup {Nobody}]
  /\ handlers \in SUBSET Conn
  /\ unread \in [Conn -> 0 .. Window]
  /\ frames \in [Conn -> Nat]
  /\ written \in [Conn -> Seq(Channel \X Conn \X Nat)]

(* The frame of a thread has a channel while it is used, and a thread has a *)
(* socket to write to exactly while it writes.                              *)
Fits(c) ==
  /\ target[c] \in (IF at[c] \in DOMAIN After THEN Conn ELSE {Nobody})
  /\ at[c] \in InMonitor \cup {"SUBSCRIBE", "UNSUBSCRIBE", "SEND"} => frame[c].channel \in Channel

Monitors ==
  \A channel \in Channel, c \in Conn :
    monitor[channel] = c <=> at[c] \in InMonitor /\ frame[c].channel = channel

TypeInv == Types /\ (\A c \in Conn : Fits(c)) /\ Monitors

(* The socket e has got nothing of p's channel since p wrote to it, and p   *)
(* writes no second time to it.                                             *)
Covered(p, e) ==
  \A i \in DOMAIN written[e] :
    written[e][i] = Message(p) =>
      /\ e \notin todo[p] /\ target[p] # e
      /\ \A j \in DOMAIN written[e] : i < j => written[e][j][1] # frame[p].channel

Broadcasting(p) ==
  at[p] \in InMonitor => target[p] \notin todo[p] /\ \A e \in Conn : Covered(p, e)

(* No message of p is ahead of its frames, and none is written before p is  *)
(* in the monitor.                                                          *)
Numbered(p) ==
  \A e \in Conn : \A i \in DOMAIN written[e] :
    written[e][i][2] = p =>
      /\ written[e][i][3] <= frames[p]
      /\ at[p] = "SEND" => written[e][i][3] < frames[p]

OrderInv == (\A p \in Conn : Broadcasting(p) /\ Numbered(p)) /\ SameOrder

-----------------------------------------------------------------------------
LEMMA AfterLabels ==
  /\ DOMAIN After = {"copy", "receipt", "error", "bye"}
  /\ After["copy"] = "visit" /\ After["receipt"] = "read"
  /\ After["error"] = "unregister" /\ After["bye"] = "unregister"
BY DEF After

LEMMA FrameType ==
  ASSUME NEW f \in Frame
  PROVE  /\ f.type \in {"SUBSCRIBE", "UNSUBSCRIBE", "SEND", "DISCONNECT"}
         /\ f.type # "DISCONNECT" => f.channel \in Channel
BY DEF Frame

(* A write leaves the buffers within the window. *)
LEMMA WriteUnread ==
  ASSUME TypeInv, NEW c \in Conn, Write(c)
  PROVE  unread' \in [Conn -> 0 .. Window]
<1>0. unread \in [Conn -> 0 .. Window] /\ Window \in Nat /\ target[c] \in Conn
  BY ThreadPerClientAssumption DEF TypeInv, Types, Fits, Write
<1>1. CASE UNCHANGED unread
  BY <1>0, <1>1
<1>2. CASE /\ unread[target[c]] < Window
           /\ unread' = [unread EXCEPT ![target[c]] = @ + 1]
  <2>1. unread[target[c]] + 1 \in 0 .. Window
    BY <1>0, <1>2
  <2> QED BY <1>0, <1>2, <2>1
<1> QED BY <1>1, <1>2 DEF Write

LEMMA WriteWritten ==
  ASSUME TypeInv, NEW c \in Conn, Write(c)
  PROVE  /\ written' \in [Conn -> Seq(Channel \X Conn \X Nat)]
         /\ \/ UNCHANGED written
            \/ /\ at[c] = "copy" /\ target[c] \in Conn
               /\ written' = [written EXCEPT ![target[c]] = Append(@, Message(c))]
<1>1. /\ written \in [Conn -> Seq(Channel \X Conn \X Nat)]
      /\ at[c] \in DOMAIN After /\ target[c] \in Conn
  BY DEF TypeInv, Types, Fits, Write
<1>2. CASE UNCHANGED written
  BY <1>1, <1>2
<1>3. CASE /\ at[c] = "copy"
           /\ written' = [written EXCEPT ![target[c]] = Append(@, Message(c))]
  <2>1. Message(c) \in Channel \X Conn \X Nat
    BY <1>3 DEF Message, TypeInv, Types, Fits, InMonitor
  <2>2. Append(written[target[c]], Message(c)) \in Seq(Channel \X Conn \X Nat)
    BY <1>1, <2>1
  <2> QED BY <1>1, <1>3, <2>2
<1> QED BY <1>2, <1>3 DEF Write

(* A step of a thread keeps the types. *)
LEMMA TypesKept ==
  ASSUME TypeInv, [Next]_vars
  PROVE  Types'
<1> USE DEF TypeInv, Types, Go, threadVars, sharedVars, peerVars, Label
<1>1. ASSUME NEW c \in Conn, Accept(c)
      PROVE  Types'
  BY <1>1 DEF Accept
<1>2. ASSUME NEW c \in Conn, NEW f \in Frame, Read(c, f)
      PROVE  Types'
  BY <1>2, FrameType DEF Read
<1>3. ASSUME NEW c \in Conn, End(c)
      PROVE  Types'
  BY <1>3 DEF End
<1>4. ASSUME NEW c \in Conn, Subscribe(c)
      PROVE  Types'
  BY <1>4, AfterLabels DEF Subscribe
<1>5. ASSUME NEW c \in Conn, Unsubscribe(c)
      PROVE  Types'
  BY <1>5, AfterLabels DEF Unsubscribe
<1>6. ASSUME NEW c \in Conn, Disconnect(c)
      PROVE  Types'
  BY <1>6, AfterLabels DEF Disconnect
<1>7. ASSUME NEW c \in Conn, LockSubscribers(c)
      PROVE  Types'
  <2>1. frame[c].channel \in Channel
    BY <1>7 DEF LockSubscribers, Fits
  <2> QED BY <1>7, <2>1 DEF LockSubscribers
<1>8. ASSUME NEW c \in Conn, Visit(c)
      PROVE  Types'
  <2>1. PICK d \in todo[c] :
          /\ todo' = [todo EXCEPT ![c] = @ \ {d}]
          /\ \/ target' = [target EXCEPT ![c] = d] /\ at' = [at EXCEPT ![c] = "copy"]
             \/ UNCHANGED <<at, target>>
    BY <1>8 DEF Visit
  <2>2. d \in Conn /\ "copy" \in Label
    BY AfterLabels
  <2>3. todo' \in [Conn -> SUBSET Conn]
    BY <2>1
  <2>4. target' \in [Conn -> Conn \cup {Nobody}] /\ at' \in [Conn -> Label]
    <3>1. CASE UNCHANGED <<at, target>>
      BY <3>1
    <3>2. CASE target' = [target EXCEPT ![c] = d] /\ at' = [at EXCEPT ![c] = "copy"]
      <4> HIDE DEF Label
      <4> QED BY <2>2, <3>2
    <3> QED BY <2>1, <3>1, <3>2
  <2> QED BY <1>8, <2>3, <2>4 DEF Visit
<1>9. ASSUME NEW c \in Conn, LeaveSubscribers(c)
      PROVE  Types'
  BY <1>9 DEF LeaveSubscribers
<1>10. ASSUME NEW c \in Conn, Write(c)
       PROVE  Types'
  <2>1. unread' \in [Conn -> 0 .. Window]
    BY <1>10, WriteUnread
  <2>2. written' \in [Conn -> Seq(Channel \X Conn \X Nat)]
    BY <1>10, WriteWritten
  <2>3. at' \in [Conn -> Label] /\ target' \in [Conn -> Conn \cup {Nobody}]
    <3>1. After[at[c]] \in Label
      BY <1>10, AfterLabels DEF Write
    <3> QED BY <1>10, <3>1 DEF Write
  <2> QED BY <1>10, <2>1, <2>2, <2>3 DEF Write
<1>11. ASSUME NEW c \in Conn, Unregister(c)
       PROVE  Types'
  BY <1>11 DEF Unregister
<1>12. ASSUME NEW c \in Conn, PeerRead(c)
       PROVE  Types'
  BY <1>12, ThreadPerClientAssumption DEF PeerRead
<1>13. ASSUME NEW c \in Conn, PeerClose(c)
       PROVE  Types'
  BY <1>13 DEF PeerClose
<1>14. CASE UNCHANGED vars
  BY <1>14 DEF vars
<1> QED BY <1>1, <1>2, <1>3, <1>4, <1>5, <1>6, <1>7, <1>8, <1>9, <1>10, <1>11, <1>12,
           <1>13, <1>14 DEF Next, Step

(* What a frame of a thread is used for stays what it is. *)
LEMMA FitsKept ==
  ASSUME TypeInv, [Next]_vars
  PROVE  \A q \in Conn : Fits(q)'
<1> USE AfterLabels DEF TypeInv, Types, Go, Fits, InMonitor, threadVars, sharedVars, peerVars
<1>0. ASSUME NEW q \in Conn,
             at'[q] = at[q] /\ frame'[q] = frame[q] /\ target'[q] = target[q]
      PROVE  Fits(q)'
  BY <1>0
<1>1. ASSUME NEW c \in Conn, Accept(c)
      PROVE  \A q \in Conn : Fits(q)'
  BY <1>1 DEF Accept
<1>2. ASSUME NEW c \in Conn, NEW f \in Frame, Read(c, f)
      PROVE  \A q \in Conn : Fits(q)'
  BY <1>2, FrameType DEF Read
<1>3. ASSUME NEW c \in Conn, End(c)
      PROVE  \A q \in Conn : Fits(q)'
  BY <1>3 DEF End
<1>4. ASSUME NEW c \in Conn, Subscribe(c)
      PROVE  \A q \in Conn : Fits(q)'
  BY <1>4 DEF Subscribe
<1>5. ASSUME NEW c \in Conn, Unsubscribe(c)
      PROVE  \A q \in Conn : Fits(q)'
  BY <1>5 DEF Unsubscribe
<1>6. ASSUME NEW c \in Conn, Disconnect(c)
      PROVE  \A q \in Conn : Fits(q)'
  BY <1>6 DEF Disconnect
<1>7. ASSUME NEW c \in Conn, LockSubscribers(c)
      PROVE  \A q \in Conn : Fits(q)'
  BY <1>7 DEF LockSubscribers
<1>8. ASSUME NEW c \in Conn, Visit(c)
      PROVE  \A q \in Conn : Fits(q)'
  BY <1>8 DEF Visit
<1>9. ASSUME NEW c \in Conn, LeaveSubscribers(c)
      PROVE  \A q \in Conn : Fits(q)'
  BY <1>9 DEF LeaveSubscribers
<1>10. ASSUME NEW c \in Conn, Write(c)
       PROVE  \A q \in Conn : Fits(q)'
  BY <1>10 DEF Write
<1>11. ASSUME NEW c \in Conn, Unregister(c)
       PROVE  \A q \in Conn : Fits(q)'
  BY <1>11 DEF Unregister
<1>12. CASE UNCHANGED threadVars
  BY <1>0, <1>12
<1> QED BY <1>1, <1>2, <1>3, <1>4, <1>5, <1>6, <1>7, <1>8, <1>9, <1>10, <1>11, <1>12
        DEF Next, Step, PeerRead, PeerClose, vars

(* Monitors and the threads in them stay. *)
LEMMA MonitorsUndisturbed ==
  ASSUME Monitors, UNCHANGED monitor,
         \A q \in Conn : \/ at'[q] = at[q] /\ frame'[q] = frame[q]
                         \/ at[q] \notin InMonitor /\ at'[q] \notin InMonitor
                         \/ at[q] \in InMonitor /\ at'[q] \in InMonitor
                              /\ frame'[q] = frame[q]
  PROVE  Monitors'
<1>1. ASSUME NEW k \in Channel, NEW q \in Conn
      PROVE  monitor'[k] = q <=> at'[q] \in InMonitor /\ frame'[q].channel = k
  BY <1>1 DEF Monitors
<1> QED BY <1>1 DEF Monitors

(* A monitor is entered when nobody holds it, and left by the thread that   *)
(* holds it.                                                                *)
LEMMA MonitorsKept ==
  ASSUME TypeInv, [Next]_vars
  PROVE  Monitors'
<1> USE AfterLabels DEF TypeInv, Types, Go, InMonitor, threadVars, sharedVars, peerVars
<1>1. ASSUME NEW c \in Conn, Accept(c)
      PROVE  Monitors'
  BY MonitorsUndisturbed, <1>1 DEF Accept
<1>2. ASSUME NEW c \in Conn, NEW f \in Frame, Read(c, f)
      PROVE  Monitors'
  BY MonitorsUndisturbed, <1>2, FrameType DEF Read
<1>3. ASSUME NEW c \in Conn, End(c)
      PROVE  Monitors'
  BY MonitorsUndisturbed, <1>3 DEF End
<1>4. ASSUME NEW c \in Conn, Subscribe(c)
      PROVE  Monitors'
  BY MonitorsUndisturbed, <1>4 DEF Subscribe
<1>5. ASSUME NEW c \in Conn, Unsubscribe(c)
      PROVE  Monitors'
  BY MonitorsUndisturbed, <1>5 DEF Unsubscribe
<1>6. ASSUME NEW c \in Conn, Disconnect(c)
      PROVE  Monitors'
  BY MonitorsUndisturbed, <1>6 DEF Disconnect
<1>7. ASSUME NEW c \in Conn, LockSubscribers(c)
      PROVE  Monitors'
  <2> DEFINE channel == frame[c].channel
  <2>1. channel \in Channel /\ monitor[channel] = Nobody /\ Nobody \notin Conn
    BY <1>7, ThreadPerClientAssumption DEF LockSubscribers, Fits, Free
  <2>2. /\ monitor' = [monitor EXCEPT ![channel] = c]
        /\ at' = [at EXCEPT ![c] = "visit"] /\ frame' = frame
        /\ at[c] = "SEND"
    BY <1>7 DEF LockSubscribers
  <2>3. ASSUME NEW k \in Channel, NEW q \in Conn
        PROVE  monitor'[k] = q <=> at'[q] \in InMonitor /\ frame'[q].channel = k
    <3>1. CASE q = c /\ k = channel
      BY <2>1, <2>2, <3>1
    <3>2. CASE q = c /\ k # channel
      BY <2>1, <2>2, <3>2 DEF Monitors
    <3>3. CASE q # c
      BY <2>1, <2>2, <3>3 DEF Monitors
    <3> QED BY <3>1, <3>2, <3>3
  <2> QED BY <2>3 DEF Monitors
<1>8. ASSUME NEW c \in Conn, Visit(c)
      PROVE  Monitors'
  BY MonitorsUndisturbed, <1>8 DEF Visit
<1>9. ASSUME NEW c \in Conn, LeaveSubscribers(c)
      PROVE  Monitors'
  <2> DEFINE channel == frame[c].channel
  <2>1. channel \in Channel /\ monitor[channel] = c /\ Nobody \notin Conn
    BY <1>9, ThreadPerClientAssumption DEF LeaveSubscribers, Fits, Monitors
  <2>2. /\ monitor' = [monitor EXCEPT ![channel] = Nobody]
        /\ at' = [at EXCEPT ![c] = "read"] /\ frame' = frame
        /\ at[c] = "visit"
    BY <1>9 DEF LeaveSubscribers
  <2>3. ASSUME NEW k \in Channel, NEW q \in Conn
        PROVE  monitor'[k] = q <=> at'[q] \in InMonitor /\ frame'[q].channel = k
    <3>1. CASE q = c
      BY <2>1, <2>2, <3>1 DEF Monitors
    <3>2. CASE q # c /\ k = channel
      BY <2>1, <2>2, <3>2 DEF Monitors
    <3>3. CASE q # c /\ k # channel
      BY <2>1, <2>2, <3>3 DEF Monitors
    <3> QED BY <3>1, <3>2, <3>3
  <2> QED BY <2>3 DEF Monitors
<1>10. ASSUME NEW c \in Conn, Write(c)
       PROVE  Monitors'
  BY MonitorsUndisturbed, <1>10 DEF Write
<1>11. ASSUME NEW c \in Conn, Unregister(c)
       PROVE  Monitors'
  BY MonitorsUndisturbed, <1>11 DEF Unregister
<1>12. CASE UNCHANGED <<threadVars, monitor>>
  BY <1>12, MonitorsUndisturbed
<1> QED BY <1>1, <1>2, <1>3, <1>4, <1>5, <1>6, <1>7, <1>8, <1>9, <1>10, <1>11, <1>12
        DEF Next, Step, PeerRead, PeerClose, vars

LEMMA InitTypes == Init => TypeInv
<1> SUFFICES ASSUME Init PROVE TypeInv
  OBVIOUS
<1>1. Types
  BY ThreadPerClientAssumption DEF Init, Types, Label
<1>2. \A c \in Conn : Fits(c)
  BY AfterLabels DEF Init, Fits, InMonitor
<1>3. Monitors
  BY ThreadPerClientAssumption DEF Init, Monitors, InMonitor
<1> QED BY <1>1, <1>2, <1>3 DEF TypeInv

LEMMA TypeInvAlways == Spec => []TypeInv
<1>1. TypeInv /\ [Next]_vars => TypeInv'
  BY TypesKept, FitsKept, MonitorsKept DEF TypeInv
<1> QED BY InitTypes, <1>1, PTL DEF Spec

(* A thread holds the monitor of its frame's channel exactly while it       *)
(* broadcasts, and nobody holds two.                                        *)
THEOREM ClientThreadsTyped == Spec => []TypeOK
<1>1. TypeInv => TypeOK
  <2> SUFFICES ASSUME TypeInv PROVE TypeOK
    OBVIOUS
  <2>1. ASSUME NEW c \in Conn
        PROVE  /\ target[c] \in (IF at[c] \in DOMAIN After THEN Conn ELSE {Nobody})
               /\ {channel \in Channel : monitor[channel] = c} =
                    (IF at[c] \in {"visit", "copy"} THEN {frame[c].channel} ELSE {})
    <3>1. Fits(c) /\ Monitors
      BY DEF TypeInv
    <3> QED BY <3>1 DEF Fits, Monitors, InMonitor
  <2> QED BY <2>1 DEF TypeInv, Types, TypeOK
<1> QED BY <1>1, TypeInvAlways, PTL

-----------------------------------------------------------------------------
(* A step that writes nothing disturbs at most the thread that makes it. *)
LEMMA OthersUndisturbed ==
  ASSUME OrderInv, UNCHANGED written, NEW c \in Conn,
         \A q \in Conn \ {c} : /\ at'[q] = at[q] /\ frame'[q] = frame[q]
                               /\ todo'[q] = todo[q] /\ target'[q] = target[q]
                               /\ frames'[q] = frames[q],
         Broadcasting(c)', Numbered(c)'
  PROVE  OrderInv'
<1>1. SameOrder'
  BY DEF OrderInv, SameOrder, Before
<1>2. ASSUME NEW q \in Conn \ {c}
      PROVE  Broadcasting(q)' /\ Numbered(q)'
  <2>1. Broadcasting(q) /\ Numbered(q)
    BY DEF OrderInv
  <2>2. Message(q)' = Message(q)
    BY DEF Message
  <2>3. \A e \in Conn : Covered(q, e)' = Covered(q, e)
    BY <2>2 DEF Covered
  <2>4. Broadcasting(q)'
    BY <2>1, <2>3 DEF Broadcasting
  <2>5. Numbered(q)'
    BY <2>1 DEF Numbered
  <2> QED BY <2>4, <2>5
<1> QED BY <1>1, <1>2 DEF OrderInv

(* A thread that neither enters a monitor nor comes to do so *)
LEMMA QuietStep ==
  ASSUME OrderInv, UNCHANGED <<written, frames>>, NEW c \in Conn,
         \A q \in Conn \ {c} : /\ at'[q] = at[q] /\ frame'[q] = frame[q]
                               /\ todo'[q] = todo[q] /\ target'[q] = target[q],
         at'[c] \notin InMonitor \cup {"SEND"}
  PROVE  OrderInv'
<1>1. Broadcasting(c)'
  BY DEF Broadcasting
<1>2. Numbered(c)'
  BY DEF Numbered, OrderInv
<1> QED BY <1>1, <1>2, OthersUndisturbed

LEMMA ReadKeepsOrder ==
  ASSUME TypeInv, OrderInv, NEW c \in Conn, NEW f \in Frame, Read(c, f)
  PROVE  OrderInv'
<1>1. /\ at'[c] = f.type /\ frames[c] \in Nat /\ frames'[c] = frames[c] + 1
      /\ UNCHANGED written
  BY DEF Read, Go, TypeInv, Types
<1>2. Broadcasting(c)'
  BY <1>1, FrameType DEF Broadcasting, InMonitor
<1>3. Numbered(c)'
  <2> SUFFICES ASSUME NEW e \in Conn, NEW i \in DOMAIN written[e], written[e][i][2] = c
               PROVE  written[e][i][3] \in Nat /\ written[e][i][3] < frames[c] + 1
    BY <1>1 DEF Numbered
  <2>1. written[e][i][3] <= frames[c]
    BY DEF OrderInv, Numbered
  <2>2. written[e] \in Seq(Channel \X Conn \X Nat)
    BY DEF TypeInv, Types
  <2>3. written[e][i] \in Channel \X Conn \X Nat
    BY <2>2
  <2>4. written[e][i][3] \in Nat
    BY <2>3
  <2> QED BY <1>1, <2>1, <2>4
<1> QED BY <1>1, <1>2, <1>3, OthersUndisturbed DEF Read, Go, TypeInv, Types

(* A thread that enters a monitor has written none of its message yet. *)
LEMMA LockKeepsOrder ==
  ASSUME TypeInv, OrderInv, NEW c \in Conn, LockSubscribers(c)
  PROVE  OrderInv'
<1>1. /\ at[c] = "SEND" /\ at'[c] = "visit"
      /\ UNCHANGED <<frame, target, frames, written>>
  BY DEF LockSubscribers, Go, TypeInv, Types, peerVars
<1>2. target[c] = Nobody /\ Nobody \notin Conn /\ todo'[c] \subseteq Conn
  <2>1. target[c] = Nobody
    BY <1>1, AfterLabels DEF TypeInv, Fits
  <2>2. todo' \in [Conn -> SUBSET Conn]
    BY TypesKept DEF Next, Step, Types
  <2> QED BY <2>1, <2>2, ThreadPerClientAssumption
<1>3. ASSUME NEW e \in Conn, NEW i \in DOMAIN written[e]
      PROVE  written[e][i] # Message(c)
  <2>1. written[e][i][2] = c => written[e][i][3] < frames[c]
    BY <1>1 DEF OrderInv, Numbered
  <2>2. frames[c] \in Nat
    BY DEF TypeInv, Types
  <2> QED BY <2>1, <2>2 DEF Message
<1>4. Message(c)' = Message(c)
  BY <1>1 DEF Message
<1>5. Broadcasting(c)'
  BY <1>1, <1>2, <1>3, <1>4 DEF Broadcasting, Covered
<1>6. Numbered(c)'
  BY <1>1 DEF OrderInv, Numbered
<1> QED BY <1>1, <1>5, <1>6, OthersUndisturbed DEF LockSubscribers, Go, TypeInv, Types

(* Only receivers that are still to be visited are chosen. *)
LEMMA VisitKeepsOrder ==
  ASSUME TypeInv, OrderInv, NEW c \in Conn, Visit(c)
  PROVE  OrderInv'
<1>1. PICK d \in todo[c] :
        /\ todo' = [todo EXCEPT ![c] = @ \ {d}]
        /\ \/ target' = [target EXCEPT ![c] = d] /\ at' = [at EXCEPT ![c] = "copy"]
           \/ UNCHANGED <<at, target>>
  BY DEF Visit, Go
<1>2. at[c] = "visit" /\ UNCHANGED <<frame, frames, written>>
  BY DEF Visit, peerVars
<1>3. /\ at \in [Conn -> Label] /\ todo \in [Conn -> SUBSET Conn]
      /\ target \in [Conn -> Conn \cup {Nobody}] /\ target[c] = Nobody
      /\ Nobody \notin Conn
  BY <1>2, AfterLabels, ThreadPerClientAssumption DEF TypeInv, Types, Fits
<1>4. Broadcasting(c)
  BY DEF OrderInv
<1>5. /\ todo'[c] = todo[c] \ {d}
      /\ target'[c] = d \/ target'[c] = Nobody
      /\ at'[c] \in {"visit", "copy"}
  BY <1>1, <1>2, <1>3
<1>6. Message(c)' = Message(c)
  BY <1>2 DEF Message
<1>7. target'[c] \notin todo'[c]
  BY <1>3, <1>5
<1>8. ASSUME NEW e \in Conn
      PROVE  Covered(c, e)'
  <2>1. Covered(c, e)
    BY <1>2, <1>4 DEF Broadcasting, InMonitor
  <2>2. ASSUME NEW i \in DOMAIN written[e], written[e][i] = Message(c)
        PROVE  e \notin todo'[c] /\ target'[c] # e
    BY <1>3, <1>5, <2>1, <2>2 DEF Covered
  <2> QED BY <1>2, <1>6, <2>1, <2>2 DEF Covered
<1>9. Broadcasting(c)'
  BY <1>7, <1>8 DEF Broadcasting
<1>10. Numbered(c)'
  BY <1>2, <1>5 DEF OrderInv, Numbered
<1>11. \A q \in Conn \ {c} : /\ at'[q] = at[q] /\ frame'[q] = frame[q]
                             /\ todo'[q] = todo[q] /\ target'[q] = target[q]
                             /\ frames'[q] = frames[q]
  BY <1>1, <1>2, <1>3
<1> QED BY <1>2, <1>9, <1>10, <1>11, OthersUndisturbed

-----------------------------------------------------------------------------
(* The write of a copy: m is appended to what has been written to d. *)
LEMMA AppendFacts ==
  ASSUME NEW S, written \in [Conn -> Seq(S)], NEW d \in Conn, NEW m \in S,
         written' = [written EXCEPT ![d] = Append(@, m)]
  PROVE  /\ \A e \in Conn \ {d} : written'[e] = written[e]
         /\ Len(written[d]) \in Nat
         /\ DOMAIN written[d] = 1 .. Len(written[d])
         /\ DOMAIN written'[d] = 1 .. Len(written[d]) + 1
         /\ \A i \in DOMAIN written[d] : written'[d][i] = written[d][i]
         /\ written'[d][Len(written[d]) + 1] = m
<1>1. written[d] \in Seq(S) /\ written'[d] = Append(written[d], m)
  OBVIOUS
<1> QED BY <1>1

(* An element of what is written after the step is an old one or the new.   *)
LEMMA OldOrNew ==
  ASSUME NEW S, written \in [Conn -> Seq(S)], NEW d \in Conn, NEW m \in S,
         written' = [written EXCEPT ![d] = Append(@, m)],
         NEW e \in Conn, NEW i \in DOMAIN written'[e]
  PROVE  \/ i \in DOMAIN written[e] /\ written'[e][i] = written[e][i]
         \/ /\ e = d /\ written'[e][i] = m
            /\ \A j \in DOMAIN written'[e] : ~(i < j)
            /\ i \notin DOMAIN written[e]
BY AppendFacts

LEMMA CopyKeepsOrder ==
  ASSUME TypeInv, OrderInv, NEW c \in Conn, Write(c), at[c] = "copy", target[c] \in Conn,
         written' = [written EXCEPT ![target[c]] = Append(@, Message(c))]
  PROVE  OrderInv'
<1> DEFINE d == target[c]
           m == Message(c)
           S == Channel \X Conn \X Nat
<1>1. /\ written \in [Conn -> Seq(S)] /\ m \in S /\ d \in Conn
      /\ m[1] = frame[c].channel /\ m[2] = c /\ m[3] = frames[c]
  BY DEF Message, TypeInv, Types, Fits, InMonitor
<1>2. /\ UNCHANGED <<frame, todo, frames>>
      /\ at'[c] = "visit" /\ target'[c] = Nobody
      /\ \A q \in Conn \ {c} : at'[q] = at[q] /\ target'[q] = target[q]
  BY AfterLabels DEF Write, Go, TypeInv, Types, peerVars
<1>3. \A p \in Conn : Message(p)' = Message(p)
  BY <1>2 DEF Message
<1>4. \A e \in Conn : Covered(c, e)
  BY DEF OrderInv, Broadcasting, InMonitor
<1>5. \A i \in DOMAIN written[d] : written[d][i] # m
  BY <1>1, <1>4 DEF Covered
<1>7. \A e \in Conn : \A i, j \in DOMAIN written[e] :
        i < j /\ written[e][i] = m => written[e][j][1] # m[1]
  BY <1>1, <1>4 DEF Covered
<1>0. written' = [written EXCEPT ![d] = Append(@, m)]
  OBVIOUS
<1> HIDE DEF d, m, S
<1>6. \A e \in Conn : \A i \in DOMAIN written'[e] :
        \/ i \in DOMAIN written[e] /\ written'[e][i] = written[e][i]
        \/ /\ e = d /\ written'[e][i] = m
           /\ \A j \in DOMAIN written'[e] : ~(i < j)
           /\ i \notin DOMAIN written[e]
  BY <1>0, <1>1, OldOrNew
<1>8. SameOrder'
  <2> SUFFICES ASSUME NEW e \in Conn, NEW g \in Conn,
                      NEW i \in DOMAIN written'[e], NEW j \in DOMAIN written'[e], i < j,
                      written'[e][i][1] = written'[e][j][1],
                      Before(written[g], written[e][j], written[e][i])'
               PROVE  FALSE
    BY DEF SameOrder
  <2>0. PICK k, l \in DOMAIN written'[g] :
          k < l /\ written'[g][k] = written'[e][j] /\ written'[g][l] = written'[e][i]
    BY DEF Before
  <2>1. i \in DOMAIN written[e] /\ written'[e][i] = written[e][i]
    BY <1>6
  <2>2. k \in DOMAIN written[g] /\ written'[g][k] = written[g][k]
    BY <1>6, <2>0
  <2>3. CASE j \in DOMAIN written[e] /\ l \in DOMAIN written[g]
    <3>1. written'[e][j] = written[e][j] /\ written'[g][l] = written[g][l]
      BY <1>6, <2>3
    <3>2. /\ written[e][i][1] = written[e][j][1]
          /\ written[g][k] = written[e][j] /\ written[g][l] = written[e][i]
      BY <2>0, <2>1, <2>2, <3>1
    <3>3. Before(written[g], written[e][j], written[e][i])
      BY <2>0, <2>2, <2>3, <3>2 DEF Before
    <3> QED BY <2>1, <2>3, <3>2, <3>3 DEF OrderInv, SameOrder
  <2>4. CASE j \notin DOMAIN written[e]
    <3>1. e = d /\ written'[e][j] = m
      BY <1>6, <2>4
    <3>2. written[g][k] = m
      BY <2>0, <2>2, <3>1
    <3>3. CASE l \in DOMAIN written[g]
      <4>1. written'[g][l] = written[g][l]
        BY <1>6, <3>3
      <4>2. written[g][l][1] = m[1]
        BY <2>0, <2>1, <3>1, <4>1
      <4> QED BY <1>7, <2>0, <2>2, <3>2, <3>3, <4>2
    <3>4. CASE l \notin DOMAIN written[g]
      <4>1. g = d
        BY <1>6, <3>4
      <4> QED BY <1>5, <2>2, <3>2, <4>1
    <3> QED BY <3>3, <3>4
  <2>5. CASE l \notin DOMAIN written[g]
    <3>1. g = d /\ written'[g][l] = m
      BY <1>6, <2>5
    <3>2. written[e][i] = m
      BY <2>0, <2>1, <3>1
    <3>3. CASE j \in DOMAIN written[e]
      <4>1. written'[e][j] = written[e][j]
        BY <1>6, <3>3
      <4>2. written[e][j][1] = m[1]
        BY <2>1, <3>2, <4>1
      <4> QED BY <1>7, <2>0, <2>1, <3>2, <3>3, <4>2
    <3>4. CASE j \notin DOMAIN written[e]
      BY <2>4, <3>4
    <3> QED BY <3>3, <3>4
  <2> QED BY <2>3, <2>4, <2>5
<1>9. ASSUME NEW p \in Conn
      PROVE  Numbered(p)'
  <2> SUFFICES ASSUME NEW e \in Conn, NEW i \in DOMAIN written'[e], written'[e][i][2] = p
               PROVE  /\ written'[e][i][3] <= frames[p]
                      /\ at'[p] = "SEND" => written'[e][i][3] < frames[p]
    BY <1>2 DEF Numbered
  <2>1. CASE i \in DOMAIN written[e] /\ written'[e][i] = written[e][i]
    BY <1>2, <2>1 DEF OrderInv, Numbered
  <2>2. CASE written'[e][i] = m
    <3>1. p = c /\ written'[e][i][3] = frames[c] /\ frames[c] \in Nat
      BY <1>1, <2>2 DEF TypeInv, Types
    <3> QED BY <1>2, <3>1
  <2> QED BY <1>6, <2>1, <2>2
<1>10. ASSUME NEW e \in Conn
       PROVE  Covered(c, e)'
  <2> SUFFICES ASSUME NEW i \in DOMAIN written'[e], written'[e][i] = m
               PROVE  /\ e \notin todo[c] /\ Nobody # e
                      /\ \A j \in DOMAIN written'[e] :
                           i < j => written'[e][j][1] # m[1]
    BY <1>1, <1>2, <1>3 DEF Covered, m
  <2>1. Nobody # e
    BY ThreadPerClientAssumption
  <2>2. CASE i \in DOMAIN written[e] /\ written'[e][i] = written[e][i]
    <3>1. e \notin todo[c] /\ e # d
      BY <1>4, <2>2 DEF Covered, m, d
    <3>2. \A j \in DOMAIN written'[e] :
            j \in DOMAIN written[e] /\ written'[e][j] = written[e][j]
      BY <1>6, <3>1
    <3> QED BY <1>7, <2>1, <2>2, <3>1, <3>2
  <2>3. CASE e = d /\ \A j \in DOMAIN written'[e] : ~(i < j)
    <3>1. d \notin todo[c]
      BY DEF d, OrderInv, Broadcasting, InMonitor
    <3> QED BY <2>1, <2>3, <3>1
  <2> QED BY <1>6, <2>2, <2>3
<1>11. Broadcasting(c)'
  <2>1. Nobody \notin todo[c]
    BY ThreadPerClientAssumption DEF TypeInv, Types
  <2> QED BY <1>2, <1>10, <2>1 DEF Broadcasting
<1>12. ASSUME NEW p \in Conn \ {c}
       PROVE  Broadcasting(p)'
  <2> SUFFICES ASSUME at[p] \in InMonitor
               PROVE  target[p] \notin todo[p] /\ \A e \in Conn : Covered(p, e)'
    BY <1>2 DEF Broadcasting
  <2>1. target[p] \notin todo[p] /\ \A e \in Conn : Covered(p, e)
    BY DEF OrderInv, Broadcasting
  <2>2. m[1] # frame[p].channel
    <3>1. m[1] \in Channel /\ monitor[m[1]] = c
      BY <1>1 DEF TypeInv, Monitors, Fits, InMonitor
    <3>2. frame[p].channel \in Channel /\ monitor[frame[p].channel] = p
      BY DEF TypeInv, Monitors, Fits
    <3> QED BY <3>1, <3>2
  <2>3. m # Message(p)
    BY <2>2, <1>1 DEF Message
  <2>4. ASSUME NEW e \in Conn
        PROVE  Covered(p, e)'
    <3> SUFFICES ASSUME NEW i \in DOMAIN written'[e], written'[e][i] = Message(p)
                 PROVE  /\ e \notin todo[p] /\ target[p] # e
                        /\ \A j \in DOMAIN written'[e] :
                             i < j => written'[e][j][1] # frame[p].channel
      BY <1>2, <1>3 DEF Covered
    <3>1. i \in DOMAIN written[e] /\ written[e][i] = Message(p)
      BY <1>6, <2>3
    <3>2. /\ e \notin todo[p] /\ target[p] # e
          /\ \A j \in DOMAIN written[e] :
               i < j => written[e][j][1] # frame[p].channel
      BY <2>1, <3>1 DEF Covered
    <3> QED BY <1>6, <2>2, <3>2
  <2> QED BY <2>1, <2>4
<1> QED BY <1>8, <1>9, <1>11, <1>12 DEF OrderInv

(* A write that writes no copy *)
LEMMA OtherWriteKeepsOrder ==
  ASSUME TypeInv, OrderInv, NEW c \in Conn, Write(c), UNCHANGED written
  PROVE  OrderInv'
<1>1. /\ UNCHANGED <<frame, todo, frames>>
      /\ at[c] \in {"copy", "receipt", "error", "bye"}
      /\ at'[c] = After[at[c]] /\ target'[c] = Nobody
      /\ \A q \in Conn \ {c} : at'[q] = at[q] /\ target'[q] = target[q]
  BY AfterLabels DEF Write, Go, TypeInv, Types, peerVars
<1>2. CASE at[c] # "copy"
  <2>1. at'[c] \notin InMonitor \cup {"SEND"}
    BY <1>1, <1>2, AfterLabels DEF InMonitor
  <2> QED BY <1>1, <2>1, QuietStep
<1>3. CASE at[c] = "copy"
  <2>1. at'[c] = "visit"
    BY <1>1, <1>3, AfterLabels
  <2>2. Nobody \notin Conn /\ todo[c] \subseteq Conn
    BY ThreadPerClientAssumption DEF TypeInv, Types
  <2>3. Message(c)' = Message(c)
    BY <1>1 DEF Message
  <2>4. \A e \in Conn : Covered(c, e)
    BY <1>3 DEF OrderInv, Broadcasting, InMonitor
  <2>5. \A e \in Conn : Covered(c, e)'
    BY <1>1, <2>2, <2>3, <2>4 DEF Covered
  <2>6. Broadcasting(c)'
    BY <1>1, <2>2, <2>5 DEF Broadcasting
  <2>7. Numbered(c)'
    BY <1>1, <2>1 DEF OrderInv, Numbered
  <2> QED BY <1>1, <2>6, <2>7, OthersUndisturbed
<1> QED BY <1>2, <1>3

LEMMA NextOrder ==
  ASSUME TypeInv, OrderInv, [Next]_vars
  PROVE  OrderInv'
<1> USE DEF TypeInv, Types, Go, InMonitor, threadVars, sharedVars, peerVars
<1>1. ASSUME NEW c \in Conn, Accept(c)
      PROVE  OrderInv'
  BY <1>1, QuietStep DEF Accept
<1>2. ASSUME NEW c \in Conn, NEW f \in Frame, Read(c, f)
      PROVE  OrderInv'
  BY <1>2, ReadKeepsOrder
<1>3. ASSUME NEW c \in Conn, End(c)
      PROVE  OrderInv'
  BY <1>3, QuietStep DEF End
<1>4. ASSUME NEW c \in Conn, Subscribe(c)
      PROVE  OrderInv'
  BY <1>4, QuietStep DEF Subscribe
<1>5. ASSUME NEW c \in Conn, Unsubscribe(c)
      PROVE  OrderInv'
  BY <1>5, QuietStep DEF Unsubscribe
<1>6. ASSUME NEW c \in Conn, Disconnect(c)
      PROVE  OrderInv'
  BY <1>6, QuietStep DEF Disconnect
<1>7. ASSUME NEW c \in Conn, LockSubscribers(c)
      PROVE  OrderInv'
  BY <1>7, LockKeepsOrder
<1>8. ASSUME NEW c \in Conn, Visit(c)
      PROVE  OrderInv'
  BY <1>8, VisitKeepsOrder
<1>9. ASSUME NEW c \in Conn, LeaveSubscribers(c)
      PROVE  OrderInv'
  BY <1>9, QuietStep DEF LeaveSubscribers
<1>10. ASSUME NEW c \in Conn, Write(c)
       PROVE  OrderInv'
  BY <1>10, WriteWritten, CopyKeepsOrder, OtherWriteKeepsOrder
<1>11. ASSUME NEW c \in Conn, Unregister(c)
       PROVE  OrderInv'
  BY <1>11, QuietStep DEF Unregister
<1>12. CASE UNCHANGED <<threadVars, frames, written>>
  <2>1. \A p \in Conn : Message(p)' = Message(p)
    BY <1>12 DEF Message
  <2>2. \A p \in Conn : Broadcasting(p)' /\ Numbered(p)'
    BY <1>12, <2>1 DEF OrderInv, Broadcasting, Covered, Numbered
  <2>3. SameOrder'
    BY <1>12 DEF OrderInv, SameOrder, Before
  <2> QED BY <2>2, <2>3 DEF OrderInv
<1> QED BY <1>1, <1>2, <1>3, <1>4, <1>5, <1>6, <1>7, <1>8, <1>9, <1>10, <1>11, <1>12
        DEF Next, Step, PeerRead, PeerClose, vars

(* The clients of a channel see its messages in one order. *)
THEOREM AlwaysSameOrder == Spec => []SameOrder
<1>1. Init => OrderInv
  BY DEF Init, OrderInv, SameOrder, Broadcasting, Numbered, Covered, InMonitor, Before
<1>2. OrderInv => SameOrder
  BY DEF OrderInv
<1> QED BY <1>1, <1>2, NextOrder, TypeInvAlways, PTL DEF Spec

=============================================================================
