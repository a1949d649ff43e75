------------------------------- MODULE PubSub -------------------------------
(***************************************************************************)
(* What the broker promises its subscribers: a connection that is present  *)
(* may hold one subscription per channel, identified by an id of its own,  *)
(* and a message published on a channel goes to the connections that hold  *)
(* a subscription to it at that moment and to no other.                    *)
(***************************************************************************)
CONSTANTS Conn, Destination, SubId

VARIABLES
  present,         (* the connections the broker can reach                 *)
  subscriptions,   (* the triples <<connection, channel, subscription id>> *)
  delivered        (* the pairs <<connection, channel>> of the last step   *)

vars == <<present, subscriptions, delivered>>

Init ==
  /\ present = {}
  /\ subscriptions = {}
  /\ delivered = {}

Subscribers(channel) ==
  {c \in Conn : \E id \in SubId : <<c, channel, id>> \in subscriptions}

Arrive(c) ==
  /\ present' = present \cup {c}
  /\ delivered' = {}
  /\ UNCHANGED subscriptions

Join(c, channel, id) ==
  /\ c \in present
  /\ c \notin Subscribers(channel)
  /\ subscriptions' = subscriptions \cup {<<c, channel, id>>}
  /\ delivered' = {}
  /\ UNCHANGED present

Part(c, id) ==
  /\ subscriptions' = {s \in subscriptions : ~(s[1] = c /\ s[3] = id)}
  /\ delivered' = {}
  /\ UNCHANGED present

Publish(channel) ==
  /\ delivered' = Subscribers(channel) \X {channel}
  /\ UNCHANGED <<present, subscriptions>>

Leave(c) ==
  /\ present' = present \ {c}
  /\ subscriptions' = {s \in subscriptions : s[1] # c}
  /\ delivered' = {}

(* A step between two publications, such as a login. *)
Quiet ==
  /\ delivered' = {}
  /\ UNCHANGED <<present, subscriptions>>

Next ==
  \/ \E c \in Conn : Arrive(c) \/ Leave(c)
  \/ \E c \in Conn, channel \in Destination, id \in SubId : Join(c, channel, id)
  \/ \E c \in Conn, id \in SubId : Part(c, id)
  \/ \E channel \in Destination : Publish(channel)
  \/ Quiet

Spec == Init /\ [][Next]_vars

=============================================================================
