------------------------------ MODULE MCBroker ------------------------------
(* Instances of Broker for TLC. *)
EXTENDS Broker, TLC

CONSTANTS c1, c2, c3, i1, i2, plain, slash

(* Every client may use every id, as clients that count from 0 do. *)
SharedIds == [c \in Conn |-> SubId \cup {NoId}]

(* Client n has the id i_n for itself; the third only publishes. *)
PrivateIds == (c1 :> {i1} @@ c2 :> {i2} @@ c3 :> {})

(* Two channels without a leading "/" and one with. *)
NoSlash == [d \in Destination |-> d]
WithSlash == [d \in Destination |-> IF d = slash THEN plain ELSE d]

(* Values that no definition tells apart, with SharedIds. *)
Symmetric == Permutations(Login) \cup Permutations(Passcode) \cup Permutations(Conn)

=============================================================================
