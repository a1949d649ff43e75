-------------------------- MODULE MCBrokerThreads --------------------------
(* Instances of BrokerThreads for TLC. *)
EXTENDS SerialBroker, TLC

(* Values that no definition tells apart; the iteration order tells the     *)
(* channels apart, and CHOOSE the objects.                                  *)
Symmetric == Permutations(Conn) \cup Permutations(Login) \cup Permutations(SubId)

=============================================================================
