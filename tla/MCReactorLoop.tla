--------------------------- MODULE MCReactorLoop ---------------------------
(* Instances of ReactorLoop for TLC. *)
EXTENDS ReactorLoop, TLC

CONSTANTS c1, c2

OneEach == [c \in Conn |-> 1]
ThreeEach == [c \in Conn |-> 3]

Symmetric == Permutations(Conn)

=============================================================================
