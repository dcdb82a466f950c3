------------------------------ MODULE MCRbTree ------------------------------
(* An instance of RbTree for TLC: the last two nodes have the same key.      *)
EXTENDS RbTree

MCNodes == 1 .. 9
MCKey   == [n \in MCNodes |-> IF n = 9 THEN 8 ELSE n]
=============================================================================
