------------------------------ MODULE MCTagScan ------------------------------
(***************************************************************************)
(* A small instance of TagScan: the tag "0" has a smaller and a greater    *)
(* neighbour, and the shards split the names every other one.              *)
(***************************************************************************)
EXTENDS TagScan

MCShardOf == [n \in Names |-> 1 + (n % 2)]
MCPatterns == {Names, Names \ {3}}
=============================================================================
