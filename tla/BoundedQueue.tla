---------------------------- MODULE BoundedQueue ----------------------------
(***************************************************************************)
(* What the lock-free queue and the FIFO it implements have in common: the *)
(* threads that use it, what they put in, and how much it holds.           *)
(***************************************************************************)
EXTENDS Naturals, Sequences, FiniteSets

CONSTANTS Producers, Consumers, Items, Capacity

Ready == "ready"       \* an item is written, and no producer is named so
Nothing == "nothing"   \* default-constructed or moved-from item

ASSUME PartiesAssumption ==
    Ready \notin Producers /\ Producers \cap Consumers = {}
=============================================================================
