------------------------------ MODULE MCRuntime ------------------------------
(***************************************************************************)
(* A small instance of Runtime.                                            *)
(***************************************************************************)
EXTENDS Runtime
CONSTANTS c1, c2
=============================================================================
