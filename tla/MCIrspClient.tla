---------------------------- MODULE MCIrspClient ----------------------------
(***************************************************************************)
(* A small instance of IrspClient.                                         *)
(***************************************************************************)
EXTENDS IrspClient
=============================================================================
