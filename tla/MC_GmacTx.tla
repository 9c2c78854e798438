------------------------------ MODULE MC_GmacTx ------------------------------
(***************************************************************************)
(* TLC instances of GmacTx: a ring of three descriptors, so that it fills  *)
(* up and wraps, and frames of one or two buffers.                         *)
(***************************************************************************)
EXTENDS GmacTx
==============================================================================
