----------------------------- MODULE MC_NetPath -----------------------------
(***************************************************************************)
(* TLC instances of NetPath: two receive buffers, three bytes of data and  *)
(* the FIN; the pools and mailboxes in the proportions of the              *)
(* configuration.                                                          *)
(***************************************************************************)
EXTENDS NetPath
=============================================================================
