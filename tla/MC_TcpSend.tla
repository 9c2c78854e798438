----------------------------- MODULE MC_TcpSend -----------------------------
(***************************************************************************)
(* TLC instances of TcpSend: segments of two bytes and a send buffer that  *)
(* holds one of them and part of another.                                  *)
(***************************************************************************)
EXTENDS TcpSend
=============================================================================
