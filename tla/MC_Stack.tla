------------------------------ MODULE MC_Stack ------------------------------
(***************************************************************************)
(* TLC instances of DoipStack.  The addresses are the ends of the tester   *)
(* range and their neighbours (0x0E00, 0x0FFF; 0x1000 is also the entity). *)
(***************************************************************************)
EXTENDS DoipStack, SequencesExt

CONSTANTS s1, s2, s3

MC_Sock == {s1, s2, s3}
MC_TwoSock == {s1, s2}
MC_Addr == {3583, 3584, 4095, 4096}
MC_TwoAddr == {3584, 4096}

\* No datagrams: discovery shares no state with the connections.
MC_NoDatagrams == {}

\* Two byte values, identifiers of three and two bytes (17 and 6 in the code; the
\* EID begins with a zero there too), payloads of any length up to the longer.
MC_IdByte == {0, 1}
MC_Vin == <<1, 1, 0>>
MC_Eid == <<0, 1>>
MC_Datagrams ==
  [valid : BOOLEAN, type : {"REQ", "REQ_VIN", "REQ_EID", "OTHER"},
   announced : 1..3, brought : BoundedSeq(MC_IdByte, 3)]
=============================================================================
