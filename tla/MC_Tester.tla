------------------------------ MODULE MC_Tester ------------------------------
(***************************************************************************)
(* TLC instances of DoipTester.                                            *)
(***************************************************************************)
EXTENDS DoipTester

CONSTANTS v1, v2, s1, s2

MC_Vehicle == {v1, v2}
MC_OneVehicle == {v1}
MC_Sock == {s1, s2}
MC_OneSock == {s1}
==============================================================================
