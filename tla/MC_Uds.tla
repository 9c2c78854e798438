------------------------------- MODULE MC_Uds -------------------------------
(***************************************************************************)
(* TLC instance of UdsServices: the two seeds the code ever holds, their   *)
(* keys and one that fits neither.                                         *)
(***************************************************************************)
EXTENDS UdsServices

CONSTANTS keyOfZero, keyOfFixed, keyOther

MC_Seed == {ZeroSeed, FixedSeed}
MC_Key == {keyOfZero, keyOfFixed, keyOther}
MC_ExpectedKey == [s \in MC_Seed |-> IF s = ZeroSeed THEN keyOfZero ELSE keyOfFixed]

\* Every implemented service and one that is not (0x31); 0xF1 begins the DIDs.
MC_Sid == {16, 17, 34, 39, 49, 62}
MC_Byte0 == {0, 1, 2, 3, 128, 241}
MC_Byte1 == {0, 144}
MC_UserLen == {0, 1, 2, 3, 5, 6}
=============================================================================
