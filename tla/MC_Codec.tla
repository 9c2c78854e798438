------------------------------ MODULE MC_Codec ------------------------------
(***************************************************************************)
(* TLC instance of DoipCodec: the field values are the ends of their       *)
(* ranges and values whose bytes all differ (32-bit values below 2^31).    *)
(***************************************************************************)
EXTENDS DoipCodec

MC_Vehicle ==
  {[kind |-> "VEHICLE", vin |-> [i \in 1..17 |-> 40 + i], logical_address |-> 4097,
    eid |-> [i \in 1..6 |-> 100 + i], gid |-> [i \in 1..6 |-> 255],
    further_action_required |-> 0, sync_status |-> 16]}
MC_Activate ==
  {[kind |-> "ACTIVATE", source_address |-> 3585, activation_type |-> 224, reserved |-> 0,
    oem_specific |-> 16909060],
   [kind |-> "ACTIVATE", source_address |-> 65535, activation_type |-> 0, reserved |-> 2147483647,
    oem_specific |-> 0]}
MC_Activated ==
  [kind : {"ACTIVATED"}, tester_address : {3585}, entity_address : {4098},
   response_code : {16}, reserved : {0}, oem_specific : {0}]
MC_Diag ==
  [kind : {"DIAG"}, source_address : {3585}, target_address : {4098},
   user_data : {<<>>, <<34>>, [i \in 1..28 |-> i], [i \in 1..29 |-> i]}]
MC_Ack ==
  [kind : {"ACK"}, source_address : {4098}, target_address : {3585}, ack_code : {0, 3}]
MC_Nack == [kind : {"NACK"}, nack_code : {4}]

MC_Messages ==
  MC_Vehicle \cup MC_Activate \cup MC_Activated \cup MC_Diag \cup MC_Ack \cup MC_Nack
    \cup {[kind |-> "IDENTIFY"]}

\* Both sides of every threshold of the encoders.
MC_Sizes == {7, 8, 9, 12, 13, 18, 19, 20, 21, 40, 41, 42}
==============================================================================
