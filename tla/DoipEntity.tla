------------------------------ MODULE DoipEntity ------------------------------
(***************************************************************************)
(* The connection contexts of the DoIP entity                              *)
(* (src/src/doip/app_doip_entity.c): the callbacks the interface calls     *)
(* with a connection's slot number, the routing-activation and diagnostic  *)
(* handlers, the search for the connection a UDS response goes to, and the *)
(* inactivity timers.                                                      *)
(*                                                                         *)
(* Every operator below is one callback or handler.  The UDS server is     *)
(* called synchronously and always has an answer (module UdsServices,      *)
(* AlwaysAnswered), so a forwarded request is followed by one response.    *)
(***************************************************************************)
EXTENDS DoipInterface

VARIABLES
  connection_id,             \* entity->connections[i].connection_id
  source_address,            \* entity->connections[i].source_address
  is_activated,              \* entity->connections[i].is_activated
  initial_inactivity_timer,  \* entity->connections[i].initial_inactivity_timer
  general_inactivity_timer,  \* entity->connections[i].general_inactivity_timer
  alive_check_pending,       \* entity->connections[i].alive_check_pending
  tx                         \* what the current step handed to tcp_send, in order

connectionVars ==
  <<connection_id, source_address, is_activated, initial_inactivity_timer,
    general_inactivity_timer, alive_check_pending>>
entityVars == <<connectionVars, tx>>

\* Messages the entity sends on TCP: type, the address it is meant for and the
\* response or (N)ACK code.
DOIP_ROUTING_ACT_RES_SUCCESS == 16
DOIP_ROUTING_ACT_RES_UNKNOWN_SOURCE == 0
DOIP_DIAG_NACK_INVALID_SOURCE == 2
DOIP_DIAG_NACK_UNKNOWN_TARGET == 3
RoutingActivationRes(a, code) == [type |-> "RA_RES", to |-> a, code |-> code]
DiagAck(a, code) ==
  [type |-> IF code = 0 THEN "DIAG_ACK" ELSE "DIAG_NACK", to |-> a, code |-> code]
DiagResponse(a) == [type |-> "DIAG", to |-> a, code |-> 0]

TxMessage ==
  [type : {"RA_RES", "DIAG_ACK", "DIAG_NACK", "DIAG"}, to : Addr \cup {NoAddr}, code : 0..16]
TxEntry == [fd : Sock, msg : TxMessage]

EntityTypeOK ==
  /\ connection_id \in [Slot -> Slot \cup {-1}]
  /\ source_address \in [Slot -> Addr \cup {NoAddr}]
  /\ is_activated \in [Slot -> BOOLEAN]
  /\ initial_inactivity_timer \in [Slot -> 0..InitialMs]
  /\ general_inactivity_timer \in [Slot -> 0..GeneralMs]
  /\ alive_check_pending \in [Slot -> BOOLEAN]
  /\ tx \in Seq(TxEntry)

doip_entity_init ==
  /\ connection_id = [i \in Slot |-> -1]
  /\ source_address = [i \in Slot |-> NoAddr]
  /\ is_activated = [i \in Slot |-> FALSE]
  /\ initial_inactivity_timer = [i \in Slot |-> 0]
  /\ general_inactivity_timer = [i \in Slot |-> 0]
  /\ alive_check_pending = [i \in Slot |-> FALSE]
  /\ tx = <<>>

------------------------------------------------------------------------------
X_connected_keeps_activation(i) ==
  /\ connection_id' = [connection_id EXCEPT ![i] = i]
  /\ initial_inactivity_timer' = [initial_inactivity_timer EXCEPT ![i] = InitialMs]
  /\ tx' = <<>>
  /\ UNCHANGED <<source_address, is_activated, general_inactivity_timer, alive_check_pending>>

entity_tcp_connected_callback(i) ==
  /\ connection_id' = [connection_id EXCEPT ![i] = i]
  /\ initial_inactivity_timer' = [initial_inactivity_timer EXCEPT ![i] = InitialMs]
  /\ is_activated' = [is_activated EXCEPT ![i] = FALSE]
  /\ source_address' = [source_address EXCEPT ![i] = NoAddr]
  /\ tx' = <<>>
  /\ UNCHANGED <<general_inactivity_timer, alive_check_pending>>

entity_tcp_disconnected_callback(i) ==
  /\ connection_id' = [connection_id EXCEPT ![i] = -1]
  /\ source_address' = [source_address EXCEPT ![i] = NoAddr]
  /\ is_activated' = [is_activated EXCEPT ![i] = FALSE]
  /\ initial_inactivity_timer' = [initial_inactivity_timer EXCEPT ![i] = 0]
  /\ general_inactivity_timer' = [general_inactivity_timer EXCEPT ![i] = 0]
  /\ alive_check_pending' = [alive_check_pending EXCEPT ![i] = FALSE]
  /\ tx' = <<>>

X_activation_without_source(i, a) ==
  /\ a \in TesterAddress
  /\ is_activated' = [is_activated EXCEPT ![i] = TRUE]
  /\ general_inactivity_timer' = [general_inactivity_timer EXCEPT ![i] = GeneralMs]
  /\ tx' = doip_interface_tcp_send(i, RoutingActivationRes(a, DOIP_ROUTING_ACT_RES_SUCCESS))
  /\ UNCHANGED <<connection_id, source_address, initial_inactivity_timer, alive_check_pending>>

\* The decoder accepts a payload of any length: an address the message does not
\* hold is read from the bytes that follow it, hence any a.
RoutingActivated(i, a) ==
  /\ a \in TesterAddress
  /\ is_activated' = [is_activated EXCEPT ![i] = TRUE]
  /\ source_address' = [source_address EXCEPT ![i] = a]
  /\ general_inactivity_timer' = [general_inactivity_timer EXCEPT ![i] = GeneralMs]
  /\ tx' = doip_interface_tcp_send(i, RoutingActivationRes(a, DOIP_ROUTING_ACT_RES_SUCCESS))
  /\ UNCHANGED <<connection_id, initial_inactivity_timer, alive_check_pending>>

\* An address outside the tester range is refused; an earlier activation of the
\* connection stays as it is.
RoutingRefused(i, a) ==
  /\ a \notin TesterAddress
  /\ tx' = doip_interface_tcp_send(i, RoutingActivationRes(a, DOIP_ROUTING_ACT_RES_UNKNOWN_SOURCE))
  /\ UNCHANGED connectionVars

handle_routing_activation_request(i, a) == RoutingActivated(i, a) \/ RoutingRefused(i, a)

------------------------------------------------------------------------------
\* The contexts a response for address a matches, stale ones included; the loop
\* takes the first and uses the slot number stored in it.
Matches(a) == {j \in Slot : is_activated[j] /\ source_address[j] = a}
FirstMatch(a) == CHOOSE j \in Matches(a) : \A k \in Matches(a) : j <= k

X_response_to_any_activated(a) ==
  LET act == {j \in Slot : is_activated[j]} IN
  IF act = {} THEN <<>>
  ELSE doip_interface_tcp_send(connection_id[CHOOSE j \in act : \A k \in act : j <= k],
                               DiagResponse(a))

doip_entity_send_diagnostic_response(a) ==
  IF Matches(a) = {} THEN <<>>
  ELSE doip_interface_tcp_send(connection_id[FirstMatch(a)], DiagResponse(a))

\* Routing not activated on this connection: NACK, whatever the message holds.
DiagNotActivated(i) ==
  /\ ~is_activated[i]
  /\ tx' = doip_interface_tcp_send(i, DiagAck(NoAddr, DOIP_DIAG_NACK_INVALID_SOURCE))
  /\ UNCHANGED connectionVars

\* Too short to hold two addresses: dropped without an answer.
DiagUndecodable(i) ==
  /\ is_activated[i]
  /\ tx' = <<>>
  /\ UNCHANGED connectionVars

\* Meant for another entity: NACK, addressed to that entity.
DiagUnknownTarget(i, ta) ==
  /\ is_activated[i] /\ ta # LogicalAddress
  /\ tx' = doip_interface_tcp_send(i, DiagAck(ta, DOIP_DIAG_NACK_UNKNOWN_TARGET))
  /\ UNCHANGED connectionVars

\* Acknowledged, handed to the UDS server, whose response is sent before the
\* handler ends, and the inactivity timer restarted.  The source address sa of
\* the request is not compared with the activated one.
DiagAccepted(i, sa) ==
  /\ is_activated[i]
  /\ tx' = doip_interface_tcp_send(i, DiagAck(sa, 0))
             \o doip_entity_send_diagnostic_response(sa)
  /\ general_inactivity_timer' = [general_inactivity_timer EXCEPT ![i] = GeneralMs]
  /\ UNCHANGED <<connection_id, source_address, is_activated, initial_inactivity_timer,
                 alive_check_pending>>

\* DOIP_PAYLOAD_TYPE_ALIVE_CHECK_RES
AliveCheckResponse(i) ==
  /\ alive_check_pending' = [alive_check_pending EXCEPT ![i] = FALSE]
  /\ tx' = <<>>
  /\ UNCHANGED <<connection_id, source_address, is_activated, initial_inactivity_timer,
                 general_inactivity_timer>>

\* An invalid header or an unsupported payload type: consumed, no reaction.
IgnoredMessage ==
  /\ tx' = <<>>
  /\ UNCHANGED connectionVars

------------------------------------------------------------------------------
\* The timer the loop of doip_entity_update_timers looks at for context i, and
\* whether this update finds it expired.  A context is watched from the
\* connected callback on until the disconnected callback: a connection closed
\* by its timer keeps its context.
Watched(i) == connection_id[i] >= 0
Timer(i) == IF is_activated[i] THEN general_inactivity_timer[i] ELSE initial_inactivity_timer[i]

X_expires_a_cycle_early(i) == Watched(i) /\ Timer(i) <= 2 * CycleMs
X_expires_only_when_activated(i) ==
  Watched(i) /\ is_activated[i] /\ general_inactivity_timer[i] <= CycleMs
X_expires_at_zero(i) == Watched(i) /\ Timer(i) = 0

Expired(i) == Watched(i) /\ Timer(i) <= CycleMs

\* The second half of doip_entity_update_timers: every watched context counts
\* down, or has its connection closed; the context itself is left as it is.
UpdateConnectionTimers ==
  /\ initial_inactivity_timer' =
       [i \in Slot |-> IF Watched(i) /\ ~is_activated[i]
                       THEN CountDown(initial_inactivity_timer[i])
                       ELSE initial_inactivity_timer[i]]
  /\ general_inactivity_timer' =
       [i \in Slot |-> IF Watched(i) /\ is_activated[i]
                       THEN CountDown(general_inactivity_timer[i])
                       ELSE general_inactivity_timer[i]]
  /\ CloseSlots({connection_id[i] : i \in {j \in Slot : Expired(j)}})
  /\ UNCHANGED <<connection_id, source_address, is_activated, alive_check_pending, backlog>>
==============================================================================
