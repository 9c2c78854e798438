----------------------------- MODULE DoipTester -----------------------------
(***************************************************************************)
(* The diagnostic tester of src/src/doip/app_doip_tester.c: the calls an   *)
(* application makes and the cycle (doip_tester_process, then              *)
(* doip_tester_update_timers) that one task runs between the calls.        *)
(*                                                                         *)
(* The tester owns a doip_interface_t of which it uses the UDP socket and  *)
(* slot 0.  A descriptor stands for one TCP connection: up[s] and down[s]  *)
(* are what travels on it, and the entity at the far end may answer, stay  *)
(* silent or close.  A receive call ends anywhere in the stream: `partial' *)
(* says that the first bytes of the next message are in the slot's buffer  *)
(* already.  doip_tester_connect does not empty that buffer; a stream read *)
(* behind bytes of another connection is not `aligned', and what the parse *)
(* loop finds in it can be anything.  An announcement is abstracted to the *)
(* vehicle that sent it.                                                   *)
(*                                                                         *)
(* lwip_tcp_connect, unlike the other sockets of the adapter, leaves its   *)
(* socket blocking: tcp_recv on slot 0 returns only when there is          *)
(* something to return, and the cycle waits in it.                         *)
(***************************************************************************)
EXTENDS Integers, Sequences, FiniteSets

CONSTANTS
  Vehicle,          \* entities that can be discovered and connected to
  NoVehicle,        \* nothing discovered yet
  Sock, NoSock,     \* descriptors of TCP connections; INVALID_SOCKET
  MaxUdp,           \* UDP sockets lwIP can hold
  ResponseTimeout,  \* config.response_timeout
  CycleMs,          \* DOIP_TESTER_CYCLE_TIME_MS
  MaxWire,          \* bound on messages in flight per direction
  MaxCalls          \* bound on calls of the application

ASSUME TesterAssumption ==
  /\ NoVehicle \notin Vehicle /\ NoSock \notin Sock
  /\ MaxUdp \in Nat /\ MaxWire \in Nat /\ MaxCalls \in Nat
  /\ ResponseTimeout \in Nat \ {0} /\ CycleMs \in Nat \ {0}

VARIABLES
  state,              \* tester->state
  tcp_connection_id,  \* tester->tcp_connection_id
  routing_activated,  \* tester->routing_activated
  timeout_timer,      \* tester->timeout_timer
  entity,             \* tester->entity: address and identity are set separately
  udp_socket,         \* interface->udp_socket >= 0
  socket_fd,          \* interface->connections[0].socket_fd
  partial,            \* interface->connections[0].rx_buffer_used > 0 between cycles
  aligned,            \* the buffer of slot 0 begins where a message of its stream does
  pc, rx,             \* where the cycle is; messages the receive call brought
  udpSockets,         \* lwIP: number of open UDP sockets
  sockets,            \* lwIP: open descriptors of TCP connections
  up, down, fin,      \* per descriptor: requests, answers, far end closed
  accepted,           \* descriptors on which the entity accepted routing
  calls,              \* calls of the application so far
  waited,             \* history: ms counted since the last request (saturates)
  overlaps, rebinds   \* history: connects, discoveries over an open socket

testerVars == <<state, tcp_connection_id, routing_activated, timeout_timer, entity>>
lwipVars == <<udp_socket, socket_fd, udpSockets, sockets, partial, aligned>>
entityVars == <<up, down, fin, accepted>>
historyVars == <<waited, overlaps, rebinds>>
vars == <<testerVars, lwipVars, entityVars, historyVars, pc, rx, calls>>

TesterState == {"IDLE", "DISCOVERY", "CONNECTING", "ACTIVATING", "READY", "ERROR"}
Answer == {"SUCCESS", "CONFIRM_REQUIRED", "DENIED", "DIAG", "OTHER"}
Positive == {"SUCCESS", "CONFIRM_REQUIRED"}
Waiting == state \in {"DISCOVERY", "ACTIVATING"}

TypeOK ==
  /\ state \in TesterState /\ tcp_connection_id \in {-1, 0} /\ routing_activated \in BOOLEAN
  /\ timeout_timer \in 0..ResponseTimeout /\ waited \in 0..(ResponseTimeout + CycleMs)
  /\ entity \in [ip : Vehicle \cup {NoVehicle}, vin : Vehicle \cup {NoVehicle}]
  /\ udp_socket \in BOOLEAN /\ socket_fd \in Sock \cup {NoSock}
  /\ partial \in BOOLEAN /\ aligned \in BOOLEAN
  /\ pc \in {"idle", "tcp", "parse", "timers"} /\ rx \in Seq(Answer)
  /\ udpSockets \in 0..MaxUdp /\ sockets \subseteq Sock
  /\ up \in [Sock -> Seq({"ACTIVATE", "DIAG"})] /\ down \in [Sock -> Seq(Answer)]
  /\ fin \in [Sock -> BOOLEAN] /\ accepted \subseteq sockets
  /\ calls \in 0..MaxCalls
  /\ overlaps \in Nat /\ rebinds \in Nat

doip_tester_init ==
  /\ state = "IDLE" /\ tcp_connection_id = -1
  /\ routing_activated = FALSE /\ timeout_timer = 0
  /\ entity = [ip |-> NoVehicle, vin |-> NoVehicle]

Init ==
  /\ doip_tester_init
  /\ udp_socket = FALSE /\ socket_fd = NoSock /\ udpSockets = 0 /\ sockets = {}
  /\ partial = FALSE /\ aligned = TRUE
  /\ up = [s \in Sock |-> <<>>] /\ down = [s \in Sock |-> <<>>]
  /\ fin = [s \in Sock |-> FALSE] /\ accepted = {}
  /\ pc = "idle" /\ rx = <<>> /\ calls = 0
  /\ waited = 0 /\ overlaps = 0 /\ rebinds = 0

-----------------------------------------------------------------------------
\* The application calls between two cycles, from the tester's own task.

Call ==
  /\ pc = "idle" /\ calls < MaxCalls
  /\ calls' = calls + 1
  /\ UNCHANGED <<pc, rx>>

X_wait_without_timer(s) == state' = s /\ waited' = 0 /\ UNCHANGED timeout_timer

\* A request has left: the tester waits for its answer, response_timeout at most.
StartWaiting(s) ==
  /\ state' = s
  /\ timeout_timer' = ResponseTimeout
  /\ waited' = 0

\* A new UDP socket is bound on every call; what was bound before is forgotten.
\* udp_bind fails when lwIP has no socket left, or for a reason of its own; the
\* adapter has closed the socket then.  `left': did the broadcast leave?
doip_tester_start_discovery(bound, left) ==
  /\ Call
  /\ bound => udpSockets < MaxUdp
  /\ udp_socket' = bound
  /\ udpSockets' = IF bound THEN udpSockets + 1 ELSE udpSockets
  /\ rebinds' = IF udp_socket THEN rebinds + 1 ELSE rebinds
  /\ IF bound /\ left
       THEN StartWaiting("DISCOVERY")
       ELSE UNCHANGED <<state, timeout_timer, waited>>
  /\ UNCHANGED <<tcp_connection_id, routing_activated, entity, socket_fd, sockets,
                 partial, aligned, entityVars, overlaps>>

\* tcp_connect succeeds: slot 0 takes the descriptor, whatever it held before, and
\* keeps rx_buffer_used: bytes of the old stream stay in front of the new one.
doip_tester_connect(v, s) ==
  /\ Call
  /\ s \in Sock \ sockets
  /\ sockets' = sockets \cup {s}
  /\ up' = [up EXCEPT ![s] = <<>>] /\ down' = [down EXCEPT ![s] = <<>>]
  /\ fin' = [fin EXCEPT ![s] = FALSE]
  /\ overlaps' = IF socket_fd = NoSock THEN overlaps ELSE overlaps + 1
  /\ socket_fd' = s
  /\ aligned' = ~partial
  /\ tcp_connection_id' = 0
  /\ state' = "CONNECTING"
  /\ entity' = [entity EXCEPT !.ip = v]
  /\ UNCHANGED <<routing_activated, timeout_timer, udp_socket, udpSockets, partial,
                 accepted, waited, rebinds>>

\* A call that returns an error changes nothing: tcp_connect has no descriptor
\* left or is refused (the adapter closes the descriptor again), slot 0 is not
\* connected, tcp_send fails, or routing is not active.
CallFails ==
  /\ Call
  /\ UNCHANGED <<testerVars, lwipVars, entityVars, waited, overlaps, rebinds>>

\* doip_interface_tcp_send on slot 0: DOIP_RESULT_OK needs a descriptor, and
\* room in the send buffer.
CanSend == tcp_connection_id = 0 /\ socket_fd # NoSock /\ Len(up[socket_fd]) < MaxWire

doip_tester_activate_routing ==
  /\ Call
  /\ CanSend
  /\ up' = [up EXCEPT ![socket_fd] = Append(@, "ACTIVATE")]
  /\ StartWaiting("ACTIVATING")
  /\ UNCHANGED <<tcp_connection_id, routing_activated, entity, lwipVars, down, fin, accepted,
                 overlaps, rebinds>>

doip_tester_send_diagnostic ==
  /\ Call
  /\ routing_activated /\ CanSend
  /\ up' = [up EXCEPT ![socket_fd] = Append(@, "DIAG")]
  /\ UNCHANGED <<testerVars, lwipVars, down, fin, accepted, waited, overlaps, rebinds>>

Application ==
  \/ \E bound, left \in BOOLEAN : doip_tester_start_discovery(bound, left)
  \/ \E v \in Vehicle, s \in Sock : doip_tester_connect(v, s)
  \/ CallFails
  \/ doip_tester_activate_routing
  \/ doip_tester_send_diagnostic

-----------------------------------------------------------------------------
\* The cycle.  First the UDP socket, which is non-blocking.

handle_vehicle_announcement(v) ==
  IF state = "DISCOVERY"
    THEN entity' = [ip |-> v, vin |-> v] /\ state' = "IDLE"
    ELSE UNCHANGED <<entity, state>>

\* udp_recvfrom brings an announcement, or nothing the tester reacts to.
ProcessUdp ==
  /\ pc = "idle"
  /\ pc' = "tcp"
  /\ \/ UNCHANGED <<entity, state>>
     \/ udp_socket /\ \E v \in Vehicle : handle_vehicle_announcement(v)
  /\ UNCHANGED <<tcp_connection_id, routing_activated, timeout_timer, lwipVars, entityVars,
                 historyVars, rx, calls>>

\* Slot 0 is free: nothing to receive.  (The tester never listens.)
NoConnection ==
  /\ pc = "tcp" /\ socket_fd = NoSock
  /\ pc' = "timers"
  /\ UNCHANGED <<testerVars, lwipVars, entityVars, historyVars, rx, calls>>

\* tcp_recv returns the bytes up to the end of the n-th message and, if `cut',
\* some of the next one.
TcpReceive(n, cut) ==
  /\ pc = "tcp" /\ socket_fd # NoSock /\ aligned
  /\ n \in 0..Len(down[socket_fd])
  /\ IF cut THEN n < Len(down[socket_fd]) ELSE n > 0
  /\ rx' = SubSeq(down[socket_fd], 1, n)
  /\ down' = [down EXCEPT ![socket_fd] = SubSeq(@, n + 1, Len(@))]
  /\ partial' = cut
  /\ pc' = "parse"
  /\ UNCHANGED <<testerVars, udp_socket, socket_fd, udpSockets, sockets, aligned, up, fin, accepted,
                 historyVars, calls>>

\* What the parse loop can find in bytes it reads from the middle of a message.
Garbled == UNION {[1..k -> Answer] : k \in 0..MaxWire}

\* The same behind bytes of an earlier connection: message boundaries are lost, so
\* the parse loop finds messages the entity never sent, and any rest.
TcpReceiveGarbled(n) ==
  /\ pc = "tcp" /\ socket_fd # NoSock /\ ~aligned
  /\ down[socket_fd] # <<>> /\ n \in 0..Len(down[socket_fd])
  /\ rx' \in Garbled
  /\ down' = [down EXCEPT ![socket_fd] = SubSeq(@, n + 1, Len(@))]
  /\ partial' \in BOOLEAN
  /\ pc' = "parse"
  /\ UNCHANGED <<testerVars, udp_socket, socket_fd, udpSockets, sockets, aligned, up, fin, accepted,
                 historyVars, calls>>

\* tcp_recv returns 0: the far end has closed, or the buffer is full because a
\* garbled header announces more than it holds.
RecvZero ==
  \/ fin[socket_fd] /\ down[socket_fd] = <<>>
  \/ ~aligned /\ partial

X_close_forgets_descriptor ==
  /\ pc = "tcp" /\ socket_fd # NoSock
  /\ RecvZero
  /\ socket_fd' = NoSock
  /\ pc' = "timers"
  /\ partial' = FALSE /\ aligned' = TRUE
  /\ UNCHANGED <<testerVars, udp_socket, udpSockets, sockets, entityVars, historyVars, rx, calls>>

\* doip_interface_process closes the slot and empties its buffer; the tester
\* passed no disconnected callback and keeps its own state.
TcpClosed ==
  /\ pc = "tcp" /\ socket_fd # NoSock
  /\ RecvZero
  /\ sockets' = sockets \ {socket_fd}
  /\ accepted' = accepted \ {socket_fd}
  /\ socket_fd' = NoSock
  /\ pc' = "timers"
  /\ partial' = FALSE /\ aligned' = TRUE
  /\ UNCHANGED <<testerVars, udp_socket, udpSockets, up, down, fin, historyVars, rx, calls>>

X_any_code_activates(code) ==
  IF state = "ACTIVATING"
    THEN routing_activated' = TRUE /\ state' = "READY"
    ELSE UNCHANGED <<routing_activated, state>>

handle_routing_activation_response(code) ==
  IF state # "ACTIVATING"
    THEN UNCHANGED <<routing_activated, state>>
    ELSE IF code \in Positive
      THEN routing_activated' = TRUE /\ state' = "READY"
      ELSE state' = "ERROR" /\ UNCHANGED routing_activated

\* One message the receive call brought.  A diagnostic message is decoded and
\* dropped: the uds_indication passed to handle_diagnostic_message is NULL.
tester_tcp_rx_callback ==
  /\ pc = "parse" /\ rx # <<>>
  /\ rx' = Tail(rx)
  /\ \/ /\ Head(rx) \in Positive \cup {"DENIED"}
        /\ handle_routing_activation_response(Head(rx))
     \/ /\ Head(rx) \in {"DIAG", "OTHER"}
        /\ UNCHANGED <<routing_activated, state>>
  /\ UNCHANGED <<tcp_connection_id, timeout_timer, entity, lwipVars, entityVars, historyVars, pc, calls>>

ParseDone ==
  /\ pc = "parse" /\ rx = <<>>
  /\ pc' = "timers"
  /\ UNCHANGED <<testerVars, lwipVars, entityVars, historyVars, rx, calls>>

X_timeout_ignored_when_activating ==
  IF timeout_timer > CycleMs
    THEN timeout_timer' = timeout_timer - CycleMs /\ UNCHANGED state
    ELSE timeout_timer' = 0 /\ state' = IF state = "DISCOVERY" THEN "ERROR" ELSE state

\* The body of doip_tester_update_timers while the timer runs.
TimerStep ==
  IF timeout_timer > CycleMs
    THEN timeout_timer' = timeout_timer - CycleMs /\ UNCHANGED state
    ELSE timeout_timer' = 0 /\ state' = IF Waiting THEN "ERROR" ELSE state

doip_tester_update_timers ==
  /\ pc = "timers"
  /\ pc' = "idle"
  /\ IF timeout_timer > 0 THEN TimerStep ELSE UNCHANGED <<timeout_timer, state>>
  /\ waited' = IF ~Waiting THEN 0 ELSE IF waited > ResponseTimeout THEN waited ELSE waited + CycleMs
  /\ UNCHANGED <<tcp_connection_id, routing_activated, entity, lwipVars, entityVars, rx, calls,
                 overlaps, rebinds>>

Cycle ==
  \/ ProcessUdp \/ NoConnection
  \/ \E n \in 0..MaxWire, cut \in BOOLEAN : TcpReceive(n, cut)
  \/ \E n \in 0..MaxWire : TcpReceiveGarbled(n)
  \/ TcpClosed \/ tester_tcp_rx_callback \/ ParseDone
  \/ doip_tester_update_timers

-----------------------------------------------------------------------------
\* The entity at the far end of a connection, in this program or another.  OTHER
\* is what the tester ignores: acknowledgements, alive checks, short payloads.

EntityAnswers(s) ==
  /\ s \in sockets /\ ~fin[s] /\ up[s] # <<>> /\ Len(down[s]) < MaxWire
  /\ up' = [up EXCEPT ![s] = Tail(@)]
  /\ \E a \in IF Head(up[s]) = "ACTIVATE" THEN Positive \cup {"DENIED", "OTHER"}
              ELSE IF s \in accepted THEN {"DIAG", "OTHER"} ELSE {"OTHER"} :
       /\ down' = [down EXCEPT ![s] = Append(@, a)]
       /\ accepted' = IF a \in Positive THEN accepted \cup {s} ELSE accepted
  /\ UNCHANGED fin

EntityCloses(s) ==
  /\ s \in sockets /\ ~fin[s]
  /\ fin' = [fin EXCEPT ![s] = TRUE]
  /\ UNCHANGED <<up, down, accepted>>

Entity ==
  /\ \E s \in Sock : EntityAnswers(s) \/ EntityCloses(s)
  /\ UNCHANGED <<testerVars, lwipVars, historyVars, pc, rx, calls>>

Next == Application \/ Cycle \/ Entity

\* The tester's task keeps running its cycle; nobody else promises anything.
Spec == Init /\ [][Next]_vars /\ WF_vars(Cycle)

\* With an entity that answers or closes (what DoipStack's timers guarantee).
SpecResponsive == Spec /\ WF_vars(Entity)

-----------------------------------------------------------------------------
\* A waiting tester has counted less than response_timeout since its request:
\* every path into DISCOVERY or ACTIVATING starts the timer, and none of the
\* other calls leaves it stopped (doip_tester_update_timers).
WaitBounded == Waiting => timeout_timer > 0 /\ waited + timeout_timer = ResponseTimeout

\* While the tester is in state READY and slot 0 has a connection, the entity has
\* answered an activation on that very connection positively: an answer cannot
\* outlive a reconnect, an earlier timeout or a new discovery.  The exception is
\* exact: a connect over an open connection of which a message was half received.
ReadyWasAccepted ==
  state = "READY" /\ socket_fd # NoSock =>
    socket_fd \in accepted \/ (~aligned /\ overlaps > 0)

\* A ready tester is connected to an entity that accepted it, even after a connect
\* over an open connection (doip_tester_connect).
ReadyMeansAccepted == state = "READY" /\ socket_fd # NoSock => socket_fd \in accepted

\* Every open socket is the one the interface remembers, but for exactly one per
\* connect or discovery over an open one (doip_tester_connect writes slot 0
\* unconditionally): no failure or close path loses another.
SocketsExact ==
  /\ Cardinality(sockets) = overlaps + (IF socket_fd = NoSock THEN 0 ELSE 1)
  /\ udpSockets = rebinds + (IF udp_socket THEN 1 ELSE 0)
  /\ socket_fd # NoSock => socket_fd \in sockets

\* The tester gives up only after response_timeout, counted from its own request:
\* the timer left over from a discovery does not cut an activation short.
NeverGivesUpEarly ==
  [][Waiting /\ pc = "timers" /\ state' = "ERROR" => waited' >= ResponseTimeout]_vars

\* Against an entity that answers or closes, no wait lasts for ever.
WaitEnds == Waiting ~> ~Waiting
=============================================================================
