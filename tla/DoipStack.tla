------------------------------ MODULE DoipStack ------------------------------
(***************************************************************************)
(* The DoIP entity as it runs: the loop of doip_entity_task                *)
(* (src/src/doip/doip_task_example.c) with doip_entity_process, which      *)
(* polls UDP, accepts one connection and serves every slot in turn         *)
(* (doip_interface_process), followed by doip_entity_update_timers.        *)
(*                                                                         *)
(* `pc' is the place in the loop, `cur' the slot being served and `left'   *)
(* the complete messages its receive call brought and the parse loop has   *)
(* still to deliver.  Peers act between any two steps of the task.         *)
(***************************************************************************)
EXTENDS DoipEntity, DoipDiscovery

VARIABLES
  pc, cur, left,
  quiet,      \* history: ms the timer updates counted on an open connection
              \* since it connected, was activated or had a request accepted
  activator   \* history: the address last activated by the peer of a descriptor

loopVars == <<pc, cur, left>>
historyVars == <<quiet, activator>>
vars == <<interfaceVars, entityVars, discoveryVars, loopVars, historyVars>>

\* Where the history counter saturates: beyond every limit it is compared with.
QuietCap == InitialMs + GeneralMs

Init ==
  /\ doip_interface_init /\ doip_entity_init /\ DiscoveryInit
  /\ pc = "udp" /\ cur = 0 /\ left = 0
  /\ quiet = [i \in Slot |-> 0]
  /\ activator = [s \in Sock |-> NoAddr]

------------------------------------------------------------------------------
\* doip_interface_process: one datagram at most.
PollUdp ==
  /\ pc = "udp" /\ pc' = "accept"
  /\ NoDatagram \/ \E d \in Datagrams : entity_udp_rx_callback(d)
  /\ tx' = <<>>
  /\ UNCHANGED <<interfaceVars, connectionVars, cur, left, historyVars>>

\* doip_interface_process: one connection at most.
AcceptConnection(s) ==
  LET i == find_free_connection IN
  /\ pc = "accept" /\ pc' = "conn"
  /\ AcceptInto(i, s)
  /\ entity_tcp_connected_callback(i)
  /\ quiet' = [quiet EXCEPT ![i] = 0]
  /\ activator' = [activator EXCEPT ![s] = NoAddr]
  /\ UNCHANGED <<discoveryVars, cur, left>>

AcceptNoConnection ==
  /\ pc = "accept" /\ pc' = "conn"
  /\ AcceptRefused \/ AcceptNothing
  /\ tx' = <<>>
  /\ UNCHANGED <<connectionVars, discoveryVars, cur, left, historyVars>>

------------------------------------------------------------------------------
\* The slot loop goes on to the next slot, or ends.
X_slot_loop_sticks == cur' = cur /\ pc' = IF cur + 1 < MaxConn THEN "conn" ELSE "timers"

NextSlot ==
  IF cur + 1 < MaxConn THEN cur' = cur + 1 /\ pc' = "conn"
                       ELSE cur' = 0 /\ pc' = "timers"

\* A slot without a descriptor, or a receive call that returns -1 (nothing
\* there, or a broken connection: left to the inactivity timer) or that brings
\* no complete message.
NothingReceived ==
  /\ pc = "conn" /\ left = 0
  /\ NextSlot
  /\ tx' = <<>>
  /\ UNCHANGED <<interfaceVars, connectionVars, discoveryVars, left, historyVars>>

MessagesReceived ==
  /\ pc = "conn" /\ left = 0 /\ Open(cur)
  /\ left' \in 1..MaxBatch
  /\ tx' = <<>>
  /\ UNCHANGED <<interfaceVars, connectionVars, discoveryVars, pc, cur, historyVars>>

\* The receive call returns 0.
PeerClosed ==
  /\ pc = "conn" /\ left = 0 /\ Open(cur)
  /\ NextSlot
  /\ entity_tcp_disconnected_callback(cur)
  /\ CloseSlots({cur})
  /\ quiet' = [quiet EXCEPT ![cur] = 0]
  /\ UNCHANGED <<backlog, discoveryVars, left, activator>>

\* entity_tcp_rx_callback for one message of the batch; then the parse loop and,
\* after the last message, the slot loop go on.
Consume ==
  /\ pc = "conn" /\ left > 0
  /\ left' = left - 1
  /\ IF left = 1 THEN NextSlot ELSE UNCHANGED <<pc, cur>>
  /\ UNCHANGED <<interfaceVars, discoveryVars>>

ReceiveRoutingActivation(a) ==
  /\ Consume
  /\ handle_routing_activation_request(cur, a)
  /\ IF a \in TesterAddress
     THEN /\ quiet' = [quiet EXCEPT ![cur] = 0]
          /\ activator' = [activator EXCEPT ![socket_fd[cur]] = a]
     ELSE UNCHANGED historyVars

\* handle_diagnostic_message, when it forwards the request ...
ReceiveDiagnostic(sa) ==
  /\ Consume
  /\ DiagAccepted(cur, sa)
  /\ quiet' = [quiet EXCEPT ![cur] = 0]
  /\ UNCHANGED activator

\* ... when it answers with a NACK or drops the message, and the other kinds.
ReceiveRefused ==
  /\ Consume
  /\ \/ DiagNotActivated(cur)
     \/ \E ta \in Addr : DiagUnknownTarget(cur, ta)
     \/ DiagUndecodable(cur)
     \/ AliveCheckResponse(cur)
     \/ IgnoredMessage
  /\ UNCHANGED historyVars

------------------------------------------------------------------------------
\* doip_entity_update_timers, then the task sleeps until its next cycle.
doip_entity_update_timers ==
  /\ pc = "timers" /\ pc' = "udp"
  /\ UpdateAnnouncementTimer
  /\ UpdateConnectionTimers
  /\ tx' = <<>>
  /\ quiet' = [i \in Slot |->
                 IF socket_fd'[i] = NoSock THEN 0
                 ELSE IF quiet[i] + CycleMs < QuietCap THEN quiet[i] + CycleMs ELSE QuietCap]
  /\ UNCHANGED <<cur, left, activator>>

Environment ==
  /\ PeerConnects
  /\ UNCHANGED <<entityVars, discoveryVars, loopVars, historyVars>>

doip_entity_task ==
  \/ PollUdp
  \/ \E s \in Sock : AcceptConnection(s)
  \/ AcceptNoConnection
  \/ NothingReceived \/ MessagesReceived \/ PeerClosed
  \/ \E a \in Addr : ReceiveRoutingActivation(a) \/ ReceiveDiagnostic(a)
  \/ ReceiveRefused
  \/ doip_entity_update_timers

Next == doip_entity_task \/ Environment

Spec == Init /\ [][Next]_vars

\* The task is created once and never deleted after start-up, it alone takes the
\* DoIP mutex, and every network call it makes is non-blocking.
FairSpec == Spec /\ WF_vars(doip_entity_task)

------------------------------------------------------------------------------
\* Type invariant of the whole loop.
TypeOK ==
  /\ InterfaceTypeOK /\ EntityTypeOK /\ DiscoveryTypeOK
  /\ pc \in {"udp", "accept", "conn", "timers"}
  /\ cur \in Slot /\ left \in 0..MaxBatch
  /\ quiet \in [Slot -> 0..QuietCap]
  /\ activator \in [Sock -> TesterAddress \cup {NoAddr}]

\* No descriptor is lost or shared: what lwIP has open is exactly what the slots
\* hold, no two slots hold the same one, and a slot is CLOSED exactly when it
\* holds none (accept, refusal, peer close and timeout of
\* doip_interface_process / doip_interface_close_connection).
SocketsAccounted ==
  /\ sockets = {socket_fd[i] : i \in {j \in Slot : Open(j)}}
  /\ \A i, j \in Slot : Open(i) /\ socket_fd[i] = socket_fd[j] => i = j
  /\ \A i \in Slot : conn_state[i] = DOIP_CONN_STATE_CLOSED <=> ~Open(i)

\* What the peer of slot i has activated since it connected.
PeerAddress(i) == activator[socket_fd[i]]

\* The entity's idea of an open connection is that connection's own: whatever
\* the slot was used for before, it is watched by the timers, activated exactly
\* when its present peer activated it, for the address that peer last gave.
ContextIsCurrent ==
  \A i \in Slot : Open(i) =>
    /\ connection_id[i] = i
    /\ is_activated[i] <=> PeerAddress(i) # NoAddr
    /\ source_address[i] = PeerAddress(i)

\* Time allowed to an open connection without a routing activation or an
\* accepted request.
Limit(i) == IF PeerAddress(i) = NoAddr THEN InitialMs ELSE GeneralMs

\* No open connection outlives its inactivity limit, although what happens on it
\* may switch it from one timer to the other at any moment
\* (doip_entity_update_timers).
InactivityBounded == \A i \in Slot : Open(i) => quiet[i] < Limit(i)

\* The timers close no connection early: one that a timer update closes has been
\* quiet for its whole limit, counting the present cycle.
NeverClosedEarly ==
  [][pc = "timers" =>
       \A i \in Slot : Open(i) /\ socket_fd'[i] = NoSock => quiet[i] + CycleMs >= Limit(i)]_vars

\* A UDS response and a diagnostic ACK are written only to a connection whose
\* present peer activated routing, and a response only to one whose peer
\* activated the address the response is for: neither a reused slot nor a context left
\* behind by a timeout makes it reach another tester.
ResponseRouted ==
  \A k \in DOMAIN tx :
    /\ tx[k].fd \in sockets
    /\ tx[k].msg.type = "DIAG_ACK" => activator[tx[k].fd] # NoAddr
    /\ tx[k].msg.type = "DIAG" => activator[tx[k].fd] = tx[k].msg.to

\* The request acknowledged in this step got its response on the same connection.
AnsweredInPlace == Len(tx) = 2 /\ tx[2].msg.type = "DIAG" /\ tx[2].fd = tx[1].fd
Acknowledged == tx # <<>> /\ tx[1].msg.type = "DIAG_ACK"

\* A tester that uses the address it activated gets the response on the
\* connection it asked on, provided no other context holds that address.
AskerAnswered ==
  /\ Acknowledged
  /\ activator[tx[1].fd] = tx[1].msg.to
  /\ \A i, j \in Matches(tx[1].msg.to) : i = j
  => AnsweredInPlace

\* "Network disconnection recovery and reconnection handling": a tester that lost
\* one connection and works on another gets its responses there, when no other
\* open connection uses its address.
ReconnectedTesterAnswered ==
  /\ Acknowledged
  /\ activator[tx[1].fd] = tx[1].msg.to
  /\ \A i, j \in {k \in Matches(tx[1].msg.to) : Open(k)} : i = j
  => AnsweredInPlace

\* An open connection does not stay open in silence: it is closed again and
\* again, or its timer is restarted again and again.
SilenceEnds ==
  \A i \in Slot : []<>(~Open(i)) \/ []<>(quiet[i] = 0)

\* A waiting connection does not wait for ever: tcp_accept takes it, into a slot
\* or to close it, whether or not lwIP has a descriptor for it.
BacklogServed == []<>(backlog < MaxBacklog)

\* While announcements are outstanding, none is late: less than an interval has
\* been counted since the one before.
AnnouncementsOnTime ==
  announcement_count \in 1..(AnnounceCount - 1) => sinceAnnounce < AnnounceMs

\* The bytes `udp_tx' was answered for.
IdentifierAskedFor == IF udp_tx = "REQ_VIN" THEN Vin ELSE Eid

\* A request for a VIN or an EID is answered only when every byte the request
\* brought is the identifier's, and only when the bytes it announced and did not
\* bring were brought at their place by earlier datagrams: the uncleared buffer
\* may complete an identifier, byte by byte, but never invents one
\* (entity_udp_rx_callback, handle_vehicle_id_request).
IdentifierBytesSeen ==
  udp_tx \in {"REQ_VIN", "REQ_EID"} =>
    \A i \in DOMAIN IdentifierAskedFor :
      IF i <= Len(lastBrought) THEN lastBrought[i] = IdentifierAskedFor[i]
                               ELSE IdentifierAskedFor[i] \in seenAt[i]

\* A request for a VIN or an EID is answered only if it contains that identifier.
IdentifierBroughtWhole ==
  udp_tx \in {"REQ_VIN", "REQ_EID"} => Len(lastBrought) >= Len(IdentifierAskedFor)

\* Successive announcements keep their distance: none is sent before a whole
\* interval has been counted since the one before.
AnnouncementsSpaced ==
  [][announcement_count' # announcement_count /\ announcement_count > 0
       => sinceAnnounce + CycleMs >= AnnounceMs]_vars

\* "Send initial vehicle announcements (3 times per ISO 13400)": when the
\* start-up phase is over, three announcements have left the node.
AnnouncedThreeTimes == announcement_count = AnnounceCount => sentOk = AnnounceCount
==============================================================================
