--------------------------- MODULE DoipStackProofs ---------------------------
(***************************************************************************)
(* Proofs about DoipStack, for any number of slots, descriptors and        *)
(* addresses and any timer values.                                         *)
(*                                                                         *)
(* The properties of the connections rest on one inductive invariant.      *)
(* Beyond SocketsAccounted and ContextIsCurrent it says that a context     *)
(* names its own slot or none (OwnSlot), that timer and silence of an open *)
(* connection always add up to its limit (TimersAddUp), and that messages  *)
(* are left to deliver only on an open connection (BatchOpen).  The type   *)
(* of sentOk needs that it never overtakes announcement_count.  Discovery  *)
(* has an invariant of its own (DInv), of the same shape: timer and time   *)
(* since the last announcement add up to the interval.                     *)
(***************************************************************************)
EXTENDS DoipStack, WellFoundedInduction, TLAPS

OwnSlot == \A i \in Slot : connection_id[i] \in {-1, i}

TimersAddUp ==
  \A i \in Slot : Open(i) => Timer(i) > 0 /\ Timer(i) + quiet[i] = Limit(i)

BatchOpen == left > 0 => pc = "conn" /\ Open(cur)

ConnInv == SocketsAccounted /\ ContextIsCurrent /\ OwnSlot /\ TimersAddUp

TypeInv == TypeOK /\ sentOk <= announcement_count

IInv == TypeInv /\ ConnInv /\ BatchOpen /\ ResponseRouted /\ AskerAnswered

------------------------------------------------------------------------------
\* The searches of the code, from slot 0 upwards, find a first slot.
LEMMA MinLemma ==
  ASSUME NEW T, T \subseteq Slot, T # {}
  PROVE  \E i \in T : \A j \in T : i <= j
<1> DEFINE R == {ss \in Nat \X Nat : ss[1] < ss[2]}
<1>1. IsWellFoundedOn(R, Nat)
  BY NatLessThanWellFounded DEF OpToRel
<1>2. T \subseteq Nat
  BY ConfigAssumption DEF Slot
<1> HIDE DEF R
<1>3. PICK i \in T : \A j \in T : ~(<<j, i>> \in R)
  BY <1>1, <1>2, WFMin
<1>4. \A j \in T : ~(j < i)
  BY <1>2, <1>3 DEF R
<1> QED BY <1>2, <1>4

\* find_free_connection returns a closed slot.
LEMMA FreeSlotLemma ==
  ASSUME FreeSlots # {}
  PROVE  find_free_connection \in Slot /\ conn_state[find_free_connection] = DOIP_CONN_STATE_CLOSED
<1>1. FreeSlots \subseteq Slot
  BY DEF FreeSlots
<1>2. find_free_connection \in FreeSlots
  BY <1>1, MinLemma DEF find_free_connection
<1> QED BY <1>2 DEF FreeSlots

\* The search of doip_entity_send_diagnostic_response returns a matching context.
LEMMA FirstMatchLemma ==
  ASSUME NEW a, Matches(a) # {}
  PROVE  FirstMatch(a) \in Matches(a)
<1>1. Matches(a) \subseteq Slot
  BY DEF Matches
<1> QED BY <1>1, MinLemma DEF FirstMatch

\* A sequence of two elements, as an accepted request sends them.
LEMMA PairLemma ==
  ASSUME NEW S, NEW a \in S, NEW b \in S, NEW t, t = <<a, b>>
  PROVE  t \in Seq(S) /\ Len(t) = 2 /\ DOMAIN t = {1, 2} /\ t[1] = a /\ t[2] = b
OBVIOUS

\* A sequence of one element, when there is no response.
LEMMA SingletonLemma ==
  ASSUME NEW S, NEW a \in S, NEW t, t = <<a>>
  PROVE  t \in Seq(S) /\ Len(t) = 1 /\ DOMAIN t = {1} /\ t[1] = a
OBVIOUS

\* What tcp_send is given: one entry on the slot's descriptor, or nothing.
LEMMA SendLemma ==
  ASSUME InterfaceTypeOK, NEW i, NEW m \in TxMessage
  PROVE  /\ doip_interface_tcp_send(i, m) \in Seq(TxEntry)
         /\ i \in Slot /\ Open(i) =>
              doip_interface_tcp_send(i, m) = <<[fd |-> socket_fd[i], msg |-> m]>>
         /\ ~(i \in Slot /\ Open(i)) => doip_interface_tcp_send(i, m) = <<>>
<1>1. CASE i \in Slot /\ Open(i)
  <2>1. socket_fd[i] \in Sock
    BY <1>1 DEF InterfaceTypeOK, Open
  <2>2. [fd |-> socket_fd[i], msg |-> m] \in TxEntry
    BY <2>1 DEF TxEntry
  <2> QED BY <1>1, <2>2 DEF doip_interface_tcp_send
<1>2. CASE ~(i \in Slot /\ Open(i))
  BY <1>2 DEF doip_interface_tcp_send
<1> QED BY <1>1, <1>2

\* The messages of the handlers are messages.
LEMMA MessageLemma ==
  ASSUME NEW a \in Addr \cup {NoAddr}
  PROVE  /\ RoutingActivationRes(a, DOIP_ROUTING_ACT_RES_SUCCESS) \in TxMessage
         /\ RoutingActivationRes(a, DOIP_ROUTING_ACT_RES_UNKNOWN_SOURCE) \in TxMessage
         /\ DiagAck(a, 0) \in TxMessage
         /\ DiagAck(a, DOIP_DIAG_NACK_INVALID_SOURCE) \in TxMessage
         /\ DiagAck(a, DOIP_DIAG_NACK_UNKNOWN_TARGET) \in TxMessage
         /\ DiagResponse(a) \in TxMessage
BY DEF RoutingActivationRes, DiagAck, DiagResponse, TxMessage, DOIP_ROUTING_ACT_RES_SUCCESS,
       DOIP_ROUTING_ACT_RES_UNKNOWN_SOURCE, DOIP_DIAG_NACK_INVALID_SOURCE,
       DOIP_DIAG_NACK_UNKNOWN_TARGET

\* The slot loop stays within the table.
LEMMA NextSlotLemma ==
  ASSUME cur \in Slot, NextSlot
  PROVE  cur' \in Slot /\ pc' \in {"conn", "timers"}
BY ConfigAssumption DEF NextSlot, Slot

------------------------------------------------------------------------------
\* Type correctness of the parts, one lemma per kind of step.
LoopTypeOK ==
  /\ pc \in {"udp", "accept", "conn", "timers"}
  /\ cur \in Slot /\ left \in 0..MaxBatch
HistoryTypeOK ==
  /\ quiet \in [Slot -> 0..QuietCap]
  /\ activator \in [Sock -> TesterAddress \cup {NoAddr}]
DiscoveryInv == DiscoveryTypeOK /\ sentOk <= announcement_count

\* Steps on the connections leave the discovery state alone.
LEMMA DiscoveryFrame ==
  ASSUME DiscoveryInv, UNCHANGED discoveryVars
  PROVE  DiscoveryInv'
BY DEF DiscoveryInv, DiscoveryTypeOK, discoveryVars

\* A datagram leaves identifier bytes of the right kind in the buffer.
LEMMA DatagramLemma ==
  ASSUME DiscoveryInv, NoDatagram \/ \E d \in Datagrams : entity_udp_rx_callback(d)
  PROVE  DiscoveryInv'
<1>1. CASE NoDatagram
  BY <1>1 DEF NoDatagram, DiscoveryInv, DiscoveryTypeOK
<1>2. ASSUME NEW d \in Datagrams, entity_udp_rx_callback(d) PROVE DiscoveryInv'
  <2>1. d.brought \in Seq(IdByte)
    BY DiscoveryAssumption
  <2>2. \A i \in IdField : i <= Len(d.brought) => d.brought[i] \in IdByte
    BY <2>1, DiscoveryAssumption DEF IdField
  <2>4. udp_rx_buffer' \in [IdField -> IdByte]
    BY <1>2, <2>2 DEF entity_udp_rx_callback, BufferAfter, DiscoveryInv, DiscoveryTypeOK
  <2>5. seenAt' \in [IdField -> SUBSET IdByte]
    BY <1>2, <2>2 DEF entity_udp_rx_callback, DiscoveryInv, DiscoveryTypeOK
  <2>6. lastBrought' \in Seq(IdByte)
    BY <1>2, <2>1 DEF entity_udp_rx_callback
  <2>3. udp_tx' \in {"nothing"} \cup VehicleIdReq
    BY <1>2 DEF entity_udp_rx_callback, handle_vehicle_id_request, VehicleIdReq
  <2> QED BY <1>2, <2>3, <2>4, <2>5, <2>6 DEF entity_udp_rx_callback, DiscoveryInv, DiscoveryTypeOK
<1> QED BY <1>1, <1>2

\* The announcement half of the timer update neither overruns the count nor
\* wraps the timer.
LEMMA AnnouncementLemma ==
  ASSUME DiscoveryInv, UpdateAnnouncementTimer
  PROVE  DiscoveryInv'
<1>1. ASSUME NEW ok \in BOOLEAN, Announce(ok) PROVE DiscoveryInv'
  <2>1. announcement_count' \in 0..AnnounceCount /\ announcement_timer' \in 0..AnnounceMs
    BY <1>1, ConfigAssumption DEF Announce, AnnounceDue, DiscoveryInv, DiscoveryTypeOK
  <2>2. sentOk' \in Nat /\ sentOk' <= announcement_count'
    BY <1>1, ConfigAssumption DEF Announce, DiscoveryInv, DiscoveryTypeOK
  <2>3. sinceAnnounce' = 0 /\ udp_tx' \in {"nothing", "announcement"}
    BY <1>1 DEF Announce
  <2>4. UNCHANGED <<udp_rx_buffer, lastBrought, seenAt>>
    BY <1>1 DEF Announce
  <2> QED BY <2>1, <2>2, <2>3, <2>4, ConfigAssumption DEF DiscoveryInv, DiscoveryTypeOK
<1>2. CASE /\ announcement_count < AnnounceCount /\ ~AnnounceDue
           /\ announcement_timer' = announcement_timer - CycleMs
           /\ sinceAnnounce' = sinceAnnounce + CycleMs
           /\ udp_tx' = "nothing"
           /\ UNCHANGED <<announcement_count, udp_rx_buffer, lastBrought, seenAt, sentOk>>
  BY <1>2, ConfigAssumption DEF AnnounceDue, DiscoveryInv, DiscoveryTypeOK
<1>3. CASE /\ announcement_count = AnnounceCount
           /\ udp_tx' = "nothing"
           /\ UNCHANGED <<announcement_count, announcement_timer, udp_rx_buffer, lastBrought, seenAt, sentOk,
                          sinceAnnounce>>
  BY <1>3 DEF DiscoveryInv, DiscoveryTypeOK
<1> QED BY <1>1, <1>2, <1>3 DEF UpdateAnnouncementTimer

------------------------------------------------------------------------------
\* Steps that touch neither the connections nor their history keep ConnInv.
LEMMA ConnFrame ==
  ASSUME ConnInv,
         UNCHANGED <<socket_fd, conn_state, sockets, connectionVars, historyVars>>
  PROVE  ConnInv'
<1>1. SocketsAccounted'
  BY DEF ConnInv, SocketsAccounted, Open
<1>2. ContextIsCurrent' /\ OwnSlot'
  BY DEF ConnInv, ContextIsCurrent, OwnSlot, Open, PeerAddress, connectionVars, historyVars
<1>3. TimersAddUp'
  BY DEF ConnInv, TimersAddUp, Timer, Limit, PeerAddress, Open, connectionVars, historyVars
<1> QED BY <1>1, <1>2, <1>3 DEF ConnInv

\* Closing slots gives back their descriptors and no others.
LEMMA CloseLemma ==
  ASSUME InterfaceTypeOK, SocketsAccounted, NEW I, I \subseteq Slot, CloseSlots(I)
  PROVE  /\ SocketsAccounted'
         /\ socket_fd' \in [Slot -> Sock \cup {NoSock}]
         /\ conn_state' \in [Slot -> ConnState]
         /\ sockets' \subseteq Sock
         /\ \A i \in Slot : /\ Open(i)' <=> Open(i) /\ i \notin I
                            /\ i \notin I => socket_fd'[i] = socket_fd[i]
<1>1. \A i \in Slot : socket_fd'[i] = IF i \in I THEN NoSock ELSE socket_fd[i]
  BY DEF CloseSlots
<1>2. \A i \in Slot : /\ Open(i)' <=> Open(i) /\ i \notin I
                      /\ i \notin I => socket_fd'[i] = socket_fd[i]
  BY <1>1 DEF Open
<1>3. /\ socket_fd' \in [Slot -> Sock \cup {NoSock}]
      /\ conn_state' \in [Slot -> ConnState]
      /\ sockets' \subseteq Sock
  BY DEF CloseSlots, InterfaceTypeOK, ConnState
<1>4. sockets' = {socket_fd'[i] : i \in {j \in Slot : Open(j)'}}
  <2>1. \A x : x \in sockets <=> \E i \in Slot : Open(i) /\ x = socket_fd[i]
    BY DEF SocketsAccounted
  <2>2. \A i, j \in Slot : Open(i) /\ socket_fd[i] = socket_fd[j] => i = j
    BY DEF SocketsAccounted
  <2>3. \A x : x \in sockets' <=> x \in sockets /\ \A i \in I : x # socket_fd[i]
    BY DEF CloseSlots
  <2>4. \A x : x \in sockets' <=> \E i \in Slot : Open(i) /\ i \notin I /\ x = socket_fd[i]
    BY <2>1, <2>2, <2>3
  <2>5. \A x : x \in sockets' <=> \E i \in Slot : Open(i)' /\ x = socket_fd'[i]
    BY <2>4, <1>2
  <2> QED BY <2>5
<1>5. \A i, j \in Slot : Open(i)' /\ socket_fd'[i] = socket_fd'[j] => i = j
  <2> SUFFICES ASSUME NEW i \in Slot, NEW j \in Slot, Open(i)', socket_fd'[i] = socket_fd'[j]
               PROVE  i = j
    OBVIOUS
  <2>1. Open(j)'
    BY DEF Open
  <2>2. Open(i) /\ socket_fd'[i] = socket_fd[i] /\ socket_fd'[j] = socket_fd[j]
    BY <1>2, <2>1
  <2> QED BY <2>2 DEF SocketsAccounted
<1>6. \A i \in Slot : conn_state'[i] = DOIP_CONN_STATE_CLOSED <=> ~Open(i)'
  <2> SUFFICES ASSUME NEW i \in Slot
               PROVE  conn_state'[i] = DOIP_CONN_STATE_CLOSED <=> ~Open(i)'
    OBVIOUS
  <2>1. conn_state[i] = DOIP_CONN_STATE_CLOSED <=> ~Open(i)
    BY DEF SocketsAccounted
  <2>2. conn_state'[i] = IF i \in I /\ Open(i) THEN DOIP_CONN_STATE_CLOSED ELSE conn_state[i]
    BY DEF CloseSlots
  <2> QED BY <2>1, <2>2, <1>2
<1>7. SocketsAccounted'
  BY <1>4, <1>5, <1>6 DEF SocketsAccounted
<1> QED BY <1>2, <1>3, <1>7

\* A new connection in a free slot: its context starts afresh.
LEMMA AcceptLemma ==
  ASSUME TypeInv, ConnInv, NEW s \in Sock, AcceptConnection(s)
  PROVE  InterfaceTypeOK' /\ EntityTypeOK' /\ HistoryTypeOK' /\ ConnInv'
<1>0. PICK f \in Slot : f = find_free_connection
  BY FreeSlotLemma DEF AcceptConnection, AcceptInto
<1>1. f \in Slot /\ conn_state[f] = DOIP_CONN_STATE_CLOSED
  BY <1>0, FreeSlotLemma DEF AcceptConnection, AcceptInto
<1>2. ~Open(f) /\ s \notin sockets
  BY <1>1 DEF ConnInv, SocketsAccounted, AcceptConnection, AcceptInto
<1>3. /\ socket_fd' = [socket_fd EXCEPT ![f] = s]
      /\ conn_state' = [conn_state EXCEPT ![f] = DOIP_CONN_STATE_PENDING_ACTIVATION]
      /\ sockets' = sockets \cup {s}
      /\ backlog > 0 /\ backlog' = backlog - 1
  BY <1>0 DEF AcceptConnection, AcceptInto
<1>4. /\ connection_id' = [connection_id EXCEPT ![f] = f]
      /\ initial_inactivity_timer' = [initial_inactivity_timer EXCEPT ![f] = InitialMs]
      /\ is_activated' = [is_activated EXCEPT ![f] = FALSE]
      /\ source_address' = [source_address EXCEPT ![f] = NoAddr]
      /\ tx' = <<>>
      /\ UNCHANGED <<general_inactivity_timer, alive_check_pending>>
  BY <1>0 DEF AcceptConnection, entity_tcp_connected_callback
<1>5. /\ quiet' = [quiet EXCEPT ![f] = 0]
      /\ activator' = [activator EXCEPT ![s] = NoAddr]
  BY <1>0 DEF AcceptConnection
<1>6. InterfaceTypeOK'
  BY <1>1, <1>3, InterfaceAssumption DEF TypeInv, TypeOK, InterfaceTypeOK, ConnState
<1>7. EntityTypeOK'
  BY <1>1, <1>4, ConfigAssumption DEF TypeInv, TypeOK, EntityTypeOK
<1>8. HistoryTypeOK'
  BY <1>1, <1>5, ConfigAssumption DEF TypeInv, TypeOK, HistoryTypeOK, QuietCap
<1>9. s # NoSock
  BY InterfaceAssumption
<1>10. \A i \in Slot : IF i = f THEN Open(i)' /\ socket_fd'[i] = s
                       ELSE socket_fd'[i] = socket_fd[i] /\ (Open(i)' <=> Open(i))
  BY <1>1, <1>3, <1>9 DEF TypeInv, TypeOK, InterfaceTypeOK, Open
<1>11. \A i \in Slot : Open(i) => socket_fd[i] \in sockets /\ socket_fd[i] # s
  BY <1>2 DEF ConnInv, SocketsAccounted
<1>12. SocketsAccounted'
  <2>1. sockets' = {socket_fd'[i] : i \in {j \in Slot : Open(j)'}}
    <3>1. \A x : x \in sockets <=> \E i \in Slot : Open(i) /\ x = socket_fd[i]
      BY DEF ConnInv, SocketsAccounted
    <3>2. \A x : x \in sockets' <=> \E i \in Slot : Open(i)' /\ x = socket_fd'[i]
      BY <3>1, <1>1, <1>2, <1>3, <1>10
    <3> QED BY <3>2
  <2>2. \A i, j \in Slot : Open(i)' /\ socket_fd'[i] = socket_fd'[j] => i = j
    <3>1. \A i, j \in Slot : Open(i) /\ socket_fd[i] = socket_fd[j] => i = j
      BY DEF ConnInv, SocketsAccounted
    <3>2. \A j \in Slot : socket_fd[j] # s
      BY <1>9, <1>11 DEF Open
    <3> QED BY <3>1, <3>2, <1>10
  <2>3. \A i \in Slot : conn_state'[i] = DOIP_CONN_STATE_CLOSED <=> ~Open(i)'
    <3>1. \A i \in Slot : conn_state[i] = DOIP_CONN_STATE_CLOSED <=> ~Open(i)
      BY DEF ConnInv, SocketsAccounted
    <3>2. \A i \in Slot : conn_state'[i] = IF i = f THEN DOIP_CONN_STATE_PENDING_ACTIVATION
                                           ELSE conn_state[i]
      BY <1>3 DEF TypeInv, TypeOK, InterfaceTypeOK
    <3> QED BY <3>1, <3>2, <1>10
         DEF DOIP_CONN_STATE_PENDING_ACTIVATION, DOIP_CONN_STATE_CLOSED
  <2> QED BY <2>1, <2>2, <2>3 DEF SocketsAccounted
<1>13. \A i \in Slot : Open(i)' =>
         PeerAddress(i)' = IF i = f THEN NoAddr ELSE PeerAddress(i)
  <2>1. \A t \in Sock : activator'[t] = IF t = s THEN NoAddr ELSE activator[t]
    BY <1>5 DEF TypeInv, TypeOK
  <2>2. \A i \in Slot : Open(i) => socket_fd[i] \in Sock
    BY DEF TypeInv, TypeOK, InterfaceTypeOK, Open
  <2> QED BY <2>1, <2>2, <1>10, <1>11 DEF PeerAddress
<1>14. \A i \in Slot : IF i = f
         THEN connection_id'[i] = i /\ ~is_activated'[i] /\ source_address'[i] = NoAddr
              /\ initial_inactivity_timer'[i] = InitialMs /\ quiet'[i] = 0
         ELSE /\ connection_id'[i] = connection_id[i] /\ is_activated'[i] = is_activated[i]
              /\ source_address'[i] = source_address[i]
              /\ initial_inactivity_timer'[i] = initial_inactivity_timer[i]
              /\ general_inactivity_timer'[i] = general_inactivity_timer[i]
              /\ quiet'[i] = quiet[i]
  BY <1>4, <1>5 DEF TypeInv, TypeOK, EntityTypeOK
<1>15. ContextIsCurrent' /\ OwnSlot'
  BY <1>10, <1>13, <1>14 DEF ConnInv, ContextIsCurrent, OwnSlot
<1>16. TimersAddUp'
  <2> SUFFICES ASSUME NEW i \in Slot, Open(i)'
               PROVE  Timer(i)' > 0 /\ Timer(i)' + quiet'[i] = Limit(i)'
    BY DEF TimersAddUp
  <2>1. CASE i = f
    BY <2>1, <1>13, <1>14, ConfigAssumption DEF Timer, Limit
  <2>2. CASE i # f
    <3>1. Timer(i)' = Timer(i) /\ Limit(i)' = Limit(i)
      BY <2>2, <1>13, <1>14 DEF Timer, Limit
    <3> QED BY <2>2, <3>1, <1>10, <1>14 DEF ConnInv, TimersAddUp
  <2> QED BY <2>1, <2>2
<1> QED BY <1>6, <1>7, <1>8, <1>12, <1>15, <1>16 DEF ConnInv

\* A connection its peer closed: the callback clears the context.
LEMMA PeerClosedLemma ==
  ASSUME TypeInv, ConnInv, PeerClosed
  PROVE  InterfaceTypeOK' /\ EntityTypeOK' /\ HistoryTypeOK' /\ ConnInv'
<1>0. PICK c \in Slot : c = cur
  BY DEF TypeInv, TypeOK
<1>1. /\ connection_id' = [connection_id EXCEPT ![c] = -1]
      /\ source_address' = [source_address EXCEPT ![c] = NoAddr]
      /\ is_activated' = [is_activated EXCEPT ![c] = FALSE]
      /\ initial_inactivity_timer' = [initial_inactivity_timer EXCEPT ![c] = 0]
      /\ general_inactivity_timer' = [general_inactivity_timer EXCEPT ![c] = 0]
      /\ alive_check_pending' = [alive_check_pending EXCEPT ![c] = FALSE]
      /\ tx' = <<>>
  BY <1>0 DEF PeerClosed, entity_tcp_disconnected_callback
<1>2. /\ CloseSlots({c})
      /\ quiet' = [quiet EXCEPT ![c] = 0]
      /\ UNCHANGED <<backlog, activator>>
  BY <1>0 DEF PeerClosed
<1>3. /\ SocketsAccounted' /\ InterfaceTypeOK'
      /\ \A i \in Slot : Open(i)' => Open(i) /\ i # c /\ socket_fd'[i] = socket_fd[i]
  <2>1. InterfaceTypeOK /\ SocketsAccounted
    BY DEF TypeInv, TypeOK, ConnInv
  <2> QED BY <1>0, <1>2, <2>1, CloseLemma DEF InterfaceTypeOK
<1>4. EntityTypeOK'
  BY <1>1, ConfigAssumption DEF TypeInv, TypeOK, EntityTypeOK
<1>5. HistoryTypeOK'
  BY <1>2, ConfigAssumption DEF TypeInv, TypeOK, HistoryTypeOK, QuietCap
<1>6. \A i \in Slot : i # c =>
              /\ connection_id'[i] = connection_id[i] /\ is_activated'[i] = is_activated[i]
              /\ source_address'[i] = source_address[i]
              /\ initial_inactivity_timer'[i] = initial_inactivity_timer[i]
              /\ general_inactivity_timer'[i] = general_inactivity_timer[i]
              /\ quiet'[i] = quiet[i]
  BY <1>1, <1>2 DEF TypeInv, TypeOK, EntityTypeOK
<1>7. connection_id'[c] = -1
  BY <1>0, <1>1 DEF TypeInv, TypeOK, EntityTypeOK
<1>8. \A i \in Slot : Open(i)' => PeerAddress(i)' = PeerAddress(i)
  BY <1>2, <1>3 DEF PeerAddress
<1>9. ContextIsCurrent' /\ OwnSlot'
  BY <1>3, <1>6, <1>7, <1>8 DEF ConnInv, ContextIsCurrent, OwnSlot
<1>10. TimersAddUp'
  <2> SUFFICES ASSUME NEW i \in Slot, Open(i)'
               PROVE  Timer(i)' > 0 /\ Timer(i)' + quiet'[i] = Limit(i)'
    BY DEF TimersAddUp
  <2>1. Timer(i)' = Timer(i) /\ Limit(i)' = Limit(i)
    BY <1>3, <1>6, <1>8 DEF Timer, Limit
  <2> QED BY <2>1, <1>3, <1>6 DEF ConnInv, TimersAddUp
<1> QED BY <1>3, <1>4, <1>5, <1>9, <1>10 DEF ConnInv

\* The timer update: which connections it closes, and what it leaves to the rest.
LEMMA TimersCloseLemma ==
  ASSUME TypeInv, ConnInv, doip_entity_update_timers
  PROVE  /\ SocketsAccounted' /\ InterfaceTypeOK'
         /\ \A i \in Slot : /\ Open(i)' <=> Open(i) /\ ~Expired(i)
                            /\ Open(i)' => socket_fd'[i] = socket_fd[i]
<1> DEFINE I == {connection_id[i] : i \in {j \in Slot : Expired(j)}}
<1>1. CloseSlots(I) /\ UNCHANGED backlog
  BY DEF doip_entity_update_timers, UpdateConnectionTimers
<1>2. \A j \in Slot : Expired(j) => connection_id[j] = j
  BY DEF ConnInv, OwnSlot, Expired, Watched
<1>3. \A i \in Slot : i \in I <=> Expired(i)
  BY <1>2
<1>4. I \subseteq Slot
  BY <1>2
<1> HIDE DEF I
<1>5. InterfaceTypeOK /\ SocketsAccounted
  BY DEF TypeInv, TypeOK, ConnInv
<1> QED BY <1>1, <1>3, <1>4, <1>5, CloseLemma DEF InterfaceTypeOK

\* The connections it leaves open have counted one cycle, timer and history alike.
LEMMA TimersLemma ==
  ASSUME TypeInv, ConnInv, doip_entity_update_timers
  PROVE  InterfaceTypeOK' /\ EntityTypeOK' /\ HistoryTypeOK' /\ ConnInv'
<1>1. /\ SocketsAccounted' /\ InterfaceTypeOK'
      /\ \A i \in Slot : /\ Open(i)' <=> Open(i) /\ ~Expired(i)
                         /\ Open(i)' => socket_fd'[i] = socket_fd[i]
  BY TimersCloseLemma
<1>2. /\ initial_inactivity_timer' =
           [i \in Slot |-> IF Watched(i) /\ ~is_activated[i]
                           THEN CountDown(initial_inactivity_timer[i])
                           ELSE initial_inactivity_timer[i]]
      /\ general_inactivity_timer' =
           [i \in Slot |-> IF Watched(i) /\ is_activated[i]
                           THEN CountDown(general_inactivity_timer[i])
                           ELSE general_inactivity_timer[i]]
      /\ UNCHANGED <<connection_id, source_address, is_activated, alive_check_pending>>
      /\ tx' = <<>> /\ UNCHANGED activator
  BY DEF doip_entity_update_timers, UpdateConnectionTimers
<1>3. quiet' = [i \in Slot |->
                 IF socket_fd'[i] = NoSock THEN 0
                 ELSE IF quiet[i] + CycleMs < QuietCap THEN quiet[i] + CycleMs ELSE QuietCap]
  BY DEF doip_entity_update_timers
<1>4. EntityTypeOK'
  <2>1. \A n \in Nat : \A t \in 0..n : CountDown(t) \in 0..n
    BY ConfigAssumption DEF CountDown
  <2>2. initial_inactivity_timer' \in [Slot -> 0..InitialMs]
    BY <1>2, <2>1, ConfigAssumption DEF TypeInv, TypeOK, EntityTypeOK
  <2>3. general_inactivity_timer' \in [Slot -> 0..GeneralMs]
    BY <1>2, <2>1, ConfigAssumption DEF TypeInv, TypeOK, EntityTypeOK
  <2> QED BY <1>2, <2>2, <2>3 DEF TypeInv, TypeOK, EntityTypeOK
<1>5. HistoryTypeOK'
  <2>1. QuietCap \in Nat /\ CycleMs \in Nat
    BY ConfigAssumption DEF QuietCap
  <2>2. \A i \in Slot : quiet[i] \in 0..QuietCap
    BY DEF TypeInv, TypeOK
  <2>3. quiet' \in [Slot -> 0..QuietCap]
    BY <1>3, <2>1, <2>2
  <2> QED BY <1>2, <2>3 DEF TypeInv, TypeOK, HistoryTypeOK
<1>6. \A i \in Slot : Open(i)' => PeerAddress(i)' = PeerAddress(i)
  BY <1>1, <1>2 DEF PeerAddress
<1>7. ContextIsCurrent' /\ OwnSlot'
  BY <1>1, <1>2, <1>6 DEF ConnInv, ContextIsCurrent, OwnSlot
<1>8. TimersAddUp'
  <2> SUFFICES ASSUME NEW i \in Slot, Open(i)'
               PROVE  Timer(i)' > 0 /\ Timer(i)' + quiet'[i] = Limit(i)'
    BY DEF TimersAddUp
  <2>1. Open(i) /\ ~Expired(i) /\ connection_id[i] = i
    BY <1>1 DEF ConnInv, ContextIsCurrent
  <2>2. Watched(i) /\ Timer(i) > CycleMs
    <3>1. Watched(i)
      BY <2>1, ConfigAssumption DEF Watched, Slot
    <3>2. Timer(i) \in Nat /\ CycleMs \in Nat
      BY ConfigAssumption DEF Timer, TypeInv, TypeOK, EntityTypeOK
    <3> QED BY <2>1, <3>1, <3>2 DEF Expired
  <2>3. Timer(i)' = Timer(i) - CycleMs
    BY <1>2, <2>2 DEF Timer, CountDown
  <2>4. Limit(i)' = Limit(i) /\ Limit(i) \in Nat /\ Limit(i) <= QuietCap
    BY <1>6, ConfigAssumption DEF Limit, QuietCap
  <2>5. Timer(i) + quiet[i] = Limit(i) /\ quiet[i] \in Nat /\ Timer(i) \in Nat /\ CycleMs \in Nat
    BY <2>1, ConfigAssumption DEF ConnInv, TimersAddUp, Timer, TypeInv, TypeOK, EntityTypeOK
  <2>6. QuietCap \in Nat
    BY ConfigAssumption DEF QuietCap
  <2>7. quiet'[i] = quiet[i] + CycleMs
    BY <1>3, <2>2, <2>4, <2>5, <2>6 DEF Open
  <2> QED BY <2>2, <2>3, <2>4, <2>5, <2>7
<1> QED BY <1>1, <1>4, <1>5, <1>7, <1>8 DEF ConnInv

------------------------------------------------------------------------------
\* A step that sends nothing answers nobody wrongly.
LEMMA NothingSent ==
  ASSUME tx' = <<>>
  PROVE  ResponseRouted' /\ AskerAnswered'
BY DEF ResponseRouted, AskerAnswered, Acknowledged

\* Nor does one that changes nothing the two properties look at.
LEMMA AnswersFrame ==
  ASSUME ResponseRouted, AskerAnswered,
         UNCHANGED <<tx, sockets, activator, is_activated, source_address>>
  PROVE  ResponseRouted' /\ AskerAnswered'
<1>1. \A a : Matches(a)' = Matches(a)
  BY DEF Matches
<1>2. ResponseRouted'
  BY DEF ResponseRouted
<1>3. AskerAnswered'
  BY <1>1 DEF AskerAnswered, Acknowledged, AnsweredInPlace, Matches
<1> QED BY <1>2, <1>3

\* One message to the peer that is being served, neither ACK nor response.
LEMMA OtherSent ==
  ASSUME TypeInv, SocketsAccounted, Open(cur), UNCHANGED interfaceVars,
         NEW m \in TxMessage, m.type \notin {"DIAG", "DIAG_ACK"},
         tx' = doip_interface_tcp_send(cur, m)
  PROVE  tx' \in Seq(TxEntry) /\ ResponseRouted' /\ AskerAnswered'
<1>1. InterfaceTypeOK /\ cur \in Slot
  BY DEF TypeInv, TypeOK
<1>2. tx' = <<[fd |-> socket_fd[cur], msg |-> m]>> /\ tx' \in Seq(TxEntry)
  BY <1>1, SendLemma
<1>3. socket_fd[cur] \in sockets'
  BY <1>1 DEF SocketsAccounted, interfaceVars
<1>4. DOMAIN tx' = {1} /\ tx'[1].fd = socket_fd[cur] /\ tx'[1].msg = m
  BY <1>2
<1>5. ResponseRouted'
  BY <1>3, <1>4 DEF ResponseRouted
<1>6. AskerAnswered'
  BY <1>4 DEF AskerAnswered, Acknowledged
<1> QED BY <1>2, <1>5, <1>6

\* The parse loop: the table is left alone, and what is left to deliver stays on
\* an open connection.
LEMMA ConsumeLemma ==
  ASSUME TypeInv, BatchOpen, Consume
  PROVE  /\ Open(cur) /\ cur \in Slot
         /\ InterfaceTypeOK' /\ DiscoveryInv' /\ LoopTypeOK' /\ BatchOpen'
         /\ UNCHANGED interfaceVars
<1>1. Open(cur) /\ cur \in Slot /\ left \in 1..MaxBatch
  BY InterfaceAssumption DEF TypeInv, TypeOK, BatchOpen, Consume
<1>2. left' \in 0..MaxBatch
  BY <1>1, InterfaceAssumption DEF Consume
<1>3. InterfaceTypeOK' /\ UNCHANGED interfaceVars
  BY DEF TypeInv, TypeOK, InterfaceTypeOK, Consume, interfaceVars
<1>4. DiscoveryInv'
  BY DiscoveryFrame DEF TypeInv, TypeOK, DiscoveryInv, Consume
<1>5. CASE left = 1
  <2>1. cur' \in Slot /\ pc' \in {"conn", "timers"} /\ left' = 0
    BY <1>1, <1>5, NextSlotLemma DEF Consume
  <2> QED BY <1>1, <1>2, <1>3, <1>4, <2>1 DEF LoopTypeOK, BatchOpen
<1>6. CASE left # 1
  <2>1. cur' = cur /\ pc' = pc /\ pc = "conn"
    BY <1>6 DEF Consume
  <2>2. Open(cur)'
    BY <1>1, <1>3, <2>1 DEF Open, interfaceVars
  <2> QED BY <1>1, <1>2, <1>3, <1>4, <2>1, <2>2 DEF LoopTypeOK, BatchOpen
<1> QED BY <1>5, <1>6

------------------------------------------------------------------------------
\* Routing activation: context, timer and history change together.
LEMMA RoutingLemma ==
  ASSUME TypeInv, ConnInv, BatchOpen, NEW a \in Addr, ReceiveRoutingActivation(a)
  PROVE  EntityTypeOK' /\ HistoryTypeOK' /\ ConnInv' /\ ResponseRouted' /\ AskerAnswered'
<1>0. Open(cur) /\ cur \in Slot /\ UNCHANGED interfaceVars
  BY ConsumeLemma DEF ReceiveRoutingActivation
<1>1. PICK c \in Slot : c = cur
  BY <1>0
<1>2. SocketsAccounted
  BY DEF ConnInv
<1>3. CASE a \notin TesterAddress
  <2>1. RoutingRefused(c, a) /\ UNCHANGED historyVars
    BY <1>1, <1>3 DEF ReceiveRoutingActivation, handle_routing_activation_request, RoutingActivated
  <2> DEFINE m == RoutingActivationRes(a, DOIP_ROUTING_ACT_RES_UNKNOWN_SOURCE)
  <2>2. m \in TxMessage /\ m.type = "RA_RES"
    BY MessageLemma DEF RoutingActivationRes
  <2>3. tx' = doip_interface_tcp_send(cur, m) /\ UNCHANGED connectionVars
    BY <1>1, <2>1 DEF RoutingRefused
  <2> HIDE DEF m
  <2>4. tx' \in Seq(TxEntry) /\ ResponseRouted' /\ AskerAnswered'
    BY <1>0, <1>2, <2>2, <2>3, OtherSent
  <2>5. ConnInv'
    BY <1>0, <2>1, <2>3, ConnFrame DEF interfaceVars
  <2>6. EntityTypeOK' /\ HistoryTypeOK'
    BY <2>1, <2>3, <2>4 DEF TypeInv, TypeOK, EntityTypeOK, HistoryTypeOK, connectionVars, historyVars
  <2> QED BY <2>4, <2>5, <2>6
<1>4. CASE a \in TesterAddress
  <2>1. /\ is_activated' = [is_activated EXCEPT ![c] = TRUE]
        /\ source_address' = [source_address EXCEPT ![c] = a]
        /\ general_inactivity_timer' = [general_inactivity_timer EXCEPT ![c] = GeneralMs]
        /\ UNCHANGED <<connection_id, initial_inactivity_timer, alive_check_pending>>
        /\ quiet' = [quiet EXCEPT ![c] = 0]
        /\ activator' = [activator EXCEPT ![socket_fd[c]] = a]
    BY <1>1, <1>4 DEF ReceiveRoutingActivation, handle_routing_activation_request,
                      RoutingActivated, RoutingRefused
  <2> DEFINE m == RoutingActivationRes(a, DOIP_ROUTING_ACT_RES_SUCCESS)
  <2>2. m \in TxMessage /\ m.type = "RA_RES"
    BY MessageLemma DEF RoutingActivationRes
  <2>3. tx' = doip_interface_tcp_send(cur, m)
    BY <1>1, <1>4 DEF ReceiveRoutingActivation, handle_routing_activation_request,
                      RoutingActivated, RoutingRefused
  <2> HIDE DEF m
  <2>4. tx' \in Seq(TxEntry) /\ ResponseRouted' /\ AskerAnswered'
    BY <1>0, <1>2, <2>2, <2>3, OtherSent
  <2>5. EntityTypeOK'
    BY <2>1, <2>4, ConfigAssumption DEF TypeInv, TypeOK, EntityTypeOK
  <2>6. HistoryTypeOK'
    <3>1. quiet' \in [Slot -> 0..QuietCap]
      BY <2>1, ConfigAssumption DEF TypeInv, TypeOK, QuietCap
    <3>2. activator' \in [Sock -> TesterAddress \cup {NoAddr}]
      BY <1>4, <2>1 DEF TypeInv, TypeOK
    <3> QED BY <3>1, <3>2 DEF HistoryTypeOK
  <2>7. a # NoAddr
    BY <1>4, ConfigAssumption DEF TesterAddress, NoAddr
  <2>8. socket_fd' = socket_fd /\ socket_fd[c] \in Sock /\ Open(c)
    BY <1>0, <1>1 DEF TypeInv, TypeOK, InterfaceTypeOK, interfaceVars, Open
  <2>9. \A i \in Slot : Open(i)' => Open(i) /\ PeerAddress(i)' = IF i = c THEN a ELSE PeerAddress(i)
    <3>1. \A i \in Slot : Open(i) /\ i # c => socket_fd[i] # socket_fd[c]
      BY <1>2 DEF SocketsAccounted
    <3>2. \A t \in Sock : activator'[t] = IF t = socket_fd[c] THEN a ELSE activator[t]
      BY <2>1, <2>8 DEF TypeInv, TypeOK
    <3>3. \A i \in Slot : Open(i) => socket_fd[i] \in Sock
      BY DEF TypeInv, TypeOK, InterfaceTypeOK, Open
    <3> QED BY <2>8, <3>1, <3>2, <3>3 DEF PeerAddress, Open
  <2>10. \A i \in Slot : IF i = c
           THEN is_activated'[i] /\ source_address'[i] = a /\ connection_id'[i] = connection_id[i]
                /\ general_inactivity_timer'[i] = GeneralMs /\ quiet'[i] = 0
           ELSE /\ connection_id'[i] = connection_id[i] /\ is_activated'[i] = is_activated[i]
                /\ source_address'[i] = source_address[i]
                /\ initial_inactivity_timer'[i] = initial_inactivity_timer[i]
                /\ general_inactivity_timer'[i] = general_inactivity_timer[i]
                /\ quiet'[i] = quiet[i]
    BY <2>1 DEF TypeInv, TypeOK, EntityTypeOK
  <2>11. SocketsAccounted'
    BY <1>0, <1>2 DEF SocketsAccounted, Open, interfaceVars
  <2>12. ContextIsCurrent' /\ OwnSlot'
    BY <2>7, <2>9, <2>10 DEF ConnInv, ContextIsCurrent, OwnSlot
  <2>13. TimersAddUp'
    <3> SUFFICES ASSUME NEW i \in Slot, Open(i)'
                 PROVE  Timer(i)' > 0 /\ Timer(i)' + quiet'[i] = Limit(i)'
      BY DEF TimersAddUp
    <3>1. CASE i = c
      BY <3>1, <2>7, <2>9, <2>10, ConfigAssumption DEF Timer, Limit
    <3>2. CASE i # c
      <4>1. Timer(i)' = Timer(i) /\ Limit(i)' = Limit(i)
        BY <3>2, <2>9, <2>10 DEF Timer, Limit
      <4> QED BY <3>2, <4>1, <2>9, <2>10 DEF ConnInv, TimersAddUp
    <3> QED BY <3>1, <3>2
  <2> QED BY <2>4, <2>5, <2>6, <2>11, <2>12, <2>13 DEF ConnInv
<1> QED BY <1>3, <1>4

\* What is sent for an accepted request: the ACK to the asker, and the response
\* to the first context that matches, if its connection is open.
LEMMA ResponseLemma ==
  ASSUME TypeInv, ConnInv, Open(cur), is_activated[cur], NEW sa \in Addr,
         UNCHANGED <<interfaceVars, activator, is_activated, source_address>>,
         tx' = doip_interface_tcp_send(cur, DiagAck(sa, 0))
                 \o doip_entity_send_diagnostic_response(sa)
  PROVE  tx' \in Seq(TxEntry) /\ ResponseRouted' /\ AskerAnswered'
<1> DEFINE ack == [fd |-> socket_fd[cur], msg |-> DiagAck(sa, 0)]
           j == FirstMatch(sa)
           res == [fd |-> socket_fd[j], msg |-> DiagResponse(sa)]
           answered == Matches(sa) # {} /\ connection_id[j] = j /\ Open(j)
<1>1. InterfaceTypeOK /\ cur \in Slot /\ SocketsAccounted
  BY DEF TypeInv, TypeOK, ConnInv
<1>2. DiagAck(sa, 0) \in TxMessage /\ DiagResponse(sa) \in TxMessage
  BY MessageLemma
<1>3. doip_interface_tcp_send(cur, DiagAck(sa, 0)) = <<ack>> /\ <<ack>> \in Seq(TxEntry)
  BY <1>1, <1>2, SendLemma
<1>4. Matches(sa) # {} => j \in Slot /\ is_activated[j] /\ source_address[j] = sa
  BY FirstMatchLemma DEF Matches
<1>5. Matches(sa) # {} => connection_id[j] \in {-1, j} /\ -1 \notin Slot
  BY <1>4, ConfigAssumption DEF ConnInv, OwnSlot, Slot
<1>6. doip_entity_send_diagnostic_response(sa) = IF answered THEN <<res>> ELSE <<>>
  BY <1>1, <1>2, <1>4, <1>5, SendLemma DEF doip_entity_send_diagnostic_response
<1>7. ack \in TxEntry /\ (answered => res \in TxEntry)
  <2>1. socket_fd[cur] \in Sock
    BY <1>1 DEF InterfaceTypeOK, Open
  <2>2. answered => socket_fd[j] \in Sock
    BY <1>1, <1>4 DEF InterfaceTypeOK, Open
  <2> QED BY <2>1, <2>2, <1>2 DEF TxEntry
<1> HIDE DEF ack, j, res, answered
<1>8. tx' = IF answered THEN <<ack, res>> ELSE <<ack>>
  BY <1>3, <1>6, <1>7
<1>9. /\ tx' \in Seq(TxEntry)
      /\ tx'[1] = ack
      /\ answered => Len(tx') = 2 /\ DOMAIN tx' = {1, 2} /\ tx'[2] = res
      /\ ~answered => DOMAIN tx' = {1}
  <2>1. CASE answered
    <3>1. tx' = <<ack, res>>
      BY <2>1, <1>8
    <3>2. ack \in TxEntry /\ res \in TxEntry
      BY <2>1, <1>7
    <3>3. PICK a \in TxEntry, b \in TxEntry : a = ack /\ b = res
      BY <3>2
    <3>4. PICK t : t = <<a, b>>
      OBVIOUS
    <3>5. t \in Seq(TxEntry) /\ Len(t) = 2 /\ DOMAIN t = {1, 2} /\ t[1] = a /\ t[2] = b
      BY <3>4, PairLemma
    <3>6. tx' = t
      BY <3>1, <3>3, <3>4
    <3> QED BY <2>1, <3>3, <3>5, <3>6
  <2>2. CASE ~answered
    <3>1. tx' = <<ack>>
      BY <2>2, <1>8
    <3> QED BY <2>2, <3>1, <1>7, SingletonLemma, Zenon
  <2> QED BY <2>1, <2>2
<1>10. /\ socket_fd[cur] \in sockets' /\ activator'[socket_fd[cur]] # NoAddr
       /\ ack.fd = socket_fd[cur] /\ ack.msg.type = "DIAG_ACK" /\ ack.msg.to = sa
  BY <1>1 DEF SocketsAccounted, ConnInv, ContextIsCurrent, PeerAddress, interfaceVars, ack, DiagAck
<1>11. /\ res.msg.type = "DIAG" /\ res.msg.to = sa /\ res.fd = socket_fd[j]
       /\ answered => socket_fd[j] \in sockets' /\ activator'[socket_fd[j]] = sa
  BY <1>1, <1>4 DEF SocketsAccounted, ConnInv, ContextIsCurrent, PeerAddress, interfaceVars,
                    res, answered, DiagResponse
<1>12. ResponseRouted'
  BY <1>9, <1>10, <1>11 DEF ResponseRouted
<1>13. AskerAnswered'
  <2>2. Matches(sa)' = Matches(sa)
    BY DEF Matches
  <2> SUFFICES ASSUME activator'[socket_fd[cur]] = sa, \A i, k \in Matches(sa) : i = k
               PROVE  AnsweredInPlace'
    <3>1. tx'[1].fd = socket_fd[cur] /\ tx'[1].msg.to = sa
      BY <1>9, <1>10
    <3>2. Matches(tx[1].msg.to)' = Matches(sa)
      BY <3>1 DEF Matches
    <3> QED BY <3>1, <3>2 DEF AskerAnswered
  <2>3. cur \in Matches(sa) /\ connection_id[cur] = cur
    BY <1>1 DEF ConnInv, ContextIsCurrent, PeerAddress, Matches
  <2>4. j = cur
    BY <2>3, FirstMatchLemma DEF j
  <2>5. answered
    BY <2>3, <2>4 DEF answered
  <2> QED BY <2>4, <2>5, <1>9, <1>10, <1>11 DEF AnsweredInPlace
<1> QED BY <1>9, <1>12, <1>13

\* An accepted request restarts the timer of the connection it came on.
LEMMA DiagnosticLemma ==
  ASSUME TypeInv, ConnInv, BatchOpen, NEW sa \in Addr, ReceiveDiagnostic(sa)
  PROVE  EntityTypeOK' /\ HistoryTypeOK' /\ ConnInv' /\ ResponseRouted' /\ AskerAnswered'
<1>0. Open(cur) /\ cur \in Slot /\ UNCHANGED interfaceVars
  BY ConsumeLemma DEF ReceiveDiagnostic
<1>1. PICK c \in Slot : c = cur
  BY <1>0
<1>2. /\ is_activated[c]
      /\ general_inactivity_timer' = [general_inactivity_timer EXCEPT ![c] = GeneralMs]
      /\ UNCHANGED <<connection_id, source_address, is_activated, initial_inactivity_timer,
                     alive_check_pending, activator>>
      /\ quiet' = [quiet EXCEPT ![c] = 0]
  BY <1>1 DEF ReceiveDiagnostic, DiagAccepted
<1>3. tx' = doip_interface_tcp_send(cur, DiagAck(sa, 0))
              \o doip_entity_send_diagnostic_response(sa)
  BY DEF ReceiveDiagnostic, DiagAccepted
<1>4. tx' \in Seq(TxEntry) /\ ResponseRouted' /\ AskerAnswered'
  BY <1>0, <1>1, <1>2, <1>3, ResponseLemma
<1>5. EntityTypeOK'
  BY <1>2, <1>4, ConfigAssumption DEF TypeInv, TypeOK, EntityTypeOK
<1>6. HistoryTypeOK'
  BY <1>2, ConfigAssumption DEF TypeInv, TypeOK, HistoryTypeOK, QuietCap
<1>7. \A i \in Slot : (Open(i)' <=> Open(i)) /\ PeerAddress(i)' = PeerAddress(i)
  BY <1>0, <1>2 DEF Open, PeerAddress, interfaceVars
<1>8. SocketsAccounted'
  BY <1>0 DEF ConnInv, SocketsAccounted, Open, interfaceVars
<1>9. ContextIsCurrent' /\ OwnSlot'
  BY <1>2, <1>7 DEF ConnInv, ContextIsCurrent, OwnSlot
<1>10. TimersAddUp'
  <2> SUFFICES ASSUME NEW i \in Slot, Open(i)'
               PROVE  Timer(i)' > 0 /\ Timer(i)' + quiet'[i] = Limit(i)'
    BY DEF TimersAddUp
  <2>1. CASE i = c
    <3>1. PeerAddress(i) # NoAddr
      BY <2>1, <1>2, <1>7 DEF ConnInv, ContextIsCurrent
    <3>2. Timer(i)' = GeneralMs /\ quiet'[i] = 0
      BY <2>1, <1>2 DEF Timer, TypeInv, TypeOK, EntityTypeOK
    <3> QED BY <3>1, <3>2, <1>7, ConfigAssumption DEF Limit
  <2>2. CASE i # c
    <3>1. Timer(i)' = Timer(i) /\ Limit(i)' = Limit(i) /\ quiet'[i] = quiet[i]
      BY <2>2, <1>2, <1>7 DEF Timer, Limit, TypeInv, TypeOK, EntityTypeOK
    <3> QED BY <3>1, <1>7 DEF ConnInv, TimersAddUp
  <2> QED BY <2>1, <2>2
<1> QED BY <1>4, <1>5, <1>6, <1>8, <1>9, <1>10 DEF ConnInv

\* Refused and ignored messages change no context.
LEMMA RefusedLemma ==
  ASSUME TypeInv, ConnInv, BatchOpen, ReceiveRefused
  PROVE  EntityTypeOK' /\ HistoryTypeOK' /\ ConnInv' /\ ResponseRouted' /\ AskerAnswered'
<1>0. Open(cur) /\ cur \in Slot /\ UNCHANGED interfaceVars /\ UNCHANGED historyVars
  BY ConsumeLemma DEF ReceiveRefused
<1>1. SocketsAccounted
  BY DEF ConnInv
<1>2. tx' \in Seq(TxEntry) /\ ResponseRouted' /\ AskerAnswered'
  <2>1. CASE DiagNotActivated(cur)
    <3> DEFINE m == DiagAck(NoAddr, DOIP_DIAG_NACK_INVALID_SOURCE)
    <3>0. m.type = "DIAG_NACK"
      BY DEF DiagAck, DOIP_DIAG_NACK_INVALID_SOURCE
    <3>1. m \in TxMessage
      BY MessageLemma
    <3>2. tx' = doip_interface_tcp_send(cur, m)
      BY <2>1 DEF DiagNotActivated
    <3> HIDE DEF m
    <3> QED BY <1>0, <1>1, <3>0, <3>1, <3>2, OtherSent
  <2>2. ASSUME NEW ta \in Addr, DiagUnknownTarget(cur, ta)
        PROVE  tx' \in Seq(TxEntry) /\ ResponseRouted' /\ AskerAnswered'
    <3> DEFINE m == DiagAck(ta, DOIP_DIAG_NACK_UNKNOWN_TARGET)
    <3>0. m.type = "DIAG_NACK"
      BY DEF DiagAck, DOIP_DIAG_NACK_UNKNOWN_TARGET
    <3>1. m \in TxMessage
      BY MessageLemma
    <3>2. tx' = doip_interface_tcp_send(cur, m)
      BY <2>2 DEF DiagUnknownTarget
    <3> HIDE DEF m
    <3> QED BY <1>0, <1>1, <3>0, <3>1, <3>2, OtherSent
  <2>3. CASE DiagUndecodable(cur) \/ AliveCheckResponse(cur) \/ IgnoredMessage
    <3>1. tx' = <<>>
      BY <2>3 DEF DiagUndecodable, AliveCheckResponse, IgnoredMessage
    <3> QED BY <3>1, NothingSent
  <2> QED BY <2>1, <2>2, <2>3 DEF ReceiveRefused
<1>3. /\ alive_check_pending' \in [Slot -> BOOLEAN]
      /\ UNCHANGED <<connection_id, source_address, is_activated, initial_inactivity_timer,
                     general_inactivity_timer>>
  BY DEF ReceiveRefused, DiagNotActivated, DiagUnknownTarget, DiagUndecodable, AliveCheckResponse,
         IgnoredMessage, connectionVars, TypeInv, TypeOK, EntityTypeOK
<1>4. EntityTypeOK' /\ HistoryTypeOK'
  BY <1>0, <1>2, <1>3 DEF TypeInv, TypeOK, EntityTypeOK, HistoryTypeOK, historyVars
<1>5. SocketsAccounted'
  BY <1>0 DEF ConnInv, SocketsAccounted, Open, interfaceVars
<1>6. ContextIsCurrent' /\ OwnSlot' /\ TimersAddUp'
  BY <1>0, <1>3 DEF ConnInv, ContextIsCurrent, OwnSlot, TimersAddUp, Open, PeerAddress, Timer, Limit,
                    interfaceVars, historyVars
<1> QED BY <1>2, <1>4, <1>5, <1>6 DEF ConnInv

------------------------------------------------------------------------------
\* TypeInv put together from its parts.
LEMMA TypeInvParts ==
  /\ TypeInv <=> InterfaceTypeOK /\ EntityTypeOK /\ DiscoveryInv /\ LoopTypeOK /\ HistoryTypeOK
  /\ TypeInv' <=> InterfaceTypeOK' /\ EntityTypeOK' /\ DiscoveryInv' /\ LoopTypeOK' /\ HistoryTypeOK'
BY DEF TypeInv, TypeOK, DiscoveryInv, LoopTypeOK, HistoryTypeOK

\* All slots closed, all contexts empty, nothing sent.
LEMMA InitLemma == Init => IInv
<1> SUFFICES ASSUME Init PROVE IInv
  OBVIOUS
<1> USE DEF Init, doip_interface_init, doip_entity_init, DiscoveryInit
<1>1. InterfaceTypeOK /\ EntityTypeOK
  BY ConfigAssumption, InterfaceAssumption DEF InterfaceTypeOK, EntityTypeOK, ConnState
<1>2. DiscoveryInv
  <2>1. udp_rx_buffer \in [IdField -> IdByte]
    BY DiscoveryAssumption
  <2>2. seenAt \in [IdField -> SUBSET IdByte]
    BY DiscoveryAssumption
  <2>3. lastBrought \in Seq(IdByte)
    OBVIOUS
  <2> QED BY <2>1, <2>2, <2>3, ConfigAssumption DEF DiscoveryInv, DiscoveryTypeOK
<1>3. LoopTypeOK /\ HistoryTypeOK
  BY ConfigAssumption, InterfaceAssumption DEF LoopTypeOK, HistoryTypeOK, QuietCap, Slot
<1>4. \A i \in Slot : ~Open(i) /\ conn_state[i] = DOIP_CONN_STATE_CLOSED /\ connection_id[i] = -1
  BY DEF Open
<1>5. ConnInv
  BY <1>4 DEF ConnInv, SocketsAccounted, ContextIsCurrent, OwnSlot, TimersAddUp
<1>6. BatchOpen /\ ResponseRouted /\ AskerAnswered
  BY DEF BatchOpen, ResponseRouted, AskerAnswered, Acknowledged
<1> QED BY <1>1, <1>2, <1>3, <1>5, <1>6, TypeInvParts DEF IInv

\* The steps that leave the connections and their history alone.
LEMMA QuietStepLemma ==
  ASSUME IInv, PollUdp \/ AcceptNoConnection \/ NothingReceived \/ MessagesReceived
  PROVE  IInv'
<1>0. /\ InterfaceTypeOK /\ EntityTypeOK /\ DiscoveryInv /\ LoopTypeOK /\ HistoryTypeOK
      /\ ConnInv /\ BatchOpen
  BY TypeInvParts DEF IInv
<1>1. /\ tx' = <<>>
      /\ UNCHANGED <<socket_fd, conn_state, sockets, connectionVars, historyVars>>
  BY DEF PollUdp, AcceptNoConnection, AcceptRefused, AcceptNothing, NothingReceived,
         MessagesReceived, interfaceVars
<1>2. ConnInv' /\ ResponseRouted' /\ AskerAnswered'
  BY <1>0, <1>1, ConnFrame, NothingSent
<1>3. EntityTypeOK' /\ HistoryTypeOK'
  BY <1>0, <1>1 DEF EntityTypeOK, HistoryTypeOK, connectionVars, historyVars
<1>4. InterfaceTypeOK'
  <2>1. backlog' \in 0..MaxBacklog
    <3>1. CASE PollUdp \/ NothingReceived \/ MessagesReceived \/ AcceptNothing
      BY <1>0, <3>1 DEF InterfaceTypeOK, PollUdp, NothingReceived, MessagesReceived,
                        AcceptNothing, interfaceVars
    <3>2. CASE AcceptRefused
      BY <1>0, <3>2, InterfaceAssumption DEF InterfaceTypeOK, AcceptRefused
    <3> QED BY <3>1, <3>2 DEF AcceptNoConnection
  <2> QED BY <1>0, <1>1, <2>1 DEF InterfaceTypeOK
<1>5. DiscoveryInv'
  <2>1. CASE PollUdp
    BY <1>0, <2>1, DatagramLemma DEF PollUdp
  <2>2. CASE AcceptNoConnection \/ NothingReceived \/ MessagesReceived
    BY <1>0, <2>2, DiscoveryFrame DEF AcceptNoConnection, NothingReceived, MessagesReceived
  <2> QED BY <2>1, <2>2
<1>6. LoopTypeOK' /\ BatchOpen'
  <2>1. CASE PollUdp \/ AcceptNoConnection
    BY <1>0, <2>1 DEF LoopTypeOK, BatchOpen, PollUdp, AcceptNoConnection
  <2>2. CASE NothingReceived
    <3>1. cur' \in Slot /\ pc' \in {"conn", "timers"} /\ left' = 0
      BY <1>0, <2>2, NextSlotLemma DEF NothingReceived, LoopTypeOK
    <3> QED BY <3>1, InterfaceAssumption DEF LoopTypeOK, BatchOpen
  <2>3. CASE MessagesReceived
    BY <1>0, <1>1, <2>3, InterfaceAssumption DEF LoopTypeOK, BatchOpen, MessagesReceived, Open
  <2> QED BY <2>1, <2>2, <2>3
<1> QED BY <1>2, <1>3, <1>4, <1>5, <1>6, TypeInvParts DEF IInv

\* The invariant is inductive.
LEMMA StepLemma == IInv /\ [Next]_vars => IInv'
<1> SUFFICES ASSUME IInv, [Next]_vars PROVE IInv'
  OBVIOUS
<1>0. /\ InterfaceTypeOK /\ EntityTypeOK /\ DiscoveryInv /\ LoopTypeOK /\ HistoryTypeOK
      /\ TypeInv /\ ConnInv /\ BatchOpen /\ ResponseRouted /\ AskerAnswered
  BY TypeInvParts DEF IInv
<1>1. CASE PollUdp \/ AcceptNoConnection \/ NothingReceived \/ MessagesReceived
  BY <1>1, QuietStepLemma
<1>2. ASSUME NEW s \in Sock, AcceptConnection(s) PROVE IInv'
  <2>1. InterfaceTypeOK' /\ EntityTypeOK' /\ HistoryTypeOK' /\ ConnInv'
    BY <1>0, <1>2, AcceptLemma
  <2>2. tx' = <<>> /\ pc = "accept" /\ pc' = "conn" /\ UNCHANGED <<discoveryVars, cur, left>>
    BY <1>2 DEF AcceptConnection, entity_tcp_connected_callback
  <2>3. DiscoveryInv' /\ ResponseRouted' /\ AskerAnswered'
    BY <1>0, <2>2, DiscoveryFrame, NothingSent
  <2>4. LoopTypeOK' /\ BatchOpen'
    BY <1>0, <2>2 DEF LoopTypeOK, BatchOpen
  <2> QED BY <2>1, <2>3, <2>4, TypeInvParts DEF IInv
<1>3. CASE PeerClosed
  <2>1. InterfaceTypeOK' /\ EntityTypeOK' /\ HistoryTypeOK' /\ ConnInv'
    BY <1>0, <1>3, PeerClosedLemma
  <2>2. tx' = <<>> /\ left' = 0 /\ UNCHANGED discoveryVars
    BY <1>3 DEF PeerClosed, entity_tcp_disconnected_callback
  <2>3. DiscoveryInv' /\ ResponseRouted' /\ AskerAnswered'
    BY <1>0, <2>2, DiscoveryFrame, NothingSent
  <2>4. cur' \in Slot /\ pc' \in {"conn", "timers"}
    BY <1>0, <1>3, NextSlotLemma DEF LoopTypeOK, PeerClosed
  <2>5. LoopTypeOK' /\ BatchOpen'
    BY <2>2, <2>4, InterfaceAssumption DEF LoopTypeOK, BatchOpen
  <2> QED BY <2>1, <2>3, <2>5, TypeInvParts DEF IInv
<1>4. ASSUME NEW a \in Addr, ReceiveRoutingActivation(a) \/ ReceiveDiagnostic(a) PROVE IInv'
  <2>1. EntityTypeOK' /\ HistoryTypeOK' /\ ConnInv' /\ ResponseRouted' /\ AskerAnswered'
    BY <1>0, <1>4, RoutingLemma, DiagnosticLemma
  <2>2. InterfaceTypeOK' /\ DiscoveryInv' /\ LoopTypeOK' /\ BatchOpen'
    BY <1>0, <1>4, ConsumeLemma DEF ReceiveRoutingActivation, ReceiveDiagnostic
  <2> QED BY <2>1, <2>2, TypeInvParts DEF IInv
<1>5. CASE ReceiveRefused
  <2>1. EntityTypeOK' /\ HistoryTypeOK' /\ ConnInv' /\ ResponseRouted' /\ AskerAnswered'
    BY <1>0, <1>5, RefusedLemma
  <2>2. InterfaceTypeOK' /\ DiscoveryInv' /\ LoopTypeOK' /\ BatchOpen'
    BY <1>0, <1>5, ConsumeLemma DEF ReceiveRefused
  <2> QED BY <2>1, <2>2, TypeInvParts DEF IInv
<1>6. CASE doip_entity_update_timers
  <2>1. InterfaceTypeOK' /\ EntityTypeOK' /\ HistoryTypeOK' /\ ConnInv'
    BY <1>0, <1>6, TimersLemma
  <2>2. /\ UpdateAnnouncementTimer /\ tx' = <<>>
        /\ pc = "timers" /\ pc' = "udp" /\ UNCHANGED <<cur, left>>
    BY <1>6 DEF doip_entity_update_timers
  <2>3. DiscoveryInv' /\ ResponseRouted' /\ AskerAnswered'
    BY <1>0, <2>2, AnnouncementLemma, NothingSent
  <2>4. LoopTypeOK' /\ BatchOpen'
    BY <1>0, <2>2 DEF LoopTypeOK, BatchOpen
  <2> QED BY <2>1, <2>3, <2>4, TypeInvParts DEF IInv
<1>7. CASE Environment \/ UNCHANGED vars
  <2>1. /\ UNCHANGED <<socket_fd, conn_state, sockets, connectionVars, historyVars>>
        /\ UNCHANGED <<tx, discoveryVars, pc, cur, left>>
    BY <1>7 DEF Environment, PeerConnects, vars, entityVars, loopVars, interfaceVars
  <2>2. backlog' \in 0..MaxBacklog
    BY <1>0, <1>7, InterfaceAssumption
    DEF Environment, PeerConnects, vars, interfaceVars, InterfaceTypeOK
  <2>3. InterfaceTypeOK'
    BY <1>0, <2>1, <2>2 DEF InterfaceTypeOK
  <2>4. EntityTypeOK' /\ HistoryTypeOK'
    BY <1>0, <2>1 DEF EntityTypeOK, HistoryTypeOK, connectionVars, historyVars
  <2>5. LoopTypeOK' /\ BatchOpen'
    BY <1>0, <2>1 DEF LoopTypeOK, BatchOpen, Open
  <2>6. ConnInv' /\ DiscoveryInv'
    BY <1>0, <2>1, ConnFrame, DiscoveryFrame
  <2>7. ResponseRouted' /\ AskerAnswered'
    BY <1>0, <2>1, AnswersFrame DEF connectionVars, historyVars
  <2> QED BY <2>3, <2>4, <2>5, <2>6, <2>7, TypeInvParts DEF IInv
<1> QED BY <1>1, <1>2, <1>3, <1>4, <1>5, <1>6, <1>7 DEF Next, doip_entity_task

\* So it holds in every reachable state.
LEMMA Invariance == Spec => []IInv
BY InitLemma, StepLemma, PTL DEF Spec

------------------------------------------------------------------------------
\* Every variable of the loop keeps its type; no timer wraps below zero.
THEOREM TypeCorrect == Spec => []TypeOK
<1>1. IInv => TypeOK
  BY DEF IInv, TypeInv
<1> QED BY <1>1, Invariance, PTL

\* No accept, refusal, peer close or timeout loses or shares a descriptor.
THEOREM SocketsKept == Spec => []SocketsAccounted
<1>1. IInv => SocketsAccounted
  BY DEF IInv, ConnInv
<1> QED BY <1>1, Invariance, PTL

\* The entity's context of an open connection is that connection's own, although
\* timeouts leave contexts behind in slots that are used again.
THEOREM ContextsCurrent == Spec => []ContextIsCurrent
<1>1. IInv => ContextIsCurrent
  BY DEF IInv, ConnInv
<1> QED BY <1>1, Invariance, PTL

\* doip_entity_update_timers lets no connection outlive its limit.
THEOREM SilenceBounded == Spec => []InactivityBounded
<1>1. IInv => InactivityBounded
  <2> SUFFICES ASSUME IInv, NEW i \in Slot, Open(i) PROVE quiet[i] < Limit(i)
    BY DEF InactivityBounded
  <2>1. Timer(i) > 0 /\ Timer(i) + quiet[i] = Limit(i)
    BY DEF IInv, ConnInv, TimersAddUp
  <2>2. Timer(i) \in Nat /\ quiet[i] \in Nat
    BY ConfigAssumption DEF IInv, TypeInv, TypeOK, EntityTypeOK, Timer
  <2> QED BY <2>1, <2>2
<1> QED BY <1>1, Invariance, PTL

\* Nor does it close one early.
THEOREM ClosedOnTime == Spec => NeverClosedEarly
<1> DEFINE A == pc = "timers" =>
       \A i \in Slot : Open(i) /\ socket_fd'[i] = NoSock => quiet[i] + CycleMs >= Limit(i)
<1>1. IInv /\ [Next]_vars => [A]_vars
  <2> SUFFICES ASSUME IInv, Next, pc = "timers", NEW i \in Slot, Open(i), socket_fd'[i] = NoSock
               PROVE  quiet[i] + CycleMs >= Limit(i)
    OBVIOUS
  <2>0. left = 0
    BY InterfaceAssumption DEF IInv, TypeInv, TypeOK, BatchOpen
  <2>1. CASE Environment
    BY <2>1 DEF Environment, PeerConnects, Open
  <2>2. CASE doip_entity_update_timers
    <3>1. Expired(i)
      BY <2>2, TimersCloseLemma DEF IInv, Open
    <3>2. Timer(i) <= CycleMs /\ Timer(i) + quiet[i] = Limit(i)
      BY <3>1 DEF Expired, IInv, ConnInv, TimersAddUp
    <3>3. Timer(i) \in Nat /\ quiet[i] \in Nat /\ CycleMs \in Nat
      BY ConfigAssumption DEF IInv, TypeInv, TypeOK, EntityTypeOK, Timer
    <3> QED BY <3>2, <3>3
  <2> QED BY <2>0, <2>1, <2>2
      DEF Next, doip_entity_task, PollUdp, AcceptConnection, AcceptNoConnection, NothingReceived,
          MessagesReceived, PeerClosed, ReceiveRoutingActivation, ReceiveDiagnostic,
          ReceiveRefused, Consume
<1> QED BY <1>1, Invariance, PTL DEF Spec, NeverClosedEarly

\* Neither a reused slot nor a stale context makes a response reach another tester.
THEOREM ResponsesRouted == Spec => []ResponseRouted
<1>1. IInv => ResponseRouted
  BY DEF IInv
<1> QED BY <1>1, Invariance, PTL

\* The asker gets its response where it asked, if no other context has its address.
THEOREM AskersAnswered == Spec => []AskerAnswered
<1>1. IInv => AskerAnswered
  BY DEF IInv
<1> QED BY <1>1, Invariance, PTL

------------------------------------------------------------------------------
\* Discovery: what the announcement timer and the receive buffer stand for.
AnnouncementsAddUp ==
  announcement_count \in 1..(AnnounceCount - 1) =>
    announcement_timer > 0 /\ announcement_timer + sinceAnnounce = AnnounceMs

BufferSeen == \A i \in IdField : udp_rx_buffer[i] \in seenAt[i]

DInv == AnnouncementsAddUp /\ BufferSeen /\ IdentifierBytesSeen

\* Which steps touch the discovery state.
LEMMA DiscoverySteps ==
  ASSUME [Next]_vars
  PROVE  \/ UNCHANGED discoveryVars
         \/ NoDatagram
         \/ \E d \in Datagrams : entity_udp_rx_callback(d)
         \/ UpdateAnnouncementTimer
<1>1. CASE UNCHANGED vars
  BY <1>1 DEF vars
<1>2. CASE doip_entity_task
  BY <1>2 DEF doip_entity_task, PollUdp, AcceptConnection, AcceptNoConnection, NothingReceived,
              MessagesReceived, PeerClosed, ReceiveRoutingActivation, ReceiveDiagnostic,
              ReceiveRefused, Consume, doip_entity_update_timers
<1>3. CASE Environment
  BY <1>3 DEF Environment
<1> QED BY <1>1, <1>2, <1>3 DEF Next

\* The timer update either announces, or counts, or does neither.
LEMMA AnnouncementCases ==
  ASSUME DiscoveryInv, AnnouncementsAddUp, UpdateAnnouncementTimer
  PROVE  /\ AnnouncementsAddUp' /\ udp_tx' \in {"nothing", "announcement"}
         /\ UNCHANGED <<udp_rx_buffer, lastBrought, seenAt>>
         /\ announcement_count' # announcement_count /\ announcement_count > 0 =>
              sinceAnnounce + CycleMs >= AnnounceMs
<1>0. /\ announcement_count \in 0..AnnounceCount /\ announcement_timer \in 0..AnnounceMs
      /\ sinceAnnounce \in Nat /\ AnnounceMs \in Nat \ {0} /\ AnnounceCount \in Nat
      /\ CycleMs \in Nat \ {0}
  BY ConfigAssumption DEF DiscoveryInv, DiscoveryTypeOK
<1>1. ASSUME NEW ok \in BOOLEAN, Announce(ok)
      PROVE  /\ AnnouncementsAddUp' /\ udp_tx' \in {"nothing", "announcement"}
             /\ UNCHANGED <<udp_rx_buffer, lastBrought, seenAt>>
             /\ announcement_count > 0 => sinceAnnounce + CycleMs >= AnnounceMs
  <2>1. AnnouncementsAddUp' /\ udp_tx' \in {"nothing", "announcement"}
        /\ UNCHANGED <<udp_rx_buffer, lastBrought, seenAt>>
    BY <1>0, <1>1 DEF Announce, AnnouncementsAddUp
  <2>2. announcement_count > 0 => sinceAnnounce + CycleMs >= AnnounceMs
    BY <1>0, <1>1 DEF Announce, AnnounceDue, AnnouncementsAddUp
  <2> QED BY <2>1, <2>2
<1>2. CASE /\ announcement_count < AnnounceCount /\ ~AnnounceDue
           /\ announcement_timer' = announcement_timer - CycleMs
           /\ sinceAnnounce' = sinceAnnounce + CycleMs
           /\ udp_tx' = "nothing"
           /\ UNCHANGED <<announcement_count, udp_rx_buffer, lastBrought, seenAt, sentOk>>
  BY <1>0, <1>2 DEF AnnounceDue, AnnouncementsAddUp
<1>3. CASE /\ announcement_count = AnnounceCount
           /\ udp_tx' = "nothing"
           /\ UNCHANGED <<announcement_count, announcement_timer, udp_rx_buffer, lastBrought, seenAt, sentOk,
                          sinceAnnounce>>
  BY <1>0, <1>3 DEF AnnouncementsAddUp
<1> QED BY <1>1, <1>2, <1>3 DEF UpdateAnnouncementTimer

\* DInv is inductive, given the types.
LEMMA DiscoveryInvariance == Spec => []DInv
<1>1. Init => DInv
  BY ConfigAssumption
  DEF Init, DiscoveryInit, DInv, AnnouncementsAddUp, BufferSeen, IdentifierBytesSeen
<1>2. IInv /\ DInv /\ [Next]_vars => DInv'
  <2> SUFFICES ASSUME IInv, DInv, [Next]_vars PROVE DInv'
    OBVIOUS
  <2>0. DiscoveryInv
    BY TypeInvParts DEF IInv
  <2>1. CASE UNCHANGED discoveryVars
    BY <2>1 DEF DInv, AnnouncementsAddUp, BufferSeen, IdentifierBytesSeen, IdentifierAskedFor, discoveryVars
  <2>2. CASE NoDatagram
    BY <2>2 DEF NoDatagram, DInv, AnnouncementsAddUp, BufferSeen, IdentifierBytesSeen
  <2>3. ASSUME NEW d \in Datagrams, entity_udp_rx_callback(d) PROVE DInv'
    <3>1. AnnouncementsAddUp'
      BY <2>3 DEF entity_udp_rx_callback, DInv, AnnouncementsAddUp
    <3>2. \A i \in IdField : BufferAfter(d)[i] \in seenAt'[i]
      BY <2>3 DEF entity_udp_rx_callback, BufferAfter, DInv, BufferSeen
    <3>3. BufferSeen'
      BY <2>3, <3>2 DEF entity_udp_rx_callback, BufferSeen
    <3>4. IdentifierBytesSeen'
      <4> SUFFICES ASSUME udp_tx' \in {"REQ_VIN", "REQ_EID"}, NEW i \in DOMAIN IdentifierAskedFor'
                   PROVE  IF i <= Len(lastBrought') THEN lastBrought'[i] = IdentifierAskedFor'[i]
                                                    ELSE IdentifierAskedFor'[i] \in seenAt'[i]
        BY DEF IdentifierBytesSeen
      <4>1. d.type = udp_tx' /\ handle_vehicle_id_request(d)
        BY <2>3 DEF entity_udp_rx_callback
      <4>2. Compared(d, IdentifierAskedFor')
        BY <4>1 DEF handle_vehicle_id_request, IdentifierAskedFor
      <4>3. i \in IdField
        BY DiscoveryAssumption DEF IdField, IdentifierAskedFor
      <4>4. BufferAfter(d)[i] = IdentifierAskedFor'[i]
        BY <4>2 DEF Compared
      <4>5. i <= Len(d.brought) => BufferAfter(d)[i] = d.brought[i]
        BY <4>3 DEF BufferAfter
      <4>6. lastBrought' = d.brought
        BY <2>3 DEF entity_udp_rx_callback
      <4> QED BY <3>2, <4>3, <4>4, <4>5, <4>6
    <3> QED BY <3>1, <3>3, <3>4 DEF DInv
  <2>4. CASE UpdateAnnouncementTimer
    <3>1. /\ AnnouncementsAddUp' /\ udp_tx' \in {"nothing", "announcement"}
          /\ UNCHANGED <<udp_rx_buffer, lastBrought, seenAt>>
      BY <2>0, <2>4, AnnouncementCases DEF DInv
    <3> QED BY <3>1 DEF DInv, BufferSeen, IdentifierBytesSeen
  <2> QED BY <2>1, <2>2, <2>3, <2>4, DiscoverySteps
<1> QED BY <1>1, <1>2, Invariance, PTL DEF Spec

\* Announcements still to be made are never late, whatever the interval and the
\* cycle time are.
THEOREM AnnouncedOnTime == Spec => []AnnouncementsOnTime
<1>1. IInv /\ DInv => AnnouncementsOnTime
  <2> SUFFICES ASSUME IInv, DInv, announcement_count \in 1..(AnnounceCount - 1)
               PROVE  sinceAnnounce < AnnounceMs
    BY DEF AnnouncementsOnTime
  <2>1. announcement_timer > 0 /\ announcement_timer + sinceAnnounce = AnnounceMs
    BY DEF DInv, AnnouncementsAddUp
  <2>2. announcement_timer \in Nat /\ sinceAnnounce \in Nat /\ AnnounceMs \in Nat
    BY ConfigAssumption DEF IInv, TypeInv, TypeOK, DiscoveryTypeOK
  <2> QED BY <2>1, <2>2
<1> QED BY <1>1, Invariance, DiscoveryInvariance, PTL

\* Nor does one follow the other too soon.
THEOREM AnnouncedApart == Spec => AnnouncementsSpaced
<1> DEFINE A == announcement_count' # announcement_count /\ announcement_count > 0
                  => sinceAnnounce + CycleMs >= AnnounceMs
<1>1. IInv /\ DInv /\ [Next]_vars => [A]_vars
  <2> SUFFICES ASSUME IInv, DInv, [Next]_vars PROVE A
    OBVIOUS
  <2>0. DiscoveryInv
    BY TypeInvParts DEF IInv
  <2>1. CASE UpdateAnnouncementTimer
    BY <2>0, <2>1, AnnouncementCases DEF DInv
  <2>2. CASE ~UpdateAnnouncementTimer
    BY <2>2, DiscoverySteps DEF NoDatagram, entity_udp_rx_callback, discoveryVars
  <2> QED BY <2>1, <2>2
<1> QED BY <1>1, Invariance, DiscoveryInvariance, PTL DEF Spec, AnnouncementsSpaced

\* A VIN or EID request is answered only for bytes really received, each at its
\* place, the ones the request itself brought included, although the receive
\* buffer is never cleared.
THEOREM IdentifiersSeen == Spec => []IdentifierBytesSeen
<1>1. DInv => IdentifierBytesSeen
  BY DEF DInv
<1> QED BY <1>1, DiscoveryInvariance, PTL
==============================================================================
