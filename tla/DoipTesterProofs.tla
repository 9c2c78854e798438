--------------------------- MODULE DoipTesterProofs ---------------------------
(***************************************************************************)
(* Proofs about DoipTester, for any number of descriptors, vehicles, calls *)
(* and messages in flight and any response timeout and cycle length.       *)
(***************************************************************************)
EXTENDS DoipTester, SequenceTheorems, FiniteSetTheorems, TLAPS

\* The types survive every step: in particular neither the timer (an unsigned
\* subtraction in doip_tester_update_timers) nor the queues leave their ranges.
LEMMA TypeStep == TypeOK /\ [Next]_vars => TypeOK'
<1> SUFFICES ASSUME TypeOK, [Next]_vars PROVE TypeOK'
  OBVIOUS
<1> USE TesterAssumption
<1>1. ASSUME NEW bound \in BOOLEAN, NEW left \in BOOLEAN, doip_tester_start_discovery(bound, left)
      PROVE TypeOK'
  BY <1>1 DEF doip_tester_start_discovery, Call, StartWaiting, TypeOK, TesterState, entityVars
<1>2. ASSUME NEW v \in Vehicle, NEW s \in Sock, doip_tester_connect(v, s) PROVE TypeOK'
  <2>1. entity' \in [ip : Vehicle \cup {NoVehicle}, vin : Vehicle \cup {NoVehicle}]
    BY <1>2 DEF doip_tester_connect, TypeOK
  <2>2. up' \in [Sock -> Seq({"ACTIVATE", "DIAG"})] /\ down' \in [Sock -> Seq(Answer)]
    BY <1>2, EmptySeq DEF doip_tester_connect, TypeOK
  <2>3. fin' \in [Sock -> BOOLEAN]
    BY <1>2, Zenon DEF doip_tester_connect, TypeOK
  <2>0. /\ Call /\ sockets' = sockets \cup {s} /\ UNCHANGED accepted
        /\ overlaps' = IF socket_fd = NoSock THEN overlaps ELSE overlaps + 1
    BY <1>2, Zenon DEF doip_tester_connect
  <2>4. overlaps' \in Nat /\ accepted' \subseteq sockets' /\ sockets' \subseteq Sock
    BY <2>0 DEF TypeOK
  <2>5. calls' \in 0..MaxCalls
    BY <2>0 DEF Call, TypeOK
  <2>6. state' \in TesterState /\ tcp_connection_id' \in {-1, 0} /\ socket_fd' \in Sock \cup {NoSock}
    BY <1>2 DEF doip_tester_connect, TesterState
  <2>7. UNCHANGED <<routing_activated, timeout_timer, udp_socket, udpSockets, waited, rebinds, pc, rx>>
    BY <1>2 DEF doip_tester_connect, Call
  <2>8. partial' \in BOOLEAN /\ aligned' \in BOOLEAN
    BY <1>2, Zenon DEF doip_tester_connect, TypeOK
  <2> QED
    BY <2>1, <2>2, <2>3, <2>4, <2>5, <2>6, <2>7, <2>8 DEF TypeOK
<1>3. CASE CallFails
  BY <1>3 DEF CallFails, Call, TypeOK, testerVars, lwipVars, entityVars
<1>4. CASE doip_tester_activate_routing
  BY <1>4 DEF doip_tester_activate_routing, Call, CanSend, StartWaiting, TypeOK, TesterState, lwipVars
<1>5. CASE doip_tester_send_diagnostic
  BY <1>5 DEF doip_tester_send_diagnostic, Call, CanSend, TypeOK, testerVars, lwipVars
<1>6. CASE ProcessUdp
  BY <1>6 DEF ProcessUdp, handle_vehicle_announcement, TypeOK, TesterState, lwipVars, entityVars, historyVars
<1>7. CASE NoConnection
  BY <1>7 DEF NoConnection, TypeOK, testerVars, lwipVars, entityVars, historyVars
<1>8. ASSUME NEW n \in 0..MaxWire, NEW cut \in BOOLEAN, TcpReceive(n, cut) PROVE TypeOK'
  <2>1. socket_fd \in Sock /\ down[socket_fd] \in Seq(Answer) /\ n \in 0..Len(down[socket_fd])
    BY <1>8 DEF TcpReceive, TypeOK
  <2>2. /\ SubSeq(down[socket_fd], 1, n) \in Seq(Answer)
        /\ SubSeq(down[socket_fd], n + 1, Len(down[socket_fd])) \in Seq(Answer)
    BY <2>1
  <2> QED
    BY <1>8, <2>1, <2>2 DEF TcpReceive, TypeOK, testerVars, historyVars
<1>16. ASSUME NEW n \in 0..MaxWire, TcpReceiveGarbled(n) PROVE TypeOK'
  <2>1. socket_fd \in Sock /\ down[socket_fd] \in Seq(Answer) /\ n \in 0..Len(down[socket_fd])
    BY <1>16 DEF TcpReceiveGarbled, TypeOK
  <2>2. SubSeq(down[socket_fd], n + 1, Len(down[socket_fd])) \in Seq(Answer)
    BY <2>1
  <2>3. rx' \in Seq(Answer)
    <3>1. PICK k \in 0..MaxWire : rx' \in [1..k -> Answer]
      BY <1>16 DEF TcpReceiveGarbled, Garbled
    <3> QED
      BY <3>1
  <2> QED
    BY <1>16, <2>1, <2>2, <2>3 DEF TcpReceiveGarbled, TypeOK, testerVars, historyVars
<1>9. CASE TcpClosed
  BY <1>9 DEF TcpClosed, TypeOK, testerVars, historyVars
<1>10. CASE tester_tcp_rx_callback
  <2>1. rx' \in Seq(Answer)
    BY <1>10 DEF tester_tcp_rx_callback, TypeOK
  <2>2. routing_activated' \in BOOLEAN /\ state' \in TesterState
    BY <1>10 DEF tester_tcp_rx_callback, handle_routing_activation_response, TypeOK, TesterState
  <2> QED
    BY <1>10, <2>1, <2>2 DEF tester_tcp_rx_callback, TypeOK, lwipVars, entityVars, historyVars
<1>11. CASE ParseDone
  BY <1>11 DEF ParseDone, TypeOK, testerVars, lwipVars, entityVars, historyVars
<1>12. CASE doip_tester_update_timers
  BY <1>12 DEF doip_tester_update_timers, TimerStep, Waiting, TypeOK, TesterState, lwipVars, entityVars
<1>13. ASSUME NEW s \in Sock, EntityAnswers(s),
              UNCHANGED <<testerVars, lwipVars, historyVars, pc, rx, calls>>
       PROVE TypeOK'
  BY <1>13 DEF EntityAnswers, TypeOK, Answer, Positive, testerVars, lwipVars, historyVars
<1>14. ASSUME NEW s \in Sock, EntityCloses(s),
              UNCHANGED <<testerVars, lwipVars, historyVars, pc, rx, calls>>
       PROVE TypeOK'
  BY <1>14 DEF EntityCloses, TypeOK, testerVars, lwipVars, historyVars
<1>15. CASE UNCHANGED vars
  BY <1>15 DEF vars, TypeOK, testerVars, lwipVars, entityVars, historyVars
<1> QED
  BY <1>1, <1>2, <1>3, <1>4, <1>5, <1>6, <1>7, <1>8, <1>9, <1>10, <1>11, <1>12, <1>13, <1>14, <1>15,
     <1>16 DEF Next, Application, Cycle, Entity

\* Every variable of the tester, its sockets and queues keeps its type.
THEOREM TypeCorrect == Spec => []TypeOK
<1>1. Init => TypeOK
  <2> SUFFICES ASSUME Init PROVE TypeOK
    OBVIOUS
  <2>1. up \in [Sock -> Seq({"ACTIVATE", "DIAG"})] /\ down \in [Sock -> Seq(Answer)] /\ rx \in Seq(Answer)
    BY EmptySeq DEF Init
  <2>2. fin \in [Sock -> BOOLEAN]
    BY DEF Init
  <2>3. entity \in [ip : Vehicle \cup {NoVehicle}, vin : Vehicle \cup {NoVehicle}]
    BY DEF Init, doip_tester_init
  <2>4. state \in TesterState /\ tcp_connection_id \in {-1, 0} /\ timeout_timer \in 0..ResponseTimeout
        /\ waited \in 0..(ResponseTimeout + CycleMs) /\ udpSockets \in 0..MaxUdp /\ calls \in 0..MaxCalls
    BY TesterAssumption DEF Init, doip_tester_init, TesterState
  <2> QED
    BY <2>1, <2>2, <2>3, <2>4 DEF Init, doip_tester_init, TypeOK
<1> QED
  BY <1>1, TypeStep, PTL DEF Spec
-------------------------------------------------------------------------------
\* Each wait has its own full timer, whatever call or answer came before it.
LEMMA WaitStep == TypeOK /\ WaitBounded /\ [Next]_vars => WaitBounded'
<1> SUFFICES ASSUME TypeOK, WaitBounded, [Next]_vars PROVE WaitBounded'
  OBVIOUS
<1> USE TesterAssumption
<1>1. ASSUME NEW bound \in BOOLEAN, NEW left \in BOOLEAN, doip_tester_start_discovery(bound, left)
      PROVE WaitBounded'
  BY <1>1 DEF doip_tester_start_discovery, StartWaiting, WaitBounded, Waiting
<1>2. ASSUME NEW v \in Vehicle, NEW s \in Sock, doip_tester_connect(v, s) PROVE WaitBounded'
  BY <1>2 DEF doip_tester_connect, WaitBounded, Waiting
<1>3. CASE doip_tester_activate_routing
  BY <1>3 DEF doip_tester_activate_routing, StartWaiting, WaitBounded, Waiting
<1>4. CASE UNCHANGED <<state, timeout_timer, waited>>
  BY <1>4 DEF WaitBounded, Waiting
<1>5. CASE ProcessUdp
  BY <1>5 DEF ProcessUdp, handle_vehicle_announcement, WaitBounded, Waiting, historyVars
<1>6. CASE tester_tcp_rx_callback
  <2>1. UNCHANGED <<timeout_timer, waited>> /\ (state' = state \/ state' \in {"READY", "ERROR"})
    BY <1>6 DEF tester_tcp_rx_callback, handle_routing_activation_response, historyVars
  <2> QED
    BY <2>1 DEF WaitBounded, Waiting
<1>7. CASE doip_tester_update_timers
  <2>1. /\ timeout_timer \in Nat /\ waited \in Nat /\ ResponseTimeout \in Nat /\ CycleMs \in Nat \ {0}
        /\ IF timeout_timer > 0 THEN TimerStep ELSE UNCHANGED <<timeout_timer, state>>
        /\ waited' = IF ~Waiting THEN 0 ELSE IF waited > ResponseTimeout THEN waited ELSE waited + CycleMs
    BY <1>7 DEF doip_tester_update_timers, TypeOK
  <2>2. CASE ~Waiting
    BY <2>1, <2>2 DEF TimerStep, WaitBounded, Waiting
  <2>3. CASE Waiting /\ timeout_timer <= CycleMs
    BY <2>1, <2>3 DEF TimerStep, WaitBounded, Waiting
  <2>4. CASE Waiting /\ timeout_timer > CycleMs
    <3>1. /\ timeout_timer' = timeout_timer - CycleMs /\ waited' = waited + CycleMs
          /\ waited + timeout_timer = ResponseTimeout
      BY <2>1, <2>4 DEF TimerStep, WaitBounded
    <3> QED
      BY <2>1, <2>4, <3>1 DEF WaitBounded
  <2> QED
    BY <2>1, <2>2, <2>3, <2>4
<1>8. CASE CallFails \/ doip_tester_send_diagnostic
  BY <1>4, <1>8 DEF CallFails, doip_tester_send_diagnostic, testerVars
<1>9. CASE \/ NoConnection \/ TcpClosed \/ ParseDone
           \/ \E n \in 0..MaxWire, cut \in BOOLEAN : TcpReceive(n, cut)
           \/ \E n \in 0..MaxWire : TcpReceiveGarbled(n)
  BY <1>4, <1>9 DEF NoConnection, TcpClosed, ParseDone, TcpReceive, TcpReceiveGarbled, testerVars,
                    historyVars
<1>10. CASE Entity \/ UNCHANGED vars
  BY <1>4, <1>10 DEF Entity, vars, testerVars, historyVars
<1> QED
  BY <1>1, <1>2, <1>3, <1>5, <1>6, <1>7, <1>8, <1>9, <1>10 DEF Next, Application, Cycle

\* A waiting tester has always counted less than response_timeout: no call, answer
\* or close leaves it in DISCOVERY or ACTIVATING with a stopped timer.
THEOREM WaitsBounded == Spec => []WaitBounded
<1>1. Init => WaitBounded
  BY DEF Init, doip_tester_init, WaitBounded, Waiting
<1> QED
  BY <1>1, TypeCorrect, WaitStep, PTL DEF Spec

\* The timer gives a wait up only after response_timeout, although discovery and
\* activation share it and no answer stops it.
THEOREM GivesUpOnTime == Spec => NeverGivesUpEarly
<1>1. ASSUME TypeOK, WaitBounded, [Next]_vars
      PROVE [Waiting /\ pc = "timers" /\ state' = "ERROR" => waited' >= ResponseTimeout]_vars
  <2> SUFFICES ASSUME Next, Waiting, pc = "timers", state' = "ERROR" PROVE waited' >= ResponseTimeout
    BY <1>1
  <2>1. CASE doip_tester_update_timers
    BY <1>1, <2>1, TesterAssumption DEF doip_tester_update_timers, TimerStep, WaitBounded, Waiting, TypeOK
  <2>2. CASE Entity
    BY <2>2 DEF Entity, testerVars, Waiting
  <2>3. ~Application
    BY DEF Application, doip_tester_start_discovery, doip_tester_connect, CallFails,
           doip_tester_activate_routing, doip_tester_send_diagnostic, Call
  <2> QED
    BY <2>1, <2>2, <2>3 DEF Next, Cycle, ProcessUdp, NoConnection, TcpReceive, TcpReceiveGarbled, TcpClosed,
       tester_tcp_rx_callback, ParseDone
<1> QED
  BY <1>1, TypeCorrect, WaitsBounded, PTL DEF Spec, NeverGivesUpEarly

-------------------------------------------------------------------------------
\* Positive answers are found only on connections the entity accepted: in the
\* queues of open descriptors, and in what the present receive call brought if
\* the stream is aligned.  Alignment is lost by a connect over an open connection.
QueuesAccepted ==
  /\ \A s \in sockets : \A i \in 1..Len(down[s]) : down[s][i] \in Positive => s \in accepted
  /\ aligned => \A i \in 1..Len(rx) : rx[i] \in Positive => socket_fd \in accepted
  /\ pc # "parse" => rx = <<>>
  /\ partial => socket_fd # NoSock
  /\ ~aligned => overlaps > 0
  /\ socket_fd # NoSock => socket_fd \in sockets

AcceptInv == QueuesAccepted /\ ReadyWasAccepted

\* What is left of a queue after its first n elements have been received.
LEMMA SuffixLemma ==
  ASSUME NEW q \in Seq(Answer), NEW n \in 0..Len(q), NEW i \in 1..Len(SubSeq(q, n + 1, Len(q)))
  PROVE SubSeq(q, n + 1, Len(q))[i] = q[n + i] /\ n + i \in 1..Len(q)
<1>1. Len(q) \in Nat /\ n + 1 \in Nat /\ n + 1 <= Len(q) + 1
  OBVIOUS
<1>2. Len(SubSeq(q, n + 1, Len(q))) = Len(q) - n
  BY <1>1
<1>3. i \in 1..(Len(q) - n)
  BY <1>2
<1>4. n + i \in 1..Len(q)
  BY <1>1, <1>3
<1>5. SubSeq(q, n + 1, Len(q))[i] = q[n + i]
  BY <1>1, <1>3, <1>4
<1> QED
  BY <1>4, <1>5

\* An answer cannot outlive the connection it came on.
LEMMA AcceptStep == TypeOK /\ AcceptInv /\ [Next]_vars => AcceptInv'
<1> SUFFICES ASSUME TypeOK, AcceptInv, [Next]_vars PROVE AcceptInv'
  OBVIOUS
<1> USE TesterAssumption DEF AcceptInv
<1>1. ASSUME UNCHANGED <<sockets, down, accepted, rx, socket_fd, partial, aligned, overlaps>>, pc' # "parse" \/ pc = "parse",
             pc' # "parse" => rx = <<>>, state' = state \/ state' # "READY"
      PROVE AcceptInv'
  BY <1>1 DEF QueuesAccepted, ReadyWasAccepted
<1>2. CASE \E bound, left \in BOOLEAN : doip_tester_start_discovery(bound, left)
  <2>1. /\ UNCHANGED <<sockets, down, accepted, rx, socket_fd, pc, partial, aligned, overlaps>>
        /\ pc = "idle" /\ (state' = state \/ state' # "READY")
    BY <1>2 DEF doip_tester_start_discovery, Call, StartWaiting, entityVars
  <2> QED
    BY <1>1, <2>1 DEF QueuesAccepted
<1>3. ASSUME NEW v \in Vehicle, NEW c \in Sock, doip_tester_connect(v, c) PROVE AcceptInv'
  <2>1. /\ sockets' = sockets \cup {c} /\ c \notin sockets /\ down' = [down EXCEPT ![c] = <<>>]
        /\ accepted' = accepted /\ rx' = rx /\ pc' = pc /\ pc = "idle" /\ socket_fd' = c
        /\ state' = "CONNECTING" /\ partial' = partial /\ aligned' = ~partial
        /\ overlaps' = IF socket_fd = NoSock THEN overlaps ELSE overlaps + 1
    BY <1>3, Zenon DEF doip_tester_connect, Call
  <2>2. ASSUME NEW s \in sockets', NEW i \in 1..Len(down'[s]), down'[s][i] \in Positive PROVE s \in accepted'
    <3>1. CASE s = c
      BY <2>1, <2>2, <3>1 DEF TypeOK
    <3>2. CASE s # c
      BY <2>1, <2>2, <3>2 DEF TypeOK, QueuesAccepted
    <3> QED
      BY <3>1, <3>2
  <2>3. (~aligned' => overlaps' > 0) /\ (partial' => socket_fd' # NoSock)
    BY <2>1 DEF QueuesAccepted, TypeOK
  <2>4. rx' = <<>> /\ socket_fd' \in sockets'
    BY <2>1 DEF QueuesAccepted
  <2> QED
    BY <2>1, <2>2, <2>3, <2>4 DEF QueuesAccepted, ReadyWasAccepted
<1>4. CASE doip_tester_activate_routing \/ doip_tester_send_diagnostic \/ CallFails
  <2>1. /\ UNCHANGED <<sockets, down, accepted, rx, socket_fd, pc, partial, aligned, overlaps>>
        /\ pc = "idle" /\ (state' = state \/ state' # "READY")
    BY <1>4 DEF doip_tester_activate_routing, doip_tester_send_diagnostic, CallFails, Call,
                StartWaiting, testerVars, lwipVars, entityVars
  <2> QED
    BY <1>1, <2>1 DEF QueuesAccepted
<1>5. CASE ProcessUdp \/ NoConnection
  <2>1. /\ UNCHANGED <<sockets, down, accepted, rx, socket_fd, partial, aligned, overlaps>>
        /\ pc \in {"idle", "tcp"} /\ pc' # "parse" /\ (state' = state \/ state' # "READY")
    BY <1>5 DEF ProcessUdp, NoConnection, handle_vehicle_announcement, testerVars, lwipVars, entityVars,
                historyVars
  <2> QED
    BY <1>1, <2>1 DEF QueuesAccepted
<1>6. ASSUME NEW n \in 0..MaxWire, NEW cut \in BOOLEAN, TcpReceive(n, cut) PROVE AcceptInv'
  <2> DEFINE fd == socket_fd
             q == down[fd]
  <2>1. /\ pc' = "parse" /\ fd # NoSock /\ aligned /\ n \in 0..Len(q)
        /\ rx' = SubSeq(q, 1, n) /\ down' = [down EXCEPT ![fd] = SubSeq(q, n + 1, Len(q))]
        /\ UNCHANGED <<sockets, accepted, socket_fd, state, aligned, overlaps>>
    BY <1>6 DEF TcpReceive, testerVars, historyVars
  <2>2. fd \in Sock /\ q \in Seq(Answer) /\ fd \in sockets
    BY <2>1 DEF TypeOK, QueuesAccepted
  <2>3. \A i \in 1..Len(q) : q[i] \in Positive => fd \in accepted
    BY <2>2 DEF QueuesAccepted
  <2>4. Len(rx') = n /\ \A i \in 1..n : rx'[i] = q[i]
    BY <2>1, <2>2
  <2>5. \A i \in 1..Len(rx') : rx'[i] \in Positive => fd \in accepted
    BY <2>1, <2>2, <2>3, <2>4
  <2>6. ASSUME NEW s \in sockets, NEW i \in 1..Len(down'[s]), down'[s][i] \in Positive
        PROVE s \in accepted
    <3>1. CASE s = fd
      <4>1. down'[s] = SubSeq(q, n + 1, Len(q))
        BY <2>1, <2>2, <3>1 DEF TypeOK
      <4>2. down'[s][i] = q[n + i] /\ n + i \in 1..Len(q)
        BY <2>1, <2>2, <2>6, <4>1, SuffixLemma
      <4> QED
        BY <2>3, <2>6, <3>1, <4>2
    <3>2. CASE s # fd
      BY <2>1, <2>6, <3>2 DEF TypeOK, QueuesAccepted
    <3> QED
      BY <3>1, <3>2
  <2> QED
    BY <2>1, <2>2, <2>5, <2>6 DEF QueuesAccepted, ReadyWasAccepted
<1>14. ASSUME NEW n \in 0..MaxWire, TcpReceiveGarbled(n) PROVE AcceptInv'
  <2> DEFINE fd == socket_fd
             q == down[fd]
  <2>1. /\ pc' = "parse" /\ fd # NoSock /\ ~aligned /\ n \in 0..Len(q)
        /\ down' = [down EXCEPT ![fd] = SubSeq(q, n + 1, Len(q))]
        /\ UNCHANGED <<sockets, accepted, socket_fd, state, aligned, overlaps>>
    BY <1>14 DEF TcpReceiveGarbled, testerVars, historyVars
  <2>2. fd \in Sock /\ q \in Seq(Answer) /\ fd \in sockets
    BY <2>1 DEF TypeOK, QueuesAccepted
  <2>3. \A i \in 1..Len(q) : q[i] \in Positive => fd \in accepted
    BY <2>2 DEF QueuesAccepted
  <2>6. ASSUME NEW s \in sockets, NEW i \in 1..Len(down'[s]), down'[s][i] \in Positive
        PROVE s \in accepted
    <3>1. CASE s = fd
      <4>1. down'[s] = SubSeq(q, n + 1, Len(q))
        BY <2>1, <2>2, <3>1 DEF TypeOK
      <4>2. down'[s][i] = q[n + i] /\ n + i \in 1..Len(q)
        BY <2>1, <2>2, <2>6, <4>1, SuffixLemma
      <4> QED
        BY <2>3, <2>6, <3>1, <4>2
    <3>2. CASE s # fd
      BY <2>1, <2>6, <3>2 DEF TypeOK, QueuesAccepted
    <3> QED
      BY <3>1, <3>2
  <2> QED
    BY <2>1, <2>2, <2>6 DEF QueuesAccepted, ReadyWasAccepted
<1>7. CASE TcpClosed
  BY <1>7 DEF TcpClosed, QueuesAccepted, ReadyWasAccepted, TypeOK, testerVars, historyVars
<1>8. CASE tester_tcp_rx_callback
  <2>1. /\ pc = "parse" /\ rx # <<>> /\ rx' = Tail(rx)
        /\ UNCHANGED <<sockets, down, accepted, socket_fd, pc, partial, aligned, overlaps>>
        /\ state' = "READY" => state = "READY" \/ Head(rx) \in Positive
    BY <1>8 DEF tester_tcp_rx_callback, handle_routing_activation_response, lwipVars, entityVars,
                historyVars
  <2>2. rx \in Seq(Answer) /\ Len(rx) >= 1 /\ Head(rx) = rx[1]
    BY <2>1 DEF TypeOK
  <2>3. Len(rx') = Len(rx) - 1 /\ \A i \in 1..Len(rx') : rx'[i] = rx[i + 1]
    BY <2>1, <2>2
  <2>4. aligned => \A i \in 1..Len(rx') : rx'[i] \in Positive => socket_fd \in accepted
    <3>1. aligned => \A i \in 1..Len(rx) : rx[i] \in Positive => socket_fd \in accepted
      BY DEF QueuesAccepted
    <3> QED
      BY <2>2, <2>3, <3>1
  <2>5. state' = "READY" /\ socket_fd # NoSock => socket_fd \in accepted \/ (~aligned /\ overlaps > 0)
    BY <2>1, <2>2 DEF QueuesAccepted, ReadyWasAccepted
  <2> QED
    BY <2>1, <2>4, <2>5 DEF QueuesAccepted, ReadyWasAccepted
<1>9. CASE ParseDone
  BY <1>9, <1>1 DEF ParseDone, testerVars, lwipVars, entityVars, historyVars
<1>10. CASE doip_tester_update_timers
  <2>1. /\ UNCHANGED <<sockets, down, accepted, rx, socket_fd, partial, aligned, overlaps>>
        /\ pc = "timers" /\ pc' = "idle"
        /\ state' = state \/ state' # "READY"
    BY <1>10 DEF doip_tester_update_timers, TimerStep, lwipVars, entityVars
  <2> QED
    BY <1>1, <2>1 DEF QueuesAccepted
<1>11. ASSUME NEW e \in Sock, EntityAnswers(e), UNCHANGED <<testerVars, lwipVars, historyVars, pc, rx, calls>>
       PROVE AcceptInv'
  <2>1. PICK a : /\ down' = [down EXCEPT ![e] = Append(@, a)]
                 /\ accepted' = IF a \in Positive THEN accepted \cup {e} ELSE accepted
    BY <1>11, Zenon DEF EntityAnswers
  <2>2. UNCHANGED <<sockets, socket_fd, pc, rx, state, partial, aligned, overlaps>>
    BY <1>11 DEF testerVars, lwipVars, historyVars
  <2>3. ASSUME NEW s \in sockets, NEW i \in 1..Len(down'[s]), down'[s][i] \in Positive
        PROVE s \in accepted'
    <3>1. down[s] \in Seq(Answer)
      BY DEF TypeOK
    <3>2. CASE s # e
      BY <2>1, <2>3, <3>2 DEF TypeOK, QueuesAccepted
    <3>3. CASE s = e
      <4>1. down'[s] = Append(down[s], a)
        BY <2>1, <3>3 DEF TypeOK
      <4>2. CASE i = Len(down[s]) + 1
        BY <2>1, <2>3, <3>1, <3>3, <4>1, <4>2
      <4>3. CASE i \in 1..Len(down[s])
        <5>1. down'[s][i] = down[s][i]
          BY <3>1, <4>1, <4>3
        <5> QED
          BY <2>1, <2>3, <4>3, <5>1 DEF QueuesAccepted
      <4> QED
        BY <2>3, <3>1, <4>1, <4>2, <4>3
    <3> QED
      BY <3>2, <3>3
  <2> QED
    BY <2>1, <2>2, <2>3 DEF QueuesAccepted, ReadyWasAccepted
<1>12. ASSUME NEW e \in Sock, EntityCloses(e), UNCHANGED <<testerVars, lwipVars, historyVars, pc, rx, calls>>
       PROVE AcceptInv'
  BY <1>12 DEF EntityCloses, testerVars, lwipVars, historyVars, QueuesAccepted, ReadyWasAccepted
<1>13. CASE UNCHANGED vars
  BY <1>13 DEF vars, testerVars, lwipVars, entityVars, historyVars, QueuesAccepted, ReadyWasAccepted
<1> QED
  BY <1>2, <1>3, <1>4, <1>5, <1>6, <1>7, <1>8, <1>9, <1>10, <1>11, <1>12, <1>13, <1>14
     DEF Next, Application, Cycle, Entity

\* A tester in state READY with a connection was accepted on that connection, by
\* whatever sequence of reconnects, timeouts and late answers it got there, unless
\* it connected over an open connection with a message half received.
THEOREM ReadyAccepted == Spec => []ReadyWasAccepted
<1>1. Init => AcceptInv
  BY DEF Init, doip_tester_init, AcceptInv, QueuesAccepted, ReadyWasAccepted
<1> QED
  BY <1>1, TypeCorrect, AcceptStep, PTL DEF Spec, AcceptInv
-------------------------------------------------------------------------------
\* The descriptor table stays finite, which its cardinality needs.
SocketInv == IsFiniteSet(sockets) /\ SocketsExact

\* Opening adds one socket, and forgets one at most; closing removes the one the
\* interface remembers.
LEMMA SocketStep == TypeOK /\ SocketInv /\ [Next]_vars => SocketInv'
<1> SUFFICES ASSUME TypeOK, SocketInv, [Next]_vars PROVE SocketInv'
  OBVIOUS
<1> USE TesterAssumption DEF SocketInv
<1>1. CASE UNCHANGED <<sockets, socket_fd, udp_socket, udpSockets, overlaps, rebinds>>
  BY <1>1 DEF SocketsExact
<1>2. ASSUME NEW bound \in BOOLEAN, NEW left \in BOOLEAN, doip_tester_start_discovery(bound, left)
      PROVE SocketInv'
  <2>1. /\ UNCHANGED <<sockets, socket_fd, overlaps>> /\ udp_socket' = bound
        /\ udpSockets' = IF bound THEN udpSockets + 1 ELSE udpSockets
        /\ rebinds' = IF udp_socket THEN rebinds + 1 ELSE rebinds
    BY <1>2, Zenon DEF doip_tester_start_discovery
  <2>2. udpSockets \in Nat /\ rebinds \in Nat /\ udp_socket \in BOOLEAN
    BY DEF TypeOK
  <2>3. udpSockets' = rebinds' + (IF udp_socket' THEN 1 ELSE 0)
    <3>1. CASE udp_socket /\ bound
      BY <2>1, <2>2, <3>1 DEF SocketsExact
    <3>2. CASE udp_socket /\ ~bound
      BY <2>1, <2>2, <3>2 DEF SocketsExact
    <3>3. CASE ~udp_socket /\ bound
      BY <2>1, <2>2, <3>3 DEF SocketsExact
    <3>4. CASE ~udp_socket /\ ~bound
      BY <2>1, <2>2, <3>4 DEF SocketsExact
    <3> QED
      BY <3>1, <3>2, <3>3, <3>4
  <2> QED
    BY <2>1, <2>3 DEF SocketsExact
<1>3. ASSUME NEW v \in Vehicle, NEW c \in Sock, doip_tester_connect(v, c) PROVE SocketInv'
  <2>1. /\ sockets' = sockets \cup {c} /\ c \notin sockets /\ socket_fd' = c
        /\ overlaps' = IF socket_fd = NoSock THEN overlaps ELSE overlaps + 1
        /\ UNCHANGED <<udp_socket, udpSockets, rebinds>>
    BY <1>3, Zenon DEF doip_tester_connect
  <2>2. IsFiniteSet(sockets') /\ Cardinality(sockets') = Cardinality(sockets) + 1
    BY <2>1, FS_AddElement
  <2>3. overlaps \in Nat /\ c # NoSock
    BY DEF TypeOK
  <2> QED
    BY <2>1, <2>2, <2>3 DEF SocketsExact
<1>4. CASE TcpClosed
  <2>1. /\ socket_fd # NoSock /\ sockets' = sockets \ {socket_fd} /\ socket_fd' = NoSock
        /\ UNCHANGED <<udp_socket, udpSockets, overlaps, rebinds>>
    BY <1>4 DEF TcpClosed, historyVars
  <2>2. IsFiniteSet(sockets') /\ Cardinality(sockets') = Cardinality(sockets) - 1
    BY <2>1, FS_RemoveElement DEF SocketsExact
  <2>3. overlaps \in Nat
    BY DEF TypeOK
  <2> QED
    BY <2>1, <2>2, <2>3 DEF SocketsExact
<1>5. CASE CallFails \/ doip_tester_activate_routing \/ doip_tester_send_diagnostic
  BY <1>1, <1>5 DEF CallFails, doip_tester_activate_routing, doip_tester_send_diagnostic, lwipVars
<1>6. CASE \/ ProcessUdp \/ NoConnection \/ ParseDone
           \/ \E n \in 0..MaxWire, cut \in BOOLEAN : TcpReceive(n, cut)
           \/ \E n \in 0..MaxWire : TcpReceiveGarbled(n)
  BY <1>1, <1>6 DEF ProcessUdp, NoConnection, ParseDone, TcpReceive, TcpReceiveGarbled, lwipVars, historyVars
<1>7. CASE tester_tcp_rx_callback \/ doip_tester_update_timers
  BY <1>1, <1>7 DEF tester_tcp_rx_callback, doip_tester_update_timers, lwipVars, historyVars
<1>8. CASE Entity \/ UNCHANGED vars
  BY <1>1, <1>8 DEF Entity, vars, lwipVars, historyVars
<1> QED
  BY <1>2, <1>3, <1>4, <1>5, <1>6, <1>7, <1>8 DEF Next, Application, Cycle

\* The sockets lwIP holds for the tester are the remembered ones plus exactly one
\* for each connect or discovery over an open one: no other path loses a socket.
THEOREM SocketsCounted == Spec => []SocketsExact
<1>1. Init => SocketInv
  BY FS_EmptySet DEF Init, SocketInv, SocketsExact
<1> QED
  BY <1>1, TypeCorrect, SocketStep, PTL DEF Spec, SocketInv
===============================================================================
