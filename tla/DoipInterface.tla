---------------------------- MODULE DoipInterface ----------------------------
(***************************************************************************)
(* The TCP connection table of src/src/doip/doip_interface.c and the       *)
(* lwIP socket layer under it, as far as doip_lwip_adapter.c uses it.      *)
(*                                                                         *)
(* A slot i of interface->connections holds a descriptor (socket_fd[i])    *)
(* and a state; `sockets' is lwIP's own table: the descriptors that are    *)
(* open, whoever remembers them.  What arrives on a socket is not stored   *)
(* here: a receive call returns one of the results tcp_recv can have, and  *)
(* the bytes-to-messages step is the subject of module RxFraming.          *)
(*                                                                         *)
(* The module has no behaviour of its own: DoipStack builds the task loop  *)
(* from these operations and the callbacks of DoipEntity.                  *)
(***************************************************************************)
EXTENDS DoipConfig, FiniteSets, Sequences

CONSTANTS
  Sock,        \* descriptors lwIP can hand out for accepted connections
  NoSock,      \* INVALID_SOCKET
  MaxBacklog,  \* bound on connections waiting in the listen queue
  MaxBatch     \* bound on complete messages one receive call brings

ASSUME InterfaceAssumption ==
  /\ NoSock \notin Sock
  /\ MaxBacklog \in Nat
  /\ MaxBatch \in Nat \ {0}

VARIABLES
  socket_fd,   \* interface->connections[i].socket_fd
  conn_state,  \* interface->connections[i].state
  sockets,     \* lwIP: open descriptors of accepted connections
  backlog      \* lwIP: established connections tcp_accept has not taken

interfaceVars == <<socket_fd, conn_state, sockets, backlog>>

\* The two members of doip_connection_state_t the code assigns.
DOIP_CONN_STATE_CLOSED == "CLOSED"
DOIP_CONN_STATE_PENDING_ACTIVATION == "PENDING_ACTIVATION"
ConnState == {DOIP_CONN_STATE_CLOSED, DOIP_CONN_STATE_PENDING_ACTIVATION}

InterfaceTypeOK ==
  /\ socket_fd \in [Slot -> Sock \cup {NoSock}]
  /\ conn_state \in [Slot -> ConnState]
  /\ sockets \subseteq Sock
  /\ backlog \in 0..MaxBacklog

doip_interface_init ==
  /\ socket_fd = [i \in Slot |-> NoSock]
  /\ conn_state = [i \in Slot |-> DOIP_CONN_STATE_CLOSED]
  /\ sockets = {}
  /\ backlog = 0

Open(i) == socket_fd[i] # NoSock
FreeSlots == {i \in Slot : conn_state[i] = DOIP_CONN_STATE_CLOSED}

\* The first closed slot; meaningful when FreeSlots is not empty.
find_free_connection == CHOOSE i \in FreeSlots : \A j \in FreeSlots : i <= j

\* A connection is established by a peer: lwIP queues it for tcp_accept.
PeerConnects ==
  /\ backlog < MaxBacklog
  /\ backlog' = backlog + 1
  /\ UNCHANGED <<socket_fd, conn_state, sockets>>

\* tcp_accept returns descriptor s and a slot is free: the slot takes it.
AcceptInto(i, s) ==
  /\ backlog > 0 /\ s \in Sock \ sockets
  /\ FreeSlots # {} /\ i = find_free_connection
  /\ backlog' = backlog - 1
  /\ sockets' = sockets \cup {s}
  /\ socket_fd' = [socket_fd EXCEPT ![i] = s]
  /\ conn_state' = [conn_state EXCEPT ![i] = DOIP_CONN_STATE_PENDING_ACTIVATION]

\* The connection is taken from the listen queue and deleted: tcp_accept returns
\* a descriptor but no slot is free, so it is closed at once, or lwIP has no
\* descriptor left, so lwip_accept deletes the connection and returns -1.
AcceptRefused ==
  /\ backlog > 0 /\ (FreeSlots = {} \/ sockets = Sock)
  /\ backlog' = backlog - 1
  /\ UNCHANGED <<socket_fd, conn_state, sockets>>

\* tcp_accept returns -1 because nobody waits.
AcceptNothing == backlog = 0 /\ UNCHANGED interfaceVars

X_forget_descriptor(I) ==
  /\ socket_fd' = [i \in Slot |-> IF i \in I THEN NoSock ELSE socket_fd[i]]
  /\ conn_state' = [i \in Slot |-> IF i \in I THEN DOIP_CONN_STATE_CLOSED ELSE conn_state[i]]
  /\ UNCHANGED sockets

\* close_socket and the reset of the slot, for every slot of I that is open:
\* doip_interface_close_connection, and the end of the receive step.
CloseSlots(I) ==
  /\ sockets' = sockets \ {socket_fd[i] : i \in I}
  /\ socket_fd' = [i \in Slot |-> IF i \in I THEN NoSock ELSE socket_fd[i]]
  /\ conn_state' = [i \in Slot |-> IF i \in I /\ Open(i) THEN DOIP_CONN_STATE_CLOSED
                                   ELSE conn_state[i]]

\* doip_interface_tcp_send: the descriptor of slot i gets the message, unless
\* the slot has none (DOIP_RESULT_NOT_READY).  Whether lwIP can transmit it is
\* ignored by every caller.
doip_interface_tcp_send(i, msg) ==
  IF i \in Slot /\ Open(i) THEN <<[fd |-> socket_fd[i], msg |-> msg]>> ELSE <<>>
==============================================================================
