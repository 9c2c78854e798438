------------------------------- MODULE NetPath -------------------------------
(***************************************************************************)
(* From the wire to the DoIP task: module GmacRx, lwIP's tcpip thread with *)
(* the receive side of one TCP connection (tcpip.c, tcp_in.c, api_msg.c),  *)
(* the socket calls of the DoIP task (sockets.c, api_lib.c) and that       *)
(* task's start-up (doip_task_example.c, app_doip_entity.c).               *)
(*                                                                         *)
(* The stream's bytes are numbered from 1 on; the last number is the       *)
(* peer's FIN.  A frame is a TCP segment, the bytes a..b, or a UDP         *)
(* datagram for the DoIP port.  The network may lose, repeat and reorder   *)
(* segments, the peer cuts the stream anew when it sends again, and the    *)
(* DMA may have put a later frame into a buffer before the thread looks:   *)
(* the frame it finds there can be any.  A segment is not copied when it   *)
(* is accepted: its pbuf refers to the buffer, which the DMA owns again,   *)
(* and the next frame stored there replaces the bytes still to be read.    *)
(* Segments ahead of a missing one are dropped (TCP_QUEUE_OOSEQ is off).   *)
(***************************************************************************)
EXTENDS GmacRx

CONSTANTS
  Fin,        \* the number of the peer's FIN: the stream has Fin - 1 bytes
  TcpWnd,     \* TCP_WND
  RecvMbox    \* DEFAULT_TCP_RECVMBOX_SIZE and DEFAULT_UDP_RECVMBOX_SIZE

Number == 1..Fin

\* In place of the buffer of a pbuf the DMA has stored another frame in, and of a
\* byte read from there.
Overwritten == -1
Other == 0

\* In the configuration RecvMbox is 20: more than the 8 pbufs there are.
ASSUME NetAssumption ==
  /\ Fin \in Nat \ {0} /\ TcpWnd \in Nat \ {0} /\ RecvMbox \in Nat
  /\ RxBd < RecvMbox

VARIABLES
  task,         \* "starting", "bound" (the UDP socket is), "running" or "dead"
  tcpip,        \* the tcpip thread: "fetch", or what it handles, holding the core lock
  packet,       \*   the buffer of the packet it handles
  rcv_nxt,      \* of the pcb: the byte expected
  rcv_wnd,      \*   the window left
  recvmbox,     \* conn->recvmbox behind lastdata: the pbufs recv has yet to copy
  closed,       \*   and the netconn_closed messages behind them
  fin_pending,  \* NETCONN_FIN_RX_PENDING
  udpbox,       \* datagrams in the recvmbox of the UDP socket
  conn,         \* "open", or "closed" once recv has returned 0
  doip,         \* the DoIP task: "udp", "recv" (in lwip_recv_tcp), "recvd" or "shut"
  recvd,        \* bytes the recv call under way has copied
  read,         \* history: the bytes the task has read
  reused        \* history: the DMA has stored a frame over bytes yet to be read

pcb == <<rcv_nxt, rcv_wnd>>
socks == <<recvmbox, closed, fin_pending, udpbox, conn>>
app == <<task, doip, recvd, read>>
thread == <<tcpip, packet>>
vars == <<rxVars, app, thread, pcb, socks, reused>>

Init ==
  /\ RxInit
  /\ task = "starting" /\ tcpip = "fetch" /\ packet = Callback
  /\ rcv_nxt = 1 /\ rcv_wnd = TcpWnd
  /\ recvmbox = <<>> /\ closed = 0 /\ fin_pending = FALSE /\ udpbox = 0 /\ conn = "open"
  /\ doip = "udp" /\ recvd = 0 /\ read = <<>> /\ reused = FALSE

RxInterrupt ==
  /\ RxIrq \/ Receive \/ RxIrqEnds
  /\ UNCHANGED <<app, thread, pcb, socks, reused>>

\* What a frame stored in buffer d does to a pbuf.
Spoil(p, d) == IF p.buf = d THEN [p EXCEPT !.buf = Overwritten] ELSE p

\* The DMA does not ask whether a pbuf still refers to the buffer.
DmaOverwrites ==
  /\ DmaStores
  /\ recvmbox' = [i \in DOMAIN recvmbox |-> Spoil(recvmbox[i], rxdma)]
  /\ reused' = (reused \/ \E i \in DOMAIN recvmbox : recvmbox[i].buf = rxdma)
  /\ UNCHANGED <<app, thread, pcb, closed, fin_pending, udpbox, conn>>

Driver ==
  \/ DmaOverwrites
  \/ pbuf_free_callback /\ UNCHANGED <<app, thread, pcb, socks, reused>>

------------------------------------------------------------------------------
\* The tcpip thread.  A step of it, and of any thread, needs the interrupt off.

\* sys_arch_mbox_fetch, without the core lock.
Fetch ==
  /\ ~rxisr /\ tcpip = "fetch" /\ mbox # <<>>
  /\ mbox' = Tail(mbox)
  /\ tcpip' = IF Head(mbox) = Callback THEN "callback" ELSE "packet"
  /\ packet' = Head(mbox)
  /\ UNCHANGED <<ring, pool, inpkts, apis, app, pcb, socks, reused>>

\* TCPIP_MSG_CALLBACK.
HandleCallback ==
  /\ ~rxisr /\ tcpip = "callback"
  /\ apis' = apis - 1
  /\ tcpip' = "fetch"
  /\ UNCHANGED <<ring, pool, inpkts, mbox, app, packet, pcb, socks, reused>>

\* TCPIP_MSG_INPKT: the message is free again after netif->input.
PacketHandled ==
  /\ ~rxisr /\ tcpip = "packet"
  /\ inpkts' = inpkts - 1
  /\ tcpip' = "fetch" /\ packet' = Callback
  /\ UNCHANGED <<ring, apis, mbox, app, reused>>

\* recv_udp queues a datagram for the socket if there is one with room.
HandleUdp ==
  /\ PacketHandled
  /\ IF task # "starting" /\ udpbox < RecvMbox
     THEN udpbox' = udpbox + 1 /\ UNCHANGED pool
     ELSE pool' = pool + 1 /\ UNCHANGED udpbox
  /\ UNCHANGED <<pcb, recvmbox, closed, fin_pending, conn>>

\* The pcb takes something of the segment a..b: the entity serves its TCP port,
\* the byte expected is in the segment, and the window is open.
Wanted(a, b) ==
  /\ task = "running" /\ conn = "open"
  /\ rcv_nxt \in a..b /\ rcv_wnd > 0

\* Anything else: repeated, ahead of a missing byte, for no open connection.
HandleStray ==
  /\ PacketHandled
  /\ \E a \in Number : \E b \in a..Fin : ~Wanted(a, b)
  /\ pool' = pool + 1
  /\ UNCHANGED <<pcb, socks>>

\* What lies before rcv_nxt is trimmed, and what lies behind the window, the FIN
\* with it.
LastTaken(b) == IF b < rcv_nxt + rcv_wnd THEN b ELSE rcv_nxt + rcv_wnd - 1

\* The FIN is no data.
LastData(m) == IF m = Fin THEN Fin - 1 ELSE m

\* recv_data: the pbuf, when the bytes up to m are taken and some are data.
Data(m) ==
  IF rcv_nxt > LastData(m) THEN <<>>
  ELSE <<[from |-> rcv_nxt, to |-> LastData(m), buf |-> packet]>>

\* The messages in the mailbox (with the pbuf recv keeps as lastdata, one more
\* than there are) and those recv_tcp posts: the data, and netconn_closed.
Messages == Len(recvmbox) + closed
Posts(m) == Len(Data(m)) + (IF m = Fin THEN 1 ELSE 0)

X_next_misses_fin(m) ==
  /\ recvmbox' = recvmbox \o Data(m)
  /\ closed' = IF m = Fin THEN closed + 1 ELSE closed
  /\ rcv_nxt' = LastData(m) + 1
  /\ rcv_wnd' = rcv_wnd - (LastData(m) - rcv_nxt + 1)
  /\ pool' = pool + 1 - Len(Data(m))

X_empty_fin_kept(m) ==
  /\ recvmbox' = recvmbox \o Data(m)
  /\ closed' = IF m = Fin THEN closed + 1 ELSE closed
  /\ rcv_nxt' = m + 1
  /\ rcv_wnd' = rcv_wnd - (LastData(m) - rcv_nxt + 1)
  /\ pool' = pool

\* tcp_receive and tcp_input, for a segment in sequence.
Deliver(m) ==
  /\ recvmbox' = recvmbox \o Data(m)
  /\ closed' = IF m = Fin THEN closed + 1 ELSE closed
  /\ rcv_nxt' = m + 1
  /\ rcv_wnd' = rcv_wnd - (LastData(m) - rcv_nxt + 1)
  /\ pool' = pool + 1 - Len(Data(m))

\* sys_mbox_trypost waits for room in the mailbox, with the core lock held: the
\* guard on the mailbox is that wait.
HandleNext(a, b) ==
  /\ PacketHandled /\ Wanted(a, b)
  /\ Messages + Posts(LastTaken(b)) <= RecvMbox
  /\ Deliver(LastTaken(b))
  /\ UNCHANGED <<fin_pending, udpbox, conn>>

------------------------------------------------------------------------------
\* The DoIP task.

\* doip_entity_start binds the UDP socket, then opens the TCP port; the task of an
\* entity that fails to start deletes itself and closes nothing.
EntityStart ==
  /\ ~rxisr
  /\ \/ task = "starting" /\ task' \in {"bound", "dead"}
     \/ task = "bound" /\ task' \in {"running", "dead"}
  /\ UNCHANGED <<rxVars, doip, recvd, read, thread, pcb, socks, reused>>

Running(pc) == ~rxisr /\ task = "running" /\ doip = pc

X_udp_only_without_connection ==
  /\ Running("udp")
  /\ udpbox' = IF udpbox = 0 \/ conn = "open" THEN udpbox ELSE udpbox - 1
  /\ pool' = pool + (udpbox - udpbox')
  /\ doip' = IF conn = "open" THEN "recv" ELSE "udp"
  /\ UNCHANGED <<ring, inpkts, apis, mbox, task, recvd, read, thread, pcb,
                 recvmbox, closed, fin_pending, conn, reused>>

\* One datagram per cycle, then the connection.
RecvUdp ==
  /\ Running("udp")
  /\ udpbox' = IF udpbox = 0 THEN 0 ELSE udpbox - 1
  /\ pool' = pool + (udpbox - udpbox')
  /\ doip' = IF conn = "open" THEN "recv" ELSE "udp"
  /\ UNCHANGED <<ring, inpkts, apis, mbox, task, recvd, read, thread, pcb,
                 recvmbox, closed, fin_pending, conn, reused>>

\* pbuf_copy_partial: the bytes of pbuf p up to number n, or what the buffer holds
\* in their place.
Copied(p, n) ==
  [i \in 1..(n - p.from + 1) |-> IF p.buf = Overwritten THEN Other ELSE p.from + i - 1]

X_rest_of_pbuf_dropped ==
  /\ Running("recv") /\ ~fin_pending /\ recvmbox # <<>>
  /\ \E n \in Head(recvmbox).from..Head(recvmbox).to :
       /\ read' = read \o Copied(Head(recvmbox), n)
       /\ recvd' = recvd + (n - Head(recvmbox).from + 1)
       /\ recvmbox' = Tail(recvmbox) /\ pool' = pool + 1
       /\ doip' \in {"recv", "recvd"}
  /\ UNCHANGED <<ring, inpkts, apis, mbox, task, thread, pcb, closed, fin_pending, udpbox, conn,
                 reused>>

\* lwip_recv_tcp copies of the pbuf it has kept (lastdata), or of the next
\* message.  A pbuf copied to its end is freed, and with room left in the buffer
\* the call looks for more; one that did not fit is kept.
RecvPbuf ==
  /\ Running("recv") /\ ~fin_pending /\ recvmbox # <<>>
  /\ \E n \in Head(recvmbox).from..Head(recvmbox).to :
       /\ read' = read \o Copied(Head(recvmbox), n)
       /\ recvd' = recvd + (n - Head(recvmbox).from + 1)
       /\ \/ /\ n = Head(recvmbox).to
             /\ recvmbox' = Tail(recvmbox) /\ pool' = pool + 1
             /\ doip' \in {"recv", "recvd"}
          \/ /\ n < Head(recvmbox).to
             /\ recvmbox' = [recvmbox EXCEPT ![1].from = n + 1] /\ UNCHANGED pool
             /\ doip' = "recvd"
  /\ UNCHANGED <<ring, inpkts, apis, mbox, task, thread, pcb, closed, fin_pending, udpbox, conn,
                 reused>>

\* The mailbox is empty.
RecvNothing ==
  /\ Running("recv") /\ ~fin_pending /\ recvmbox = <<>> /\ closed = 0
  /\ doip' = IF recvd > 0 THEN "recvd" ELSE "udp"
  /\ UNCHANGED <<rxVars, task, recvd, read, thread, pcb, socks, reused>>

X_fin_eaten ==
  /\ Running("recv") /\ ~fin_pending /\ recvmbox = <<>> /\ closed > 0
  /\ closed' = closed - 1
  /\ doip' = IF recvd > 0 THEN "recvd" ELSE "shut"
  /\ UNCHANGED <<rxVars, task, recvd, read, thread, pcb, recvmbox, fin_pending, udpbox, conn,
                 reused>>

\* netconn_closed: kept for the next call when this one has data to return.
RecvFin ==
  /\ Running("recv")
  /\ \/ /\ fin_pending
        /\ fin_pending' = FALSE /\ doip' = "shut" /\ UNCHANGED closed
     \/ /\ ~fin_pending /\ recvmbox = <<>> /\ closed > 0
        /\ closed' = closed - 1
        /\ fin_pending' = (recvd > 0)
        /\ doip' = IF recvd > 0 THEN "recvd" ELSE "shut"
  /\ UNCHANGED <<rxVars, task, recvd, read, thread, pcb, recvmbox, udpbox, conn, reused>>

X_window_not_reopened ==
  /\ Running("recvd") /\ tcpip = "fetch"
  /\ recvd' = 0 /\ doip' = "udp"
  /\ UNCHANGED <<rxVars, task, read, thread, pcb, socks, reused>>

\* netconn_tcp_recvd, with the core lock.
TcpRecvd ==
  /\ Running("recvd") /\ tcpip = "fetch"
  /\ rcv_wnd' = rcv_wnd + recvd
  /\ recvd' = 0 /\ doip' = "udp"
  /\ UNCHANGED <<rxVars, task, read, thread, rcv_nxt, socks, reused>>

\* recv returns 0: the receive side is shut down, the slot's socket closed.
Shut ==
  /\ Running("shut") /\ tcpip = "fetch"
  /\ conn' = "closed" /\ doip' = "udp"
  /\ UNCHANGED <<rxVars, task, recvd, read, thread, pcb, recvmbox, closed, fin_pending, udpbox,
                 reused>>

------------------------------------------------------------------------------
TcpipThread ==
  \/ Fetch \/ HandleCallback \/ HandleUdp \/ HandleStray
  \/ \E a \in Number : \E b \in a..Fin : HandleNext(a, b)

DoipTask ==
  RecvUdp \/ RecvPbuf \/ RecvNothing \/ RecvFin \/ TcpRecvd \/ Shut

Next == Driver \/ RxInterrupt \/ TcpipThread \/ EntityStart \/ DoipTask

Spec == Init /\ [][Next]_vars

\* Interrupts are served, and a thread that is ready again and again is scheduled.
FairSpec ==
  /\ Spec
  /\ WF_vars(RxInterrupt)
  /\ SF_vars(TcpipThread) /\ SF_vars(EntityStart) /\ SF_vars(DoipTask)

------------------------------------------------------------------------------
Pbuf == [from : Number, to : Number, buf : Desc \union {Overwritten}]

\* Type invariant.
TypeOK ==
  /\ rxown \in [Desc -> BOOLEAN] /\ rxdma \in Desc /\ rxcur \in Desc
  /\ ri \in BOOLEAN /\ rxisr \in BOOLEAN
  /\ pool \in 0..RxBd /\ inpkts \in Nat /\ apis \in Nat
  /\ mbox \in Seq(Message)
  /\ task \in {"starting", "bound", "running", "dead"}
  /\ tcpip \in {"fetch", "callback", "packet"}
  /\ packet \in Message
  /\ rcv_nxt \in 1..(Fin + 1) /\ rcv_wnd \in 0..TcpWnd
  /\ recvmbox \in Seq(Pbuf) /\ closed \in Nat /\ udpbox \in Nat
  /\ fin_pending \in BOOLEAN /\ conn \in {"open", "closed"}
  /\ doip \in {"udp", "recv", "recvd", "shut"} /\ recvd \in Nat
  /\ read \in Seq(0..Fin) /\ reused \in BOOLEAN

\* sys_mbox_trypost reports success for a message it could not queue in interrupt
\* context.  It never has to: every message taken from the two pools is in the
\* mailbox or being handled, whatever the load.
NoMessageLost ==
  /\ Len(mbox) + (IF tcpip = "fetch" THEN 0 ELSE 1) = inpkts + apis
  /\ Len(mbox) <= MboxSize

\* Every pbuf of RX_POOL is free or in exactly one place: none is lost and none
\* freed twice by the interrupt, the tcpip thread and the DoIP task, who all do.
PoolAccounted ==
  pool + inpkts + Len(recvmbox) + udpbox = RxBd

\* The tcpip thread posts to a full mailbox by waiting with the core lock held,
\* and the reader needs that lock: neither waits, the mailbox always has room.
NeverWaitsForReader ==
  tcpip = "packet" =>
    \A a \in Number : \A b \in a..Fin :
      Wanted(a, b) => Messages + Posts(LastTaken(b)) <= RecvMbox

\* How many bytes of data tcp_receive has taken.
Arrived == LastData(rcv_nxt - 1)

\* Whatever is lost, repeated, reordered, cut anew and trimmed, and wherever a recv
\* call stops in a pbuf, recv hands the task the bytes 1, 2, ... in turn, the pbufs
\* it has yet to copy hold the next ones up to rcv_nxt, and the end of the
\* connection is reported behind the last byte.  A byte is what the peer sent at
\* this place as long as the DMA has not reused the buffer of a queued pbuf; from
\* then on it may be a byte of a later frame (ReadIntact is what fails).
ReadInOrder ==
  /\ \A i \in DOMAIN read : read[i] = i \/ (reused /\ read[i] = Other)
  /\ \A i \in DOMAIN recvmbox :
       recvmbox[i].from = (IF i = 1 THEN Len(read) ELSE recvmbox[i - 1].to) + 1
  /\ Arrived = IF recvmbox = <<>> THEN Len(read) ELSE recvmbox[Len(recvmbox)].to
  /\ conn = "closed" => Len(read) = Fin - 1

\* What the window has lost is what the task has yet to take or to report.
WindowAccounted == rcv_wnd + (Arrived - Len(read)) + recvd = TcpWnd

\* A frame in the ring is taken out, though no second interrupt comes for one
\* that arrives while the handler runs.
RingEmptied == \A d \in Desc : []<>rxown[d]

\* Datagrams and unread data share the eight pbufs with whatever is on its way:
\* they may use them all up, but not for ever, unless the task has died, or
\* frames arrive so fast that the handler, which has no limit, does not return.
ReceptionRecovers == []<>~rxisr => []<>(pool > 0 \/ task = "dead")

\* netconn_closed is posted once, and the recv call that meets it behind data does
\* not report it: the next call does, and the connection is closed.
FinDelivered == []<>~rxisr => (rcv_nxt > Fin ~> conn = "closed")

\* "When the pbuf is eventually freed, the receive buffer is given back to the
\* driver": while a pbuf that refers to it is queued the DMA does not own it.
BufferHeld == \A i \in DOMAIN mbox : mbox[i] # Callback => ~rxown[mbox[i]]

\* The task reads what the peer sent.
ReadIntact == \A i \in DOMAIN read : read[i] = i
==============================================================================
