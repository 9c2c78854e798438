------------------------------- MODULE GmacTx -------------------------------
(***************************************************************************)
(* The transmit path below lwIP: ethif_low_level_output hands a pbuf chain *)
(* to the GMAC driver's descriptor ring, the DMA empties the ring, and the *)
(* transmit interrupt confirms frames and releases their pbufs             *)
(* (ethif_port.c, Eth_43_GMAC.c, Eth_43_GMAC_Ipw.c and Gmac_Ip.c).         *)
(*                                                                         *)
(* Three actors interleave: the thread that sends (lwIP's core lock admits *)
(* one), the interrupt service routine, which preempts it except between   *)
(* sys_arch_protect and sys_arch_unprotect, and the DMA, which stops for   *)
(* neither.  Frame f is a chain of buffers; the address of its k-th buffer *)
(* is <<f, k>>.  A buffer is assumed to fit the length a descriptor        *)
(* allows, as every frame of this interface does.                          *)
(***************************************************************************)
EXTENDS Integers, FiniteSets

CONSTANTS
  RingSize,   \* ETH_TXBD_NUM: descriptors of the ring, slots of tx_pbufs
  MaxChain,   \* bound on the buffers of a frame
  MaxFrames   \* bound on the frames sent

ASSUME TxAssumption ==
  /\ RingSize \in Nat /\ MaxChain \in Nat /\ MaxFrames \in Nat
  /\ 0 < MaxChain /\ MaxChain < RingSize

Desc == 0..(RingSize - 1)
NULL == -1
NoAddr == <<0, 0>>
Addr == {NoAddr} \union ((1..MaxFrames) \X (1..MaxChain))

VARIABLES
  own, ld,        \* TDES3: OWN and LD of each descriptor
  des0, info0,    \* TDES0, and the driver's copy of the buffer address
  locked,         \* GMAC_INFO1_LOCKED_MASK
  cur, tail,      \* TxCurrentDesc; DMA_TXDESC_TAIL_POINTER
  dma,            \* the DMA's current descriptor
  onwire,         \* what it read last: an address, and whether it was the last of its frame
  ti,             \* TI of DMA_STATUS
  head, qtail,    \* Eth_43_GMAC_axTransmissionRequests: pQueueHead, pQueueTail
  nxt, bufdata,   \* Eth_43_GMAC_axTxBufferIdxMap: pNextBuffer, pu8BufferData
  confirm,        \*   and bTxConfirmation
  cleared,        \* Gmac_Ip_u16NumberOfClearedBd
  tx_pbufs,       \* the frames whose pbuf is kept, 0 for NULL
  pc,             \* the sending thread: "idle", "probe" (no free buffers yet) or "fill"
  frame, bufs,    \* the frame it sends and pbuf_clen of it
  slot, k,        \* its index i of tx_pbufs, and of the buffer being filled
  isr             \* "off", "report", or "fault": a NULL pointer was dereferenced

desc == <<own, ld, des0, info0, locked>>
queue == <<head, qtail, nxt, bufdata, confirm>>
thread == <<pc, frame, bufs, slot, k>>
vars == <<desc, cur, tail, dma, onwire, ti, queue, cleared, tx_pbufs, thread, isr>>

\* Bd++ with its wrap at the end of the ring, n times.
Plus(d, n) == IF d + n >= RingSize THEN d + n - RingSize ELSE d + n

\* How many descriptors lie between a and b.
Dist(a, b) == IF b >= a THEN b - a ELSE b - a + RingSize

\* The n descriptors from d on.
Span(d, n) == {e \in Desc : Dist(d, e) < n}

\* The rings as Gmac_Ip_Init and Eth_43_GMAC_Init leave them.
Init ==
  /\ own = [d \in Desc |-> FALSE] /\ ld = own /\ locked = own
  /\ des0 = [d \in Desc |-> NoAddr] /\ info0 = des0
  /\ cur = 0 /\ tail = 0 /\ dma = 0 /\ ti = FALSE
  /\ onwire = [addr |-> NoAddr, last |-> TRUE]
  /\ head = NULL /\ qtail = NULL
  /\ nxt = [d \in Desc |-> NULL] /\ bufdata = des0 /\ confirm = own
  /\ cleared = 0
  /\ tx_pbufs = [i \in Desc |-> 0]
  /\ pc = "idle" /\ frame = 0 /\ bufs = 0 /\ slot = 0 /\ k = 0
  /\ isr = "off"

------------------------------------------------------------------------------
\* The sending thread.

\* lwIP calls ethif_low_level_output with a chain of n buffers.
Output(n) ==
  /\ isr = "off" /\ pc = "idle" /\ frame < MaxFrames
  /\ pc' = "probe" /\ frame' = frame + 1 /\ bufs' = n /\ slot' = 0 /\ k' = 0
  /\ UNCHANGED <<desc, cur, tail, dma, onwire, ti, queue, cleared, tx_pbufs, isr>>

Free(d) == ~own[d] /\ ~locked[d]

\* The free descriptors Gmac_Ip_GetTxMultiBuff finds from TxCurrentDesc on.
FreeRun == {d \in Span(cur, bufs) : Free(d) /\ \A e \in Span(cur, Dist(cur, d)) : Free(e)}
Room == FreeRun = Span(cur, bufs)

\* This slot of tx_pbufs is taken, or there are not enough descriptors; the ones
\* that were free stay locked.
NextSlot ==
  /\ isr = "off" /\ pc = "probe"
  /\ \/ /\ tx_pbufs[slot] # 0
        /\ UNCHANGED locked
     \/ /\ tx_pbufs[slot] = 0 /\ ~Room
        /\ locked' = [d \in Desc |-> locked[d] \/ d \in FreeRun]
  /\ slot' = Plus(slot, 1)
  /\ UNCHANGED <<own, ld, des0, info0, cur, tail, dma, onwire, ti, queue, cleared,
                 tx_pbufs, pc, frame, bufs, k, isr>>

\* Eth_43_GMAC_SendMultiBufferFrame: lock the descriptors, append their entries
\* to the queue of transmission requests.
Enqueue ==
  /\ isr = "off" /\ pc = "probe" /\ tx_pbufs[slot] = 0 /\ Room
  /\ locked' = [d \in Desc |-> locked[d] \/ d \in Span(cur, bufs)]
  /\ cur' = Plus(cur, bufs)
  /\ bufdata' = [d \in Desc |-> IF d \in Span(cur, bufs)
                                THEN <<frame, Dist(cur, d) + 1>> ELSE bufdata[d]]
  /\ confirm' = [d \in Desc |-> IF d \in Span(cur, bufs) THEN d = cur ELSE confirm[d]]
  /\ head' = IF head = NULL THEN cur ELSE head
  /\ qtail' = Plus(cur, bufs - 1)
  /\ nxt' = [d \in Desc |->
               CASE d = qtail' -> NULL
                 [] d # qtail' /\ d \in Span(cur, bufs) -> Plus(d, 1)
                 [] d \notin Span(cur, bufs) /\ head # NULL /\ d = qtail -> cur
                 [] OTHER -> nxt[d]]
  /\ pc' = "fill"
  /\ UNCHANGED <<own, ld, des0, info0, tail, dma, onwire, ti, cleared, tx_pbufs,
                 frame, bufs, slot, k, isr>>

X_fill_owns_first ==
  /\ pc = "fill" /\ k < bufs
  /\ LET d == Plus(tail, k)
     IN  /\ ~own[d]
         /\ des0' = [des0 EXCEPT ![d] = <<frame, k + 1>>]
         /\ info0' = [info0 EXCEPT ![d] = <<frame, k + 1>>]
         /\ own' = [own EXCEPT ![d] = TRUE]
         /\ ld' = [ld EXCEPT ![d] = FALSE]
  /\ k' = k + 1
  /\ UNCHANGED <<locked, cur, tail, dma, onwire, ti, queue, cleared, tx_pbufs,
                 pc, frame, bufs, slot, isr>>

\* Gmac_Ip_SendMultiBufferFrame, one pass of its loop: the first descriptor is
\* not given to the DMA yet.
Fill ==
  /\ pc = "fill" /\ k < bufs
  /\ LET d == Plus(tail, k)
     IN  /\ ~own[d]
         /\ des0' = [des0 EXCEPT ![d] = <<frame, k + 1>>]
         /\ info0' = [info0 EXCEPT ![d] = <<frame, k + 1>>]
         /\ own' = [own EXCEPT ![d] = k > 0]
         /\ ld' = [ld EXCEPT ![d] = FALSE]
  /\ k' = k + 1
  /\ UNCHANGED <<locked, cur, tail, dma, onwire, ti, queue, cleared, tx_pbufs,
                 pc, frame, bufs, slot, isr>>

X_start_tail_short ==
  /\ pc = "fill" /\ k = bufs
  /\ ld' = [ld EXCEPT ![Plus(tail, bufs - 1)] = TRUE]
  /\ own' = [own EXCEPT ![tail] = TRUE]
  /\ tail' = Plus(tail, 1)
  /\ tx_pbufs' = [tx_pbufs EXCEPT ![slot] = frame]
  /\ pc' = "idle"
  /\ UNCHANGED <<des0, info0, locked, cur, dma, onwire, ti, queue, cleared,
                 frame, bufs, slot, k, isr>>

\* Its end: mark the last descriptor, hand over the first, move the tail pointer;
\* ethif_low_level_output keeps the pbuf.
Start ==
  /\ pc = "fill" /\ k = bufs
  /\ ld' = [ld EXCEPT ![Plus(tail, bufs - 1)] = TRUE]
  /\ own' = [own EXCEPT ![tail] = TRUE]
  /\ tail' = Plus(tail, bufs)
  /\ tx_pbufs' = [tx_pbufs EXCEPT ![slot] = frame]
  /\ pc' = "idle"
  /\ UNCHANGED <<des0, info0, locked, cur, dma, onwire, ti, queue, cleared,
                 frame, bufs, slot, k, isr>>

------------------------------------------------------------------------------
\* The DMA: read one buffer, give the descriptor back, raise TI after the last
\* buffer of a frame.
DmaReads ==
  /\ own[dma]
  /\ own' = [own EXCEPT ![dma] = FALSE]
  /\ onwire' = [addr |-> des0[dma], last |-> ld[dma]]
  /\ ti' = (ti \/ ld[dma])
  /\ dma' = Plus(dma, 1)
  /\ UNCHANGED <<ld, des0, info0, locked, cur, tail, queue, cleared, tx_pbufs, thread, isr>>

------------------------------------------------------------------------------
\* The transmit interrupt.

\* GMAC_TxIRQHandler acknowledges TI and calls back; a critical section of the
\* thread keeps it waiting.
TxIrq ==
  /\ ti /\ isr = "off" /\ pc # "fill"
  /\ ti' = FALSE /\ isr' = "report"
  /\ UNCHANGED <<desc, cur, tail, dma, onwire, queue, cleared, tx_pbufs, thread>>

\* Gmac_Ip_GetTransmitStatus looks from the start of the ring for the descriptor
\* that holds the address.
Holding(a) == {d \in Desc : info0[d] = a}
Reported == IF head = NULL THEN {} ELSE Holding(bufdata[head])
Lowest(S) == CHOOSE d \in S : \A e \in S : d <= e

\* Gmac_Ip_ProcessTxDesc passes the descriptors that have been read and are not
\* the last of the frame,
Middle(e) == ~ld[e] /\ ~own[e]
Passed(d) == {e \in Desc : Middle(e) /\ \A f \in Span(d, Dist(d, e)) : Middle(f)}

\* and succeeds at the last one, if it has been read too.
Last(d) == {e \in Desc : ld[e] /\ ~own[e] /\ \A f \in Span(d, Dist(d, e)) : Middle(f)}

X_clear_one_more(S) ==
  LET More == S \union {e \in Desc : \E d \in S : e = Plus(d, 1)}
  IN  /\ des0' = [e \in Desc |-> IF e \in More THEN info0[e] ELSE des0[e]]
      /\ info0' = [e \in Desc |-> IF e \in More THEN NoAddr ELSE info0[e]]
      /\ locked' = [e \in Desc |-> locked[e] /\ e \notin More]
      /\ UNCHANGED <<own, ld>>

\* It clears the descriptors, whether or not it succeeds.
ClearDescs(S) ==
  /\ des0' = [e \in Desc |-> IF e \in S THEN info0[e] ELSE des0[e]]
  /\ info0' = [e \in Desc |-> IF e \in S THEN NoAddr ELSE info0[e]]
  /\ locked' = [e \in Desc |-> locked[e] /\ e \notin S]
  /\ UNCHANGED <<own, ld>>

\* Eth_43_GMAC_Ipw_ReportTransmission ends: nothing is queued, or no descriptor
\* holds the first request's buffer.
ReportEnds ==
  /\ isr = "report" /\ Reported = {}
  /\ isr' = "off"
  /\ UNCHANGED <<desc, cur, tail, dma, onwire, ti, queue, cleared, tx_pbufs, thread>>

\* Or the first frame queued is still being transmitted.
ReportBusy ==
  /\ isr = "report" /\ Reported # {}
  /\ LET d == Lowest(Reported)
     IN  /\ Last(d) = {}
         /\ ClearDescs(Passed(d))
         /\ cleared' = cleared + Cardinality(Passed(d))
  /\ isr' = "off"
  /\ UNCHANGED <<cur, tail, dma, onwire, ti, queue, tx_pbufs, thread>>

\* The queue entry n places behind the head; there may be none.
Entry(n) ==
  LET walk[i \in Nat] == IF i = 0 THEN head
                         ELSE IF walk[i - 1] = NULL THEN NULL ELSE nxt[walk[i - 1]]
  IN  walk[n]

\* EthIf_TxConfirmation asks the tcpip thread to free every pbuf that is kept.
EthIf_TxConfirmation ==
  IF confirm[head] THEN tx_pbufs' = [i \in Desc |-> 0] ELSE UNCHANGED tx_pbufs

X_one_per_interrupt(n) ==
  /\ head' = Entry(n)
  /\ bufdata' = [d \in Desc |-> IF \E i \in 0..(n - 1) : Entry(i) = d THEN NoAddr
                                ELSE bufdata[d]]
  /\ isr' = IF \E i \in 0..(n - 1) : Entry(i) = NULL THEN "fault" ELSE "off"

\* Take n entries off the queue; running off its end is a NULL dereference.
Dequeue(n) ==
  /\ head' = Entry(n)
  /\ bufdata' = [d \in Desc |-> IF \E i \in 0..(n - 1) : Entry(i) = d THEN NoAddr
                                ELSE bufdata[d]]
  /\ isr' = IF \E i \in 0..(n - 1) : Entry(i) = NULL THEN "fault" ELSE isr

X_count_kept ==
  /\ isr = "report" /\ Reported # {}
  /\ LET d == Lowest(Reported)
         S == Passed(d) \union Last(d)
     IN  /\ Last(d) # {}
         /\ ClearDescs(S)
         /\ Dequeue(cleared + Cardinality(S))
         /\ cleared' = cleared + Cardinality(S)
  /\ EthIf_TxConfirmation
  /\ UNCHANGED <<cur, tail, dma, onwire, ti, qtail, nxt, confirm, thread>>

\* The first frame queued is out: confirm it, free its descriptors and entries.
ReportDone ==
  /\ isr = "report" /\ Reported # {}
  /\ LET d == Lowest(Reported)
         S == Passed(d) \union Last(d)
     IN  /\ Last(d) # {}
         /\ ClearDescs(S)
         /\ Dequeue(cleared + Cardinality(S))
  /\ EthIf_TxConfirmation
  /\ cleared' = 0
  /\ UNCHANGED <<cur, tail, dma, onwire, ti, qtail, nxt, confirm, thread>>

------------------------------------------------------------------------------
Thread == (\E n \in 1..MaxChain : Output(n)) \/ NextSlot \/ Enqueue \/ Fill \/ Start
Isr == TxIrq \/ ReportEnds \/ ReportBusy \/ ReportDone

Next == Thread \/ Isr \/ DmaReads

Spec == Init /\ [][Next]_vars

\* A thread inside ethif_low_level_output goes on, interrupts are served, and the
\* DMA transmits what it is given.
FairSpec ==
  /\ Spec
  /\ WF_vars(NextSlot \/ Enqueue \/ Fill \/ Start)
  /\ WF_vars(Isr) /\ WF_vars(DmaReads)

------------------------------------------------------------------------------
\* The driver allocates descriptors from TxCurrentDesc and fills them from the
\* DMA's tail pointer: the two agree between frames, and a descriptor about to be
\* filled is one that was reserved for this frame and that the DMA does not own,
\* so GMAC_STATUS_TX_QUEUE_FULL cannot be returned after the allocation.
FillsItsOwnRoom ==
  IF pc = "fill"
  THEN /\ cur = Plus(tail, bufs)
       /\ \A i \in k..(bufs - 1) : ~own[Plus(tail, i)]
  ELSE cur = tail

\* "OWN of the first descriptor last": once the DMA has begun a frame, the frame's
\* next descriptor is there, and whatever the DMA may take next continues the
\* frame or begins the one after it: frames leave whole and in order.
FramesLeaveWhole ==
  LET f == onwire.addr[1]
  IN  /\ ~onwire.last => own[dma]
      /\ own[dma] => des0[dma] = IF onwire.last THEN <<f + 1, 1>>
                                 ELSE <<f, onwire.addr[2] + 1>>

\* A descriptor the DMA still has to read is reserved until its frame is reported,
\* however the thread, the interrupt and the DMA interleave.
OwnedIsLocked == \A d \in Desc : own[d] => locked[d]

\* As long as frames are single buffers.
Singles == bufs <= 1

\* With single buffers the interrupt never takes more entries off the queue than
\* there are: no NULL pointer is followed.
SinglesNeverFault == [](Singles) => [](isr # "fault")

\* A thread that sends comes back from ethif_low_level_output.
OutputReturns == pc = "probe" ~> pc = "idle"

\* With single-buffer frames it does, and every descriptor is reserved only for a
\* while: no interrupt is lost, whatever the DMA finishes during the handler.
SinglesReported ==
  [](Singles) => OutputReturns /\ \A d \in Desc : []<>(~locked[d])

\* "Once we detect the transmission is complete, we are freeing our reference":
\* the pbuf of a frame is kept as long as the DMA has a buffer of it to read.
HeldWhileInFlight ==
  \A d \in Desc : own[d] /\ pc # "fill" => \E i \in Desc : tx_pbufs[i] = des0[d][1]
==============================================================================
