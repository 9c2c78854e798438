------------------------------- MODULE GmacRx -------------------------------
(***************************************************************************)
(* The receive path below lwIP: the GMAC's receive ring, the receive       *)
(* interrupt that empties it, and the two pools and the mailbox through    *)
(* which ethif_input and tcpip_inpkt hand a frame to the tcpip thread      *)
(* (Gmac_Ip.c, Eth_43_GMAC.c, ethif_port.c, lwIP's tcpip.c, sys_arch.c).   *)
(*                                                                         *)
(* The driver owns one buffer per descriptor.  A received frame is not     *)
(* copied: a pbuf of RX_POOL refers to the buffer.  What the frame says is *)
(* read by the tcpip thread, and module NetPath, which has what that       *)
(* thread and the sockets do with the pbufs, chooses it there.             *)
(***************************************************************************)
EXTENDS Integers, Sequences

CONSTANTS
  RxBd,       \* ETH_RXBD_NUM: receive descriptors, and pbufs of RX_POOL
  InpktMsgs,  \* MEMP_NUM_TCPIP_MSG_INPKT
  ApiMsgs,    \* MEMP_NUM_TCPIP_MSG_API
  MboxSize    \* TCPIP_MBOX_SIZE

\* The sizes lwip_FreeRTOS_s32k344.mex configures are 8, 20, 20 and 40.
ASSUME RxAssumption ==
  /\ RxBd \in Nat \ {0} /\ InpktMsgs \in Nat /\ ApiMsgs \in Nat /\ MboxSize \in Nat
  /\ InpktMsgs + ApiMsgs <= MboxSize

Desc == 0..(RxBd - 1)

\* A message of tcpip_mbox: a packet (TCPIP_MSG_INPKT), here the buffer its pbuf
\* refers to, or a callback that frees a transmitted pbuf (TCPIP_MSG_CALLBACK).
Callback == -1
Message == Desc \union {Callback}

VARIABLES
  rxown,         \* RDES3.OWN of a descriptor
  rxdma,         \* the DMA's next descriptor
  rxcur,         \* RxCurrentDesc, and RxAllocDesc between two frames
  ri,            \* RI of DMA_STATUS
  rxisr,         \* the receive interrupt is being served
  pool,          \* free pbufs of RX_POOL
  inpkts, apis,  \* messages in use of the two pools
  mbox           \* tcpip_mbox

ring == <<rxown, rxdma, rxcur, ri, rxisr>>
rxVars == <<ring, pool, inpkts, apis, mbox>>

After(d) == IF d + 1 = RxBd THEN 0 ELSE d + 1

RxInit ==
  /\ rxown = [d \in Desc |-> TRUE]
  /\ rxdma = 0 /\ rxcur = 0 /\ ri = FALSE /\ rxisr = FALSE
  /\ pool = RxBd /\ inpkts = 0 /\ apis = 0 /\ mbox = <<>>

------------------------------------------------------------------------------
\* The DMA stores a frame; without a descriptor of its own it drops the frame.
DmaStores ==
  /\ rxown[rxdma]
  /\ rxown' = [rxown EXCEPT ![rxdma] = FALSE]
  /\ rxdma' = After(rxdma)
  /\ ri' = TRUE
  /\ UNCHANGED <<rxcur, rxisr, pool, inpkts, apis, mbox>>

\* GMAC_RxIRQHandler acknowledges RI before it calls back.
RxIrq ==
  /\ ri /\ ~rxisr
  /\ ri' = FALSE /\ rxisr' = TRUE
  /\ UNCHANGED <<rxown, rxdma, rxcur, pool, inpkts, apis, mbox>>

\* sys_mbox_trypost in interrupt context: if the queue is full the message is
\* lost, and ERR_OK is returned all the same.
TryPostFromIsr(m) == mbox' = IF Len(mbox) < MboxSize THEN Append(mbox, m) ELSE mbox

\* ethif_input takes a pbuf of RX_POOL, tcpip_inpkt a message; without either the
\* frame is dropped.
ethif_input(m) ==
  IF pool > 0 /\ inpkts < InpktMsgs
  THEN /\ pool' = pool - 1
       /\ inpkts' = inpkts + 1
       /\ TryPostFromIsr(m)
  ELSE UNCHANGED <<pool, inpkts, mbox>>

\* Eth_43_GMAC_Receive: the frame in the current descriptor is indicated, unless
\* it has an error, and its buffer given back to the DMA at once.
Receive ==
  /\ rxisr /\ ~rxown[rxcur]
  /\ ethif_input(rxcur) \/ UNCHANGED <<pool, inpkts, mbox>>
  /\ rxown' = [rxown EXCEPT ![rxcur] = TRUE]
  /\ rxcur' = After(rxcur)
  /\ UNCHANGED <<rxdma, ri, rxisr, apis>>

X_loop_cut_short ==
  /\ rxisr
  /\ rxisr' = FALSE
  /\ UNCHANGED <<rxown, rxdma, rxcur, ri, pool, inpkts, apis, mbox>>

\* ETH_NOT_RECEIVED ends the loop of Eth_43_GMAC_RxIrqCallback.
RxIrqEnds ==
  /\ rxisr /\ rxown[rxcur]
  /\ rxisr' = FALSE
  /\ UNCHANGED <<rxown, rxdma, rxcur, ri, pool, inpkts, apis, mbox>>

X_callback_unlimited ==
  /\ ~rxisr
  /\ apis' = apis + 1
  /\ TryPostFromIsr(Callback)
  /\ UNCHANGED <<ring, pool, inpkts>>

\* pbuf_free_callback from the transmit interrupt (EthIf_TxConfirmation).
pbuf_free_callback ==
  /\ ~rxisr /\ apis < ApiMsgs
  /\ apis' = apis + 1
  /\ TryPostFromIsr(Callback)
  /\ UNCHANGED <<ring, pool, inpkts>>
=============================================================================
