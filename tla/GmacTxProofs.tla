---------------------------- MODULE GmacTxProofs ----------------------------
(***************************************************************************)
(* Proofs about GmacTx for every ring, chain length and number of frames.  *)
(*                                                                         *)
(* That a frame finds its room free needs that no step gives a descriptor  *)
(* to the DMA behind the thread's back; that what the DMA owns stays       *)
(* locked needs that the frame being filled has its descriptors locked,    *)
(* and that the interrupt, which unlocks, waits for the critical section   *)
(* (FillInv).  The queue's pointers have no part in this; their types,     *)
(* which follow the walk along pNextBuffer, are left to TLC.               *)
(***************************************************************************)
EXTENDS GmacTx, TLAPS

Types ==
  /\ own \in [Desc -> BOOLEAN] /\ ld \in [Desc -> BOOLEAN] /\ locked \in [Desc -> BOOLEAN]
  /\ cur \in Desc /\ tail \in Desc /\ dma \in Desc
  /\ pc \in {"idle", "probe", "fill"} /\ bufs \in 0..MaxChain /\ k \in Nat

\* Inside the critical section the interrupt is off and the room reserved.
FillInv ==
  /\ pc # "idle" => bufs > 0
  /\ pc = "probe" => k = 0
  /\ pc = "fill" => isr = "off" /\ \A d \in Span(tail, bufs) : locked[d]

IInv == Types /\ FillsItsOwnRoom /\ OwnedIsLocked /\ FillInv

------------------------------------------------------------------------------
\* Arithmetic of the ring.
LEMMA RingLemma ==
  ASSUME NEW d \in Desc, NEW n \in 0..MaxChain
  PROVE  /\ Plus(d, n) \in Desc
         /\ \A i \in 0..(n - 1) : Plus(d, i) \in Span(d, n)
         /\ \A i, j \in 0..n : Plus(d, i) = Plus(d, j) => i = j
         /\ Plus(d, 0) = d
BY TxAssumption DEF Desc, Plus, Dist, Span

\* One flag of a descriptor is written.
LEMMA FlagLemma ==
  ASSUME NEW f \in [Desc -> BOOLEAN], NEW x \in Desc, NEW b \in BOOLEAN
  PROVE  LET g == [f EXCEPT ![x] = b]
         IN  /\ g \in [Desc -> BOOLEAN] /\ g[x] = b
             /\ \A e \in Desc : e # x => g[e] = f[e]
BY Zenon

\* Nothing is sent and nothing reserved at the start.
LEMMA InitLemma == Init => IInv
BY TxAssumption DEF Init, IInv, Types, FillsItsOwnRoom, OwnedIsLocked, FillInv, Desc, Free

\* A step that leaves the ring, the thread and the interrupt alone.
LEMMA StutterLemma ==
  ASSUME IInv, UNCHANGED <<own, ld, locked, cur, tail, dma, pc, bufs, k, isr>>
  PROVE  IInv'
BY DEF IInv, Types, FillsItsOwnRoom, OwnedIsLocked, FillInv

\* A new frame: nothing reserved yet.
LEMMA OutputLemma ==
  ASSUME IInv, NEW n \in 1..MaxChain, Output(n)
  PROVE  IInv'
<1>1. /\ UNCHANGED <<own, ld, locked, cur, tail, dma, isr>>
      /\ pc = "idle" /\ pc' = "probe" /\ k' = 0 /\ bufs' = n
  BY DEF Output, desc
<1> QED BY <1>1, TxAssumption DEF IInv, Types, FillsItsOwnRoom, OwnedIsLocked, FillInv

\* A failed allocation only locks more.
LEMMA NextSlotLemma ==
  ASSUME IInv, NextSlot
  PROVE  IInv'
<1>1. /\ UNCHANGED <<own, ld, cur, tail, dma, pc, bufs, k, isr>>
      /\ pc = "probe"
      /\ locked' = locked \/ locked' = [d \in Desc |-> locked[d] \/ d \in FreeRun]
  BY DEF NextSlot
<1>2. locked' \in [Desc -> BOOLEAN] /\ \A d \in Desc : locked[d] => locked'[d]
  BY <1>1, Zenon DEF IInv, Types
<1> QED BY <1>1, <1>2 DEF IInv, Types, FillsItsOwnRoom, OwnedIsLocked, FillInv

\* A successful one finds the room of the frame free, from the tail pointer on.
LEMMA EnqueueLemma ==
  ASSUME IInv, Enqueue
  PROVE  IInv'
<1>1. /\ UNCHANGED <<own, ld, tail, dma, bufs, k, isr>>
      /\ pc = "probe" /\ pc' = "fill" /\ isr = "off" /\ Room
      /\ cur' = Plus(cur, bufs)
      /\ locked' = [d \in Desc |-> locked[d] \/ d \in Span(cur, bufs)]
  BY DEF Enqueue
<1>2. /\ locked' \in [Desc -> BOOLEAN]
      /\ \A d \in Desc : locked[d] => locked'[d]
      /\ \A d \in Span(cur, bufs) : locked'[d]
  BY <1>1, Zenon DEF IInv, Types, Span
<1>3. cur = tail /\ k = 0
  BY <1>1 DEF IInv, FillsItsOwnRoom, FillInv
<1>4. \A d \in Span(cur, bufs) : ~own[d]
  BY <1>1 DEF Room, FreeRun, Free
<1>5. cur' \in Desc /\ \A i \in 0..(bufs - 1) : Plus(cur, i) \in Span(cur, bufs)
  BY <1>1, RingLemma DEF IInv, Types
<1>6. Types'
  BY <1>1, <1>2, <1>5 DEF IInv, Types
<1>7. FillsItsOwnRoom'
  BY <1>1, <1>3, <1>4, <1>5 DEF FillsItsOwnRoom
<1>8. OwnedIsLocked'
  BY <1>1, <1>2 DEF IInv, OwnedIsLocked
<1>9. FillInv'
  BY <1>1, <1>2, <1>3 DEF IInv, FillInv
<1> QED BY <1>6, <1>7, <1>8, <1>9 DEF IInv

\* Filling a descriptor leaves the frame's later ones alone.
LEMMA FillLemma ==
  ASSUME IInv, Fill
  PROVE  IInv'
<1> DEFINE d == Plus(tail, k)
<1>1. /\ UNCHANGED <<locked, cur, tail, dma, pc, bufs, isr>>
      /\ pc = "fill" /\ k < bufs /\ k' = k + 1
      /\ own' = [own EXCEPT ![d] = k > 0] /\ ld' = [ld EXCEPT ![d] = FALSE]
  BY DEF Fill
<1>2. /\ tail \in Desc /\ bufs \in 0..MaxChain /\ k \in Nat /\ MaxChain \in Nat
      /\ k \in 0..(bufs - 1)
  BY <1>1, TxAssumption DEF IInv, Types
<1>3. d \in Desc /\ d \in Span(tail, bufs)
  BY <1>2, RingLemma DEF Span
<1>4. \A i \in (k + 1)..(bufs - 1) : Plus(tail, i) # d /\ Plus(tail, i) \in Desc
  BY <1>2, RingLemma DEF Span
<1>5. /\ own' \in [Desc -> BOOLEAN] /\ ld' \in [Desc -> BOOLEAN]
      /\ \A e \in Desc : e # d => own'[e] = own[e]
  <2>1. own \in [Desc -> BOOLEAN] /\ ld \in [Desc -> BOOLEAN] /\ (k > 0) \in BOOLEAN
    BY <1>2 DEF IInv, Types
  <2> HIDE DEF d
  <2> QED BY <2>1, <1>1, <1>3, FlagLemma, Zenon
<1>6. Types'
  BY <1>1, <1>2, <1>5 DEF IInv, Types
<1>7. FillsItsOwnRoom'
  <2>1. \A i \in (k + 1)..(bufs - 1) : ~own[Plus(tail, i)]
    BY <1>1, <1>2 DEF IInv, FillsItsOwnRoom
  <2>2. \A i \in (k + 1)..(bufs - 1) : ~own'[Plus(tail, i)]
    BY <2>1, <1>4, <1>5
  <2>3. cur = Plus(tail, bufs)
    BY <1>1 DEF IInv, FillsItsOwnRoom
  <2> QED BY <2>2, <2>3, <1>1 DEF FillsItsOwnRoom
<1>8. OwnedIsLocked'
  <2>1. locked[d]
    BY <1>1, <1>3 DEF IInv, FillInv
  <2>2. \A e \in Desc : e # d /\ own'[e] => locked[e]
    BY <1>5 DEF IInv, OwnedIsLocked
  <2> QED BY <2>1, <2>2, <1>1 DEF OwnedIsLocked
<1>9. FillInv'
  BY <1>1 DEF IInv, FillInv
<1> QED BY <1>6, <1>7, <1>8, <1>9 DEF IInv

\* The tail pointer follows TxCurrentDesc when the frame is handed over.
LEMMA StartLemma ==
  ASSUME IInv, Start
  PROVE  IInv'
<1>1. /\ UNCHANGED <<locked, cur, dma, bufs, k, isr>>
      /\ pc = "fill" /\ k = bufs /\ pc' = "idle" /\ tail' = Plus(tail, bufs)
      /\ own' = [own EXCEPT ![tail] = TRUE]
      /\ ld' = [ld EXCEPT ![Plus(tail, bufs - 1)] = TRUE]
  BY DEF Start
<1>2. /\ own' \in [Desc -> BOOLEAN] /\ ld' \in [Desc -> BOOLEAN]
      /\ \A e \in Desc : e # tail => own'[e] = own[e]
  BY <1>1, Zenon DEF IInv, Types
<1>3. cur = tail' /\ tail' \in Desc
  BY <1>1 DEF IInv, Types, FillsItsOwnRoom
<1>4. Types' /\ FillsItsOwnRoom' /\ FillInv'
  BY <1>1, <1>2, <1>3 DEF IInv, Types, FillsItsOwnRoom, FillInv
<1>5. locked[tail]
  <2>1. tail \in Span(tail, bufs)
    BY <1>1, TxAssumption DEF IInv, FillInv, Types, Span, Dist, Desc
  <2> QED BY <2>1, <1>1 DEF IInv, FillInv
<1>6. OwnedIsLocked'
  BY <1>1, <1>2, <1>5 DEF IInv, OwnedIsLocked
<1> QED BY <1>4, <1>6 DEF IInv

\* The DMA only gives descriptors back.
LEMMA DmaLemma ==
  ASSUME IInv, DmaReads
  PROVE  IInv'
<1>1. /\ UNCHANGED <<ld, locked, cur, tail, pc, bufs, k, isr>>
      /\ own' = [own EXCEPT ![dma] = FALSE] /\ dma' = Plus(dma, 1)
  BY DEF DmaReads, thread
<1>2. own \in [Desc -> BOOLEAN] /\ dma \in Desc /\ tail \in Desc /\ bufs \in 0..MaxChain
  BY DEF IInv, Types
<1>3. own' \in [Desc -> BOOLEAN] /\ \A e \in Desc : own'[e] => own[e]
  BY <1>1, <1>2, FlagLemma, Zenon
<1>4. dma' \in Desc
  BY <1>1, <1>2, TxAssumption, RingLemma
<1>5. Types' /\ FillInv'
  BY <1>1, <1>3, <1>4 DEF IInv, Types, FillInv
<1>6. OwnedIsLocked'
  BY <1>1, <1>3 DEF IInv, OwnedIsLocked
<1>7. \A i \in k..(bufs - 1) : Plus(tail, i) \in Desc
  BY <1>2, RingLemma DEF Span, IInv, Types
<1>8. FillsItsOwnRoom'
  BY <1>1, <1>3, <1>7 DEF IInv, FillsItsOwnRoom
<1> QED BY <1>5, <1>6, <1>8 DEF IInv

\* The interrupt unlocks no descriptor that the DMA has yet to read, and runs only
\* outside the critical section.
LEMMA ClearLemma ==
  ASSUME IInv, isr = "report", isr' \in {"off", "report", "fault"},
         NEW S, S \subseteq {e \in Desc : ~own[e]}, ClearDescs(S),
         UNCHANGED <<cur, tail, dma, pc, bufs, k>>
  PROVE  IInv'
<1>1. /\ own' = own /\ ld' = ld /\ pc # "fill"
      /\ locked' = [e \in Desc |-> locked[e] /\ e \notin S]
  BY DEF ClearDescs, IInv, FillInv
<1>2. locked' \in [Desc -> BOOLEAN] /\ \A e \in Desc : locked[e] /\ e \notin S => locked'[e]
  BY <1>1, Zenon DEF IInv, Types
<1> QED BY <1>1, <1>2 DEF IInv, Types, FillsItsOwnRoom, OwnedIsLocked, FillInv

LEMMA IsrLemma ==
  ASSUME IInv, Isr
  PROVE  IInv'
<1>1. CASE TxIrq
  <2>1. /\ UNCHANGED <<own, ld, locked, cur, tail, dma, pc, bufs, k>>
        /\ pc # "fill"
    BY <1>1 DEF TxIrq, desc, thread
  <2> QED BY <2>1 DEF IInv, Types, FillsItsOwnRoom, OwnedIsLocked, FillInv
<1>2. CASE ReportEnds
  <2>1. /\ UNCHANGED <<own, ld, locked, cur, tail, dma, pc, bufs, k>>
        /\ isr = "report"
    BY <1>2 DEF ReportEnds, desc, thread
  <2> QED BY <2>1 DEF IInv, Types, FillsItsOwnRoom, OwnedIsLocked, FillInv
<1>3. CASE ReportBusy
  <2>1. /\ UNCHANGED <<cur, tail, dma, pc, bufs, k>>
        /\ isr = "report" /\ isr' = "off" /\ ClearDescs(Passed(Lowest(Reported)))
    BY <1>3 DEF ReportBusy, thread
  <2>2. Passed(Lowest(Reported)) \subseteq {e \in Desc : ~own[e]}
    BY DEF Passed, Middle
  <2> QED BY <2>1, <2>2, ClearLemma
<1>4. CASE ReportDone
  <2> DEFINE S == Passed(Lowest(Reported)) \union Last(Lowest(Reported))
  <2>1. /\ UNCHANGED <<cur, tail, dma, pc, bufs, k>>
        /\ isr = "report" /\ ClearDescs(S) /\ isr' \in {"fault", isr}
    BY <1>4 DEF ReportDone, Dequeue, thread
  <2>2. S \subseteq {e \in Desc : ~own[e]}
    BY DEF Passed, Last, Middle
  <2> QED BY <2>1, <2>2, ClearLemma
<1> QED BY <1>1, <1>2, <1>3, <1>4 DEF Isr

\* The invariant is inductive.
LEMMA StepLemma ==
  ASSUME IInv, [Next]_vars
  PROVE  IInv'
<1>1. CASE UNCHANGED vars
  BY <1>1, StutterLemma DEF vars, desc, thread
<1>2. CASE Thread
  BY <1>2, OutputLemma, NextSlotLemma, EnqueueLemma, FillLemma, StartLemma DEF Thread
<1> QED BY <1>1, <1>2, DmaLemma, IsrLemma DEF Next

LEMMA Invariance == Spec => []IInv
BY InitLemma, StepLemma, PTL DEF Spec

------------------------------------------------------------------------------
\* Gmac_Ip_SendMultiBufferFrame fills what Gmac_Ip_GetTxMultiBuff reserved, for
\* every ring and every interleaving with the DMA and the interrupt.
THEOREM RoomIsOwn == Spec => []FillsItsOwnRoom
<1>1. IInv => FillsItsOwnRoom
  BY DEF IInv
<1> QED BY <1>1, Invariance, PTL

\* No descriptor is reused while the DMA has yet to read it.
THEOREM OwnedStaysLocked == Spec => []OwnedIsLocked
<1>1. IInv => OwnedIsLocked
  BY DEF IInv
<1> QED BY <1>1, Invariance, PTL

------------------------------------------------------------------------------
\* What the DMA reads, in which order.

\* The address behind a in the order of transmission, if a was the last of its
\* frame or not.
After(a, last) == IF last THEN <<a[1] + 1, 1>> ELSE <<a[1], a[2] + 1>>

\* The last frame handed over.
Sent == IF pc = "idle" THEN frame ELSE frame - 1

WireTypes ==
  /\ des0 \in [Desc -> Nat \X Nat] /\ info0 \in [Desc -> Nat \X Nat]
  /\ onwire \in [addr : Nat \X Nat, last : BOOLEAN]
  /\ frame \in Nat /\ (pc # "idle" => frame > 0)

\* The c descriptors from dma to the tail pointer are the DMA's, in the order of
\* transmission; besides them it owns only what is being filled, but for its first.
Pending(c) ==
  /\ tail = Plus(dma, c)
  /\ \A i \in 0..(c - 1) : own[Plus(dma, i)]
  /\ \A d \in Desc : own[d] => \/ d \in Span(dma, c)
                               \/ pc = "fill" /\ d \in Span(tail, k) /\ d # tail
  /\ c > 0 => des0[dma] = After(onwire.addr, onwire.last)
  /\ \A i \in 0..(c - 2) : des0[Plus(dma, i + 1)] = After(des0[Plus(dma, i)], ld[Plus(dma, i)])

\* They end with the last buffer of the last frame handed over.
PendingEnds(c) ==
  IF c = 0 THEN onwire.last /\ onwire.addr[1] = Sent
  ELSE ld[Plus(dma, c - 1)] /\ des0[Plus(dma, c - 1)][1] = Sent

\* The descriptors filled follow each other, behind the ones pending.
Filled(c) ==
  pc = "fill" =>
    /\ c + bufs <= RingSize /\ k <= bufs
    /\ \A i \in 0..(k - 1) :
         /\ des0[Plus(tail, i)] = <<frame, i + 1>> /\ ~ld[Plus(tail, i)]
         /\ i > 0 => own[Plus(tail, i)]

WireInv == WireTypes /\ \E c \in 0..RingSize : Pending(c) /\ PendingEnds(c) /\ Filled(c)

\* Positions on the ring.
LEMMA PlusLemma ==
  ASSUME NEW d \in Desc
  PROVE  /\ \A i \in 0..RingSize : Plus(d, i) \in Desc
         /\ \A i, j \in 0..RingSize :
              i + j <= RingSize => Plus(Plus(d, i), j) = Plus(d, i + j)
         /\ \A i, j \in 0..(RingSize - 1) : Plus(d, i) = Plus(d, j) => i = j
         /\ Plus(d, 0) = d
BY TxAssumption DEF Desc, Plus

LEMMA SpanLemma ==
  ASSUME NEW d \in Desc, NEW n \in 0..RingSize
  PROVE  /\ \A i \in 0..(n - 1) : Plus(d, i) \in Span(d, n)
         /\ \A e \in Span(d, n) : \E i \in 0..(n - 1) : e = Plus(d, i)
<1>1. \A i \in 0..(n - 1) : Plus(d, i) \in Span(d, n)
  BY TxAssumption DEF Desc, Plus, Span, Dist
<1>2. ASSUME NEW e \in Span(d, n) PROVE \E i \in 0..(n - 1) : e = Plus(d, i)
  <2>1. Dist(d, e) \in 0..(n - 1) /\ e = Plus(d, Dist(d, e))
    BY TxAssumption DEF Desc, Plus, Span, Dist
  <2> QED BY <2>1
<1> QED BY <1>1, <1>2

LEMMA WireInit == Init => WireInv
<1> SUFFICES ASSUME Init PROVE WireInv
  OBVIOUS
<1>1. WireTypes
  BY TxAssumption DEF Init, WireTypes, Desc, NoAddr
<1>2. Pending(0) /\ PendingEnds(0) /\ Filled(0)
  <2>1. onwire.last /\ onwire.addr[1] = 0
    BY DEF Init, NoAddr
  <2>2. \A d \in Desc : ~own[d]
    BY Zenon DEF Init
  <2>3. tail = Plus(dma, 0) /\ pc = "idle" /\ frame = 0
    BY TxAssumption DEF Init, Plus
  <2> QED BY <2>1, <2>2, <2>3 DEF Pending, PendingEnds, Filled, Sent
<1> QED BY <1>1, <1>2, TxAssumption DEF WireInv

\* A step that leaves the descriptors pending alone.
LEMMA WireKept ==
  ASSUME IInv, WireInv, pc # "fill", pc' # "fill",
         UNCHANGED <<own, ld, tail, dma, onwire>>, Sent' = Sent, WireTypes',
         \A d \in Desc : own[d] => des0'[d] = des0[d]
  PROVE  WireInv'
<1>1. PICK c \in 0..RingSize : Pending(c) /\ PendingEnds(c) /\ Filled(c)
  BY DEF WireInv
<1>2. dma \in Desc /\ RingSize \in Nat
  BY TxAssumption DEF IInv, Types
<1>3. \A i \in 0..(c - 1) : des0'[Plus(dma, i)] = des0[Plus(dma, i)]
  BY <1>1, <1>2, PlusLemma DEF Pending
<1>4. c > 0 => des0'[dma] = des0[dma]
  BY <1>2, <1>3, PlusLemma
<1>5. Pending(c)'
  <2>1. \A i \in 0..(c - 2) : des0'[Plus(dma, i + 1)] = After(des0'[Plus(dma, i)], ld[Plus(dma, i)])
    BY <1>1, <1>2, <1>3 DEF Pending
  <2> QED BY <2>1, <1>1, <1>4 DEF Pending
<1>6. PendingEnds(c)' /\ Filled(c)'
  BY <1>1, <1>2, <1>3 DEF PendingEnds, Filled
<1> QED BY <1>5, <1>6 DEF WireInv

\* The room found leaves the descriptors pending alone.
LEMMA WireEnqueue ==
  ASSUME IInv, WireInv, Enqueue
  PROVE  WireInv'
<1>1. /\ UNCHANGED <<own, ld, des0, info0, tail, dma, onwire, frame, bufs, k>>
      /\ pc = "probe" /\ pc' = "fill" /\ Room
  BY DEF Enqueue
<1>2. PICK c \in 0..RingSize : Pending(c) /\ PendingEnds(c) /\ Filled(c)
  BY DEF WireInv
<1>3. /\ dma \in Desc /\ tail \in Desc /\ cur = tail /\ k = 0 /\ RingSize \in Nat
      /\ bufs \in 0..RingSize /\ bufs < RingSize
  BY <1>1, TxAssumption DEF IInv, Types, FillsItsOwnRoom, FillInv
<1>4. c + bufs <= RingSize
  <2> SUFFICES ASSUME c + bufs > RingSize PROVE FALSE
    BY <1>2, <1>3
  <2> DEFINE i == RingSize - c
  <2>1. i \in 0..(bufs - 1) /\ c > 0
    BY <1>3
  <2>2. Plus(tail, i) = dma
    <3>1. Plus(dma, RingSize) = dma
      BY <1>3, TxAssumption DEF Plus, Desc
    <3> QED BY <3>1, <1>2, <1>3, <2>1, PlusLemma DEF Pending
  <2>3. dma \in Span(cur, bufs)
    BY <2>1, <2>2, <1>3, SpanLemma
  <2>4. own[dma]
    BY <1>2, <1>3, <2>1, PlusLemma DEF Pending
  <2> QED BY <2>3, <2>4, <1>1 DEF Room, FreeRun, Free
<1>5. WireTypes' /\ Sent' = Sent
  BY <1>1 DEF WireInv, WireTypes, Sent
<1>6. Pending(c)' /\ PendingEnds(c)'
  BY <1>1, <1>2, <1>5 DEF Pending, PendingEnds
<1>7. Filled(c)'
  BY <1>1, <1>3, <1>4 DEF Filled
<1> QED BY <1>5, <1>6, <1>7 DEF WireInv

\* A descriptor filled is behind them.
LEMMA WireFill ==
  ASSUME IInv, WireInv, Fill
  PROVE  WireInv'
<1>0. PICK d : d = Plus(tail, k)
  OBVIOUS
<1>1. /\ UNCHANGED <<tail, dma, onwire, frame, bufs, pc>>
      /\ pc = "fill" /\ k < bufs /\ k' = k + 1
      /\ info0' = [info0 EXCEPT ![d] = <<frame, k + 1>>]
      /\ des0' = [des0 EXCEPT ![d] = <<frame, k + 1>>]
      /\ own' = [own EXCEPT ![d] = k > 0] /\ ld' = [ld EXCEPT ![d] = FALSE]
  BY <1>0 DEF Fill
<1>2. PICK c \in 0..RingSize : Pending(c) /\ PendingEnds(c) /\ Filled(c)
  BY DEF WireInv
<1>3. /\ dma \in Desc /\ tail \in Desc /\ RingSize \in Nat /\ k \in Nat
      /\ bufs \in 0..RingSize /\ bufs < RingSize /\ frame \in Nat
      /\ c + bufs <= RingSize
  BY <1>1, <1>2, TxAssumption DEF IInv, Types, WireInv, WireTypes, Filled
<1>4. d \in Desc
  BY <1>0, <1>1, <1>3, PlusLemma
<1>5. /\ own' \in [Desc -> BOOLEAN] /\ ld' \in [Desc -> BOOLEAN]
      /\ ~ld'[d] /\ (k > 0 <=> own'[d])
      /\ \A e \in Desc : e # d => own'[e] = own[e] /\ ld'[e] = ld[e]
  <2>1. own \in [Desc -> BOOLEAN] /\ ld \in [Desc -> BOOLEAN] /\ (k > 0) \in BOOLEAN
    BY <1>3 DEF IInv, Types
  <2> QED BY <2>1, <1>1, <1>4, FlagLemma, ZenonT(60)
<1>6. /\ info0' \in [Desc -> Nat \X Nat]
      /\ des0' \in [Desc -> Nat \X Nat] /\ des0'[d] = <<frame, k + 1>>
      /\ \A e \in Desc : e # d => des0'[e] = des0[e]
  BY <1>1, <1>3, <1>4 DEF WireInv, WireTypes
<1>7. WireTypes' /\ Sent' = Sent
  BY <1>1, <1>6 DEF WireInv, WireTypes, Sent
<1>8. \A i \in 0..(c - 1) : Plus(dma, i) \in Desc /\ Plus(dma, i) # d
  <2> SUFFICES ASSUME NEW i \in 0..(c - 1) PROVE Plus(dma, i) \in Desc /\ Plus(dma, i) # d
    OBVIOUS
  <2>1. d = Plus(dma, c + k) /\ c + k \in 0..(RingSize - 1) /\ i \in 0..(RingSize - 1)
    BY <1>0, <1>1, <1>2, <1>3, PlusLemma DEF Pending
  <2> QED BY <2>1, <1>3, PlusLemma
<1>9. \A i \in 0..(k - 1) : Plus(tail, i) \in Desc /\ Plus(tail, i) # d
  BY <1>0, <1>1, <1>3, PlusLemma
<1>10. Pending(c)'
  <2>1. \A i \in 0..(c - 1) : own'[Plus(dma, i)]
    BY <1>2, <1>5, <1>8 DEF Pending
  <2>2. \A e \in Desc : own'[e] => \/ e \in Span(dma, c)
                                   \/ e \in Span(tail, k + 1) /\ e # tail
    <3> SUFFICES ASSUME NEW e \in Desc, own'[e], e \notin Span(dma, c)
                 PROVE  e \in Span(tail, k + 1) /\ e # tail
      OBVIOUS
    <3>1. CASE e = d
      <4>1. k > 0
        BY <3>1, <1>5
      <4>2. d \in Span(tail, k + 1)
        BY <1>0, <1>1, <1>3, SpanLemma
      <4>3. d # tail
        BY <4>1, <1>0, <1>1, <1>3, PlusLemma
      <4> QED BY <3>1, <4>2, <4>3
    <3>2. CASE e # d
      <4>1. e \in Span(tail, k) /\ e # tail
        BY <3>2, <1>2, <1>5 DEF Pending
      <4> QED BY <4>1, <1>3, TxAssumption DEF Span, Dist, Desc
    <3> QED BY <3>1, <3>2
  <2>3. c > 0 => dma # d
    BY <1>3, <1>8, PlusLemma
  <2>4. c > 0 => des0'[dma] = des0[dma]
    BY <2>3, <1>3, <1>6
  <2>5. \A i \in 0..(c - 1) : des0'[Plus(dma, i)] = des0[Plus(dma, i)] /\ ld'[Plus(dma, i)] = ld[Plus(dma, i)]
    BY <1>5, <1>6, <1>8
  <2>6. \A i \in 0..(c - 2) : des0'[Plus(dma, i + 1)] = After(des0'[Plus(dma, i)], ld'[Plus(dma, i)])
    <3> SUFFICES ASSUME NEW i \in 0..(c - 2)
                 PROVE  des0'[Plus(dma, i + 1)] = After(des0'[Plus(dma, i)], ld'[Plus(dma, i)])
      OBVIOUS
    <3>1. i \in 0..(c - 1) /\ i + 1 \in 0..(c - 1)
      BY <1>2, <1>3
    <3>2. des0[Plus(dma, i + 1)] = After(des0[Plus(dma, i)], ld[Plus(dma, i)])
      BY <1>2 DEF Pending
    <3> QED BY <3>1, <3>2, <2>5
  <2> QED BY <2>1, <2>2, <2>4, <2>6, <1>1, <1>2 DEF Pending
<1>11. PendingEnds(c)'
  <2>1. CASE c = 0
    BY <2>1, <1>1, <1>2, <1>7 DEF PendingEnds
  <2>2. CASE c > 0
    <3>1. c - 1 \in 0..(c - 1)
      BY <2>2, <1>3
    <3> QED BY <3>1, <2>2, <1>1, <1>2, <1>5, <1>6, <1>7, <1>8 DEF PendingEnds
  <2> QED BY <2>1, <2>2, <1>3
<1>12. Filled(c)'
  <2>1. \A i \in 0..k : /\ des0'[Plus(tail, i)] = <<frame, i + 1>> /\ ~ld'[Plus(tail, i)]
                        /\ i > 0 => own'[Plus(tail, i)]
    <3> SUFFICES ASSUME NEW i \in 0..k
                 PROVE  /\ des0'[Plus(tail, i)] = <<frame, i + 1>> /\ ~ld'[Plus(tail, i)]
                        /\ i > 0 => own'[Plus(tail, i)]
      OBVIOUS
    <3>1. CASE i = k
      BY <3>1, <1>0, <1>5, <1>6
    <3>2. CASE i \in 0..(k - 1)
      BY <3>2, <1>1, <1>2, <1>5, <1>6, <1>9 DEF Filled
    <3> QED BY <3>1, <3>2, <1>3
  <2> QED BY <2>1, <1>1, <1>3 DEF Filled
<1> QED BY <1>7, <1>10, <1>11, <1>12 DEF WireInv

\* The frame filled joins the descriptors pending.
LEMMA WireStart ==
  ASSUME IInv, WireInv, Start
  PROVE  WireInv'
<1>0. PICK e : e = Plus(tail, bufs - 1)
  OBVIOUS
<1>1. /\ UNCHANGED <<des0, info0, dma, onwire, frame, bufs>>
      /\ pc = "fill" /\ k = bufs /\ pc' = "idle" /\ tail' = Plus(tail, bufs)
      /\ own' = [own EXCEPT ![tail] = TRUE] /\ ld' = [ld EXCEPT ![e] = TRUE]
  BY <1>0 DEF Start
<1>2. PICK c \in 0..RingSize : Pending(c) /\ PendingEnds(c) /\ Filled(c)
  BY DEF WireInv
<1>3. /\ dma \in Desc /\ tail \in Desc /\ RingSize \in Nat /\ frame \in Nat /\ frame > 0
      /\ bufs \in 1..RingSize /\ bufs < RingSize /\ c + bufs <= RingSize
      /\ tail = Plus(dma, c)
  BY <1>1, <1>2, TxAssumption DEF IInv, Types, FillInv, WireInv, WireTypes, Filled, Pending
<1>4. e \in Desc
  BY <1>0, <1>3, PlusLemma
<1>5. /\ own'[tail] /\ ld'[e]
      /\ \A d \in Desc : d # tail => own'[d] = own[d]
      /\ \A d \in Desc : d # e => ld'[d] = ld[d]
  <2>1. own \in [Desc -> BOOLEAN] /\ ld \in [Desc -> BOOLEAN]
    BY DEF IInv, Types
  <2>2. own'[tail] = TRUE /\ \A d \in Desc : d # tail => own'[d] = own[d]
    BY <2>1, <1>1, <1>3, FlagLemma, ZenonT(60)
  <2>3. ld'[e] = TRUE /\ \A d \in Desc : d # e => ld'[d] = ld[d]
    BY <2>1, <1>1, <1>4, FlagLemma, ZenonT(60)
  <2> QED BY <2>2, <2>3, Zenon
<1>6. WireTypes' /\ Sent' = frame /\ Sent = frame - 1
  BY <1>1, <1>3 DEF WireInv, WireTypes, Sent
<1>7. \A j \in 0..(bufs - 1) :
        /\ Plus(tail, j) = Plus(dma, c + j) /\ Plus(tail, j) \in Desc
        /\ des0[Plus(tail, j)] = <<frame, j + 1>>
        /\ own'[Plus(tail, j)]
        /\ j < bufs - 1 => ~ld'[Plus(tail, j)]
  <2> SUFFICES ASSUME NEW j \in 0..(bufs - 1)
               PROVE  /\ Plus(tail, j) = Plus(dma, c + j) /\ Plus(tail, j) \in Desc
                      /\ des0[Plus(tail, j)] = <<frame, j + 1>>
                      /\ own'[Plus(tail, j)]
                      /\ j < bufs - 1 => ~ld'[Plus(tail, j)]
    OBVIOUS
  <2>1. Plus(tail, j) = Plus(dma, c + j) /\ Plus(tail, j) \in Desc
    BY <1>3, PlusLemma
  <2>2. /\ des0[Plus(tail, j)] = <<frame, j + 1>> /\ ~ld[Plus(tail, j)]
        /\ j > 0 => own[Plus(tail, j)]
    BY <1>1, <1>2 DEF Filled
  <2>3. own'[Plus(tail, j)]
    <3>1. CASE j = 0
      BY <3>1, <1>3, <1>5, PlusLemma
    <3>2. CASE j > 0
      BY <3>2, <2>1, <2>2, <1>5
    <3> QED BY <3>1, <3>2, <1>3
  <2>4. j < bufs - 1 => Plus(tail, j) # e
    BY <1>0, <1>3, PlusLemma
  <2> QED BY <2>1, <2>2, <2>3, <2>4, <1>5
<1>8. \A i \in 0..(c - 1) :
        Plus(dma, i) \in Desc /\ own'[Plus(dma, i)] /\ ld'[Plus(dma, i)] = ld[Plus(dma, i)]
  <2> SUFFICES ASSUME NEW i \in 0..(c - 1)
               PROVE  /\ Plus(dma, i) \in Desc /\ own'[Plus(dma, i)]
                      /\ ld'[Plus(dma, i)] = ld[Plus(dma, i)]
    OBVIOUS
  <2>1. e = Plus(dma, c + bufs - 1)
    BY <1>0, <1>3, PlusLemma
  <2>2. Plus(dma, i) \in Desc /\ Plus(dma, i) # tail /\ Plus(dma, i) # e
    BY <2>1, <1>3, PlusLemma
  <2> QED BY <2>2, <1>2, <1>5 DEF Pending
<1>9. PICK n \in 0..RingSize : n = c + bufs
  BY <1>2, <1>3
<1>10. \A i \in 0..(n - 1) : i \in 0..(c - 1) \/ \E j \in 0..(bufs - 1) : i = c + j
  <2> SUFFICES ASSUME NEW i \in 0..(n - 1), i \notin 0..(c - 1)
               PROVE  \E j \in 0..(bufs - 1) : i = c + j
    OBVIOUS
  <2>1. i - c \in 0..(bufs - 1) /\ i = c + (i - c)
    BY <1>3, <1>9
  <2> QED BY <2>1
<1>11. \A i \in 0..(n - 1) : own'[Plus(dma, i)]
  BY <1>7, <1>8, <1>10
<1>12. \A d \in Desc : own'[d] => d \in Span(dma, n)
  <2> SUFFICES ASSUME NEW d \in Desc, own'[d] PROVE d \in Span(dma, n)
    OBVIOUS
  <2>1. CASE d = tail
    <3>1. c \in 0..(n - 1)
      BY <1>3, <1>9
    <3> QED BY <2>1, <3>1, <1>3, SpanLemma
  <2>2. CASE d # tail /\ d \in Span(dma, c)
    BY <2>2, <1>3, <1>9 DEF Span, Dist, Desc
  <2>3. CASE d # tail /\ d \notin Span(dma, c)
    <3>1. d \in Span(tail, bufs)
      BY <2>3, <1>1, <1>2, <1>5 DEF Pending
    <3>2. PICK j \in 0..(bufs - 1) : d = Plus(tail, j)
      BY <3>1, <1>3, SpanLemma
    <3>3. d = Plus(dma, c + j) /\ c + j \in 0..(n - 1)
      BY <3>2, <1>3, <1>7, <1>9
    <3> QED BY <3>3, <1>3, SpanLemma
  <2> QED BY <2>1, <2>2, <2>3
<1>13. des0[dma] = After(onwire.addr, onwire.last)
  <2>1. CASE c > 0
    BY <2>1, <1>2 DEF Pending
  <2>2. CASE c = 0
    <3>1. onwire.last /\ onwire.addr[1] = frame - 1 /\ dma = tail
      BY <2>2, <1>2, <1>3, <1>6, PlusLemma DEF PendingEnds
    <3>2. des0[tail] = <<frame, 1>>
      BY <1>3, <1>7, PlusLemma
    <3> QED BY <3>1, <3>2, <1>3 DEF After
  <2> QED BY <2>1, <2>2, <1>3
<1>14. \A i \in 0..(n - 2) : des0[Plus(dma, i + 1)] = After(des0[Plus(dma, i)], ld'[Plus(dma, i)])
  <2> SUFFICES ASSUME NEW i \in 0..(n - 2)
               PROVE  des0[Plus(dma, i + 1)] = After(des0[Plus(dma, i)], ld'[Plus(dma, i)])
    OBVIOUS
  <2>1. CASE i < c - 1
    <3>1. i \in 0..(c - 2) /\ i \in 0..(c - 1)
      BY <2>1, <1>3
    <3> QED BY <3>1, <1>2, <1>8 DEF Pending
  <2>2. CASE i = c - 1
    <3>1. c > 0 /\ i \in 0..(c - 1)
      BY <2>2, <1>3
    <3>2. ld'[Plus(dma, i)] /\ des0[Plus(dma, i)][1] = frame - 1
      BY <2>2, <3>1, <1>2, <1>6, <1>8 DEF PendingEnds
    <3>3. des0[Plus(dma, i + 1)] = <<frame, 1>>
      <4>1. i + 1 = c /\ 0 \in 0..(bufs - 1) /\ Plus(tail, 0) = tail
        BY <2>2, <3>1, <1>3, PlusLemma
      <4>2. des0[tail] = <<frame, 1>>
        BY <4>1, <1>7
      <4> QED BY <4>1, <4>2, <1>3
    <3> QED BY <3>2, <3>3, <1>3 DEF After
  <2>3. CASE i >= c
    <3>1. PICK j \in 0..(bufs - 2) : i = c + j
      <4>1. i - c \in 0..(bufs - 2) /\ i = c + (i - c)
        BY <2>3, <1>3, <1>9
      <4> QED BY <4>1
    <3>2. /\ Plus(dma, i) = Plus(tail, j) /\ des0[Plus(tail, j)] = <<frame, j + 1>>
          /\ ~ld'[Plus(tail, j)]
      BY <3>1, <1>3, <1>7
    <3>3. des0[Plus(dma, i + 1)] = <<frame, j + 2>>
      <4>1. j + 1 \in 0..(bufs - 1) /\ c + (j + 1) = i + 1
        BY <3>1, <1>3
      <4> QED BY <4>1, <1>3, <1>7
    <3> QED BY <3>1, <3>2, <3>3, <1>3 DEF After
  <2> QED BY <2>1, <2>2, <2>3, <1>3
<1>15. Pending(n)'
  <2>1. tail' = Plus(dma, n)
    BY <1>1, <1>3, <1>9, PlusLemma
  <2> QED BY <2>1, <1>1, <1>11, <1>12, <1>13, <1>14 DEF Pending
<1>16. PendingEnds(n)'
  <2>1. n > 0 /\ bufs - 1 \in 0..(bufs - 1) /\ n - 1 = c + (bufs - 1)
    BY <1>3, <1>9
  <2>2. Plus(dma, n - 1) = e /\ des0[e] = <<frame, bufs>>
    BY <2>1, <1>0, <1>3, <1>7
  <2> QED BY <2>1, <2>2, <1>1, <1>5, <1>6 DEF PendingEnds
<1>17. Filled(n)'
  BY <1>1 DEF Filled
<1> QED BY <1>6, <1>15, <1>16, <1>17 DEF WireInv

\* In a state that satisfies the invariant the DMA owns its current descriptor only
\* if one is pending.
LEMMA DmaPending ==
  ASSUME IInv, own[dma], NEW c \in 0..RingSize, Pending(c), Filled(c)
  PROVE  c > 0
<1> SUFFICES ASSUME c = 0 PROVE FALSE
  BY TxAssumption
<1>1. dma \in Desc /\ dma = tail
  BY PlusLemma DEF IInv, Types, Pending
<1>2. dma \notin Span(dma, c)
  BY <1>1, TxAssumption DEF Span, Dist, Desc
<1> QED BY <1>1, <1>2 DEF Pending

\* The DMA takes the first descriptor pending.
LEMMA WireDma ==
  ASSUME IInv, WireInv, DmaReads
  PROVE  WireInv'
<1>1. /\ UNCHANGED <<ld, des0, info0, tail, pc, frame, bufs, k>>
      /\ own[dma] /\ own' = [own EXCEPT ![dma] = FALSE] /\ dma' = Plus(dma, 1)
      /\ onwire' = [addr |-> des0[dma], last |-> ld[dma]]
  BY DEF DmaReads, thread
<1>2. PICK c \in 0..RingSize : Pending(c) /\ PendingEnds(c) /\ Filled(c)
  BY DEF WireInv
<1>3. /\ dma \in Desc /\ tail \in Desc /\ RingSize \in Nat /\ c > 0 /\ k \in Nat
      /\ dma' \in Desc
  BY <1>1, <1>2, DmaPending, DmaLemma, TxAssumption DEF IInv, Types
<1>4. \A e \in Desc : e # dma => own'[e] = own[e]
  <2>1. own \in [Desc -> BOOLEAN]
    BY DEF IInv, Types
  <2> QED BY <2>1, <1>1, <1>3, FlagLemma, Zenon
<1>5. ~own'[dma]
  <2>1. own \in [Desc -> BOOLEAN]
    BY DEF IInv, Types
  <2>2. own'[dma] = FALSE
    BY <2>1, <1>1, <1>3, FlagLemma, Zenon
  <2> QED BY <2>2
<1>6. WireTypes' /\ Sent' = Sent
  <2>1. des0[dma] \in Nat \X Nat /\ ld[dma] \in BOOLEAN
    BY <1>3 DEF IInv, Types, WireInv, WireTypes
  <2>2. onwire' \in [addr : Nat \X Nat, last : BOOLEAN]
    BY <2>1, <1>1
  <2> QED BY <2>2, <1>1 DEF WireInv, WireTypes, Sent
<1>7. PICK n \in 0..RingSize : n = c - 1
  BY <1>3
<1>8. \A i \in 0..n : Plus(dma', i) = Plus(dma, i + 1)
  <2> SUFFICES ASSUME NEW i \in 0..n PROVE Plus(dma', i) = Plus(dma, i + 1)
    OBVIOUS
  <2>1. 1 \in 0..RingSize /\ i \in 0..RingSize /\ 1 + i <= RingSize /\ 1 + i = i + 1
    BY <1>3, <1>7
  <2> QED BY <2>1, <1>1, <1>3, PlusLemma
<1>9. \A i \in 0..(n - 1) : own'[Plus(dma', i)]
  <2> SUFFICES ASSUME NEW i \in 0..(n - 1) PROVE own'[Plus(dma', i)]
    OBVIOUS
  <2>1. i + 1 \in 0..(c - 1) /\ i + 1 \in 0..(RingSize - 1) /\ 0 \in 0..(RingSize - 1) /\ i + 1 # 0
    BY <1>3, <1>7
  <2>2. Plus(dma, i + 1) \in Desc /\ Plus(dma, i + 1) # dma
    BY <2>1, <1>3, PlusLemma
  <2>3. own[Plus(dma, i + 1)]
    BY <2>1, <1>2 DEF Pending
  <2> QED BY <2>2, <2>3, <1>4, <1>8
<1>10. \A e \in Desc : own'[e] => \/ e \in Span(dma', n)
                                  \/ pc = "fill" /\ e \in Span(tail, k) /\ e # tail
  <2> SUFFICES ASSUME NEW e \in Desc, own'[e], ~(pc = "fill" /\ e \in Span(tail, k) /\ e # tail)
               PROVE  e \in Span(dma', n)
    OBVIOUS
  <2>1. e # dma /\ own[e]
    BY <1>4, <1>5
  <2>2. e \in Span(dma, c)
    BY <2>1, <1>2 DEF Pending
  <2>3. PICK i \in 0..(c - 1) : e = Plus(dma, i)
    BY <2>2, <1>3, SpanLemma
  <2>4. i # 0
    BY <2>1, <2>3, <1>3, PlusLemma
  <2>5. i - 1 \in 0..(n - 1) /\ i - 1 \in 0..n /\ (i - 1) + 1 = i
    BY <2>4, <1>3, <1>7
  <2>6. e = Plus(dma', i - 1)
    BY <2>3, <2>5, <1>8
  <2> QED BY <2>5, <2>6, <1>3, SpanLemma
<1>11. tail = Plus(dma', n)
  BY <1>2, <1>3, <1>7, <1>8 DEF Pending
<1>12. n > 0 => des0[dma'] = After(onwire'.addr, onwire'.last)
  <2> SUFFICES ASSUME n > 0 PROVE des0[dma'] = After(des0[dma], ld[dma])
    BY <1>1
  <2>1. 0 \in 0..(c - 2) /\ Plus(dma, 0) = dma /\ Plus(dma, 0 + 1) = dma'
    BY <1>1, <1>3, <1>7, PlusLemma
  <2>2. des0[Plus(dma, 0 + 1)] = After(des0[Plus(dma, 0)], ld[Plus(dma, 0)])
    BY <2>1, <1>2 DEF Pending
  <2> QED BY <2>1, <2>2
<1>13. \A i \in 0..(n - 2) : des0[Plus(dma', i + 1)] = After(des0[Plus(dma', i)], ld[Plus(dma', i)])
  <2> SUFFICES ASSUME NEW i \in 0..(n - 2)
               PROVE  des0[Plus(dma', i + 1)] = After(des0[Plus(dma', i)], ld[Plus(dma', i)])
    OBVIOUS
  <2>1. i + 1 \in 0..(c - 2) /\ i \in 0..n /\ i + 1 \in 0..n
    BY <1>3, <1>7
  <2>2. des0[Plus(dma, (i + 1) + 1)] = After(des0[Plus(dma, i + 1)], ld[Plus(dma, i + 1)])
    BY <2>1, <1>2 DEF Pending
  <2> QED BY <2>1, <2>2, <1>8
<1>14. Pending(n)'
  BY <1>1, <1>9, <1>10, <1>11, <1>12, <1>13 DEF Pending
<1>15. PendingEnds(n)'
  <2>1. ld[Plus(dma, c - 1)] /\ des0[Plus(dma, c - 1)][1] = Sent
    BY <1>2, <1>3 DEF PendingEnds
  <2>2. CASE n = 0
    <3>1. Plus(dma, c - 1) = dma
      BY <2>2, <1>3, <1>7, PlusLemma
    <3>2. onwire'.addr = des0[dma] /\ onwire'.last = ld[dma]
      BY <1>1
    <3> QED BY <2>1, <2>2, <3>1, <3>2, <1>6 DEF PendingEnds
  <2>3. CASE n > 0
    <3>1. n - 1 \in 0..n /\ (n - 1) + 1 = c - 1
      BY <2>3, <1>3, <1>7
    <3>2. Plus(dma', n - 1) = Plus(dma, c - 1)
      BY <3>1, <1>8
    <3> QED BY <2>1, <2>3, <3>2, <1>1, <1>6 DEF PendingEnds
  <2> QED BY <2>2, <2>3, <1>7
<1>16. Filled(n)'
  <2> SUFFICES ASSUME pc = "fill" PROVE Filled(n)'
    BY <1>1 DEF Filled
  <2>0. bufs \in 0..RingSize /\ bufs < RingSize
    BY TxAssumption DEF IInv, Types
  <2>1. c + bufs <= RingSize /\ k <= bufs
    BY <1>2 DEF Filled
  <2>2. \A i \in 0..(k - 1) : Plus(tail, i) \in Desc /\ Plus(tail, i) # dma
    <3> SUFFICES ASSUME NEW i \in 0..(k - 1) PROVE Plus(tail, i) \in Desc /\ Plus(tail, i) # dma
      OBVIOUS
    <3>1. c + i \in 0..(RingSize - 1) /\ c + i # 0 /\ i \in 0..RingSize /\ 0 \in 0..(RingSize - 1)
      BY <2>0, <2>1, <1>3
    <3>2. Plus(tail, i) = Plus(dma, c + i)
      BY <3>1, <1>2, <1>3, PlusLemma DEF Pending
    <3> QED BY <3>1, <3>2, <1>3, PlusLemma
  <2> QED BY <2>0, <2>1, <2>2, <1>1, <1>2, <1>3, <1>4, <1>7 DEF Filled
<1> QED BY <1>6, <1>14, <1>15, <1>16 DEF WireInv

\* The interrupt restores only what the DMA has read.
LEMMA WireClear ==
  ASSUME IInv, WireInv, isr = "report",
         NEW S, S \subseteq {e \in Desc : ~own[e]}, ClearDescs(S),
         UNCHANGED <<tail, dma, onwire, pc, frame>>
  PROVE  WireInv'
<1>1. /\ own' = own /\ ld' = ld /\ pc # "fill" /\ pc' = pc
      /\ des0' = [e \in Desc |-> IF e \in S THEN info0[e] ELSE des0[e]]
      /\ info0' = [e \in Desc |-> IF e \in S THEN NoAddr ELSE info0[e]]
  BY DEF ClearDescs, IInv, FillInv
<1>2. WireTypes' /\ Sent' = Sent
  BY <1>1 DEF WireInv, WireTypes, Sent, NoAddr
<1>3. \A d \in Desc : own[d] => des0'[d] = des0[d]
  BY <1>1
<1> QED BY <1>1, <1>2, <1>3, WireKept

LEMMA WireStep ==
  ASSUME IInv, WireInv, [Next]_vars
  PROVE  WireInv'
<1>1. CASE UNCHANGED vars
  <2>1. UNCHANGED <<own, ld, des0, info0, tail, dma, onwire, pc, frame, bufs, k>>
    BY <1>1 DEF vars, desc, thread
  <2>2. WireTypes' /\ \A c \in 0..RingSize :
          Pending(c)' = Pending(c) /\ PendingEnds(c)' = PendingEnds(c) /\ Filled(c)' = Filled(c)
    BY <2>1 DEF WireInv, WireTypes, Pending, PendingEnds, Filled, Sent
  <2> QED BY <2>2 DEF WireInv
<1>2. ASSUME NEW n \in 1..MaxChain, Output(n) PROVE WireInv'
  <2>1. /\ UNCHANGED <<own, ld, des0, info0, tail, dma, onwire>>
        /\ pc = "idle" /\ pc' = "probe" /\ frame' = frame + 1
    BY <1>2 DEF Output, desc
  <2>2. WireTypes' /\ Sent' = Sent
    BY <2>1 DEF WireInv, WireTypes, Sent
  <2> QED BY <2>1, <2>2, WireKept
<1>3. CASE NextSlot
  <2>1. /\ UNCHANGED <<own, ld, des0, info0, tail, dma, onwire, pc, frame>>
        /\ pc = "probe"
    BY <1>3 DEF NextSlot
  <2>2. WireTypes' /\ Sent' = Sent
    BY <2>1 DEF WireInv, WireTypes, Sent
  <2> QED BY <2>1, <2>2, WireKept
<1>4. CASE TxIrq \/ ReportEnds
  <2>1. /\ UNCHANGED <<own, ld, des0, info0, tail, dma, onwire, pc, frame>>
        /\ pc # "fill"
    BY <1>4 DEF TxIrq, ReportEnds, desc, thread, IInv, FillInv
  <2>2. WireTypes' /\ Sent' = Sent
    BY <2>1 DEF WireInv, WireTypes, Sent
  <2> QED BY <2>1, <2>2, WireKept
<1>5. CASE ReportBusy
  <2>1. /\ UNCHANGED <<tail, dma, onwire, pc, frame>>
        /\ isr = "report" /\ ClearDescs(Passed(Lowest(Reported)))
    BY <1>5 DEF ReportBusy, thread
  <2>2. Passed(Lowest(Reported)) \subseteq {e \in Desc : ~own[e]}
    BY DEF Passed, Middle
  <2> QED BY <2>1, <2>2, WireClear
<1>6. CASE ReportDone
  <2> DEFINE S == Passed(Lowest(Reported)) \union Last(Lowest(Reported))
  <2>1. /\ UNCHANGED <<tail, dma, onwire, pc, frame>>
        /\ isr = "report" /\ ClearDescs(S)
    BY <1>6 DEF ReportDone, thread
  <2>2. S \subseteq {e \in Desc : ~own[e]}
    BY DEF Passed, Last, Middle
  <2> QED BY <2>1, <2>2, WireClear
<1> QED BY <1>1, <1>2, <1>3, <1>4, <1>5, <1>6, WireEnqueue, WireFill, WireStart, WireDma
        DEF Next, Thread, Isr

LEMMA WireInvariance == Spec => [](IInv /\ WireInv)
BY InitLemma, StepLemma, WireInit, WireStep, PTL DEF Spec

\* Frames leave whole and in the order of the calls to ethif_low_level_output, for
\* every ring and chain length, however the DMA runs against the driver.
THEOREM FramesWhole == Spec => []FramesLeaveWhole
<1>1. IInv /\ WireInv => FramesLeaveWhole
  <2> SUFFICES ASSUME IInv, WireInv PROVE FramesLeaveWhole
    OBVIOUS
  <2>1. PICK c \in 0..RingSize : Pending(c) /\ PendingEnds(c) /\ Filled(c)
    BY DEF WireInv
  <2>2. own[dma] => c > 0
    BY <2>1, DmaPending
  <2>3. own[dma] => des0[dma] = After(onwire.addr, onwire.last)
    BY <2>1, <2>2 DEF Pending
  <2>4. ~onwire.last => own[dma]
    <3>1. ~onwire.last => c > 0
      BY <2>1, TxAssumption DEF PendingEnds
    <3>2. c > 0 => own[Plus(dma, 0)] /\ Plus(dma, 0) = dma
      BY <2>1, TxAssumption, PlusLemma DEF Pending, IInv, Types
    <3> QED BY <3>1, <3>2
  <2> QED BY <2>3, <2>4 DEF FramesLeaveWhole, After
<1> QED BY <1>1, WireInvariance, PTL
==============================================================================
