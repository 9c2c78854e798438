--------------------------- MODULE NetPathProofs ---------------------------
(***************************************************************************)
(* Proofs about NetPath for every size of the pools, the mailboxes, the    *)
(* window and the stream.                                                  *)
(*                                                                         *)
(* That a message finds room needs only that its pool is not overdrawn.    *)
(* That the thread never waits for the reader needs that the packet it     *)
(* handles is counted in inpkts and holds a pbuf, so that recvmbox has at  *)
(* most RxBd - 1; MsgInv therefore counts the packets in tcpip_mbox.  The  *)
(* order of the stream needs that the pbufs queued follow each other from  *)
(* the byte read last to rcv_nxt (Follow), that nothing is queued once the *)
(* FIN has been met, and that only the DMA spoils a pbuf (EndInv).         *)
(***************************************************************************)
EXTENDS NetPath, FiniteSetTheorems, SequenceTheorems, TLAPS

Packets(s) == {i \in 1..Len(s) : s[i] # Callback}

Types ==
  /\ rxcur \in Desc
  /\ pool \in Nat /\ inpkts \in Int /\ apis \in Int
  /\ mbox \in Seq(Message)
  /\ tcpip \in {"fetch", "callback", "packet"}
  /\ packet \in Message /\ (tcpip = "packet" => packet \in Desc)
  /\ rcv_nxt \in 1..(Fin + 1) /\ rcv_wnd \in Nat
  /\ recvmbox \in Seq(Pbuf) /\ closed \in Nat /\ udpbox \in Nat
  /\ recvd \in Nat /\ read \in Seq(0..Fin)

\* Every message in use is queued or being handled.
MsgInv ==
  /\ inpkts = Cardinality(Packets(mbox)) + (IF tcpip = "packet" THEN 1 ELSE 0)
  /\ Len(mbox) + (IF tcpip = "fetch" THEN 0 ELSE 1) = inpkts + apis
  /\ inpkts <= InpktMsgs /\ apis <= ApiMsgs

\* The pbufs q hold the bytes behind byte l up to byte e, each some of them.
Follow(q, l, e) ==
  /\ \A i \in 1..Len(q) : q[i].from = (IF i = 1 THEN l ELSE q[i - 1].to) + 1
  /\ e = IF q = <<>> THEN l ELSE q[Len(q)].to
  /\ \A i \in 1..Len(q) : q[i].from <= q[i].to /\ q[i].to <= e /\ l < q[i].from
  /\ \A i, j \in 1..Len(q) : i < j => q[i].to < q[j].from

\* Where the stream stands, and that the FIN is its end.
EndInv ==
  /\ ReadInOrder
  /\ Follow(recvmbox, Len(read), Arrived)
  /\ \A i \in DOMAIN recvmbox : recvmbox[i].buf = Overwritten => reused
  /\ closed > 0 \/ fin_pending \/ doip = "shut" \/ conn = "closed" => rcv_nxt > Fin
  /\ fin_pending \/ doip = "shut" \/ conn = "closed" => recvmbox = <<>>

IInv == Types /\ MsgInv /\ PoolAccounted /\ WindowAccounted /\ EndInv

------------------------------------------------------------------------------
\* The size of an interval.
LEMMA IntervalSize ==
  ASSUME NEW a \in Int, NEW b \in Int, a <= b + 1
  PROVE  IsFiniteSet(a..b) /\ Cardinality(a..b) = b - a + 1
<1>1. IsFiniteSet(a..b) /\ Cardinality(a..b) = IF a > b THEN 0 ELSE b - a + 1
  BY FS_Interval, Zenon
<1> QED
  BY <1>1

LEMMA IndicesSize ==
  ASSUME NEW l \in Nat
  PROVE  IsFiniteSet(1..l) /\ Cardinality(1..l) = l
BY IntervalSize

\* Counting the packets of a mailbox.
LEMMA PacketsType ==
  ASSUME NEW s \in Seq(Message)
  PROVE  /\ IsFiniteSet(Packets(s)) /\ Cardinality(Packets(s)) \in Nat
         /\ Cardinality(Packets(s)) <= Len(s)
<1>1. IsFiniteSet(1..Len(s)) /\ Cardinality(1..Len(s)) = Len(s)
  BY IndicesSize
<1>2. Packets(s) \in SUBSET (1..Len(s))
  BY DEF Packets
<1> QED
  BY <1>1, <1>2, FS_Subset, FS_CardinalityType

LEMMA PacketsAppend ==
  ASSUME NEW s \in Seq(Message), NEW m \in Message
  PROVE  Cardinality(Packets(Append(s, m))) =
           Cardinality(Packets(s)) + (IF m = Callback THEN 0 ELSE 1)
<1>1. CASE m = Callback
  <2>1. Packets(Append(s, m)) = Packets(s)
    BY <1>1 DEF Packets
  <2> QED
    BY <1>1, <2>1, PacketsType
<1>2. CASE m # Callback
  <2>1. Packets(Append(s, m)) = Packets(s) \cup {Len(s) + 1}
    BY <1>2 DEF Packets
  <2>2. Len(s) + 1 \notin Packets(s)
    BY DEF Packets
  <2> QED
    BY <1>2, <2>1, <2>2, PacketsType, FS_AddElement
<1> QED
  BY <1>1, <1>2

LEMMA PacketsTail ==
  ASSUME NEW s \in Seq(Message), s # <<>>
  PROVE  Cardinality(Packets(s)) =
           Cardinality(Packets(Tail(s))) + (IF Head(s) = Callback THEN 0 ELSE 1)
<1> DEFINE S == Packets(s) \ {1}
           T == Packets(Tail(s))
           f == [i \in S |-> i - 1]
<1>1. Len(s) \in Nat \ {0} /\ Len(Tail(s)) = Len(s) - 1 /\ Head(s) = s[1]
  OBVIOUS
<1>2. \A i \in 1..(Len(s) - 1) : Tail(s)[i] = s[i + 1]
  OBVIOUS
<1>3. f \in [S -> T]
  BY <1>1, <1>2 DEF Packets
<1>4. \A i, j \in S : f[i] = f[j] => i = j
  BY <1>1 DEF Packets
<1>5. ASSUME NEW t \in T PROVE \E i \in S : f[i] = t
  <2>1. t + 1 \in S /\ f[t + 1] = t
    BY <1>1, <1>2 DEF Packets
  <2> QED
    BY <2>1
<1>6. f \in Bijection(S, T)
  BY <1>3, <1>4, <1>5 DEF Bijection, Injection, Surjection, IsInjective
<1>7. IsFiniteSet(S)
  BY PacketsType, FS_RemoveElement
<1>8. Cardinality(T) = Cardinality(S)
  <2>1. ExistsBijection(S, T)
    BY <1>6 DEF ExistsBijection
  <2> QED
    BY <1>7, <2>1, FS_Bijection
<1>9. 1 \in Packets(s) <=> Head(s) # Callback
  BY <1>1 DEF Packets
<1>10. Cardinality(S) =
         IF 1 \in Packets(s) THEN Cardinality(Packets(s)) - 1 ELSE Cardinality(Packets(s))
  BY PacketsType, FS_RemoveElement
<1>11. Cardinality(Packets(s)) \in Nat
  BY PacketsType
<1> QED
  BY <1>8, <1>9, <1>10, <1>11

\* Where the data taken ends.
LEMMA ArrivedLemma ==
  ASSUME rcv_nxt \in 1..(Fin + 1)
  PROVE  /\ Arrived \in 0..(Fin - 1)
         /\ rcv_nxt <= Fin => Arrived = rcv_nxt - 1
         /\ rcv_nxt > Fin => Arrived = Fin - 1
BY NetAssumption DEF Arrived, LastData

\* The numbers of a pbuf.
LEMMA PbufLemma ==
  ASSUME NEW p \in Pbuf
  PROVE  /\ p.from \in Nat /\ p.to \in Nat
         /\ 1 <= p.from /\ p.from <= Fin /\ 1 <= p.to /\ p.to <= Fin
BY NetAssumption DEF Pbuf, Number

\* A pbuf is queued behind the others.
LEMMA FollowAppend ==
  ASSUME NEW q \in Seq(Pbuf), NEW l \in Nat, NEW e \in Nat, Follow(q, l, e), l <= e,
         NEW p \in Pbuf, p.from = e + 1, p.from <= p.to
  PROVE  Follow(q \o <<p>>, l, p.to)
<1> DEFINE r == q \o <<p>>
<1>1. /\ r \in Seq(Pbuf) /\ Len(r) = Len(q) + 1 /\ Len(q) \in Nat
      /\ \A i \in 1..Len(q) : r[i] = q[i]
      /\ r[Len(q) + 1] = p
  OBVIOUS
<1>2. /\ p.from \in Nat /\ p.to \in Nat
      /\ \A i \in 1..Len(q) : q[i].from \in Nat /\ q[i].to \in Nat
  <2>1. \A i \in 1..Len(q) : q[i] \in Pbuf
    OBVIOUS
  <2> QED
    BY <2>1, PbufLemma
<1>3. r # <<>>
  BY <1>1
<1> HIDE DEF r
<1>4. \A i \in 1..Len(r) : r[i].from = (IF i = 1 THEN l ELSE r[i - 1].to) + 1
  <2> TAKE i \in 1..Len(r)
  <2>1. CASE i <= Len(q)
    <3>1. i \in 1..Len(q) /\ (i # 1 => i - 1 \in 1..Len(q))
      BY <1>1, <2>1
    <3> QED
      BY <1>1, <3>1 DEF Follow
  <2>2. CASE i > Len(q) /\ q = <<>>
    BY <1>1, <2>2 DEF Follow
  <2>3. CASE i > Len(q) /\ q # <<>>
    <3>1. i = Len(q) + 1 /\ i - 1 = Len(q) /\ Len(q) \in 1..Len(q)
      BY <1>1, <2>3
    <3>2. e = q[Len(q)].to
      BY <2>3 DEF Follow
    <3> QED
      BY <1>1, <3>1, <3>2
  <2> QED
    BY <1>1, <2>1, <2>2, <2>3
<1>5. \A i \in 1..Len(r) : r[i].from <= r[i].to /\ r[i].to <= p.to /\ l < r[i].from
  <2> TAKE i \in 1..Len(r)
  <2>1. CASE i \in 1..Len(q)
    <3>1. q[i].from <= q[i].to /\ q[i].to <= e /\ l < q[i].from
      BY <2>1 DEF Follow
    <3>2. r[i] = q[i] /\ q[i].to \in Nat
      BY <1>1, <1>2, <2>1
    <3> QED
      BY <1>2, <3>1, <3>2
  <2>2. CASE i = Len(q) + 1
    BY <1>1, <1>2, <2>2
  <2> QED
    BY <1>1, <2>1, <2>2
<1>6. \A i, j \in 1..Len(r) : i < j => r[i].to < r[j].from
  <2> TAKE i, j \in 1..Len(r)
  <2>1. CASE j \in 1..Len(q) /\ i < j
    <3>1. i \in 1..Len(q)
      BY <1>1, <2>1
    <3>2. r[i] = q[i] /\ r[j] = q[j]
      BY <1>1, <2>1, <3>1
    <3> QED
      BY <2>1, <3>1, <3>2 DEF Follow
  <2>2. CASE j = Len(q) + 1 /\ i < j
    <3>1. i \in 1..Len(q)
      BY <1>1, <2>2
    <3> QED
      BY <1>1, <1>2, <2>2, <3>1 DEF Follow
  <2> QED
    BY <1>1, <2>1, <2>2
<1>7. p.to = r[Len(r)].to
  BY <1>1
<1> QED
  BY <1>3, <1>4, <1>5, <1>6, <1>7 DEF Follow, r

\* The first pbuf has been read.
LEMMA FollowTail ==
  ASSUME NEW q \in Seq(Pbuf), NEW l \in Nat, NEW e \in Nat, Follow(q, l, e), q # <<>>
  PROVE  Follow(Tail(q), q[1].to, e)
<1> DEFINE r == Tail(q)
<1>1. /\ r \in Seq(Pbuf) /\ Len(q) \in Nat \ {0} /\ Len(r) = Len(q) - 1
      /\ \A i \in 1..(Len(q) - 1) : r[i] = q[i + 1]
  OBVIOUS
<1>2. r = <<>> <=> Len(q) = 1
  BY <1>1
<1> HIDE DEF r
<1>3. \A i \in 1..Len(r) : r[i].from = (IF i = 1 THEN q[1].to ELSE r[i - 1].to) + 1
  <2> TAKE i \in 1..Len(r)
  <2>1. i + 1 \in 1..Len(q) /\ i + 1 # 1 /\ r[i] = q[i + 1]
    BY <1>1
  <2>2. q[i + 1].from = q[i].to + 1
    BY <2>1 DEF Follow
  <2>3. i # 1 => r[i - 1] = q[i]
    BY <1>1
  <2> QED
    BY <2>1, <2>2, <2>3
<1>4. \A i \in 1..Len(r) : r[i].from <= r[i].to /\ r[i].to <= e /\ q[1].to < r[i].from
  <2> TAKE i \in 1..Len(r)
  <2>1. i + 1 \in 1..Len(q) /\ 1 \in 1..Len(q) /\ 1 < i + 1 /\ r[i] = q[i + 1]
    BY <1>1
  <2> QED
    BY <2>1 DEF Follow
<1>5. \A i, j \in 1..Len(r) : i < j => r[i].to < r[j].from
  <2> TAKE i, j \in 1..Len(r)
  <2>1. /\ i + 1 \in 1..Len(q) /\ j + 1 \in 1..Len(q) /\ r[i] = q[i + 1] /\ r[j] = q[j + 1]
        /\ i < j => i + 1 < j + 1
    BY <1>1
  <2> QED
    BY <2>1 DEF Follow
<1>6. e = IF r = <<>> THEN q[1].to ELSE r[Len(r)].to
  <2>1. e = q[Len(q)].to
    BY DEF Follow
  <2>2. CASE Len(q) = 1
    BY <1>2, <2>1, <2>2
  <2>3. CASE Len(q) # 1
    BY <1>1, <1>2, <2>1, <2>3
  <2> QED
    BY <2>2, <2>3
<1> QED
  BY <1>3, <1>4, <1>5, <1>6 DEF Follow, r

\* The first pbuf has been read up to byte n and is kept.
LEMMA FollowAdvance ==
  ASSUME NEW q \in Seq(Pbuf), NEW l \in Nat, NEW e \in Nat, Follow(q, l, e), q # <<>>,
         NEW n \in Nat, q[1].from <= n, n < q[1].to
  PROVE  /\ [q EXCEPT ![1].from = n + 1] \in Seq(Pbuf)
         /\ Len([q EXCEPT ![1].from = n + 1]) = Len(q)
         /\ Follow([q EXCEPT ![1].from = n + 1], n, e)
         /\ \A i \in 1..Len(q) : [q EXCEPT ![1].from = n + 1][i].buf = q[i].buf
<1> DEFINE p == [q[1] EXCEPT !.from = n + 1]
           r == [q EXCEPT ![1] = p]
<1>1. Len(q) \in Nat \ {0} /\ 1 \in 1..Len(q) /\ q[1] \in Pbuf
  OBVIOUS
<1>2. \A i \in 1..Len(q) : q[i] \in Pbuf /\ q[i].from \in Nat /\ q[i].to \in Nat
  <2>1. \A i \in 1..Len(q) : q[i] \in Pbuf
    OBVIOUS
  <2> QED
    BY <2>1, NetAssumption DEF Pbuf, Number
<1>3. p \in Pbuf /\ p.from = n + 1 /\ p.to = q[1].to /\ p.buf = q[1].buf
  <2>1. n + 1 \in Number
    BY <1>1, <1>2, PbufLemma, NetAssumption DEF Number
  <2>2. PICK h \in Pbuf : h = q[1]
    BY <1>1
  <2>3. p = [h EXCEPT !.from = n + 1]
    BY <2>2
  <2> HIDE DEF p
  <2> QED
    BY <2>1, <2>2, <2>3 DEF Pbuf
<1>4. [q EXCEPT ![1].from = n + 1] = r
  OBVIOUS
<1> HIDE DEF p
<1>5. /\ r \in Seq(Pbuf) /\ Len(r) = Len(q)
      /\ r[1] = p
      /\ \A i \in 1..Len(q) : i # 1 => r[i] = q[i]
  BY <1>1, <1>3
<1> HIDE DEF r
<1>6. \A i \in 1..Len(r) : r[i].from = (IF i = 1 THEN n ELSE r[i - 1].to) + 1
  <2> TAKE i \in 1..Len(r)
  <2>1. CASE i = 1
    BY <1>3, <1>5, <2>1
  <2>2. CASE i # 1
    <3>1. i \in 1..Len(q) /\ i - 1 \in 1..Len(q) /\ r[i] = q[i]
      BY <1>1, <1>5, <2>2
    <3>2. q[i].from = q[i - 1].to + 1
      BY <2>2, <3>1 DEF Follow
    <3>3. r[i - 1].to = q[i - 1].to
      BY <1>3, <1>5, <3>1
    <3> QED
      BY <2>2, <3>1, <3>2, <3>3
  <2> QED
    BY <2>1, <2>2
<1>7. \A i \in 1..Len(r) : r[i].from <= r[i].to /\ r[i].to <= e /\ n < r[i].from
  <2> TAKE i \in 1..Len(r)
  <2>1. CASE i = 1
    BY <1>1, <1>2, <1>3, <1>5, <2>1 DEF Follow
  <2>2. CASE i # 1
    <3>1. i \in 1..Len(q) /\ 1 < i /\ r[i] = q[i]
      BY <1>1, <1>5, <2>2
    <3>2. q[1].to < q[i].from /\ q[i].from <= q[i].to /\ q[i].to <= e
      BY <1>1, <3>1 DEF Follow
    <3> QED
      BY <1>1, <1>2, <3>1, <3>2
  <2> QED
    BY <2>1, <2>2
<1>8. \A i, j \in 1..Len(r) : i < j => r[i].to < r[j].from
  <2> TAKE i, j \in 1..Len(r)
  <2>1. r[i].to = q[i].to /\ (i < j => r[j] = q[j])
    BY <1>3, <1>5
  <2> QED
    BY <1>5, <2>1 DEF Follow
<1>9. r # <<>> /\ e = r[Len(r)].to
  <2>1. e = q[Len(q)].to
    BY DEF Follow
  <2> QED
    BY <1>1, <1>3, <1>5, <2>1
<1>10. \A i \in 1..Len(q) : r[i].buf = q[i].buf
  BY <1>3, <1>5
<1>11. Follow(r, n, e)
  BY <1>6, <1>7, <1>8, <1>9 DEF Follow
<1> QED
  BY <1>4, <1>5, <1>10, <1>11

\* What the DMA stores moves no pbuf.
LEMMA FollowSpoil ==
  ASSUME NEW q \in Seq(Pbuf), NEW l \in Nat, NEW e \in Nat, Follow(q, l, e), NEW r \in Seq(Pbuf),
         Len(r) = Len(q), \A i \in 1..Len(q) : r[i].from = q[i].from /\ r[i].to = q[i].to
  PROVE  Follow(r, l, e)
<1>1. Len(q) \in Nat /\ (r = <<>> <=> Len(r) = 0) /\ (q = <<>> <=> Len(q) = 0)
  OBVIOUS
<1>2. \A i \in 1..Len(r) : r[i].from = (IF i = 1 THEN l ELSE r[i - 1].to) + 1
  <2> TAKE i \in 1..Len(r)
  <2>1. i # 1 => i - 1 \in 1..Len(q)
    BY <1>1
  <2> QED
    BY <2>1 DEF Follow
<1>3. e = IF r = <<>> THEN l ELSE r[Len(r)].to
  <2>1. CASE Len(q) = 0
    BY <1>1, <2>1 DEF Follow
  <2>2. CASE Len(q) # 0
    <3>1. Len(q) \in 1..Len(q)
      BY <1>1, <2>2
    <3> QED
      BY <1>1, <2>2, <3>1 DEF Follow
  <2> QED
    BY <2>1, <2>2
<1> QED
  BY <1>2, <1>3 DEF Follow

\* Nothing arrived is unread: the last byte lies behind the last one read.
LEMMA FollowBounds ==
  ASSUME NEW q \in Seq(Pbuf), NEW l \in Nat, NEW e \in Nat, Follow(q, l, e)
  PROVE  l <= e
<1>1. CASE q = <<>>
  BY <1>1 DEF Follow
<1>2. CASE q # <<>>
  <2>1. Len(q) \in 1..Len(q) /\ q[Len(q)] \in Pbuf
    BY <1>2
  <2>2. q[Len(q)].from \in Nat /\ q[Len(q)].to \in Nat
    BY <2>1, NetAssumption DEF Pbuf, Number
  <2> QED
    BY <2>1, <2>2 DEF Follow
<1> QED
  BY <1>1, <1>2

------------------------------------------------------------------------------
\* Nothing has arrived.
LEMMA InitLemma == Init => IInv
<1> SUFFICES ASSUME Init PROVE IInv
  OBVIOUS
<1>1. Types
  BY RxAssumption, NetAssumption DEF Init, RxInit, Types, Desc, Message, Callback
<1>2. MsgInv
  <2>1. Packets(mbox) = {}
    BY DEF Init, RxInit, Packets
  <2> QED
    BY <2>1, FS_EmptySet, RxAssumption DEF Init, RxInit, MsgInv
<1>3. PoolAccounted
  BY RxAssumption DEF Init, RxInit, PoolAccounted
<1>4. Arrived = 0 /\ read = <<>> /\ recvmbox = <<>>
  BY ArrivedLemma, NetAssumption DEF Init
<1>5. WindowAccounted
  BY <1>4, NetAssumption DEF Init, WindowAccounted
<1>6. EndInv
  BY <1>4, NetAssumption DEF Init, EndInv, ReadInOrder, Follow
<1> QED
  BY <1>1, <1>2, <1>3, <1>5, <1>6 DEF IInv

\* The ring is of no concern to the accounts.
LEMMA RingLemma ==
  ASSUME IInv, rxcur' \in Desc,
         UNCHANGED <<pool, inpkts, apis, mbox, thread, pcb, socks, doip, recvd, read, reused>>
  PROVE  IInv'
BY DEF IInv, Types, MsgInv, PoolAccounted, WindowAccounted, Arrived, EndInv, ReadInOrder,
       pcb, socks, thread

\* What a step that leaves the stream alone leaves alone.
LEMMA StreamLemma ==
  ASSUME WindowAccounted, EndInv, UNCHANGED <<pcb, recvmbox, closed, fin_pending, conn, recvd, read,
                                       reused>>,
         doip' = "shut" => doip = "shut"
  PROVE  WindowAccounted' /\ EndInv'
BY DEF WindowAccounted, Arrived, EndInv, ReadInOrder, pcb

\* The DMA spoils the pbufs that refer to the buffer it fills, and only those.
LEMMA DmaLemma ==
  ASSUME IInv, DmaOverwrites
  PROVE  IInv'
<1>1. /\ UNCHANGED <<rxcur, pool, inpkts, apis, mbox, app, thread, pcb, closed, fin_pending,
                     udpbox, conn>>
      /\ recvmbox' = [i \in DOMAIN recvmbox |-> Spoil(recvmbox[i], rxdma)]
      /\ reused' = (reused \/ \E i \in DOMAIN recvmbox : recvmbox[i].buf = rxdma)
  BY DEF DmaOverwrites, DmaStores
<1>2. PICK q \in Seq(Pbuf) : q = recvmbox /\ DOMAIN recvmbox = 1..Len(q) /\ Len(q) \in Nat
  BY DEF IInv, Types
<1>3. \A i \in 1..Len(q) :
        /\ Spoil(q[i], rxdma) \in Pbuf
        /\ Spoil(q[i], rxdma).from = q[i].from /\ Spoil(q[i], rxdma).to = q[i].to
        /\ Spoil(q[i], rxdma).buf = Overwritten => q[i].buf = rxdma \/ q[i].buf = Overwritten
  <2> TAKE i \in 1..Len(q)
  <2>1. q[i] \in Pbuf
    OBVIOUS
  <2> QED
    BY <2>1 DEF Spoil, Pbuf
<1>4. recvmbox' = [i \in 1..Len(q) |-> Spoil(q[i], rxdma)]
  BY <1>1, <1>2
<1>5. /\ recvmbox' \in Seq(Pbuf) /\ Len(recvmbox') = Len(q)
      /\ \A i \in 1..Len(q) : recvmbox'[i] = Spoil(q[i], rxdma)
  BY <1>2, <1>3, <1>4
<1>6. Types' /\ MsgInv' /\ PoolAccounted' /\ WindowAccounted'
  BY <1>1, <1>2, <1>5 DEF IInv, Types, MsgInv, PoolAccounted, WindowAccounted, Arrived, app, thread, pcb
<1>7. reused => reused'
  BY <1>1, Zenon
<1>8. (\E i \in 1..Len(q) : q[i].buf = rxdma) => reused'
  BY <1>1, <1>2, Zenon
<1>9. Arrived' = Arrived /\ Arrived \in Nat /\ Len(read) \in Nat /\ read' = read
  BY <1>1, ArrivedLemma, NetAssumption DEF IInv, Types, Arrived, pcb, app
<1>10. Follow(recvmbox', Len(read), Arrived)
  BY <1>2, <1>3, <1>5, <1>9, FollowSpoil DEF IInv, EndInv
<1>11. \A i \in DOMAIN recvmbox' : recvmbox'[i].buf = Overwritten => reused'
  BY <1>2, <1>3, <1>5, <1>7, <1>8 DEF IInv, EndInv
<1>12. \A i \in DOMAIN read : read[i] = i \/ (reused' /\ read[i] = Other)
  BY <1>7 DEF IInv, EndInv, ReadInOrder
<1>13. ReadInOrder'
  <2>1. DOMAIN recvmbox' = 1..Len(recvmbox')
    BY <1>5
  <2> QED
    BY <1>1, <1>9, <1>10, <1>12, <2>1 DEF IInv, EndInv, ReadInOrder, Follow
<1>14. recvmbox = <<>> => recvmbox' = <<>>
  BY <1>2, <1>5
<1>15. EndInv'
  BY <1>1, <1>9, <1>10, <1>11, <1>13, <1>14 DEF IInv, EndInv, app, pcb
<1> QED
  BY <1>6, <1>15 DEF IInv

\* A message is taken from its pool and posted; there is room.
LEMMA PostLemma ==
  ASSUME Types, MsgInv, NEW m \in Message, TryPostFromIsr(m), UNCHANGED thread,
         IF m = Callback
         THEN apis < ApiMsgs /\ apis' = apis + 1 /\ UNCHANGED inpkts
         ELSE inpkts < InpktMsgs /\ inpkts' = inpkts + 1 /\ UNCHANGED apis
  PROVE  MsgInv' /\ mbox' \in Seq(Message)
<1>0. tcpip' = tcpip
  BY DEF thread
<1>1. Len(mbox) < MboxSize
  BY RxAssumption DEF MsgInv, Types
<1>2. mbox' = Append(mbox, m)
  BY <1>1 DEF TryPostFromIsr
<1>3. Cardinality(Packets(mbox)) \in Nat
  BY PacketsType DEF Types
<1>4. Cardinality(Packets(mbox')) = Cardinality(Packets(mbox)) + (IF m = Callback THEN 0 ELSE 1)
  BY <1>2, PacketsAppend DEF Types
<1>5. mbox' \in Seq(Message) /\ Len(mbox') = Len(mbox) + 1
  BY <1>2 DEF Types
<1>6. Len(mbox) \in Nat
  BY DEF Types
<1>7. inpkts' = Cardinality(Packets(mbox')) + (IF tcpip' = "packet" THEN 1 ELSE 0)
  BY <1>0, <1>3, <1>4 DEF MsgInv, Types
<1>8. Len(mbox') + (IF tcpip' = "fetch" THEN 0 ELSE 1) = inpkts' + apis'
  <2>1. inpkts' + apis' = inpkts + apis + 1
    <3>1. CASE m = Callback
      BY <3>1 DEF Types
    <3>2. CASE m # Callback
      BY <3>2 DEF Types
    <3> QED
      BY <3>1, <3>2
  <2>2. Len(mbox) + (IF tcpip = "fetch" THEN 0 ELSE 1) = inpkts + apis
    BY DEF MsgInv
  <2> QED
    BY <1>0, <1>5, <1>6, <2>1, <2>2 DEF Types
<1>9. inpkts' <= InpktMsgs /\ apis' <= ApiMsgs
  BY RxAssumption DEF MsgInv, Types
<1> QED
  BY <1>5, <1>7, <1>8, <1>9 DEF MsgInv

LEMMA ReceiveLemma ==
  ASSUME IInv, Receive, UNCHANGED <<app, thread, pcb, socks, reused>>
  PROVE  IInv'
<1>1. rxcur' \in Desc
  BY RxAssumption DEF IInv, Types, Receive, After, Desc
<1>2. CASE UNCHANGED <<pool, inpkts, mbox>>
  BY <1>1, <1>2, RingLemma DEF Receive, app
<1>3. CASE ethif_input(rxcur) /\ ~UNCHANGED <<pool, inpkts, mbox>>
  <2>1. /\ pool > 0 /\ pool' = pool - 1 /\ inpkts < InpktMsgs /\ inpkts' = inpkts + 1
        /\ TryPostFromIsr(rxcur)
    BY <1>3 DEF ethif_input
  <2>2. rxcur \in Message /\ rxcur # Callback
    BY RxAssumption DEF IInv, Types, Message, Desc, Callback
  <2>3. MsgInv' /\ mbox' \in Seq(Message)
    BY <2>1, <2>2, PostLemma DEF IInv, Receive
  <2>4. Types'
    BY <1>1, <2>1, <2>3 DEF IInv, Types, Receive, app, thread, pcb, socks
  <2>5. PoolAccounted'
    BY <2>1 DEF IInv, Types, PoolAccounted, pcb, socks
  <2>6. WindowAccounted' /\ EndInv'
    BY StreamLemma DEF IInv, app, pcb, socks
  <2> QED
    BY <2>3, <2>4, <2>5, <2>6 DEF IInv
<1> QED
  BY <1>2, <1>3 DEF Receive

LEMMA CallbackLemma ==
  ASSUME IInv, pbuf_free_callback, UNCHANGED <<app, thread, pcb, socks, reused>>
  PROVE  IInv'
<1>1. Callback \in Message
  BY DEF Message
<1>2. MsgInv' /\ mbox' \in Seq(Message)
  BY <1>1, PostLemma DEF IInv, pbuf_free_callback
<1>3. Types'
  BY <1>2 DEF IInv, Types, pbuf_free_callback, ring, app, thread, pcb, socks
<1>4. PoolAccounted' /\ WindowAccounted' /\ EndInv'
  BY StreamLemma DEF IInv, PoolAccounted, pbuf_free_callback, ring, app, pcb, socks
<1> QED
  BY <1>2, <1>3, <1>4 DEF IInv

\* A message leaves the mailbox, but not its pool.
LEMMA FetchLemma ==
  ASSUME IInv, Fetch
  PROVE  IInv'
<1>1. /\ mbox \in Seq(Message) /\ mbox # <<>> /\ mbox' = Tail(mbox) /\ tcpip = "fetch"
      /\ tcpip' = IF Head(mbox) = Callback THEN "callback" ELSE "packet"
      /\ UNCHANGED <<inpkts, apis>>
  BY DEF IInv, Types, Fetch
<1>2. mbox' \in Seq(Message) /\ Len(mbox') = Len(mbox) - 1 /\ Len(mbox) \in Nat
  BY <1>1
<1>3. /\ Cardinality(Packets(mbox')) \in Nat
      /\ Cardinality(Packets(mbox)) =
           Cardinality(Packets(mbox')) + (IF Head(mbox) = Callback THEN 0 ELSE 1)
  BY <1>1, <1>2, PacketsTail, PacketsType
<1>4. inpkts' = Cardinality(Packets(mbox')) + (IF tcpip' = "packet" THEN 1 ELSE 0)
  BY <1>1, <1>3 DEF IInv, Types, MsgInv
<1>5. Len(mbox') + (IF tcpip' = "fetch" THEN 0 ELSE 1) = inpkts' + apis'
  BY <1>1, <1>2 DEF IInv, Types, MsgInv
<1>6. MsgInv'
  BY <1>1, <1>4, <1>5 DEF IInv, MsgInv
<1>7. Types'
  <2>1. packet' = Head(mbox) /\ Head(mbox) \in Message /\ (Head(mbox) # Callback => Head(mbox) \in Desc)
    BY <1>1 DEF Fetch, Message
  <2> QED
    BY <1>1, <1>2, <2>1 DEF IInv, Types, Fetch, ring, app, pcb, socks
<1>8. PoolAccounted' /\ WindowAccounted' /\ EndInv'
  BY StreamLemma DEF IInv, PoolAccounted, Fetch, ring, app, pcb, socks
<1> QED
  BY <1>6, <1>7, <1>8 DEF IInv

LEMMA HandleCallbackLemma ==
  ASSUME IInv, HandleCallback
  PROVE  IInv'
<1>1. /\ tcpip = "callback" /\ tcpip' = "fetch" /\ apis' = apis - 1
      /\ UNCHANGED <<inpkts, mbox>>
  BY DEF HandleCallback
<1>2. inpkts' = Cardinality(Packets(mbox')) + (IF tcpip' = "packet" THEN 1 ELSE 0)
  BY <1>1 DEF IInv, MsgInv
<1>3. Len(mbox') + (IF tcpip' = "fetch" THEN 0 ELSE 1) = inpkts' + apis'
  <2>1. Len(mbox) + 1 = inpkts + apis /\ Len(mbox) \in Nat
    BY <1>1 DEF IInv, Types, MsgInv
  <2> QED
    BY <1>1, <2>1 DEF IInv, Types
<1>4. apis' <= ApiMsgs
  BY <1>1, RxAssumption DEF IInv, Types, MsgInv
<1>5. MsgInv'
  BY <1>1, <1>2, <1>3, <1>4 DEF IInv, MsgInv
<1>6. Types'
  BY <1>1 DEF IInv, Types, HandleCallback, ring, app, pcb, socks
<1>7. PoolAccounted' /\ WindowAccounted' /\ EndInv'
  BY StreamLemma DEF IInv, PoolAccounted, HandleCallback, ring, app, pcb, socks
<1> QED
  BY <1>5, <1>6, <1>7 DEF IInv

\* A packet's message goes back to its pool.
LEMMA PacketLemma ==
  ASSUME IInv, PacketHandled
  PROVE  MsgInv' /\ inpkts' = inpkts - 1 /\ inpkts' \in Int
<1>1. /\ tcpip = "packet" /\ tcpip' = "fetch" /\ inpkts' = inpkts - 1
      /\ UNCHANGED <<apis, mbox>>
  BY DEF PacketHandled
<1>2. Cardinality(Packets(mbox)) \in Nat
  BY PacketsType DEF IInv, Types
<1>3. inpkts' = Cardinality(Packets(mbox')) + (IF tcpip' = "packet" THEN 1 ELSE 0)
  BY <1>1, <1>2 DEF IInv, MsgInv
<1>4. Len(mbox') + (IF tcpip' = "fetch" THEN 0 ELSE 1) = inpkts' + apis'
  <2>1. Len(mbox) + 1 = inpkts + apis /\ Len(mbox) \in Nat
    BY <1>1 DEF IInv, Types, MsgInv
  <2> QED
    BY <1>1, <2>1 DEF IInv, Types
<1>5. inpkts' <= InpktMsgs
  BY <1>1, RxAssumption DEF IInv, Types, MsgInv
<1> QED
  BY <1>1, <1>3, <1>4, <1>5 DEF IInv, Types, MsgInv

LEMMA HandleUdpLemma ==
  ASSUME IInv, HandleUdp
  PROVE  IInv'
<1>1. MsgInv' /\ inpkts' = inpkts - 1 /\ inpkts' \in Int
  BY PacketLemma DEF HandleUdp
<1>2. Types'
  BY <1>1 DEF IInv, Types, HandleUdp, PacketHandled, ring, app, pcb, Message
<1>3. PoolAccounted'
  <2>1. Len(recvmbox) \in Nat /\ UNCHANGED recvmbox
    BY DEF IInv, Types, HandleUdp
  <2>2. \/ udpbox' = udpbox + 1 /\ pool' = pool
        \/ pool' = pool + 1 /\ udpbox' = udpbox
    BY DEF HandleUdp
  <2>3. pool + inpkts + Len(recvmbox) + udpbox = RxBd
    BY DEF IInv, PoolAccounted
  <2>4. pool \in Int /\ inpkts \in Int /\ udpbox \in Int /\ Len(recvmbox') = Len(recvmbox)
    BY <2>1 DEF IInv, Types
  <2>5. pool' + inpkts' + Len(recvmbox') + udpbox' = RxBd
    BY <1>1, <2>1, <2>2, <2>3, <2>4
  <2> QED
    BY <2>5 DEF PoolAccounted
<1>4. WindowAccounted' /\ EndInv'
  BY StreamLemma DEF IInv, HandleUdp, PacketHandled, app
<1> QED
  BY <1>1, <1>2, <1>3, <1>4 DEF IInv

LEMMA HandleStrayLemma ==
  ASSUME IInv, HandleStray
  PROVE  IInv'
<1>1. MsgInv' /\ inpkts' = inpkts - 1 /\ inpkts' \in Int
  BY PacketLemma DEF HandleStray
<1>2. Types'
  BY <1>1 DEF IInv, Types, HandleStray, PacketHandled, ring, app, pcb, socks, Message
<1>3. PoolAccounted'
  BY <1>1 DEF IInv, Types, PoolAccounted, HandleStray, socks
<1>4. WindowAccounted' /\ EndInv'
  BY StreamLemma DEF IInv, HandleStray, PacketHandled, app, socks
<1> QED
  BY <1>1, <1>2, <1>3, <1>4 DEF IInv

\* What is taken of a segment lies in the window, and what it adds to the queue.
LEMMA TakenLemma ==
  ASSUME IInv, NEW a \in Number, NEW b \in a..Fin, Wanted(a, b)
  PROVE  /\ rcv_nxt \in Nat /\ rcv_nxt <= Fin /\ conn = "open"
         /\ LastTaken(b) \in rcv_nxt..Fin /\ LastTaken(b) < rcv_nxt + rcv_wnd
<1>1. b \in Nat /\ b <= Fin /\ rcv_nxt \in Nat /\ rcv_nxt <= b /\ rcv_wnd \in Nat /\ rcv_wnd > 0
  BY NetAssumption DEF Number, Wanted, IInv, Types
<1> QED
  BY <1>1, NetAssumption DEF LastTaken, Wanted

\* A segment in sequence.
LEMMA HandleNextLemma ==
  ASSUME IInv, NEW a \in Number, NEW b \in a..Fin, HandleNext(a, b)
  PROVE  IInv'
<1>1. MsgInv' /\ inpkts' = inpkts - 1 /\ inpkts' \in Int
  BY PacketLemma DEF HandleNext
<1>2. Wanted(a, b) /\ Deliver(LastTaken(b)) /\ tcpip = "packet"
  BY DEF HandleNext, PacketHandled
<1>3. PICK n \in Nat, w \in Nat, m \in Nat :
        /\ n = rcv_nxt /\ w = rcv_wnd /\ m = LastTaken(b)
        /\ 1 <= n /\ n <= m /\ m <= Fin /\ m < n + w /\ conn = "open"
  <2>1. rcv_nxt \in Nat /\ rcv_wnd \in Nat /\ 1 <= rcv_nxt
    BY NetAssumption DEF IInv, Types
  <2>2. /\ LastTaken(b) \in Nat /\ rcv_nxt <= LastTaken(b) /\ LastTaken(b) <= Fin
        /\ LastTaken(b) < rcv_nxt + rcv_wnd /\ conn = "open"
    BY <1>2, <2>1, TakenLemma, NetAssumption
  <2> QED
    BY <2>1, <2>2
<1>4. PICK d \in Int : d = LastData(m) /\ n - 1 <= d /\ d <= m /\ d <= Fin - 1
                       /\ (m # Fin => d = m) /\ (m = Fin => d = Fin - 1)
  BY <1>3, NetAssumption DEF LastData
<1>5. PICK c \in Seq(Pbuf) :
        /\ c = Data(m)
        /\ n > d => c = <<>>
        /\ n <= d => c = <<[from |-> n, to |-> d, buf |-> packet]>>
  <2>1. packet \in Desc
    BY <1>2 DEF IInv, Types
  <2>2. n <= d => [from |-> n, to |-> d, buf |-> packet] \in Pbuf
    BY <1>3, <1>4, <2>1, NetAssumption DEF Pbuf, Number
  <2>3. CASE n > d
    <3>1. Data(m) = <<>>
      BY <1>3, <1>4, <2>3 DEF Data
    <3>2. <<>> \in Seq(Pbuf) /\ ~(n <= d)
      BY <1>3, <1>4, <2>3
    <3> QED
      BY <3>1, <3>2
  <2>4. CASE ~(n > d)
    <3>1. Data(m) = <<[from |-> n, to |-> d, buf |-> packet]>>
      BY <1>3, <1>4, <2>4 DEF Data
    <3>2. [from |-> n, to |-> d, buf |-> packet] \in Pbuf
      BY <1>3, <1>4, <2>2, <2>4
    <3>3. PICK h \in Pbuf : h = [from |-> n, to |-> d, buf |-> packet]
      BY <3>2
    <3>4. <<h>> \in Seq(Pbuf) /\ <<h>> = Data(m)
      BY <3>1, <3>3
    <3>5. ~(n > d)
      BY <2>4
    <3> QED
      BY <3>3, <3>4, <3>5
  <2> QED
    BY <2>3, <2>4
<1>6. /\ recvmbox' = recvmbox \o c /\ rcv_nxt' = m + 1 /\ rcv_wnd' = w - (d - n + 1)
      /\ closed' = (IF m = Fin THEN closed + 1 ELSE closed)
      /\ pool' = pool + 1 - Len(c)
  BY <1>2, <1>3, <1>4, <1>5 DEF Deliver
<1>7. /\ UNCHANGED <<app, fin_pending, udpbox, conn, apis, mbox, rxcur, reused>>
      /\ tcpip' = "fetch" /\ packet' = Callback
  BY DEF HandleNext, PacketHandled, ring
<1>8. PICK q \in Seq(Pbuf), l \in Nat :
        q = recvmbox /\ l = Len(read) /\ Len(q) \in Nat /\ Follow(q, l, n - 1)
  <2>1. Arrived = n - 1
    BY <1>3, ArrivedLemma, NetAssumption DEF IInv, Types
  <2> QED
    BY <2>1 DEF IInv, Types, EndInv
<1>9. Len(c) \in {0, 1}
  BY <1>3, <1>4, <1>5
<1>10. recvmbox' \in Seq(Pbuf) /\ Len(recvmbox') = Len(q) + Len(c)
  BY <1>6, <1>8
<1>11. Types'
  <2>1. rcv_wnd' \in Nat
    <3>1. w - (d - n + 1) \in Nat
      BY ONLY <1>3, <1>4, n \in Nat, w \in Nat, m \in Nat, d \in Int
    <3> QED
      BY <1>6, <3>1
  <2>2. pool' \in Nat
    <3>1. pool \in Nat /\ pool' = pool + 1 - Len(c)
      BY <1>6 DEF IInv, Types
    <3>2. PICK k \in {0, 1}, o \in Nat : k = Len(c) /\ o = pool
      BY <1>9, <3>1
    <3>3. o + 1 - k \in Nat
      OBVIOUS
    <3> QED
      BY <3>1, <3>2, <3>3
  <2>3. rcv_nxt' \in 1..(Fin + 1)
    BY <1>3, <1>6, NetAssumption
  <2>4. closed' \in Nat
    BY <1>6 DEF IInv, Types
  <2> QED
    BY <1>1, <1>7, <1>10, <2>1, <2>2, <2>3, <2>4 DEF IInv, Types, app, Message
<1>12. PoolAccounted'
  <2>1. PICK k \in Int : k = Len(c)
    BY <1>9
  <2>2. pool' = pool + 1 - k /\ Len(recvmbox') = Len(q) + k
    BY <1>6, <1>10, <2>1
  <2> QED
    BY <1>1, <1>7, <1>8, <2>2 DEF IInv, Types, PoolAccounted
<1>13. Arrived' = d
  BY <1>3, <1>4, <1>6 DEF Arrived, LastData
<1>14. WindowAccounted'
  <2>1. w + ((n - 1) - l) + recvd = TcpWnd
    <3>1. Arrived = n - 1
      BY <1>3, ArrivedLemma, NetAssumption DEF IInv, Types
    <3> QED
      BY <1>3, <1>8, <3>1 DEF IInv, WindowAccounted
  <2>2. rcv_wnd' + (Arrived' - Len(read')) + recvd' = (w - (d - n + 1)) + (d - l) + recvd
    BY <1>6, <1>7, <1>8, <1>13 DEF app
  <2>3. recvd \in Nat
    BY DEF IInv, Types
  <2>4. (w - (d - n + 1)) + (d - l) + recvd = w + ((n - 1) - l) + recvd
    BY <1>3, <1>4, <1>8, <2>3
  <2> QED
    BY <2>1, <2>2, <2>4 DEF WindowAccounted
<1>15. EndInv'
  <2>1. ~fin_pending /\ doip # "shut" /\ closed = 0 /\ conn # "closed"
    BY <1>3, NetAssumption DEF IInv, Types, EndInv
  <2>2. Follow(recvmbox', l, d)
    <3>1. CASE n > d
      <4>1. d = n - 1
        BY <1>3, <1>4, <3>1
      <4>2. recvmbox' = q
        BY <1>5, <1>6, <1>8, <3>1
      <4> QED
        BY <1>8, <4>1, <4>2
    <3>2. CASE n <= d
      <4>1. PICK p \in Pbuf : c = <<p>> /\ p.from = n /\ p.to = d
        <5>1. [from |-> n, to |-> d, buf |-> packet] \in Pbuf
          BY <1>2, <1>3, <1>4, <3>2, NetAssumption DEF Pbuf, Number, IInv, Types
        <5> QED
          BY <1>5, <3>2, <5>1
      <4>2. PICK e \in Nat : e = n - 1 /\ n = e + 1
        BY <1>3
      <4>3. l <= e
        BY <1>8, <4>2, FollowBounds
      <4>4. p.from = e + 1 /\ p.from <= p.to
        BY <1>3, <3>2, <4>1, <4>2
      <4>5. Follow(q \o <<p>>, l, p.to)
        BY <1>8, <4>2, <4>3, <4>4, FollowAppend
      <4> QED
        BY <1>6, <1>8, <4>1, <4>5
    <3> QED
      BY <1>3, <1>4, <3>1, <3>2
  <2>3. DOMAIN recvmbox' = 1..Len(recvmbox') /\ read' = read /\ reused' = reused
    BY <1>7, <1>10 DEF app
  <2>4. \A i \in DOMAIN recvmbox' : recvmbox'[i].buf = Overwritten => reused'
    <3> TAKE i \in DOMAIN recvmbox'
    <3>1. CASE i \in 1..Len(q)
      <4>1. recvmbox'[i] = q[i] /\ i \in DOMAIN recvmbox
        BY <1>6, <1>8, <3>1
      <4> QED
        BY <1>8, <2>3, <4>1 DEF IInv, EndInv
    <3>2. CASE i \notin 1..Len(q)
      <4>0. PICK k \in {0, 1}, j \in Nat : k = Len(c) /\ j = Len(q) /\ i \in 1..(j + k) /\ i \notin 1..j
        BY <1>8, <1>9, <1>10, <2>3, <3>2
      <4>1. i = Len(q) + 1 /\ Len(c) = 1
        BY <4>0
      <4>2. n <= d
        <5>a. Len(<<>>) # 1
          OBVIOUS
        <5>1. c # <<>>
          BY <4>1, <5>a, Zenon
        <5> QED
          BY <1>3, <1>4, <1>5, <5>1
      <4>3. recvmbox'[i] = [from |-> n, to |-> d, buf |-> packet]
        BY <1>5, <1>6, <1>8, <4>1, <4>2
      <4>4. packet # Overwritten
        BY <1>2, RxAssumption DEF IInv, Types, Desc, Overwritten
      <4> QED
        BY <4>3, <4>4
    <3> QED
      BY <3>1, <3>2
  <2>5. ReadInOrder'
    BY <1>7, <1>8, <1>13, <2>1, <2>2, <2>3 DEF IInv, EndInv, ReadInOrder, Follow
  <2>6. closed' > 0 => rcv_nxt' > Fin
    BY <1>3, <1>6, <2>1
  <2>7. Follow(recvmbox', Len(read'), Arrived')
    BY <1>8, <1>13, <2>2, <2>3
  <2>8. UNCHANGED <<fin_pending, doip, conn>>
    BY <1>7 DEF app
  <2> QED
    BY <2>1, <2>4, <2>5, <2>6, <2>7, <2>8 DEF EndInv
<1> QED
  BY <1>1, <1>11, <1>12, <1>14, <1>15 DEF IInv

------------------------------------------------------------------------------
\* The DoIP task.

LEMMA RecvUdpLemma ==
  ASSUME IInv, RecvUdp
  PROVE  IInv'
<1>1. Types'
  BY DEF IInv, Types, RecvUdp, ring, thread, pcb
<1>2. PoolAccounted'
  <2>1. /\ pool \in Int /\ inpkts \in Int /\ udpbox \in Int /\ udpbox' \in Int
        /\ Len(recvmbox) \in Int
    BY <1>1 DEF IInv, Types
  <2>2. pool' = pool + (udpbox - udpbox') /\ UNCHANGED <<inpkts, recvmbox>>
    BY DEF RecvUdp
  <2>3. pool + inpkts + Len(recvmbox) + udpbox = RxBd
    BY DEF IInv, PoolAccounted
  <2>4. PICK p \in Int, i \in Int, l \in Int, u \in Int, v \in Int :
          p = pool /\ i = inpkts /\ l = Len(recvmbox) /\ u = udpbox /\ v = udpbox'
    BY <2>1, Zenon
  <2>5. (p + (u - v)) + i + l + v = p + i + l + u
    BY <2>4
  <2>6. pool' = p + (u - v) /\ inpkts' = i /\ Len(recvmbox') = l
    BY <2>2, <2>4
  <2> QED
    BY <2>3, <2>4, <2>5, <2>6 DEF PoolAccounted
<1>3. MsgInv'
  BY DEF IInv, MsgInv, RecvUdp, thread
<1>4. WindowAccounted' /\ EndInv'
  BY StreamLemma DEF IInv, RecvUdp
<1> QED
  BY <1>1, <1>2, <1>3, <1>4 DEF IInv

\* What pbuf_copy_partial gives.
LEMMA CopiedLemma ==
  ASSUME NEW p \in Pbuf, NEW n \in p.from..p.to
  PROVE  /\ p.from \in Nat /\ p.to \in Nat /\ n \in Nat /\ n <= Fin
         /\ Copied(p, n) \in Seq(0..Fin) /\ Len(Copied(p, n)) = n - p.from + 1
         /\ \A i \in 1..(n - p.from + 1) :
              \/ Copied(p, n)[i] = p.from + i - 1
              \/ p.buf = Overwritten /\ Copied(p, n)[i] = Other
<1>1. /\ p.from \in Nat /\ p.to \in Nat /\ n \in Nat /\ n <= Fin /\ p.from <= n
      /\ 1 <= p.from
  BY NetAssumption DEF Pbuf, Number
<1>2. Copied(p, n) \in [1..(n - p.from + 1) -> 0..Fin]
  BY <1>1, NetAssumption DEF Copied, Other
<1>3. n - p.from + 1 \in Nat
  BY <1>1
<1>4. Copied(p, n) \in Seq(0..Fin) /\ Len(Copied(p, n)) = n - p.from + 1
  <2>1. PICK k \in Nat : k = n - p.from + 1
    BY <1>3
  <2>a. PICK c \in [1..k -> 0..Fin] : c = Copied(p, n)
    BY <1>2, <2>1
  <2>2. c \in Seq(0..Fin) /\ Len(c) = k
    <3>1. PICK S : S = 0..Fin
      OBVIOUS
    <3>2. c \in [1..k -> S]
      BY <3>1
    <3>3. c \in Seq(S) /\ Len(c) = k
      BY <3>2
    <3> QED
      BY <3>1, <3>3
  <2> QED
    BY <2>1, <2>a, <2>2
<1>5. \A i \in 1..(n - p.from + 1) :
        \/ Copied(p, n)[i] = p.from + i - 1
        \/ p.buf = Overwritten /\ Copied(p, n)[i] = Other
  BY DEF Copied
<1> QED
  BY <1>1, <1>4, <1>5

LEMMA RecvPbufLemma ==
  ASSUME IInv, RecvPbuf
  PROVE  IInv'
<1>1. PICK q \in Seq(Pbuf) : q = recvmbox /\ q # <<>> /\ Len(q) \in Nat \ {0} /\ q[1] \in Pbuf
                            /\ Head(recvmbox) = q[1]
  BY DEF IInv, Types, RecvPbuf
<1>2. PICK n \in q[1].from..q[1].to :
        /\ read' = read \o Copied(q[1], n)
        /\ recvd' = recvd + (n - q[1].from + 1)
        /\ \/ n = q[1].to /\ recvmbox' = Tail(q) /\ pool' = pool + 1
              /\ doip' \in {"recv", "recvd"}
           \/ n < q[1].to /\ recvmbox' = [q EXCEPT ![1].from = n + 1] /\ UNCHANGED pool
              /\ doip' = "recvd"
  BY <1>1 DEF RecvPbuf
<1>3. PICK c \in Seq(0..Fin), f \in Nat :
        /\ c = Copied(q[1], n) /\ f = q[1].from /\ n \in Nat /\ n <= Fin /\ f <= n
        /\ Len(c) = n - f + 1
        /\ \A i \in 1..(n - f + 1) :
             c[i] = f + i - 1 \/ (q[1].buf = Overwritten /\ c[i] = Other)
  <2>1. PICK h \in Pbuf : h = q[1]
    BY <1>1
  <2>2. /\ h.from \in Nat /\ h.to \in Nat /\ n \in Nat /\ n <= Fin
        /\ Copied(h, n) \in Seq(0..Fin) /\ Len(Copied(h, n)) = n - h.from + 1
        /\ \A i \in 1..(n - h.from + 1) :
              \/ Copied(h, n)[i] = h.from + i - 1
              \/ h.buf = Overwritten /\ Copied(h, n)[i] = Other
    BY <2>1, CopiedLemma
  <2>3. h.from <= n
    BY <2>1, <2>2
  <2> QED
    BY <2>1, <2>2, <2>3
<1>4. PICK r \in Seq(0..Fin), l \in Nat, e \in Nat :
        /\ r = read /\ l = Len(r) /\ e = Arrived /\ Follow(q, l, e)
  <2>1. Arrived \in Nat /\ read \in Seq(0..Fin) /\ Len(read) \in Nat
    BY ArrivedLemma, NetAssumption DEF IInv, Types
  <2> QED
    BY <1>1, <2>1 DEF IInv, EndInv
<1>5. f = l + 1
  BY <1>1, <1>3, <1>4 DEF Follow
<1>6. /\ read' \in Seq(0..Fin) /\ Len(read') = n
      /\ \A i \in 1..n : read'[i] = IF i <= l THEN r[i] ELSE c[i - l]
  <2>1. /\ r \o c \in Seq(0..Fin) /\ Len(r \o c) = Len(r) + Len(c)
        /\ \A i \in 1..(Len(r) + Len(c)) : (r \o c)[i] = IF i <= Len(r) THEN r[i] ELSE c[i - Len(r)]
    OBVIOUS
  <2>2. Len(r) + Len(c) = n
    BY <1>3, <1>4, <1>5
  <2> QED
    BY <1>2, <1>3, <1>4, <2>1, <2>2
<1>7. Follow(recvmbox', n, e) /\ recvmbox' \in Seq(Pbuf)
  <2>1. CASE n = q[1].to /\ recvmbox' = Tail(q)
    BY <1>1, <1>4, <2>1, FollowTail
  <2>2. CASE n < q[1].to /\ recvmbox' = [q EXCEPT ![1].from = n + 1]
    BY <1>1, <1>3, <1>4, <2>2, FollowAdvance
  <2> QED
    BY <1>2, <2>1, <2>2
<1>8. /\ UNCHANGED <<ring, inpkts, apis, mbox, task, thread, pcb, closed, fin_pending, udpbox, conn,
                     reused>>
      /\ ~fin_pending
  BY DEF RecvPbuf
<1>9. Types'
  <2>1. recvd' \in Nat
    <3>1. recvd \in Nat /\ recvd' = recvd + (n - f + 1)
      BY <1>2, <1>3 DEF IInv, Types
    <3>2. n - f + 1 \in Nat
      BY <1>3
    <3> QED
      BY <3>1, <3>2
  <2>a. pool' = pool + 1 \/ pool' = pool
    BY <1>2
  <2>2. pool' \in Nat
    BY <2>a DEF IInv, Types
  <2> QED
    BY <1>6, <1>7, <1>8, <2>1, <2>2 DEF IInv, Types, ring, thread, pcb
<1>10. MsgInv'
  BY <1>8 DEF IInv, MsgInv, thread
<1>11. PoolAccounted'
  <2>1. CASE recvmbox' = Tail(q) /\ pool' = pool + 1
    <3>1. Len(recvmbox') = Len(q) - 1
      BY <1>1, <2>1
    <3> QED
      BY <1>1, <1>8, <2>1, <3>1 DEF IInv, Types, PoolAccounted
  <2>2. CASE recvmbox' = [q EXCEPT ![1].from = n + 1] /\ pool' = pool
    <3>1. Len(recvmbox') = Len(q)
      BY <1>1, <2>2
    <3> QED
      BY <1>1, <1>8, <2>2, <3>1 DEF IInv, Types, PoolAccounted
  <2> QED
    BY <1>2, <2>1, <2>2
<1>12. WindowAccounted'
  <2>1. rcv_wnd + (e - l) + recvd = TcpWnd /\ rcv_wnd \in Nat /\ recvd \in Nat
    BY <1>4 DEF IInv, Types, WindowAccounted
  <2>2. Arrived' = e /\ rcv_wnd' = rcv_wnd /\ recvd' = recvd + (n - f + 1)
    BY <1>2, <1>3, <1>4, <1>8 DEF Arrived, pcb
  <2> QED
    BY <1>3, <1>5, <1>6, <2>1, <2>2 DEF WindowAccounted
<1>13. EndInv'
  <2>1. conn # "closed" /\ doip' # "shut" /\ conn' = conn /\ ~fin_pending'
    BY <1>1, <1>2, <1>8 DEF IInv, EndInv
  <2>2. \A i \in DOMAIN read' : read'[i] = i \/ (reused' /\ read'[i] = Other)
    <3> TAKE i \in DOMAIN read'
    <3>1. i \in 1..n
      BY <1>6
    <3>2. CASE i <= l
      <4>1. read'[i] = r[i] /\ i \in DOMAIN r
        BY <1>4, <1>6, <3>1, <3>2
      <4> QED
        BY <1>4, <1>8, <4>1 DEF IInv, EndInv, ReadInOrder
    <3>3. CASE i > l
      <4>1. read'[i] = c[i - l] /\ i - l \in 1..(n - f + 1)
        BY <1>3, <1>4, <1>5, <1>6, <3>1, <3>3
      <4>2. c[i - l] = f + (i - l) - 1 \/ (q[1].buf = Overwritten /\ c[i - l] = Other)
        BY <1>3, <4>1
      <4>3. f + (i - l) - 1 = i
        <5>1. i \in Int /\ l \in Int /\ f = l + 1
          BY <1>3, <1>4, <1>5, <3>1
        <5> QED
          BY ONLY <5>1
      <4>4. q[1].buf = Overwritten => reused
        BY <1>1 DEF IInv, EndInv
      <4> QED
        BY <1>8, <4>1, <4>2, <4>3, <4>4
    <3> QED
      BY <1>4, <3>1, <3>2, <3>3
  <2>3. DOMAIN recvmbox' = 1..Len(recvmbox')
    BY <1>7
  <2>4. \A i \in DOMAIN recvmbox' : recvmbox'[i].buf = Overwritten => reused'
    <3>1. \A i \in 1..Len(q) : q[i].buf = Overwritten => reused'
      BY <1>1, <1>8 DEF IInv, EndInv
    <3>2. CASE recvmbox' = Tail(q)
      <4>1. \A i \in 1..Len(recvmbox') : recvmbox'[i] = q[i + 1] /\ i + 1 \in 1..Len(q)
        BY <1>1, <3>2
      <4> QED
        BY <2>3, <3>1, <4>1
    <3>3. CASE n < q[1].to /\ recvmbox' = [q EXCEPT ![1].from = n + 1]
      <4>1. /\ Len(recvmbox') = Len(q)
            /\ \A i \in 1..Len(q) : recvmbox'[i].buf = q[i].buf
        BY <1>1, <1>3, <1>4, <3>3, FollowAdvance
      <4> QED
        BY <2>3, <3>1, <4>1
    <3> QED
      BY <1>2, <3>2, <3>3
  <2>5. Arrived' = e
    BY <1>4, <1>8 DEF Arrived, pcb
  <2>6. ReadInOrder'
    BY <1>6, <1>7, <2>1, <2>2, <2>3, <2>5 DEF ReadInOrder, Follow
  <2>7. closed' > 0 => rcv_nxt' > Fin
    BY <1>8 DEF IInv, EndInv, pcb
  <2> QED
    BY <1>6, <1>7, <2>1, <2>4, <2>5, <2>6, <2>7 DEF EndInv
<1> QED
  BY <1>9, <1>10, <1>11, <1>12, <1>13 DEF IInv

LEMMA RecvFinLemma ==
  ASSUME IInv, RecvFin
  PROVE  IInv'
<1>1. Types'
  BY DEF IInv, Types, RecvFin, rxVars, ring, thread, pcb
<1>2. MsgInv' /\ PoolAccounted' /\ WindowAccounted'
  BY DEF IInv, MsgInv, PoolAccounted, WindowAccounted, Arrived, RecvFin, rxVars, ring, thread, pcb
<1>3. UNCHANGED <<rcv_nxt, read, recvmbox, conn, reused>>
  BY DEF RecvFin, pcb
<1>4. ReadInOrder' /\ Follow(recvmbox', Len(read'), Arrived')
  BY <1>3 DEF IInv, EndInv, ReadInOrder, Arrived
<1>5. EndInv'
  BY <1>3, <1>4 DEF IInv, Types, EndInv, RecvFin
<1> QED
  BY <1>1, <1>2, <1>5 DEF IInv

LEMMA TcpRecvdLemma ==
  ASSUME IInv, TcpRecvd
  PROVE  IInv'
<1>1. Types'
  BY DEF IInv, Types, TcpRecvd, rxVars, ring, thread, socks
<1>2. MsgInv' /\ PoolAccounted'
  BY DEF IInv, MsgInv, PoolAccounted, TcpRecvd, rxVars, ring, thread, socks
<1>3. UNCHANGED <<rcv_nxt, read, recvmbox, conn, reused, closed, fin_pending>> /\ doip' # "shut"
  BY DEF TcpRecvd, socks
<1>4. ReadInOrder' /\ Follow(recvmbox', Len(read'), Arrived')
  BY <1>3 DEF IInv, EndInv, ReadInOrder, Arrived
<1>5. EndInv'
  BY <1>3, <1>4 DEF IInv, EndInv
<1>6. WindowAccounted'
  <2>1. Arrived' = Arrived /\ Arrived \in Int /\ Len(read) \in Int
    BY <1>3, ArrivedLemma, NetAssumption DEF IInv, Types, Arrived
  <2>2. rcv_wnd' = rcv_wnd + recvd /\ recvd' = 0 /\ rcv_wnd \in Int /\ recvd \in Int
    BY DEF IInv, Types, TcpRecvd
  <2> QED
    BY <1>3, <2>1, <2>2 DEF IInv, WindowAccounted
<1> QED
  BY <1>1, <1>2, <1>5, <1>6 DEF IInv

LEMMA ShutLemma ==
  ASSUME IInv, Shut
  PROVE  IInv'
<1>1. Types' /\ MsgInv' /\ PoolAccounted' /\ WindowAccounted'
  BY DEF IInv, Types, MsgInv, PoolAccounted, WindowAccounted, Arrived, Shut, rxVars, ring, thread, pcb
<1>2. recvmbox = <<>> /\ rcv_nxt > Fin
  BY DEF IInv, EndInv, Shut, Running
<1>3. Len(read) = Fin - 1
  BY <1>2, ArrivedLemma DEF IInv, Types, EndInv, ReadInOrder
<1>4. UNCHANGED <<rcv_nxt, read, recvmbox, reused, closed, fin_pending>>
  BY DEF Shut, pcb
<1>5. ReadInOrder' /\ Follow(recvmbox', Len(read'), Arrived')
  BY <1>3, <1>4 DEF IInv, EndInv, ReadInOrder, Arrived
<1>6. EndInv'
  BY <1>2, <1>4, <1>5 DEF IInv, EndInv
<1> QED
  BY <1>1, <1>6 DEF IInv

------------------------------------------------------------------------------
\* Every step keeps the accounts.
LEMMA NextLemma == IInv /\ [Next]_vars => IInv'
<1> SUFFICES ASSUME IInv, [Next]_vars PROVE IInv'
  OBVIOUS
<1>1. CASE Driver
  <2>1. CASE DmaOverwrites
    BY <2>1, DmaLemma
  <2>2. CASE pbuf_free_callback /\ UNCHANGED <<app, thread, pcb, socks, reused>>
    BY <2>2, CallbackLemma
  <2> QED
    BY <1>1, <2>1, <2>2 DEF Driver
<1>2. CASE RxInterrupt
  <2>1. CASE RxIrq \/ RxIrqEnds
    BY <1>2, <2>1, RingLemma DEF RxInterrupt, RxIrq, RxIrqEnds, IInv, Types, app
  <2>2. CASE Receive
    BY <1>2, <2>2, ReceiveLemma DEF RxInterrupt
  <2> QED
    BY <1>2, <2>1, <2>2 DEF RxInterrupt
<1>3. CASE TcpipThread
  BY <1>3, FetchLemma, HandleCallbackLemma, HandleUdpLemma, HandleStrayLemma,
     HandleNextLemma DEF TcpipThread
<1>5. CASE EntityStart
  BY <1>5, RingLemma DEF EntityStart, rxVars, ring, IInv, Types
<1>6. CASE DoipTask
  <2>1. CASE RecvNothing
    <3>1. /\ rxcur' \in Desc
          /\ UNCHANGED <<pool, inpkts, apis, mbox, thread, pcb, socks, recvd, read, reused>>
      BY <2>1 DEF RecvNothing, rxVars, ring, IInv, Types
    <3>2. doip' # "shut"
      BY <2>1 DEF RecvNothing
    <3>3. WindowAccounted' /\ EndInv'
      BY <3>1, <3>2, StreamLemma DEF IInv, socks
    <3> QED
      BY <3>1, <3>3 DEF IInv, Types, MsgInv, PoolAccounted, pcb, socks, thread
  <2> QED
    BY <1>6, <2>1, RecvUdpLemma, RecvPbufLemma, RecvFinLemma, TcpRecvdLemma, ShutLemma DEF DoipTask
<1>7. CASE UNCHANGED vars
  BY <1>7, RingLemma DEF vars, rxVars, ring, app, IInv, Types
<1> QED
  BY <1>1, <1>2, <1>3, <1>5, <1>6, <1>7 DEF Next

\* The accounts are an invariant of the whole path.
THEOREM Accounts == Spec => []IInv
BY InitLemma, NextLemma, PTL DEF Spec

\* What the accounts say nothing of keeps its type.
RestTypes ==
  /\ rxown \in [Desc -> BOOLEAN] /\ rxdma \in Desc
  /\ ri \in BOOLEAN /\ rxisr \in BOOLEAN
  /\ task \in {"starting", "bound", "running", "dead"}
  /\ fin_pending \in BOOLEAN /\ conn \in {"open", "closed"}
  /\ doip \in {"udp", "recv", "recvd", "shut"} /\ reused \in BOOLEAN

LEMMA RestLemma ==
  ASSUME RestTypes, rxcur \in Desc, Next
  PROVE  RestTypes'
<1>1. rxown' \in [Desc -> BOOLEAN]
  <2>1. \/ UNCHANGED rxown
        \/ \E d \in Desc, b \in BOOLEAN : rxown' = [rxown EXCEPT ![d] = b]
    BY Zenon DEF Next, Driver, DmaOverwrites, DmaStores, pbuf_free_callback, RxInterrupt, RxIrq, Receive, RxIrqEnds,
       TcpipThread, Fetch, HandleCallback, PacketHandled, HandleUdp, HandleStray,
       HandleNext, EntityStart, DoipTask, RecvUdp, RecvPbuf, RecvNothing, RecvFin,
       TcpRecvd, Shut, ring, rxVars, RestTypes
  <2> QED
    BY <2>1, Zenon DEF RestTypes
<1>2. rxdma' \in Desc
  BY RxAssumption DEF RestTypes, Desc, After, Next, Driver, DmaOverwrites, DmaStores, pbuf_free_callback,
     RxInterrupt, RxIrq, Receive, RxIrqEnds, TcpipThread, Fetch, HandleCallback, PacketHandled,
     HandleUdp, HandleStray, HandleNext, EntityStart, DoipTask, RecvUdp,
     RecvPbuf, RecvNothing, RecvFin, TcpRecvd, Shut, ring, rxVars
<1>3. ri' \in BOOLEAN /\ rxisr' \in BOOLEAN
  BY Zenon DEF RestTypes, Next, Driver, DmaOverwrites, DmaStores, pbuf_free_callback,
     RxInterrupt, RxIrq, Receive, RxIrqEnds, TcpipThread, Fetch, HandleCallback, PacketHandled,
     HandleUdp, HandleStray, HandleNext, EntityStart, DoipTask, RecvUdp,
     RecvPbuf, RecvNothing, RecvFin, TcpRecvd, Shut, ring, rxVars
<1>4. task' \in {"starting", "bound", "running", "dead"} /\ doip' \in {"udp", "recv", "recvd", "shut"}
  BY DEF RestTypes, Next, Driver, DmaOverwrites, RxInterrupt, TcpipThread, Fetch, HandleCallback, PacketHandled,
     HandleUdp, HandleStray, HandleNext, EntityStart, DoipTask, RecvUdp,
     RecvPbuf, RecvNothing, RecvFin, TcpRecvd, Shut, app
<1>5. conn' \in {"open", "closed"}
  BY DEF RestTypes, Next, Driver, DmaOverwrites, RxInterrupt, TcpipThread, Fetch, HandleCallback,
     HandleUdp, HandleStray, HandleNext, EntityStart, DoipTask, RecvUdp,
     RecvPbuf, RecvNothing, RecvFin, TcpRecvd, Shut, socks
<1>6. fin_pending' \in BOOLEAN
  <2>1. UNCHANGED fin_pending \/ fin_pending' = FALSE \/ fin_pending' = (recvd > 0)
    BY Zenon DEF RestTypes, Next, Driver, DmaOverwrites, RxInterrupt, TcpipThread, Fetch, HandleCallback,
       HandleUdp, HandleStray, HandleNext, EntityStart, DoipTask, RecvUdp,
       RecvPbuf, RecvNothing, RecvFin, TcpRecvd, Shut, socks
  <2>2. (recvd > 0) \in BOOLEAN
    OBVIOUS
  <2> QED
    BY <2>1, <2>2, Zenon DEF RestTypes
<1>7. reused' \in BOOLEAN
  <2>1. UNCHANGED reused \/ reused' = (reused \/ \E i \in DOMAIN recvmbox : recvmbox[i].buf = rxdma)
    BY Zenon DEF Next, Driver, DmaOverwrites, RxInterrupt, TcpipThread, Fetch, HandleCallback,
       PacketHandled, HandleUdp, HandleStray, HandleNext, EntityStart, DoipTask, RecvUdp, RecvPbuf,
       RecvNothing, RecvFin, TcpRecvd, Shut
  <2>2. (reused \/ \E i \in DOMAIN recvmbox : recvmbox[i].buf = rxdma) \in BOOLEAN
    BY Zenon
  <2> QED
    BY <2>1, <2>2, Zenon DEF RestTypes
<1> QED
  BY <1>1, <1>2, <1>3, <1>4, <1>5, <1>6, <1>7 DEF RestTypes

\* Every variable keeps its type: RX_POOL never runs below zero or over, and the
\* window never closes below zero.
THEOREM TypeCorrect == Spec => []TypeOK
<1>1. Init => RestTypes
  <2> SUFFICES ASSUME Init PROVE RestTypes
    OBVIOUS
  <2>1. rxown \in [Desc -> BOOLEAN] /\ ri \in BOOLEAN /\ rxisr \in BOOLEAN /\ fin_pending \in BOOLEAN
        /\ reused \in BOOLEAN
    BY Zenon DEF Init, RxInit
  <2>2. rxdma \in Desc
    BY RxAssumption DEF Init, RxInit, Desc
  <2> QED
    BY <2>1, <2>2, Zenon DEF Init, RestTypes
<1>2. IInv /\ RestTypes /\ [Next]_vars => RestTypes'
  <2> SUFFICES ASSUME IInv, RestTypes, [Next]_vars PROVE RestTypes'
    OBVIOUS
  <2>1. CASE Next
    BY <2>1, RestLemma DEF IInv, Types
  <2>2. CASE UNCHANGED vars
    BY <2>2 DEF RestTypes, vars, rxVars, ring, app, socks
  <2> QED
    BY <2>1, <2>2
<1>3. IInv /\ RestTypes => TypeOK
  <2> SUFFICES ASSUME IInv, RestTypes PROVE TypeOK
    OBVIOUS
  <2>1. /\ Len(recvmbox) \in Nat /\ Len(mbox) \in Nat
        /\ Cardinality(Packets(mbox)) \in Nat /\ Cardinality(Packets(mbox)) <= Len(mbox)
    BY PacketsType DEF IInv, Types
  <2>2. inpkts \in Nat /\ apis \in Nat
    BY <2>1 DEF IInv, Types, MsgInv
  <2>3. pool \in 0..RxBd
    BY <2>1, <2>2, RxAssumption DEF IInv, Types, PoolAccounted
  <2>4. rcv_wnd \in 0..TcpWnd
    <3>1. Arrived \in Nat /\ Len(read) \in Nat
      BY ArrivedLemma, NetAssumption DEF IInv, Types
    <3>2. Len(read) <= Arrived
      BY <3>1, FollowBounds DEF IInv, Types, EndInv
    <3> QED
      BY <3>1, <3>2, NetAssumption DEF IInv, Types, WindowAccounted
  <2> QED
    BY <2>2, <2>3, <2>4 DEF IInv, Types, RestTypes, TypeOK
<1> QED
  BY <1>1, <1>2, <1>3, Accounts, PTL DEF Spec

\* sys_mbox_trypost, which loses a message silently when tcpip_mbox is full, never
\* finds it full, for all pools that together are no larger than the mailbox.
THEOREM MessagesKept == Spec => []NoMessageLost
<1>1. IInv => NoMessageLost
  <2> SUFFICES ASSUME IInv PROVE NoMessageLost
    OBVIOUS
  <2>1. Len(mbox) + (IF tcpip = "fetch" THEN 0 ELSE 1) = inpkts + apis
    BY DEF IInv, MsgInv
  <2>2. inpkts + apis <= MboxSize /\ inpkts + apis \in Int /\ Len(mbox) \in Nat
    BY RxAssumption DEF IInv, Types, MsgInv
  <2>3. Len(mbox) <= MboxSize
    BY <2>1, <2>2, RxAssumption
  <2> QED
    BY <2>1, <2>3 DEF NoMessageLost
<1> QED
  BY <1>1, Accounts, PTL

\* Interrupt, thread and task neither lose a pbuf of RX_POOL nor free one twice.
THEOREM PoolKept == Spec => []PoolAccounted
<1>1. IInv => PoolAccounted
  BY DEF IInv
<1> QED
  BY <1>1, Accounts, PTL

\* The receive window and the data not yet taken always add up to TCP_WND.
THEOREM WindowKept == Spec => []WindowAccounted
<1>1. IInv => WindowAccounted
  BY DEF IInv
<1> QED
  BY <1>1, Accounts, PTL

\* recv hands the DoIP task the bytes of the stream in order, none twice and none
\* left out, whatever the network does; only the DMA's reuse of a buffer, and
\* nothing on the way from tcp_receive to recv, puts another byte in the place of
\* one of them.
THEOREM StreamInOrder == Spec => []ReadInOrder
<1>1. IInv => ReadInOrder
  BY DEF IInv, EndInv
<1> QED
  BY <1>1, Accounts, PTL

\* The tcpip thread never waits, with the core lock, for the task that needs it.
THEOREM NoWaitForReader == Spec => []NeverWaitsForReader
<1>1. IInv => NeverWaitsForReader
  <2> SUFFICES ASSUME IInv, tcpip = "packet", NEW a \in Number, NEW b \in a..Fin, Wanted(a, b)
               PROVE  Messages + Posts(LastTaken(b)) <= RecvMbox
    BY DEF NeverWaitsForReader
  <2>1. inpkts >= 1 /\ inpkts \in Int
    BY PacketsType DEF IInv, Types, MsgInv
  <2>2. Len(recvmbox) \in Nat
    BY DEF IInv, Types
  <2>3. Len(recvmbox) <= RxBd - 1
    BY <2>1, <2>2, RxAssumption DEF IInv, Types, PoolAccounted
  <2>4. closed = 0
    BY TakenLemma, NetAssumption DEF IInv, Types, EndInv
  <2>5. Len(Data(LastTaken(b))) \in {0, 1}
    BY DEF Data
  <2>6. Posts(LastTaken(b)) \in 0..2
    <3>1. PICK k \in {0, 1} : k = Len(Data(LastTaken(b)))
      BY <2>5
    <3> QED
      BY <3>1 DEF Posts
  <2> QED
    BY <2>2, <2>3, <2>4, <2>6, RxAssumption, NetAssumption DEF Messages
<1> QED
  BY <1>1, Accounts, PTL
=============================================================================
