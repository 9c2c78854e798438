--------------------------- MODULE RxFramingProofs ---------------------------
(***************************************************************************)
(* Proofs about RxFraming for every header length, buffer size and number  *)
(* of messages, as long as each message fits the buffer (LensFit).         *)
(*                                                                         *)
(* BufferIsWindow and the rest are not inductive alone: that the buffer    *)
(* begins at a message needs to say which one, namely the one after the    *)
(* last delivered (BufferInv), and that the header found there is that     *)
(* message's needs the messages to follow each other in the stream without *)
(* gap (StreamInv).  That the slot is reset only after everything was      *)
(* delivered needs that a finished parse loop leaves less than a message   *)
(* (ParsedInv).                                                            *)
(***************************************************************************)
EXTENDS RxFraming, SequenceTheorems, TLAPS

\* Where message k begins, or will begin.
At(k) == IF k <= Len(lens) THEN starts[k] ELSE wire

StreamInv ==
  /\ Len(starts) = Len(lens)
  /\ \A i \in 1..Len(lens) : At(i + 1) = starts[i] + Hdr + lens[i]
  /\ \A i \in 1..Len(lens), j \in 1..(Len(lens) + 1) : i < j => starts[i] < At(j)

BufferInv ==
  /\ Len(delivered) <= Len(lens)
  /\ base = At(Len(delivered) + 1)
  /\ got <= wire
  /\ conn = "open" => base + used = got
  /\ conn = "closed" => pc = "recv"

\* No complete message is left when the parse loop has ended.
ParsedInv ==
  pc = "recv" /\ conn = "open" /\ Len(delivered) < Len(lens) =>
    used < Hdr + lens[Len(delivered) + 1]

IInv == TypeOK /\ StreamInv /\ BufferInv /\ DeliveredIsPrefix /\ ParsedInv /\ CloseOnlyAfterPeer

------------------------------------------------------------------------------
\* A length that fits is taken at face value.
LEMMA FitLemma ==
  ASSUME LensFit, NEW n \in Lens
  PROVE  /\ n \in Nat /\ Hdr + n <= BufSize
         /\ TotalSize(n) = Hdr + n
         /\ WireSize(n) = Hdr + n
         /\ doip_validate_header(n)
<1>1. n \in Nat /\ Hdr + n <= BufSize /\ Hdr \in Nat /\ SizeMod \in Nat /\ Hdr + n < SizeMod
  BY FramingAssumption DEF LensFit
<1>2. (Hdr + n) % SizeMod = Hdr + n
  BY <1>1
<1>3. n # SizeMod - Hdr /\ n <= MaxPayload
  BY <1>1, FramingAssumption
<1> QED BY <1>1, <1>2, <1>3 DEF TotalSize, WireSize, doip_validate_header

\* Nothing sent, nothing buffered: the invariant holds at the start.
LEMMA InitLemma == Init => IInv
<1> SUFFICES ASSUME Init PROVE IInv
  OBVIOUS
<1>1. TypeOK
  BY FramingAssumption DEF Init, TypeOK
<1>2. StreamInv /\ BufferInv /\ DeliveredIsPrefix /\ ParsedInv /\ CloseOnlyAfterPeer
  BY FramingAssumption
  DEF Init, StreamInv, BufferInv, DeliveredIsPrefix, ParsedInv, CloseOnlyAfterPeer, At
<1> QED BY <1>1, <1>2 DEF IInv

\* The header at the beginning of the buffer is the next message's own.
LEMMA HeaderLemma ==
  ASSUME IInv, used > 0, conn = "open"
  PROVE  /\ Len(delivered) < Len(lens)
         /\ HeaderLengths = {lens[Len(delivered) + 1]}
<1> DEFINE d == Len(delivered)
<1>0. d \in Nat /\ Len(lens) \in Nat /\ d <= Len(lens) /\ Len(starts) = Len(lens)
  BY DEF IInv, TypeOK, BufferInv, StreamInv
<1>1. base < wire
  BY DEF IInv, TypeOK, BufferInv
<1>2. d < Len(lens)
  <2> SUFFICES ASSUME ~(d < Len(lens)) PROVE FALSE
    OBVIOUS
  <2>1. base = wire
    BY <1>0 DEF IInv, BufferInv, At
  <2> QED BY <1>1, <2>1 DEF IInv, TypeOK
<1>3. base = starts[d + 1]
  BY <1>0, <1>2 DEF IInv, BufferInv, At
<1>4. \A k \in DOMAIN starts : starts[k] = base <=> k = d + 1
  <2> SUFFICES ASSUME NEW k \in DOMAIN starts, starts[k] = base PROVE k = d + 1
    BY <1>3
  <2>1. k \in 1..Len(lens) /\ d + 1 \in 1..Len(lens)
    BY <1>0, <1>2 DEF IInv, TypeOK
  <2>2. starts[k] \in Nat /\ starts[d + 1] \in Nat
    BY <2>1, <1>0 DEF IInv, TypeOK
  <2>3. \A i, j \in 1..Len(lens) : i < j => starts[i] < starts[j]
    BY <1>0 DEF IInv, StreamInv, At
  <2> QED BY <1>0, <1>3, <2>1, <2>2, <2>3
<1>5. d + 1 \in DOMAIN starts
  BY <1>0, <1>2 DEF IInv, TypeOK
<1> QED BY <1>2, <1>4, <1>5 DEF HeaderLengths

------------------------------------------------------------------------------
\* Writing a message at the end of the stream leaves the earlier ones in place.
LEMMA PeerSendsLemma ==
  ASSUME LensFit, IInv, NEW n \in Lens, PeerSends(n)
  PROVE  IInv'
<1> DEFINE L == Len(lens)
           d == Len(delivered)
<1>0. L \in Nat /\ d \in Nat /\ d <= L /\ Len(starts) = L /\ wire \in Nat /\ Hdr \in Nat
  BY FramingAssumption DEF IInv, TypeOK, BufferInv, StreamInv
<1>1. n \in Nat /\ wire' = wire + Hdr + n
  BY FitLemma, <1>0 DEF PeerSends
<1>2. /\ Len(lens') = L + 1 /\ Len(starts') = L + 1
      /\ \A i \in 1..L : lens'[i] = lens[i] /\ starts'[i] = starts[i]
      /\ lens'[L + 1] = n /\ starts'[L + 1] = wire
  BY <1>0 DEF PeerSends, IInv, TypeOK
<1>3. /\ \A i \in 1..(L + 1) : At(i)' = At(i)
      /\ \A i \in Nat : i = L + 2 => At(i)' = wire + Hdr + n
      /\ At(L + 1) = wire
  BY <1>0, <1>1, <1>2 DEF At
<1>4. TypeOK'
  BY <1>0, <1>1 DEF PeerSends, IInv, TypeOK
<1>5. \A i \in 1..L : starts[i] \in Nat /\ starts[i] < wire
  <2> SUFFICES ASSUME NEW i \in 1..L PROVE starts[i] \in Nat /\ starts[i] < wire
    OBVIOUS
  <2>1. starts[i] \in Nat
    BY <1>0 DEF IInv, TypeOK
  <2>2. L + 1 \in 1..(L + 1) /\ i < L + 1
    BY <1>0
  <2>3. starts[i] < At(L + 1)
    BY <2>2 DEF IInv, StreamInv
  <2> QED BY <2>1, <2>3, <1>3
<1>6. StreamInv'
  <2>1. \A i \in 1..(L + 1) : At(i + 1)' = starts'[i] + Hdr + lens'[i]
    <3> SUFFICES ASSUME NEW i \in 1..(L + 1) PROVE At(i + 1)' = starts'[i] + Hdr + lens'[i]
      OBVIOUS
    <3>1. CASE i = L + 1
      BY <3>1, <1>0, <1>1, <1>2, <1>3
    <3>2. CASE i \in 1..L
      <4>1. At(i + 1)' = At(i + 1)
        BY <3>2, <1>0, <1>3
      <4>2. At(i + 1) = starts[i] + Hdr + lens[i]
        BY <3>2 DEF IInv, StreamInv
      <4> QED BY <4>1, <4>2, <3>2, <1>2
    <3> QED BY <3>1, <3>2, <1>0
  <2>2. \A i \in 1..(L + 1), j \in 1..(L + 2) : i < j => starts'[i] < At(j)'
    <3> SUFFICES ASSUME NEW i \in 1..(L + 1), NEW j \in 1..(L + 2), i < j
                 PROVE  starts'[i] < At(j)'
      OBVIOUS
    <3>0. Hdr > 0
      BY FramingAssumption
    <3>1. CASE j = L + 2
      BY <3>0, <3>1, <1>0, <1>1, <1>2, <1>3, <1>5
    <3>2. CASE j \in 1..(L + 1)
      <4>1. i \in 1..L
        BY <3>2, <1>0
      <4>2. starts[i] < At(j)
        BY <4>1, <3>2 DEF IInv, StreamInv
      <4> QED BY <4>1, <4>2, <3>2, <1>2, <1>3
    <3> QED BY <3>1, <3>2, <1>0
  <2> QED BY <2>1, <2>2, <1>0, <1>2 DEF StreamInv
<1>7. BufferInv'
  <2>1. At(Len(delivered) + 1)' = At(Len(delivered) + 1)
    <3>1. d + 1 \in 1..(L + 1) /\ Len(delivered)' = d
      BY <1>0 DEF PeerSends
    <3>2. At(Len(delivered) + 1)' = IF d + 1 <= L + 1 THEN starts'[d + 1] ELSE wire'
      BY <3>1, <1>2 DEF At
    <3> QED BY <3>1, <3>2, <1>0, <1>2 DEF At
  <2> QED BY <2>1, <1>0, <1>1, <1>2 DEF PeerSends, IInv, TypeOK, BufferInv
<1>8. DeliveredIsPrefix'
  <2>1. DOMAIN delivered = 1..d
    BY DEF IInv, TypeOK
  <2> QED BY <2>1, <1>0, <1>2 DEF PeerSends, IInv, DeliveredIsPrefix
<1>9. ParsedInv'
  <2> SUFFICES ASSUME pc = "recv", conn = "open", d < L + 1
               PROVE  used < Hdr + lens'[d + 1]
    BY <1>2 DEF ParsedInv, PeerSends
  <2>1. CASE d = L
    <3>1. base = wire /\ used = 0
      BY <2>1, <1>0, <1>3 DEF IInv, TypeOK, BufferInv
    <3> QED BY <3>1, <2>1, <1>0, <1>1, <1>2, FramingAssumption
  <2>2. CASE d < L
    BY <2>2, <1>0, <1>2 DEF IInv, ParsedInv
  <2> QED BY <2>1, <2>2, <1>0
<1>10. CloseOnlyAfterPeer'
  BY DEF PeerSends, IInv, CloseOnlyAfterPeer
<1> QED BY <1>4, <1>6, <1>7, <1>8, <1>9, <1>10 DEF IInv

\* The tester's FIN changes nothing in the stream or the buffer.
LEMMA PeerClosesLemma ==
  ASSUME IInv, PeerCloses
  PROVE  IInv'
<1>1. \A k \in Nat : At(k)' = At(k)
  BY DEF PeerCloses, At
<1>2. TypeOK' /\ DeliveredIsPrefix' /\ ParsedInv' /\ CloseOnlyAfterPeer'
  BY DEF PeerCloses, IInv, TypeOK, DeliveredIsPrefix, ParsedInv, CloseOnlyAfterPeer
<1>3. StreamInv' /\ BufferInv'
  BY DEF PeerCloses, IInv, TypeOK, StreamInv, BufferInv, At
<1> QED BY <1>2, <1>3 DEF IInv

\* Received bytes continue the window.
LEMMA RecvDataLemma ==
  ASSUME IInv, NEW k \in 1..BufSize, RecvData(k)
  PROVE  IInv'
<1>0. k \in Nat /\ BufSize \in Nat /\ used + k \in 0..BufSize /\ got + k <= wire
  BY FramingAssumption DEF RecvData, Space, Pending, IInv, TypeOK
<1>1. TypeOK'
  BY <1>0 DEF RecvData, IInv, TypeOK
<1>2. StreamInv' /\ DeliveredIsPrefix' /\ ParsedInv' /\ CloseOnlyAfterPeer'
  BY DEF RecvData, IInv, StreamInv, At, DeliveredIsPrefix, ParsedInv, CloseOnlyAfterPeer
<1>3. BufferInv'
  <2>1. At(Len(delivered) + 1)' = At(Len(delivered) + 1)
    BY DEF RecvData, At
  <2>2. base' + used' = got'
    <3>1. base \in Nat /\ used \in Nat /\ got \in Nat /\ base + used = got
      BY DEF RecvData, IInv, TypeOK, BufferInv
    <3>2. base' = base /\ used' = used + k /\ got' = got + k
      BY DEF RecvData
    <3> QED BY <3>1, <3>2, <1>0
  <2> QED BY <2>1, <2>2, <1>0 DEF RecvData, IInv, BufferInv
<1> QED BY <1>1, <1>2, <1>3 DEF IInv

\* The next message ends within the stream, header and payload.
LEMMA NextMessageLemma ==
  ASSUME IInv, Len(delivered) < Len(lens)
  PROVE  LET d == Len(delivered) IN
         /\ lens[d + 1] \in Lens
         /\ At(d + 2) = base + Hdr + lens[d + 1]
         /\ At(d + 2) <= wire
<1> DEFINE d == Len(delivered)
           L == Len(lens)
<1>0. d \in Nat /\ L \in Nat /\ Len(starts) = L /\ d + 1 \in 1..L /\ d + 2 = (d + 1) + 1
  BY DEF IInv, TypeOK, StreamInv
<1>1. lens[d + 1] \in Lens
  BY <1>0 DEF IInv, TypeOK
<1>2. At(d + 2) = base + Hdr + lens[d + 1]
  <2>1. base = starts[d + 1]
    BY <1>0 DEF IInv, BufferInv, At
  <2>2. At((d + 1) + 1) = starts[d + 1] + Hdr + lens[d + 1]
    BY <1>0 DEF IInv, StreamInv
  <2> QED BY <2>1, <2>2, <1>0
<1>3. At(d + 2) <= wire
  <2>1. CASE d + 1 = L
    BY <2>1, <1>0 DEF At, IInv, TypeOK
  <2>2. CASE d + 1 < L
    <3>1. d + 2 \in 1..L /\ L + 1 \in 1..(L + 1) /\ d + 2 < L + 1
      BY <2>2, <1>0
    <3>2. starts[d + 2] < At(L + 1)
      BY <3>1 DEF IInv, StreamInv
    <3>3. At(d + 2) = starts[d + 2] /\ At(L + 1) = wire
      BY <3>1, <1>0 DEF At
    <3>4. starts[d + 2] \in Nat /\ wire \in Nat
      BY <3>1, <1>0 DEF IInv, TypeOK
    <3> QED BY <3>2, <3>3, <3>4
  <2> QED BY <2>1, <2>2, <1>0
<1> QED BY <1>1, <1>2, <1>3

\* tcp_recv returns 0 only for the tester's FIN, since the buffer is never full.
LEMMA RecvClosedLemma ==
  ASSUME LensFit, IInv, RecvClosed
  PROVE  IInv'
<1> DEFINE d == Len(delivered)
           L == Len(lens)
<1>0. /\ d \in Nat /\ L \in Nat /\ d <= L
      /\ wire \in Nat /\ got \in Nat /\ base \in Nat /\ used \in Nat
      /\ base + used = got /\ pc = "recv" /\ conn = "open"
      /\ Hdr \in Nat /\ BufSize \in Nat
  BY FramingAssumption DEF RecvClosed, IInv, TypeOK, BufferInv
<1>1. d < L => used < Hdr + lens[d + 1] /\ lens[d + 1] \in Nat /\ Hdr + lens[d + 1] <= BufSize
  BY <1>0, FitLemma, NextMessageLemma DEF IInv, ParsedInv
<1>2. Pending = 0
  <2> SUFFICES ASSUME Pending # 0 PROVE FALSE
    OBVIOUS
  <2>1. used = BufSize /\ base < wire
    BY <1>0 DEF RecvClosed, RecvZero, Space, Pending, IInv, BufferInv
  <2>2. d < L
    BY <1>0, <2>1 DEF IInv, BufferInv, At
  <2> QED BY <1>0, <1>1, <2>1, <2>2
<1>3. peer = "closed" /\ wire = got
  BY <1>0, <1>2 DEF RecvClosed, RecvZero, Pending
<1>4. d = L
  <2> SUFFICES ASSUME d < L PROVE FALSE
    BY <1>0
  <2>1. base + Hdr + lens[d + 1] <= wire
    BY NextMessageLemma
  <2> QED BY <2>1, <1>0, <1>1, <1>3
<1>5. TypeOK' /\ StreamInv' /\ DeliveredIsPrefix' /\ ParsedInv'
  BY <1>0 DEF RecvClosed, IInv, TypeOK, StreamInv, At, DeliveredIsPrefix, ParsedInv
<1>6. BufferInv'
  BY <1>0 DEF RecvClosed, IInv, BufferInv, At
<1>7. CloseOnlyAfterPeer'
  BY <1>3, <1>4 DEF RecvClosed, CloseOnlyAfterPeer
<1> QED BY <1>5, <1>6, <1>7 DEF IInv

\* A pass of the parse loop hands over the next message and takes it out whole.
LEMMA ParseMessageLemma ==
  ASSUME LensFit, IInv, NEW n \in Lens, ParseMessage(n)
  PROVE  IInv'
<1> DEFINE d == Len(delivered)
           L == Len(lens)
<1>0. /\ d \in Nat /\ L \in Nat
      /\ wire \in Nat /\ got \in Nat /\ base \in Nat /\ used \in 0..BufSize
      /\ pc = "parse" /\ conn = "open" /\ used > 0 /\ Hdr \in Nat /\ BufSize \in Nat
  BY FramingAssumption DEF ParseMessage, IInv, TypeOK, BufferInv
<1>1. d < L /\ n = lens[d + 1]
  BY <1>0, HeaderLemma DEF ParseMessage
<1>2. n \in Nat /\ TotalSize(n) = Hdr + n /\ doip_validate_header(n)
  BY FitLemma
<1>3. /\ delivered' = Append(delivered, n)
      /\ base' = base + Hdr + n /\ used' = used - (Hdr + n) /\ used >= Hdr + n
  BY <1>0, <1>2 DEF ParseMessage, TakeMessage, Complete
<1>4. Len(delivered') = d + 1
  BY <1>3 DEF IInv, TypeOK
<1>5. UNCHANGED <<lens, starts, wire, peer, got, conn, pc>>
  BY DEF ParseMessage
<1>6. pass' \in {0, 1}
  BY DEF ParseMessage, IInv, TypeOK
<1>7. TypeOK'
  BY <1>0, <1>2, <1>3, <1>5, <1>6 DEF IInv, TypeOK
<1>8. StreamInv' /\ ParsedInv' /\ CloseOnlyAfterPeer'
  BY <1>0, <1>5 DEF IInv, StreamInv, At, ParsedInv, CloseOnlyAfterPeer
<1>9. BufferInv'
  <2>1. base' = At(d + 2)
    BY <1>1, <1>3, NextMessageLemma
  <2>2. At(Len(delivered) + 1)' = At(d + 2)
    BY <1>0, <1>4, <1>5 DEF At
  <2>3. base' + used' = got
    BY <1>0, <1>2, <1>3 DEF IInv, BufferInv
  <2> QED BY <2>1, <2>2, <2>3, <1>0, <1>1, <1>4, <1>5 DEF IInv, BufferInv
<1>10. DeliveredIsPrefix'
  <2>1. DOMAIN delivered' = 1..(d + 1) /\ DOMAIN delivered = 1..d
    BY <1>3, <1>4 DEF IInv, TypeOK
  <2>2. \A k \in 1..d : delivered'[k] = delivered[k]
    BY <1>0, <1>3 DEF IInv, TypeOK
  <2>3. delivered'[d + 1] = n
    BY <1>0, <1>3 DEF IInv, TypeOK
  <2>4. \A k \in 1..(d + 1) : k \in 1..d \/ k = d + 1
    BY <1>0
  <2>5. \A k \in 1..d : delivered[k] = lens[k]
    BY <2>1 DEF IInv, DeliveredIsPrefix
  <2> QED BY <2>1, <2>2, <2>3, <2>4, <2>5, <1>0, <1>1, <1>4, <1>5 DEF DeliveredIsPrefix
<1> QED BY <1>7, <1>8, <1>9, <1>10 DEF IInv

\* The parse loop ends with less than a message in the buffer.
LEMMA ParseDoneLemma ==
  ASSUME LensFit, IInv, ParseDone
  PROVE  IInv'
<1> DEFINE d == Len(delivered)
           L == Len(lens)
<1>1. TypeOK' /\ StreamInv' /\ DeliveredIsPrefix' /\ CloseOnlyAfterPeer'
  BY DEF ParseDone, IInv, TypeOK, StreamInv, At, DeliveredIsPrefix, CloseOnlyAfterPeer
<1>2. BufferInv'
  BY DEF ParseDone, IInv, BufferInv, At
<1>3. ParsedInv'
  <2> SUFFICES ASSUME conn = "open", d < L PROVE used < Hdr + lens[d + 1]
    BY DEF ParseDone, ParsedInv
  <2>0. lens[d + 1] \in Lens
    BY NextMessageLemma
  <2>1. lens[d + 1] \in Nat /\ TotalSize(lens[d + 1]) = Hdr + lens[d + 1]
    BY <2>0, FitLemma
  <2>2. used \in Nat /\ Hdr \in Nat
    BY FramingAssumption DEF IInv, TypeOK
  <2>3. CASE used < Hdr
    BY <2>1, <2>2, <2>3
  <2>4. CASE ~(used < Hdr)
    <3>1. used > 0
      BY <2>2, <2>4, FramingAssumption
    <3>2. HeaderLengths = {lens[d + 1]}
      BY <3>1, HeaderLemma
    <3>3. ~Complete(lens[d + 1])
      BY <2>4, <3>2 DEF ParseDone
    <3> QED BY <2>1, <2>2, <3>3 DEF Complete
  <2> QED BY <2>3, <2>4
<1> QED BY <1>1, <1>2, <1>3 DEF IInv

\* The invariant is inductive.
LEMMA StepLemma ==
  ASSUME LensFit, IInv, [Next]_vars
  PROVE  IInv'
<1>1. CASE UNCHANGED vars
  <2>1. TypeOK' /\ DeliveredIsPrefix' /\ ParsedInv' /\ CloseOnlyAfterPeer'
    BY <1>1 DEF vars, IInv, TypeOK, DeliveredIsPrefix, ParsedInv, CloseOnlyAfterPeer
  <2>2. StreamInv' /\ BufferInv'
    BY <1>1 DEF vars, IInv, StreamInv, BufferInv, At
  <2> QED BY <2>1, <2>2 DEF IInv
<1>2. CASE Next
  BY <1>2, PeerSendsLemma, PeerClosesLemma, RecvDataLemma, RecvClosedLemma,
     ParseMessageLemma, ParseDoneLemma
  DEF Next, Task
<1> QED BY <1>1, <1>2

\* So it holds in every reachable state.
LEMMA Invariance == ASSUME LensFit PROVE Spec => []IInv
BY InitLemma, StepLemma, PTL DEF Spec

------------------------------------------------------------------------------
\* The stream and the buffer keep their types: rx_buffer_used never exceeds
\* DOIP_RX_BUFFER_SIZE and never wraps below zero.
THEOREM TypeCorrect == ASSUME LensFit PROVE Spec => []TypeOK
<1>1. IInv => TypeOK
  BY DEF IInv
<1> QED BY <1>1, Invariance, PTL

\* The parse loop keeps rx_buffer aligned with the byte stream, whatever pieces
\* tcp_recv returns.
THEOREM WindowKept == ASSUME LensFit PROVE Spec => []BufferIsWindow
<1>1. IInv => BufferIsWindow
  <2> SUFFICES ASSUME IInv PROVE base = wire \/ \E k \in DOMAIN starts : starts[k] = base
    BY DEF IInv, BufferInv, BufferIsWindow
  <2>1. CASE Len(delivered) < Len(lens)
    <3>1. Len(delivered) + 1 \in DOMAIN starts
      BY <2>1 DEF IInv, TypeOK, StreamInv
    <3>2. starts[Len(delivered) + 1] = base
      BY <2>1 DEF IInv, TypeOK, BufferInv, At
    <3> QED BY <3>1, <3>2
  <2>2. CASE ~(Len(delivered) < Len(lens))
    BY <2>2 DEF IInv, TypeOK, BufferInv, At
  <2> QED BY <2>1, <2>2
<1> QED BY <1>1, Invariance, PTL

\* tcp_callback is given the tester's messages in order, each once.
THEOREM DeliveredInOrder == ASSUME LensFit PROVE Spec => []DeliveredIsPrefix
<1>1. IInv => DeliveredIsPrefix
  BY DEF IInv
<1> QED BY <1>1, Invariance, PTL

\* A step of the receive path is a step of the channel, or none of its own.
LEMMA ChannelStep ==
  ASSUME LensFit, IInv, IInv', [Next]_vars
  PROVE  [Channel!Next]_(Channel!vars)
<1> DEFINE d == Len(delivered)
<1>1. CASE UNCHANGED vars
  BY <1>1 DEF vars, Channel!vars
<1>2. ASSUME NEW n \in Lens, PeerSends(n) PROVE Channel!Next
  BY <1>2 DEF PeerSends, Channel!Next, Channel!Send
<1>3. CASE PeerCloses
  BY <1>3 DEF PeerCloses, Channel!Next, Channel!CloseWriter
<1>4. ASSUME NEW k \in 1..BufSize, RecvData(k) PROVE UNCHANGED Channel!vars
  BY <1>4 DEF RecvData, Channel!vars
<1>5. CASE RecvClosed
  <2>1. conn = "open" /\ conn' = "closed" /\ UNCHANGED <<lens, delivered, peer>>
    BY <1>5 DEF RecvClosed
  <2>2. peer = "closed" /\ Len(delivered) = Len(lens)
    BY <2>1 DEF IInv, CloseOnlyAfterPeer
  <2>3. delivered = lens
    <3>1. delivered \in Seq(Lens) /\ lens \in Seq(Lens)
      BY DEF IInv, TypeOK
    <3>2. \A i \in 1..Len(delivered) : delivered[i] = lens[i]
      BY <3>1 DEF IInv, DeliveredIsPrefix
    <3> QED BY <2>2, <3>1, <3>2, SeqEqual
  <2> QED BY <2>1, <2>2, <2>3 DEF Channel!Next, Channel!CloseReader
<1>6. ASSUME NEW n \in Lens, ParseMessage(n) PROVE Channel!Next
  <2>1. conn = "open" /\ used > 0
    BY <1>6, FramingAssumption DEF ParseMessage, IInv, TypeOK, BufferInv
  <2>2. d < Len(lens) /\ n = lens[d + 1]
    BY <1>6, <2>1, HeaderLemma DEF ParseMessage
  <2>3. delivered' = Append(delivered, n) /\ UNCHANGED <<lens, peer, conn>>
    BY <1>6, FitLemma DEF ParseMessage, TakeMessage
  <2> QED BY <2>1, <2>2, <2>3 DEF Channel!Next, Channel!Receive
<1>7. CASE ParseDone
  BY <1>7 DEF ParseDone, Channel!vars
<1> QED BY <1>1, <1>2, <1>3, <1>4, <1>5, <1>6, <1>7 DEF Next, Task

\* doip_interface_process makes of the byte stream a channel of messages, for every
\* buffer size and every way tcp_recv cuts the stream.
THEOREM ChannelImplemented == ASSUME LensFit PROVE Spec => ImplementsChannel
<1>1. Init => Channel!Init
  BY DEF Init, Channel!Init
<1> QED BY <1>1, Invariance, ChannelStep, PTL DEF Spec, ImplementsChannel, Channel!Spec

\* A slot is reset by the receive loop only after the tester's own close, with
\* every message handed over.
THEOREM ClosedByPeerOnly == ASSUME LensFit PROVE Spec => []CloseOnlyAfterPeer
<1>1. IInv => CloseOnlyAfterPeer
  BY DEF IInv
<1> QED BY <1>1, Invariance, PTL
==============================================================================
