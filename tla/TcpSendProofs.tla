--------------------------- MODULE TcpSendProofs ---------------------------
(***************************************************************************)
(* Proofs about TcpSend, for any segment size, send buffer, windows,       *)
(* messages and limit of retransmissions, under loss, repetition and       *)
(* reordering of segments.                                                 *)
(*                                                                         *)
(* The queues are reasoned about as sets of segments (AllSegs): each step  *)
(* of the code moves segments from one queue to the other, adds some, cuts *)
(* one or frees some, and the first part has one lemma for what each of    *)
(* these does to the set, to the order and to the number of bytes of a     *)
(* queue.                                                                  *)
(***************************************************************************)
EXTENDS TcpSend, SequenceTheorems, WellFoundedInduction, TLAPS

Byte == Nat \X Nat \X Nat
Segment == [seq : Nat \ {0}, data : Seq(Byte)]

Apart(s, t) == End(s) <= t.seq \/ End(t) <= s.seq
Segs(q) == {q[i] : i \in DOMAIN q}
AllSegs == Segs(unsent) \union Segs(unacked)

\* Each byte of a segment is the one written for its sequence number.
Placed(s) == \A k \in 1..Len(s.data) : s.data[k] = written[s.seq + k - 1]

Types ==
  /\ unsent \in Seq(Segment) /\ unacked \in Seq(Segment)
  /\ snd_lbb \in Nat /\ snd_nxt \in Nat /\ lastack \in Nat \ {0} /\ snd_buf \in Nat
  /\ snd_wnd \in Nat /\ snd_wnd_max \in Nat /\ wnd \in Nat
  /\ net \subseteq Segment /\ got \in Seq(Byte) /\ written \in Seq(Byte) /\ msgs \in Nat
  /\ pcb # "open" => out = "idle"

\* The peer has what was written, and only what was sent.
StreamInv ==
  /\ snd_lbb = Len(written) + 1 /\ snd_nxt <= snd_lbb
  /\ Len(got) < snd_nxt /\ lastack <= Len(got) + 1
  /\ \A i \in 1..Len(got) : got[i] = written[i]
  /\ \A s \in net : Placed(s) /\ End(s) <= snd_nxt

\* The segments queued do not overlap, and none is larger than pcb->mss.
QueueInv ==
  /\ \A s \in AllSegs : /\ Placed(s) /\ End(s) <= snd_lbb
                        /\ Len(s.data) \in 1..Mss
  /\ \A s, t \in AllSegs : s # t => Apart(s, t)
  /\ Segs(unsent) \intersect Segs(unacked) = {}
  /\ Sorted(unsent) /\ Sorted(unacked)

CoverInv ==
  pcb # "removed" => \A p \in lastack..(snd_lbb - 1) :
                       \E s \in AllSegs : s.seq <= p /\ p < End(s)

SpaceInv == pcb # "removed" => snd_buf + Bytes(unsent) + Bytes(unacked) = SndBuf

\* tcp_output leaves the loop without a segment sent only if the first one did not fit.
TimerInv ==
  /\ persist => unacked = <<>>
  /\ unacked # <<>> => rtime
  /\ out = "loop" => ~persist /\ (unacked # <<>> \/ (unsent # <<>> /\ Fits(Head(unsent), wnd)))
  /\ Ready /\ Queued => rtime \/ persist

\* Segments acknowledged as a whole are freed; a split may leave one that ends before
\* lastack, and then the persist timer runs.
FrontInv == persist \/ \A s \in AllSegs : lastack <= End(s)

Follows(a, b) == IF a[2] = a[3] THEN b[2] = 1 ELSE b = <<a[1], a[2] + 1, a[3]>>

\* Whole messages were written.
AlignInv ==
  short \/ /\ \A i \in 2..Len(written) : Follows(written[i - 1], written[i])
           /\ written # <<>> => written[Len(written)][2] = written[Len(written)][3]

Core ==
  /\ Types /\ StreamInv /\ QueueInv /\ CoverInv /\ SpaceInv /\ TimerInv /\ FrontInv /\ AlignInv

\* Once data was queued out of place nothing is claimed.
IInv == mixed \/ Core

----------------------------------------------------------------------------
\* Sums.

\* A set of numbers that is not empty has a least element: induction, as the
\* absence of a least counterexample.
LEMMA LeastElement ==
  ASSUME NEW T, T \subseteq Nat, T # {}
  PROVE  \E i \in T : \A j \in T : i <= j
<1> DEFINE R == {ss \in Nat \X Nat : ss[1] < ss[2]}
<1>1. IsWellFoundedOn(R, Nat)
  BY NatLessThanWellFounded DEF OpToRel
<1> HIDE DEF R
<1>2. PICK i \in T : \A j \in T : ~(<<j, i>> \in R)
  BY <1>1, WFMin
<1>3. \A j \in T : ~(j < i)
  BY <1>2 DEF R
<1> QED BY <1>3

\* The partial sums f of the lengths of the first n segments of q.
Sums(f, q, n) == f = [k \in 0..n |-> IF k = 0 THEN 0 ELSE f[k - 1] + Len(q[k].data)]

LEMMA SumsExist ==
  ASSUME NEW q, NEW n \in Nat
  PROVE  \E f : Sums(f, q, n)
<1> DEFINE Bad == {m \in 0..n : ~\E f : Sums(f, q, m)}
<1> SUFFICES ASSUME ~\E f : Sums(f, q, n) PROVE FALSE
  OBVIOUS
<1>1. n \in Bad /\ Bad \subseteq Nat
  OBVIOUS
<1>2. PICK m \in Bad : \A j \in Bad : m <= j
  <2> HIDE DEF Bad
  <2> QED BY <1>1, LeastElement
<1>3. CASE m = 0
  <2>1. Sums([k \in 0..0 |-> 0], q, 0)
    BY DEF Sums
  <2> QED BY <1>3, <2>1
<1>4. CASE m # 0
  <2>1. PICK f : Sums(f, q, m - 1)
    BY <1>2, <1>4
  <2> DEFINE g == [k \in 0..m |-> IF k = m THEN f[m - 1] + Len(q[m].data) ELSE f[k]]
  <2>2. \A k \in 0..m : g[k] = IF k = 0 THEN 0 ELSE g[k - 1] + Len(q[k].data)
    BY <1>4, <2>1 DEF Sums
  <2>3. Sums(g, q, m)
    BY <2>2 DEF Sums
  <2> QED BY <2>3
<1> QED BY <1>3, <1>4

LEMMA SumsType ==
  ASSUME NEW q, NEW n \in Nat, NEW f, Sums(f, q, n), \A k \in 1..n : Len(q[k].data) \in Nat
  PROVE  \A k \in 0..n : f[k] \in Nat
<1> DEFINE Bad == {m \in 0..n : f[m] \notin Nat}
<1> SUFFICES ASSUME Bad # {} PROVE FALSE
  OBVIOUS
<1>1. Bad \subseteq Nat
  OBVIOUS
<1>2. PICK m \in Bad : \A j \in Bad : m <= j
  <2> HIDE DEF Bad
  <2> QED BY <1>1, LeastElement
<1>3. CASE m = 0
  BY <1>2, <1>3 DEF Sums
<1>4. CASE m # 0
  <2>1. f[m - 1] \in Nat
    BY <1>2, <1>4
  <2>2. f[m] = f[m - 1] + Len(q[m].data)
    BY <1>2, <1>4 DEF Sums
  <2> QED BY <1>2, <1>4, <2>1, <2>2
<1> QED BY <1>3, <1>4

\* g and h are the sums of r and t, and t has the segments of r from position a on.
Embeds(t, N, h, r, n, g, a) ==
  /\ n \in Nat /\ N \in Nat /\ a \in Nat /\ a + n <= N
  /\ Sums(g, r, n) /\ \A k \in 1..n : Len(r[k].data) \in Nat
  /\ Sums(h, t, N) /\ \A k \in 1..N : Len(t[k].data) \in Nat
  /\ \A k \in 1..n : t[a + k] = r[k]

\* Then the sums of t grow by those of r.
LEMMA SumsShift ==
  ASSUME NEW t, NEW N, NEW h, NEW r, NEW n, NEW g, NEW a, Embeds(t, N, h, r, n, g, a)
  PROVE  h[a + n] = h[a] + g[n]
<1> USE DEF Embeds
<1> DEFINE Bad == {m \in 0..n : h[a + m] # h[a] + g[m]}
<1> SUFFICES ASSUME n \in Bad PROVE FALSE
  OBVIOUS
<1>1. Bad \subseteq Nat
  OBVIOUS
<1>2. PICK m \in Bad : \A j \in Bad : m <= j
  <2> HIDE DEF Bad
  <2> QED BY <1>1, LeastElement
<1>a. (\A k \in 0..n : g[k] \in Nat) /\ (\A k \in 0..N : h[k] \in Nat)
  <2>1. \A k \in 0..n : g[k] \in Nat
    BY SumsType
  <2>2. \A k \in 0..N : h[k] \in Nat
    BY SumsType
  <2> QED BY <2>1, <2>2
<1>3. CASE m = 0
  <2>1. g[0] = 0
    BY DEF Sums
  <2> QED BY <1>2, <1>3, <1>a, <2>1
<1>4. CASE m # 0
  <2>1. h[a + (m - 1)] = h[a] + g[m - 1]
    BY <1>2, <1>4
  <2>2. g[m] = g[m - 1] + Len(r[m].data)
    BY <1>2, <1>4 DEF Sums
  <2>3. h[a + m] = h[a + m - 1] + Len(t[a + m].data)
    BY <1>2, <1>4 DEF Sums
  <2>4. t[a + m] = r[m] /\ a + m - 1 = a + (m - 1) /\ m \in 1..n
    BY <1>2, <1>4
  <2>5. h[a] \in Nat /\ g[m - 1] \in Nat /\ Len(r[m].data) \in Nat
    BY <1>a, <2>4
  <2> QED BY <1>2, <2>1, <2>2, <2>3, <2>4, <2>5, SMTT(30)
<1> QED BY <1>3, <1>4

\* Bytes is the last of the partial sums.
LEMMA BytesSums ==
  ASSUME NEW q \in Seq(Segment)
  PROVE  \E f : Sums(f, q, Len(q)) /\ Bytes(q) = f[Len(q)]
<1> DEFINE f == CHOOSE g : Sums(g, q, Len(q))
<1>1. Sums(f, q, Len(q))
  BY SumsExist
<1>2. Bytes(q) = f[Len(q)]
  BY DEF Bytes, Sums
<1> QED BY <1>1, <1>2

LEMMA SegmentType ==
  ASSUME NEW q \in Seq(Segment), NEW i \in 1..Len(q)
  PROVE  q[i] \in Segment /\ q[i].data \in Seq(Byte) /\ Len(q[i].data) \in Nat /\ q[i].seq \in Nat \ {0}
<1>1. q[i] \in Segment
  OBVIOUS
<1>2. q[i].data \in Seq(Byte) /\ q[i].seq \in Nat \ {0}
  BY <1>1 DEF Segment
<1> QED BY <1>1, <1>2

LEMMA BytesConcat ==
  ASSUME NEW q \in Seq(Segment), NEW r \in Seq(Segment)
  PROVE  Bytes(q \o r) = Bytes(q) + Bytes(r)
<1>1. PICK f : Sums(f, q, Len(q)) /\ Bytes(q) = f[Len(q)]
  BY BytesSums
<1>2. PICK g : Sums(g, r, Len(r)) /\ Bytes(r) = g[Len(r)]
  BY BytesSums
<1> DEFINE m == Len(q)
           n == Len(r)
           t == q \o r
<1>3. m \in Nat /\ n \in Nat /\ t \in Seq(Segment) /\ Len(t) = m + n
  OBVIOUS
<1>4. PICK h : Sums(h, t, m + n) /\ Bytes(t) = h[m + n]
  <2> HIDE DEF t, m, n
  <2> QED BY <1>3, BytesSums
<1>5. /\ \A k \in 1..m : Len(q[k].data) \in Nat
      /\ \A k \in 1..n : Len(r[k].data) \in Nat
      /\ \A k \in 1..(m + n) : Len(t[k].data) \in Nat
  <2>1. \A k \in 1..(m + n) : Len(t[k].data) \in Nat
    <3> HIDE DEF t, m, n
    <3> QED BY <1>3, SegmentType
  <2> QED BY <2>1, SegmentType
<1>6. /\ \A k \in 1..m : t[0 + k] = q[k]
      /\ \A k \in 1..n : t[m + k] = r[k]
  OBVIOUS
<1>0. Sums(f, q, m) /\ Sums(g, r, n) /\ Bytes(q) = f[m] /\ Bytes(r) = g[n]
  BY <1>1, <1>2
<1> HIDE DEF t, m, n
<1>7. h[0 + m] = h[0] + f[m]
  <2>1. Embeds(t, m + n, h, q, m, f, 0)
    BY <1>0, <1>3, <1>4, <1>5, <1>6 DEF Embeds
  <2> QED BY <2>1, SumsShift
<1>8. h[m + n] = h[m] + g[n]
  <2>1. Embeds(t, m + n, h, r, n, g, m)
    BY <1>0, <1>3, <1>4, <1>5, <1>6 DEF Embeds
  <2> QED BY <2>1, SumsShift
<1>9. h[0] = 0 /\ f[m] \in Nat /\ g[n] \in Nat
  <2>1. h[0] = 0
    BY <1>3, <1>4 DEF Sums
  <2>2. \A k \in 0..m : f[k] \in Nat
    BY <1>0, <1>3, <1>5, SumsType
  <2>3. \A k \in 0..n : g[k] \in Nat
    BY <1>0, <1>3, <1>5, SumsType
  <2> QED BY <1>3, <2>1, <2>2, <2>3
<1>10. Bytes(t) = f[m] + g[n]
  BY <1>3, <1>4, <1>7, <1>8, <1>9
<1> QED BY <1>0, <1>10 DEF t

LEMMA BytesType ==
  ASSUME NEW q \in Seq(Segment)
  PROVE  Bytes(q) \in Nat
<1>1. PICK f : Sums(f, q, Len(q)) /\ Bytes(q) = f[Len(q)]
  BY BytesSums
<1>2. \A k \in 1..Len(q) : Len(q[k].data) \in Nat
  BY SegmentType
<1>3. \A k \in 0..Len(q) : f[k] \in Nat
  BY <1>1, <1>2, SumsType
<1> QED BY <1>1, <1>3

LEMMA BytesOfNone == Bytes(<<>>) = 0
<1>0. <<>> \in Seq(Segment) /\ Len(<<>>) = 0
  OBVIOUS
<1>1. PICK f : Sums(f, <<>>, 0) /\ Bytes(<<>>) = f[0]
  BY <1>0, BytesSums
<1>2. f[0] = 0
  BY <1>1 DEF Sums
<1> QED BY <1>1, <1>2

LEMMA BytesOfOne ==
  ASSUME NEW s \in Segment
  PROVE  Bytes(<<s>>) = Len(s.data)
<1>0. <<s>> \in Seq(Segment) /\ Len(<<s>>) = 1
  OBVIOUS
<1>1. PICK f : Sums(f, <<s>>, 1) /\ Bytes(<<s>>) = f[1]
  BY <1>0, BytesSums
<1>2. f[0] = 0 /\ f[1] = f[0] + Len(s.data)
  BY <1>1 DEF Sums
<1> QED BY <1>1, <1>2 DEF Segment

----------------------------------------------------------------------------
\* Queues.

LEMMA EndType ==
  ASSUME NEW s \in Segment
  PROVE  s.seq \in Nat \ {0} /\ Len(s.data) \in Nat /\ End(s) \in Nat /\ End(s) = s.seq + Len(s.data)
<1>1. s.seq \in Nat \ {0} /\ s.data \in Seq(Byte)
  BY DEF Segment
<1> QED BY <1>1 DEF End

LEMMA SegsConcat ==
  ASSUME NEW q \in Seq(Segment), NEW r \in Seq(Segment)
  PROVE  Segs(q \o r) = Segs(q) \union Segs(r)
<1>1. \A i \in 1..Len(q) : (q \o r)[i] = q[i]
  OBVIOUS
<1>2. \A i \in 1..Len(r) : (q \o r)[Len(q) + i] = r[i]
  OBVIOUS
<1>3. \A i \in 1..Len(q) + Len(r) : i \in 1..Len(q) \/ (i - Len(q) \in 1..Len(r) /\ i = Len(q) + (i - Len(q)))
  OBVIOUS
<1>4. DOMAIN (q \o r) = 1..Len(q) + Len(r) /\ DOMAIN q = 1..Len(q) /\ DOMAIN r = 1..Len(r)
  OBVIOUS
<1>5. Segs(q \o r) \subseteq Segs(q) \union Segs(r)
  BY <1>1, <1>2, <1>3, <1>4 DEF Segs
<1>6. Segs(q) \subseteq Segs(q \o r)
  BY <1>1, <1>4 DEF Segs
<1>7. Segs(r) \subseteq Segs(q \o r)
  <2> SUFFICES ASSUME NEW i \in 1..Len(r) PROVE r[i] \in Segs(q \o r)
    BY <1>4 DEF Segs
  <2>1. Len(q) + i \in DOMAIN (q \o r) /\ (q \o r)[Len(q) + i] = r[i]
    BY <1>2, <1>4
  <2> QED BY <2>1 DEF Segs
<1> QED BY <1>5, <1>6, <1>7

LEMMA SegsType ==
  ASSUME NEW q \in Seq(Segment)
  PROVE  Segs(q) \subseteq Segment
BY DEF Segs

LEMMA SegsOfOne ==
  ASSUME NEW s
  PROVE  Segs(<<s>>) = {s}
BY DEF Segs

\* Two sorted queues, the second behind the first.
LEMMA SortedConcat ==
  ASSUME NEW q \in Seq(Segment), NEW r \in Seq(Segment), Sorted(q), Sorted(r),
         \A s \in Segs(q), t \in Segs(r) : End(s) <= t.seq
  PROVE  Sorted(q \o r)
<1> DEFINE u == q \o r
<1> SUFFICES ASSUME NEW i \in DOMAIN u, NEW j \in DOMAIN u, i < j
             PROVE  End(u[i]) <= u[j].seq
  BY DEF Sorted
<1>1. /\ DOMAIN u = 1..Len(q) + Len(r) /\ DOMAIN q = 1..Len(q) /\ DOMAIN r = 1..Len(r)
      /\ Len(q) \in Nat /\ Len(r) \in Nat
  OBVIOUS
<1>2. \A k \in DOMAIN u : IF k <= Len(q) THEN u[k] = q[k] /\ k \in DOMAIN q
                          ELSE u[k] = r[k - Len(q)] /\ k - Len(q) \in DOMAIN r
  BY <1>1
<1> HIDE DEF u
<1>3. CASE j <= Len(q)
  <2>1. i <= Len(q)
    BY <1>1, <1>3
  <2> QED BY <1>2, <1>3, <2>1 DEF Sorted
<1>4. CASE i <= Len(q) /\ ~(j <= Len(q))
  <2>1. u[i] \in Segs(q) /\ u[j] \in Segs(r)
    BY <1>2, <1>4 DEF Segs
  <2> QED BY <2>1
<1>5. CASE ~(i <= Len(q)) /\ ~(j <= Len(q))
  <2>1. i - Len(q) < j - Len(q)
    BY <1>1
  <2> QED BY <1>2, <1>5, <2>1 DEF Sorted
<1> QED BY <1>3, <1>4, <1>5, <1>1

\* A queue cut in two.
LEMMA Cut ==
  ASSUME NEW q \in Seq(Segment), NEW n \in 0..Len(q)
  PROVE  LET a == SubSeq(q, 1, n)
             b == SubSeq(q, n + 1, Len(q))
         IN  /\ a \in Seq(Segment) /\ b \in Seq(Segment) /\ q = a \o b
             /\ Len(a) = n /\ Len(b) = Len(q) - n
             /\ \A i \in 1..n : a[i] = q[i]
             /\ \A i \in 1..(Len(q) - n) : b[i] = q[n + i]
             /\ Segs(q) = Segs(a) \union Segs(b)
             /\ Bytes(q) = Bytes(a) + Bytes(b)
             /\ Sorted(q) => /\ Sorted(a) /\ Sorted(b)
                             /\ \A s \in Segs(a), t \in Segs(b) : End(s) <= t.seq
<1> DEFINE a == SubSeq(q, 1, n)
           b == SubSeq(q, n + 1, Len(q))
<1>1. /\ a \in Seq(Segment) /\ Len(a) = n
      /\ \A i \in 1..n : a[i] = q[i]
  OBVIOUS
<1>2. /\ b \in Seq(Segment) /\ Len(b) = Len(q) - n
      /\ \A i \in 1..(Len(q) - n) : b[i] = q[n + i]
  OBVIOUS
<1> HIDE DEF a, b
<1>3. q = a \o b
  <2>0. Len(q) \in Nat /\ n \in Nat /\ n <= Len(q) /\ Len(a) + Len(b) = Len(q)
    BY <1>1, <1>2
  <2>1. Len(a \o b) = Len(q) /\ a \o b \in Seq(Segment)
    <3>1. a \in Seq(Segment) /\ b \in Seq(Segment)
      BY <1>1, <1>2
    <3>2. a \o b \in Seq(Segment) /\ Len(a \o b) = Len(a) + Len(b)
      BY <3>1
    <3> QED BY <2>0, <3>2
  <2>2. \A i \in 1..Len(q) : (a \o b)[i] = q[i]
    <3> SUFFICES ASSUME NEW i \in 1..Len(q) PROVE (a \o b)[i] = q[i]
      OBVIOUS
    <3>1. (a \o b)[i] = IF i <= n THEN a[i] ELSE b[i - n]
      BY <1>1, <1>2, <2>0, ConcatProperties
    <3>2. CASE i <= n
      BY <1>1, <2>0, <3>1, <3>2
    <3>3. CASE ~(i <= n)
      <4>1. i - n \in 1..(Len(q) - n) /\ n + (i - n) = i
        BY <2>0, <3>3
      <4> QED BY <1>2, <3>1, <3>3, <4>1
    <3> QED BY <3>2, <3>3
  <2> QED BY <2>1, <2>2, SeqEqual
<1>4. Segs(q) = Segs(a) \union Segs(b)
  BY <1>1, <1>2, <1>3, SegsConcat
<1>5. Bytes(q) = Bytes(a) + Bytes(b)
  BY <1>1, <1>2, <1>3, BytesConcat
<1>6. ASSUME Sorted(q)
      PROVE  /\ Sorted(a) /\ Sorted(b)
             /\ \A s \in Segs(a), t \in Segs(b) : End(s) <= t.seq
  <2>0. DOMAIN q = 1..Len(q) /\ DOMAIN a = 1..n /\ DOMAIN b = 1..(Len(q) - n) /\ Len(q) \in Nat
    BY <1>1, <1>2
  <2>1. Sorted(a)
    <3> SUFFICES ASSUME NEW i \in 1..n, NEW j \in 1..n, i < j PROVE End(a[i]) <= a[j].seq
      BY <2>0 DEF Sorted
    <3>1. i \in DOMAIN q /\ j \in DOMAIN q
      BY <2>0
    <3> QED BY <1>1, <1>6, <3>1 DEF Sorted
  <2>2. Sorted(b)
    <3> SUFFICES ASSUME NEW i \in 1..(Len(q) - n), NEW j \in 1..(Len(q) - n), i < j
                 PROVE  End(b[i]) <= b[j].seq
      BY <2>0 DEF Sorted
    <3>1. n + i \in DOMAIN q /\ n + j \in DOMAIN q /\ n + i < n + j
      BY <2>0
    <3> QED BY <1>2, <1>6, <3>1 DEF Sorted
  <2>3. \A i \in 1..n, j \in 1..(Len(q) - n) : End(a[i]) <= b[j].seq
    <3> SUFFICES ASSUME NEW i \in 1..n, NEW j \in 1..(Len(q) - n) PROVE End(a[i]) <= b[j].seq
      OBVIOUS
    <3>1. i \in DOMAIN q /\ n + j \in DOMAIN q /\ i < n + j
      BY <2>0
    <3> QED BY <1>1, <1>2, <1>6, <3>1 DEF Sorted
  <2> QED BY <2>0, <2>1, <2>2, <2>3 DEF Segs
<1> QED BY <1>1, <1>2, <1>3, <1>4, <1>5, <1>6 DEF a, b

LEMMA MinLemma ==
  ASSUME NEW I, I \subseteq Nat, I # {}
  PROVE  Min(I) \in I /\ \A j \in I : Min(I) <= j
BY LeastElement DEF Min

\* The first segment and the rest.
LEMMA HeadTail ==
  ASSUME NEW q \in Seq(Segment), q # <<>>
  PROVE  /\ Head(q) \in Segment /\ Tail(q) \in Seq(Segment)
         /\ Segs(q) = {Head(q)} \union Segs(Tail(q))
         /\ Bytes(q) = Len(Head(q).data) + Bytes(Tail(q))
         /\ Sorted(q) => /\ Sorted(Tail(q))
                         /\ \A t \in Segs(Tail(q)) : End(Head(q)) <= t.seq
<1>1. 1 \in 0..Len(q) /\ Head(q) = q[1] /\ q[1] \in Segment
  OBVIOUS
<1>2. SubSeq(q, 1, 1) = <<Head(q)>> /\ SubSeq(q, 1 + 1, Len(q)) = Tail(q)
  <2>1. SubSeq(q, 2, Len(q)) = Tail(q)
    BY TailIsSubSeq
  <2>2. SubSeq(q, 1, 1) = <<q[1]>>
    <3>1. /\ SubSeq(q, 1, 1) \in Seq(Segment) /\ Len(SubSeq(q, 1, 1)) = 1
          /\ SubSeq(q, 1, 1)[1] = q[1]
      BY <1>1
    <3>2. <<q[1]>> \in Seq(Segment) /\ Len(<<q[1]>>) = 1 /\ <<q[1]>>[1] = q[1]
      BY <1>1
    <3>3. \A i \in 1..1 : i = 1
      OBVIOUS
    <3> QED BY <3>1, <3>2, <3>3, SeqEqual
  <2> QED BY <1>1, <2>1, <2>2
<1>3. Tail(q) \in Seq(Segment)
  OBVIOUS
<1>4. Segs(<<Head(q)>>) = {Head(q)} /\ Bytes(<<Head(q)>>) = Len(Head(q).data)
  BY <1>1, SegsOfOne, BytesOfOne
<1>5. /\ Segs(q) = Segs(<<Head(q)>>) \union Segs(Tail(q))
      /\ Bytes(q) = Bytes(<<Head(q)>>) + Bytes(Tail(q))
      /\ Sorted(q) => /\ Sorted(Tail(q))
                      /\ \A s \in Segs(<<Head(q)>>), t \in Segs(Tail(q)) : End(s) <= t.seq
  <2> DEFINE a == SubSeq(q, 1, 1)
             b == SubSeq(q, 1 + 1, Len(q))
  <2>1. /\ Segs(q) = Segs(a) \union Segs(b)
        /\ Bytes(q) = Bytes(a) + Bytes(b)
        /\ Sorted(q) => /\ Sorted(b)
                        /\ \A s \in Segs(a), t \in Segs(b) : End(s) <= t.seq
    BY <1>1, Cut
  <2>2. a = <<Head(q)>> /\ b = Tail(q)
    BY <1>2
  <2> HIDE DEF a, b
  <2> QED BY <2>1, <2>2
<1> QED BY <1>1, <1>3, <1>4, <1>5

\* A queue with s at its end.
LEMMA AppendLemma ==
  ASSUME NEW q \in Seq(Segment), NEW s \in Segment
  PROVE  /\ Append(q, s) \in Seq(Segment) /\ Append(q, s) # <<>>
         /\ Segs(Append(q, s)) = Segs(q) \union {s}
         /\ Bytes(Append(q, s)) = Bytes(q) + Len(s.data)
         /\ Sorted(q) /\ (\A t \in Segs(q) : End(t) <= s.seq) => Sorted(Append(q, s))
<1>1. Append(q, s) = q \o <<s>> /\ <<s>> \in Seq(Segment) /\ Append(q, s) \in Seq(Segment)
  BY AppendIsConcat
<1>2. Append(q, s) # <<>>
  BY AppendProperties
<1>3. Segs(<<s>>) = {s} /\ Bytes(<<s>>) = Len(s.data)
  BY SegsOfOne, BytesOfOne
<1>4. Segs(Append(q, s)) = Segs(q) \union {s} /\ Bytes(Append(q, s)) = Bytes(q) + Len(s.data)
  BY <1>1, <1>3, SegsConcat, BytesConcat
<1>5. Sorted(<<s>>)
  BY DEF Sorted
<1>6. ASSUME Sorted(q), \A t \in Segs(q) : End(t) <= s.seq
      PROVE  Sorted(Append(q, s))
  <2>1. \A t \in Segs(q), u \in Segs(<<s>>) : End(t) <= u.seq
    BY <1>3, <1>6
  <2>2. Sorted(q \o <<s>>)
    BY <1>1, <1>5, <1>6, <2>1, SortedConcat
  <2> QED BY <1>1, <2>2
<1> QED BY <1>1, <1>2, <1>4, <1>6

\* "Keep the unsent queue sorted."
LEMMA InsertLemma ==
  ASSUME NEW q \in Seq(Segment), NEW s \in Segment, Sorted(q), Len(s.data) > 0,
         \A t \in Segs(q) : Apart(s, t) /\ Len(t.data) > 0
  PROVE  /\ InsertSeg(q, s) \in Seq(Segment) /\ InsertSeg(q, s) # <<>>
         /\ Segs(InsertSeg(q, s)) = Segs(q) \union {s}
         /\ Bytes(InsertSeg(q, s)) = Bytes(q) + Len(s.data)
         /\ Sorted(InsertSeg(q, s))
<1> DEFINE I == {i \in 1..Len(q) : q[i].seq >= s.seq}
<1>0. I \subseteq Nat /\ Len(q) \in Nat /\ DOMAIN q = 1..Len(q)
  OBVIOUS
<1>1. CASE I = {}
  <2>1. InsertSeg(q, s) = Append(q, s)
    BY <1>1 DEF InsertSeg, SelectInSeq
  <2>2. \A t \in Segs(q) : End(t) <= s.seq
    <3> SUFFICES ASSUME NEW i \in 1..Len(q) PROVE End(q[i]) <= s.seq
      BY <1>0 DEF Segs
    <3>1. q[i] \in Segment /\ q[i] \in Segs(q)
      BY <1>0 DEF Segs
    <3>2. ~(q[i].seq >= s.seq)
      BY <1>1
    <3> QED BY <3>1, <3>2, EndType, SMTT(30) DEF Apart
  <2> QED BY <2>1, <2>2, AppendLemma
<1>2. CASE I # {}
  <2> DEFINE m == Min(I)
             n == m - 1
             a == SubSeq(q, 1, n)
             b == SubSeq(q, n + 1, Len(q))
  <2>1. m \in I /\ \A j \in I : m <= j
    BY <1>0, <1>2, MinLemma
  <2>2. n \in 0..Len(q) /\ m \in 1..Len(q) /\ n + 1 = m
    BY <1>0, <2>1
  <2>3. InsertSeg(q, s) = (a \o <<s>>) \o b
    <3>1. InsertSeg(q, s) = InsertAt(q, m, s)
      BY <1>2, <2>2 DEF InsertSeg, SelectInSeq
    <3> QED BY <2>2, <3>1 DEF InsertAt
  <2>4. /\ a \in Seq(Segment) /\ b \in Seq(Segment) /\ Len(a) = n
        /\ \A i \in 1..n : a[i] = q[i]
        /\ Len(b) = Len(q) - n /\ \A i \in 1..(Len(q) - n) : b[i] = q[n + i]
        /\ Segs(q) = Segs(a) \union Segs(b)
        /\ Bytes(q) = Bytes(a) + Bytes(b) /\ Sorted(a) /\ Sorted(b)
        /\ \A u \in Segs(a), v \in Segs(b) : End(u) <= v.seq
    BY <2>2, Cut
  <2> HIDE DEF m, n, a, b, I
  <2>5. \A t \in Segs(a) : End(t) <= s.seq
    <3> SUFFICES ASSUME NEW i \in 1..n PROVE End(a[i]) <= s.seq
      BY <2>4 DEF Segs
    <3>1. i \in 1..Len(q) /\ ~(m <= i) /\ a[i] = q[i]
      BY <1>0, <2>2, <2>4
    <3>2. q[i] \in Segment /\ q[i] \in Segs(q)
      BY <1>0, <3>1 DEF Segs
    <3>3. ~(q[i].seq >= s.seq)
      BY <2>1, <3>1 DEF I
    <3> QED BY <3>1, <3>2, <3>3, EndType DEF Apart
  <2>6. \A t \in Segs(b) : End(s) <= t.seq
    <3>1. End(s) <= q[m].seq
      <4>1. q[m] \in Segment /\ q[m] \in Segs(q)
        BY <1>0, <2>2 DEF Segs
      <4>2. q[m].seq >= s.seq
        BY <2>1 DEF I
      <4>3. /\ s.seq \in Nat /\ q[m].seq \in Nat
            /\ End(q[m]) = q[m].seq + Len(q[m].data) /\ Len(q[m].data) \in Nat
        BY <4>1, EndType
      <4>4. Len(q[m].data) > 0 /\ (End(s) <= q[m].seq \/ End(q[m]) <= s.seq)
        BY <4>1 DEF Apart
      <4> QED BY <4>2, <4>3, <4>4
    <3> SUFFICES ASSUME NEW i \in 1..(Len(q) - n) PROVE End(s) <= b[i].seq
      BY <2>4 DEF Segs
    <3>2. n + i \in 1..Len(q) /\ b[i] = q[n + i] /\ (n + i = m \/ m < n + i)
      BY <1>0, <2>2, <2>4
    <3>3. CASE n + i = m
      BY <3>1, <3>2, <3>3
    <3>4. CASE m < n + i
      <4>1. End(q[m]) <= q[n + i].seq
        BY <1>0, <2>2, <3>2, <3>4 DEF Sorted
      <4>2. q[m] \in Segment /\ q[n + i] \in Segment
        BY <2>2, <3>2
      <4>3. /\ End(s) \in Nat /\ q[m].seq \in Nat /\ q[n + i].seq \in Nat
            /\ End(q[m]) = q[m].seq + Len(q[m].data) /\ Len(q[m].data) \in Nat
        BY <4>2, EndType
      <4> QED BY <3>1, <3>2, <4>1, <4>3
    <3> QED BY <3>2, <3>3, <3>4
  <2> DEFINE c == Append(a, s)
  <2>7. c = a \o <<s>>
    BY <2>4, AppendIsConcat
  <2>8. /\ c \in Seq(Segment) /\ c # <<>> /\ Segs(c) = Segs(a) \union {s}
        /\ Bytes(c) = Bytes(a) + Len(s.data) /\ Sorted(c)
    BY <2>4, <2>5, AppendLemma
  <2> HIDE DEF c
  <2>9. \A u \in Segs(c), v \in Segs(b) : End(u) <= v.seq
    BY <2>4, <2>6, <2>8
  <2>10. /\ c \o b \in Seq(Segment) /\ c \o b # <<>> /\ Segs(c \o b) = Segs(c) \union Segs(b)
         /\ Bytes(c \o b) = Bytes(c) + Bytes(b) /\ Sorted(c \o b)
    <3>1. c \o b \in Seq(Segment) /\ c \o b # <<>>
      BY <2>4, <2>8, ConcatEqualIffEmpty
    <3> QED BY <3>1, <2>4, <2>8, <2>9, SegsConcat, BytesConcat, SortedConcat
  <2>11. InsertSeg(q, s) = c \o b
    BY <2>3, <2>7
  <2>12. Bytes(a) \in Nat /\ Bytes(b) \in Nat /\ Len(s.data) \in Nat
    BY <2>4, BytesType, EndType
  <2>13. Bytes(c \o b) = Bytes(q) + Len(s.data)
    BY <2>4, <2>8, <2>10, <2>12
  <2>14. Segs(c \o b) = Segs(q) \union {s}
    BY <2>4, <2>8, <2>10
  <2> QED BY <2>10, <2>11, <2>13, <2>14
<1> QED BY <1>1, <1>2

\* tcp_free_acked_segments: a prefix of the queue goes, exactly the segments
\* acknowledged as a whole.
LEMMA KeptLemma ==
  ASSUME NEW q \in Seq(Segment), Sorted(q), NEW ackno \in Nat
  PROVE  /\ Kept(q, ackno) \in Seq(Segment) /\ Sorted(Kept(q, ackno))
         /\ Segs(Kept(q, ackno)) = {s \in Segs(q) : End(s) > ackno}
         /\ Bytes(q) = Bytes(Freed(q, ackno)) + Bytes(Kept(q, ackno))
         /\ Bytes(Freed(q, ackno)) \in Nat
<1> DEFINE I == {i \in 1..Len(q) : End(q[i]) > ackno}
           n == IF I = {} THEN Len(q) ELSE Min(I) - 1
           a == SubSeq(q, 1, n)
           b == SubSeq(q, n + 1, Len(q))
<1>0. I \subseteq Nat /\ Len(q) \in Nat /\ DOMAIN q = 1..Len(q)
  OBVIOUS
<1>1. I # {} => Min(I) \in I /\ \A j \in I : Min(I) <= j
  BY <1>0, MinLemma
<1>2. n \in 0..Len(q)
  <2>1. CASE I = {}
    BY <1>0, <2>1
  <2>2. CASE I # {}
    BY <1>0, <1>1, <2>2
  <2> QED BY <2>1, <2>2
<1>3. Freed(q, ackno) = a
  <2>1. CASE I = {}
    <3>1. Freed(q, ackno) = q
      BY <2>1 DEF Freed, SelectInSeq
    <3> QED BY <2>1, <3>1, SubSeqFull
  <2>2. CASE I # {}
    <3>1. Min(I) # 0
      BY <1>1, <2>2
    <3> QED BY <2>2, <3>1 DEF Freed, SelectInSeq
  <2> QED BY <2>1, <2>2
<1>4. \A i \in 1..n : ~(End(q[i]) > ackno)
  <2>1. CASE I = {}
    BY <2>1
  <2>2. CASE I # {}
    <3> SUFFICES ASSUME NEW i \in 1..n, End(q[i]) > ackno PROVE FALSE
      OBVIOUS
    <3>1. i \in I
      BY <1>0, <1>2
    <3>2. Min(I) <= i /\ Min(I) \in Nat /\ i <= Min(I) - 1 /\ i \in Nat
      BY <1>0, <1>1, <2>2, <3>1
    <3> HIDE DEF I
    <3> QED BY <3>2
  <2> QED BY <2>1, <2>2
<1>5. \A i \in (n + 1)..Len(q) : End(q[i]) > ackno
  <2>1. CASE I = {}
    BY <1>0, <2>1
  <2>2. CASE I # {}
    <3> DEFINE m == Min(I)
    <3>1. m \in 1..Len(q) /\ End(q[m]) > ackno /\ n + 1 = m
      BY <1>0, <1>1, <2>2
    <3> SUFFICES ASSUME NEW i \in m..Len(q) PROVE End(q[i]) > ackno
      BY <3>1
    <3> HIDE DEF m
    <3>2. CASE i = m
      BY <3>1, <3>2
    <3>3. CASE m < i
      <4>1. i \in 1..Len(q)
        BY <1>0, <3>1
      <4>2. End(q[m]) <= q[i].seq
        BY <1>0, <3>1, <3>3, <4>1 DEF Sorted
      <4>3. /\ End(q[m]) \in Nat /\ q[i].seq \in Nat /\ Len(q[i].data) \in Nat
            /\ End(q[i]) = q[i].seq + Len(q[i].data)
        BY <3>1, <4>1, EndType
      <4> QED BY <3>1, <4>2, <4>3
    <3> QED BY <1>0, <3>1, <3>2, <3>3
  <2> QED BY <2>1, <2>2
<1> HIDE DEF n
<1>6. /\ a \in Seq(Segment) /\ b \in Seq(Segment) /\ Len(a) = n /\ Len(b) = Len(q) - n
      /\ \A i \in 1..n : a[i] = q[i]
      /\ \A i \in 1..(Len(q) - n) : b[i] = q[n + i]
      /\ Segs(q) = Segs(a) \union Segs(b)
      /\ Bytes(q) = Bytes(a) + Bytes(b) /\ Sorted(b)
  BY <1>2, Cut
<1>7. Kept(q, ackno) = b
  BY <1>3, <1>6 DEF Kept
<1> HIDE DEF a, b, I
<1>8. Segs(b) = {s \in Segs(q) : End(s) > ackno}
  <2>1. \A s \in Segs(a) : ~(End(s) > ackno)
    <3> SUFFICES ASSUME NEW i \in 1..n PROVE ~(End(a[i]) > ackno)
      BY <1>6 DEF Segs
    <3> QED BY <1>4, <1>6
  <2>2. \A s \in Segs(b) : End(s) > ackno
    <3> SUFFICES ASSUME NEW i \in 1..(Len(q) - n) PROVE End(b[i]) > ackno
      BY <1>6 DEF Segs
    <3>1. n + i \in (n + 1)..Len(q)
      BY <1>0, <1>2
    <3> QED BY <1>5, <1>6, <3>1
  <2> QED BY <1>6, <2>1, <2>2
<1>9. Bytes(a) \in Nat
  BY <1>6, BytesType
<1> QED BY <1>3, <1>6, <1>7, <1>8, <1>9

LEMMA SegType ==
  ASSUME NEW n \in Nat \ {0}, NEW d \in Seq(Byte)
  PROVE  /\ Seg(n, d) \in Segment /\ Seg(n, d).seq = n /\ Seg(n, d).data = d
         /\ End(Seg(n, d)) = n + Len(d)
BY DEF Seg, Segment, End

\* tcp_split_unsent_seg.
LEMMA SplitLemma ==
  ASSUME NEW s \in Segment, NEW n \in 1..(Len(s.data) - 1), NEW r \in Seq(Segment),
         Sorted(r), \A t \in Segs(r) : End(s) <= t.seq
  PROVE  LET x == Seg(s.seq, SubSeq(s.data, 1, n))
             y == Seg(s.seq + n, SubSeq(s.data, n + 1, Len(s.data)))
             q == <<x, y>> \o r
         IN  /\ x \in Segment /\ y \in Segment /\ q \in Seq(Segment)
             /\ x.seq = s.seq /\ y.seq = s.seq + n
             /\ Len(x.data) = n /\ Len(y.data) = Len(s.data) - n
             /\ \A k \in 1..n : x.data[k] = s.data[k]
             /\ \A k \in 1..(Len(s.data) - n) : y.data[k] = s.data[n + k]
             /\ Segs(q) = {x, y} \union Segs(r) /\ Sorted(q)
             /\ Bytes(q) = Len(s.data) + Bytes(r)
<1> DEFINE d == s.data
           x == Seg(s.seq, SubSeq(d, 1, n))
           y == Seg(s.seq + n, SubSeq(d, n + 1, Len(d)))
<1>1. d \in Seq(Byte) /\ s.seq \in Nat \ {0} /\ Len(d) \in Nat /\ n \in Nat \ {0} /\ n < Len(d)
      /\ End(s) = s.seq + Len(d)
  BY EndType DEF Segment
<1> HIDE DEF d
<1>2. /\ SubSeq(d, 1, n) \in Seq(Byte) /\ Len(SubSeq(d, 1, n)) = n
      /\ \A k \in 1..n : SubSeq(d, 1, n)[k] = d[k]
  BY <1>1
<1>3. /\ SubSeq(d, n + 1, Len(d)) \in Seq(Byte) /\ Len(SubSeq(d, n + 1, Len(d))) = Len(d) - n
      /\ \A k \in 1..(Len(d) - n) : SubSeq(d, n + 1, Len(d))[k] = d[n + k]
  BY <1>1
<1>4. /\ x \in Segment /\ y \in Segment /\ x.seq = s.seq /\ y.seq = s.seq + n
      /\ x.data = SubSeq(d, 1, n) /\ y.data = SubSeq(d, n + 1, Len(d))
      /\ End(x) = s.seq + n /\ End(y) = (s.seq + n) + (Len(d) - n)
  <2>1. s.seq + n \in Nat \ {0}
    BY <1>1
  <2>2. /\ x \in Segment /\ x.seq = s.seq /\ x.data = SubSeq(d, 1, n)
        /\ End(x) = s.seq + Len(SubSeq(d, 1, n))
    BY <1>1, <1>2, SegType
  <2>3. /\ y \in Segment /\ y.seq = s.seq + n /\ y.data = SubSeq(d, n + 1, Len(d))
        /\ End(y) = (s.seq + n) + Len(SubSeq(d, n + 1, Len(d)))
    BY <1>3, <2>1, SegType
  <2> QED BY <1>2, <1>3, <2>2, <2>3
<1> HIDE DEF x, y
<1>5. <<x, y>> \in Seq(Segment) /\ <<x, y>> = <<x>> \o <<y>>
  <2>1. /\ <<x, y>> \in Seq(Segment) /\ Len(<<x, y>>) = 2
        /\ <<x, y>>[1] = x /\ <<x, y>>[2] = y
    BY <1>4
  <2>2. <<x>> \in Seq(Segment) /\ <<y>> \in Seq(Segment)
    BY <1>4
  <2>3. /\ <<x>> \o <<y>> \in Seq(Segment) /\ Len(<<x>> \o <<y>>) = 2
        /\ (<<x>> \o <<y>>)[1] = x /\ (<<x>> \o <<y>>)[2] = y
    BY <2>2
  <2>4. \A i \in 1..2 : i = 1 \/ i = 2
    OBVIOUS
  <2> QED BY <2>1, <2>3, <2>4, SeqEqual
<1>6. Bytes(<<x, y>>) = Len(d)
  BY <1>1, <1>2, <1>3, <1>4, <1>5, BytesConcat, BytesOfOne
<1>7. Segs(<<x, y>>) = {x, y} /\ Sorted(<<x, y>>)
  <2>1. Segs(<<x, y>>) = {x, y}
    BY DEF Segs
  <2>2. End(x) <= y.seq
    BY <1>1, <1>4
  <2>3. \A i, j \in 1..2 : i < j => i = 1 /\ j = 2
    OBVIOUS
  <2> QED BY <2>1, <2>2, <2>3 DEF Sorted
<1>8. \A u \in {x, y}, t \in Segs(r) : End(u) <= t.seq
  <2> SUFFICES ASSUME NEW t \in Segs(r) PROVE End(x) <= t.seq /\ End(y) <= t.seq
    OBVIOUS
  <2>1. t.seq \in Nat
    BY SegsType, EndType
  <2> QED BY <1>1, <1>4, <2>1
<1>9. /\ <<x, y>> \o r \in Seq(Segment) /\ Segs(<<x, y>> \o r) = {x, y} \union Segs(r)
      /\ Bytes(<<x, y>> \o r) = Len(d) + Bytes(r)
      /\ Sorted(<<x, y>> \o r)
  <2> DEFINE p == <<x, y>>
  <2>1. /\ p \in Seq(Segment) /\ Segs(p) = {x, y} /\ Bytes(p) = Len(d) /\ Sorted(p)
        /\ \A u \in Segs(p), t \in Segs(r) : End(u) <= t.seq
    BY <1>5, <1>6, <1>7, <1>8
  <2> HIDE DEF p
  <2>2. p \o r \in Seq(Segment)
    BY <2>1
  <2>3. /\ Segs(p \o r) = Segs(p) \union Segs(r) /\ Bytes(p \o r) = Bytes(p) + Bytes(r)
        /\ Sorted(p \o r)
    BY <2>1, SegsConcat, BytesConcat, SortedConcat, SMTT(30)
  <2> QED BY <2>1, <2>2, <2>3 DEF p
<1> QED BY <1>2, <1>3, <1>4, <1>9 DEF x, y, d

\* Data added to the last segment of a queue.
LEMMA ExtendLemma ==
  ASSUME unsent \in Seq(Segment), unsent # <<>>, NEW d \in Seq(Byte)
  PROVE  LET l == Last(unsent)
             m == [l EXCEPT !.data = @ \o d]
         IN  /\ l \in Segment /\ m \in Segment /\ Extended(d) \in Seq(Segment)
             /\ m.seq = l.seq /\ m.data = l.data \o d
             /\ Segs(unsent) = Segs(Front(unsent)) \union {l}
             /\ Segs(Extended(d)) = Segs(Front(unsent)) \union {m}
             /\ Bytes(Extended(d)) = Bytes(unsent) + Len(d)
             /\ Sorted(unsent) => /\ Sorted(Extended(d))
                                  /\ \A t \in Segs(Front(unsent)) : End(t) <= l.seq
<1> DEFINE q == unsent
           n == Len(q) - 1
           l == Last(q)
           m == [l EXCEPT !.data = @ \o d]
           a == SubSeq(q, 1, n)
           b == SubSeq(q, n + 1, Len(q))
<1>1. n \in 0..Len(q) /\ n + 1 = Len(q) /\ Len(q) \in 1..Len(q) /\ l = q[Len(q)] /\ l \in Segment
  BY DEF Last
<1>2. l.data \in Seq(Byte) /\ l.seq \in Nat \ {0} /\ Len(d) \in Nat
  BY <1>1 DEF Segment
<1>3. m \in Segment /\ m.seq = l.seq /\ m.data = l.data \o d /\ Len(m.data) = Len(l.data) + Len(d)
  <2>1. l \in [seq : Nat \ {0}, data : Seq(Byte)]
    BY <1>1 DEF Segment
  <2>2. PICK e \in Seq(Byte) : e = l.data \o d /\ Len(e) = Len(l.data) + Len(d)
    <3> HIDE DEF l
    <3>1. l.data \o d \in Seq(Byte) /\ Len(l.data \o d) = Len(l.data) + Len(d)
      BY <1>2
    <3> QED BY <3>1
  <2>3. m = [l EXCEPT !.data = e]
    BY <2>2
  <2> HIDE DEF l, m
  <2>4. m \in [seq : Nat \ {0}, data : Seq(Byte)] /\ m.seq = l.seq /\ m.data = e
    BY <2>1, <2>3
  <2> QED BY <2>2, <2>4 DEF Segment
<1>4. /\ a \in Seq(Segment) /\ b \in Seq(Segment) /\ Len(b) = Len(q) - n /\ q = a \o b
      /\ \A i \in 1..(Len(q) - n) : b[i] = q[n + i]
      /\ Segs(q) = Segs(a) \union Segs(b)
      /\ Bytes(q) = Bytes(a) + Bytes(b)
      /\ Sorted(q) => Sorted(a) /\ \A s \in Segs(a), t \in Segs(b) : End(s) <= t.seq
  BY <1>1, Cut
<1>5. Front(q) = a /\ Extended(d) = Append(a, m)
  BY DEF Front, Extended
<1> HIDE DEF a, b, m, l, n
<1>6. b = <<l>>
  <2>1. Len(b) = 1 /\ b[1] = l
    BY <1>1, <1>4
  <2>2. <<l>> \in Seq(Segment) /\ Len(<<l>>) = 1 /\ <<l>>[1] = l
    BY <1>1
  <2>3. \A i \in 1..1 : i = 1
    OBVIOUS
  <2> QED BY <1>4, <2>1, <2>2, <2>3, SeqEqual
<1>7. Segs(b) = {l} /\ Bytes(b) = Len(l.data)
  BY <1>1, <1>6, SegsOfOne, BytesOfOne
<1>8. /\ Append(a, m) \in Seq(Segment) /\ Segs(Append(a, m)) = Segs(a) \union {m}
      /\ Bytes(Append(a, m)) = Bytes(a) + Len(m.data)
      /\ Sorted(a) /\ (\A t \in Segs(a) : End(t) <= m.seq) => Sorted(Append(a, m))
  BY <1>3, <1>4, AppendLemma
<1>9. Bytes(Append(a, m)) = Bytes(q) + Len(d)
  <2>1. Bytes(a) \in Nat /\ Len(l.data) \in Nat
    BY <1>2, <1>4, BytesType
  <2> QED BY <1>2, <1>3, <1>4, <1>7, <1>8, <2>1
<1>10. Sorted(q) => Sorted(Append(a, m)) /\ \A t \in Segs(a) : End(t) <= l.seq
  BY <1>3, <1>4, <1>7, <1>8
<1> QED BY <1>1, <1>3, <1>4, <1>5, <1>7, <1>8, <1>9, <1>10 DEF l, m

\* The segments of n bytes of data, at most m bytes each: arithmetic.
LEMMA Ceiling ==
  ASSUME NEW n \in Nat, NEW m \in Nat \ {0}
  PROVE  LET k == (n + m - 1) \div m
         IN  k \in Nat /\ n <= k * m /\ (k > 0 => (k - 1) * m < n)
OBVIOUS

LEMMA Quotient ==
  ASSUME NEW n \in Nat, NEW m \in Nat \ {0}
  PROVE  n \div m \in Nat /\ (n \div m) * m <= n /\ n < (n \div m) * m + m
OBVIOUS

LEMMA Product ==
  ASSUME NEW i \in Nat, NEW j \in Nat, NEW m \in Nat
  PROVE  /\ i * m \in Nat /\ (i + 1) * m = i * m + m
         /\ i <= j => i * m <= j * m
OBVIOUS

\* tcp_write cuts the data into segments that follow each other without a gap.
LEMMA SegmentsLemma ==
  ASSUME NEW seq \in Nat \ {0}, NEW d \in Seq(Byte), mss_local \in Nat \ {0}
  PROVE  LET q == Segments(seq, d)
         IN  /\ q \in Seq(Segment) /\ Sorted(q) /\ Bytes(q) = Len(d)
             /\ \A s \in Segs(q) :
                  /\ seq <= s.seq /\ End(s) <= seq + Len(d) /\ Len(s.data) \in 1..mss_local
                  /\ \A k \in 1..Len(s.data) : s.data[k] = d[s.seq - seq + k]
             /\ \A p \in seq..(seq + Len(d) - 1) : \E s \in Segs(q) : s.seq <= p /\ p < End(s)
<1>1. PICK m \in Nat \ {0}, n \in Nat : m = mss_local /\ n = Len(d)
  OBVIOUS
<1> DEFINE N == (n + m - 1) \div m
           q == Segments(seq, d)
           Upto(i) == IF i * m < n THEN i * m ELSE n
<1>2. N \in Nat /\ n <= N * m /\ (N > 0 => (N - 1) * m < n)
  BY Ceiling
<1>3. q = [i \in 1..N |-> Seg(seq + (i - 1) * m, SubSeq(d, (i - 1) * m + 1, Least((i - 1) * m + m, n)))]
  BY <1>1 DEF Segments
<1> HIDE DEF N, q
<1>4. \A i \in 1..N : /\ (i - 1) * m \in Nat /\ i * m \in Nat
                      /\ i * m = (i - 1) * m + m /\ (i - 1) * m < n
  <2> SUFFICES ASSUME NEW i \in 1..N
               PROVE  /\ (i - 1) * m \in Nat /\ i * m \in Nat
                      /\ i * m = (i - 1) * m + m /\ (i - 1) * m < n
    OBVIOUS
  <2>1. i - 1 \in Nat /\ N - 1 \in Nat /\ i - 1 <= N - 1 /\ (i - 1) + 1 = i /\ N > 0
    BY <1>2
  <2>2. (i - 1) * m \in Nat /\ i * m \in Nat /\ i * m = (i - 1) * m + m
    BY <2>1, Product
  <2>3. (i - 1) * m <= (N - 1) * m /\ (N - 1) * m \in Nat
    BY <2>1, Product
  <2> QED BY <1>2, <2>1, <2>2, <2>3
<1>5. \A i \in 1..N : /\ Upto(i) \in Nat /\ (i - 1) * m < Upto(i) /\ Upto(i) <= n
                      /\ Upto(i) <= (i - 1) * m + m /\ Upto(i) <= i * m
                      /\ Upto(i) = Least((i - 1) * m + m, n)
  BY <1>4 DEF Least
<1>6. ASSUME NEW i \in 1..N
      PROVE  /\ q[i] \in Segment /\ q[i].seq = seq + (i - 1) * m
             /\ Len(q[i].data) = Upto(i) - (i - 1) * m /\ End(q[i]) = seq + Upto(i)
             /\ \A k \in 1..Len(q[i].data) : q[i].data[k] = d[(i - 1) * m + k]
  <2>1. PICK x \in Nat, y \in Nat : x = (i - 1) * m /\ y = Upto(i)
    BY <1>4, <1>5
  <2> DEFINE e == SubSeq(d, x + 1, y)
  <2>2. x < y /\ y <= n /\ q[i] = Seg(seq + x, e)
    BY <1>3, <1>5, <2>1
  <2>3. e \in Seq(Byte) /\ Len(e) = y - x /\ \A k \in 1..(y - x) : e[k] = d[x + k]
    BY <1>1, <2>2
  <2> HIDE DEF e
  <2>4. seq + x \in Nat \ {0}
    OBVIOUS
  <2>5. /\ q[i] \in Segment /\ q[i].seq = seq + x /\ q[i].data = e
        /\ End(q[i]) = (seq + x) + Len(e)
    BY <2>2, <2>3, <2>4, SegType, SMTT(30)
  <2>6. (seq + x) + (y - x) = seq + y
    OBVIOUS
  <2> QED BY <2>1, <2>3, <2>5, <2>6
<1>7. q \in Seq(Segment) /\ Len(q) = N /\ DOMAIN q = 1..N
  <2>1. q \in [1..N -> Segment]
    BY <1>3, <1>6
  <2> QED BY <1>2, <2>1
<1> HIDE DEF Upto
<1>8. Sorted(q)
  <2> SUFFICES ASSUME NEW i \in 1..N, NEW j \in 1..N, i < j PROVE End(q[i]) <= q[j].seq
    BY <1>7 DEF Sorted
  <2>1. i * m <= (j - 1) * m
    <3>1. i \in Nat /\ j - 1 \in Nat /\ i <= j - 1
      BY <1>2
    <3> QED BY <3>1, Product
  <2>2. End(q[i]) = seq + Upto(i) /\ q[j].seq = seq + (j - 1) * m
    BY <1>6
  <2>3. Upto(i) \in Nat /\ Upto(i) <= i * m /\ i * m \in Nat /\ (j - 1) * m \in Nat
    BY <1>4, <1>5
  <2> QED BY <2>1, <2>2, <2>3
<1>9. ASSUME NEW s \in Segs(q)
      PROVE  /\ seq <= s.seq /\ End(s) <= seq + n /\ Len(s.data) \in 1..m
             /\ \A k \in 1..Len(s.data) : s.data[k] = d[s.seq - seq + k]
  <2>1. PICK i \in 1..N : s = q[i]
    BY <1>7 DEF Segs
  <2>2. PICK x \in Nat, y \in Nat : x = (i - 1) * m /\ y = Upto(i)
    BY <1>4, <1>5
  <2>3. x < y /\ y <= n /\ y <= x + m
    BY <1>5, <2>2
  <2>4. /\ s.seq = seq + x /\ Len(s.data) = y - x /\ End(s) = seq + y
        /\ \A k \in 1..Len(s.data) : s.data[k] = d[x + k]
    BY <1>6, <2>1, <2>2
  <2>5. (seq + x) - seq = x
    OBVIOUS
  <2> QED BY <2>3, <2>4, <2>5
<1>10. ASSUME NEW p \in seq..(seq + n - 1)
       PROVE  \E s \in Segs(q) : s.seq <= p /\ p < End(s)
  <2>1. PICK o \in Nat : p = seq + o /\ o < n
    <3>1. p - seq \in Nat /\ p = seq + (p - seq) /\ p - seq < n
      OBVIOUS
    <3> QED BY <3>1
  <2>2. PICK k \in Nat : k = o \div m /\ k * m <= o /\ o < k * m + m
    BY Quotient
  <2>3. k + 1 \in 1..N
    <3>1. ASSUME ~(k + 1 <= N) PROVE FALSE
      <4>1. N <= k
        BY <1>2, <3>1
      <4>2. N * m <= k * m /\ N * m \in Nat /\ k * m \in Nat
        BY <1>2, <4>1, Product
      <4> QED BY <1>2, <2>1, <2>2, <4>2
    <3> QED BY <1>2, <3>1
  <2>4. (k + 1) - 1 = k /\ (k + 1) * m = k * m + m /\ k * m \in Nat
    BY Product
  <2>5. q[k + 1].seq = seq + k * m /\ End(q[k + 1]) = seq + Upto(k + 1)
    BY <1>6, <2>3, <2>4
  <2>6. o < Upto(k + 1) /\ Upto(k + 1) \in Nat
    BY <1>5, <2>1, <2>2, <2>3, <2>4 DEF Upto
  <2>7. q[k + 1] \in Segs(q)
    BY <1>7, <2>3 DEF Segs
  <2> QED BY <2>1, <2>2, <2>4, <2>5, <2>6, <2>7
<1>11. Bytes(q) = n
  <2>1. PICK f : Sums(f, q, N) /\ Bytes(q) = f[N]
    BY <1>7, BytesSums
  <2>2. Upto(0) = 0 /\ Upto(N) = n
    BY <1>2 DEF Upto
  <2> DEFINE Bad == {k \in 0..N : f[k] # Upto(k)}
  <2> SUFFICES ASSUME N \in Bad PROVE FALSE
    BY <1>2, <2>1, <2>2
  <2>3. Bad \subseteq Nat
    OBVIOUS
  <2>4. PICK k \in Bad : \A j \in Bad : k <= j
    <3> HIDE DEF Bad
    <3> QED BY <2>3, LeastElement
  <2>5. CASE k = 0
    BY <1>2, <2>1, <2>2, <2>4, <2>5 DEF Sums
  <2>6. CASE k # 0
    <3>1. k \in 1..N /\ k - 1 \in 0..N
      BY <1>2, <2>4, <2>6
    <3>2. f[k - 1] = Upto(k - 1)
      BY <2>4, <3>1
    <3>3. f[k] = f[k - 1] + Len(q[k].data)
      BY <2>1, <2>6, <3>1 DEF Sums
    <3>4. Len(q[k].data) = Upto(k) - (k - 1) * m /\ Upto(k) \in Nat
      BY <1>5, <1>6, <3>1
    <3>5. Upto(k - 1) = (k - 1) * m /\ (k - 1) * m \in Nat
      BY <1>4, <3>1 DEF Upto
    <3>6. f[k] = Upto(k)
      BY <3>2, <3>3, <3>4, <3>5
    <3> QED BY <2>4, <3>6
  <2> QED BY <2>5, <2>6
<1> QED BY <1>1, <1>7, <1>8, <1>9, <1>10, <1>11 DEF q

----------------------------------------------------------------------------
\* The inductive invariant, action by action.

LEMMA MssLemma ==
  ASSUME snd_wnd_max \in Nat
  PROVE  mss_local \in Nat \ {0} /\ mss_local <= Mss
BY SendAssumption DEF mss_local, Least

LEMMA AllSegsType ==
  ASSUME Types
  PROVE  AllSegs \subseteq Segment
BY SegsType DEF Types, AllSegs

\* Segments may go and change queues.
LEMMA QueueShrinks ==
  ASSUME Types, QueueInv, AllSegs' \subseteq AllSegs,
         written' = written, snd_lbb' = snd_lbb,
         Segs(unsent') \intersect Segs(unacked') = {}, Sorted(unsent'), Sorted(unacked')
  PROVE  QueueInv'
<1>2. \A s \in AllSegs' : /\ Placed(s)' /\ End(s) <= snd_lbb'
                          /\ Len(s.data) \in 1..Mss
  <2> SUFFICES ASSUME NEW s \in AllSegs'
               PROVE  /\ Placed(s)' /\ End(s) <= snd_lbb' /\ Len(s.data) \in 1..Mss
    OBVIOUS
  <2>1. Placed(s) /\ End(s) <= snd_lbb /\ Len(s.data) \in 1..Mss
    BY DEF QueueInv
  <2>2. Placed(s)'
    BY <2>1 DEF Placed
  <2> QED BY <2>1, <2>2
<1>3. \A s, t \in AllSegs' : s # t => Apart(s, t)
  BY DEF QueueInv
<1> QED BY <1>2, <1>3 DEF QueueInv

\* The queues and the stream stay as they are.
LEMMA Quiet ==
  ASSUME Core, UNCHANGED <<queues, net, got, written, short>>,
         pcb = "removed" => pcb' = "removed"
  PROVE  /\ StreamInv' /\ QueueInv' /\ CoverInv' /\ SpaceInv' /\ AlignInv'
         /\ persist' = persist => FrontInv'
<1>1. AllSegs' = AllSegs
  BY DEF AllSegs, queues
<1>2. QueueInv'
  <2>2. /\ Segs(unsent) \intersect Segs(unacked) = {} /\ Sorted(unsent) /\ Sorted(unacked)
        /\ unsent' = unsent /\ unacked' = unacked /\ lastack' = lastack /\ snd_lbb' = snd_lbb
    BY DEF Core, QueueInv, queues
  <2> QED BY <1>1, <2>2, QueueShrinks DEF Core
<1>3. StreamInv'
  BY DEF Core, StreamInv, Placed, queues
<1>4. CoverInv'
  <2>1. lastack' = lastack /\ snd_lbb' = snd_lbb
    BY DEF queues
  <2> QED BY <1>1, <2>1 DEF Core, CoverInv
<1>5. SpaceInv'
  <2>1. Bytes(unsent') = Bytes(unsent) /\ Bytes(unacked') = Bytes(unacked) /\ snd_buf' = snd_buf
    BY DEF queues
  <2> QED BY <2>1 DEF Core, SpaceInv
<1>6. AlignInv'
  BY DEF Core, AlignInv
<1>7. ASSUME persist' = persist PROVE FrontInv'
  <2>1. lastack' = lastack
    BY DEF queues
  <2> QED BY <1>1, <1>7, <2>1 DEF Core, FrontInv
<1> QED BY <1>2, <1>3, <1>4, <1>5, <1>6, <1>7

LEMMA SendFailsLemma ==
  ASSUME Core, \/ SendFails \/ SendBlocked \/ SendAsserts \/ Poll \/ PersistAsserts \/ Refusal
               \/ OutputFails \/ OutputEnds
  PROVE  Core'
<1> USE DEF Ready, Persisting, Sending, Refusal
<1>1. /\ UNCHANGED <<queues, net, got, written, short>> /\ snd_wnd_max' = snd_wnd_max
      /\ (pcb = "removed" => pcb' = "removed") /\ persist' = persist
  BY DEF SendFails, SendBlocked, SendAsserts, Poll, PersistAsserts, RtoBusy, SplitFails,
     OutputFails, OutputEnds, history, window, timers
<1>2. StreamInv' /\ QueueInv' /\ CoverInv' /\ SpaceInv' /\ AlignInv' /\ FrontInv'
  BY <1>1, Quiet DEF Core, Types
<1>3. Types'
  <2>1. UNCHANGED <<unsent, unacked, snd_lbb, snd_nxt, lastack, snd_buf, net, got, written,
                    snd_wnd_max, snd_wnd>>
    BY <1>1 DEF queues, SendFails, SendBlocked, SendAsserts, Poll, PersistAsserts, RtoBusy,
       SplitFails, OutputFails, OutputEnds, window
  <2>2. msgs' \in Nat /\ wnd' \in Nat /\ (pcb' # "open" => out' = "idle")
    BY DEF Core, Types, SendFails, SendBlocked, SendAsserts, Poll, PersistAsserts, RtoBusy,
       SplitFails, OutputFails, OutputEnds, history, output
  <2> QED BY <2>1, <2>2 DEF Core, Types
<1>4. TimerInv'
  <2>1. CASE SendFails \/ Poll
    BY <2>1 DEF Core, TimerInv, SendFails, Poll, queues, timers
  <2>2. CASE SendBlocked \/ Refusal
    BY <2>2 DEF Core, TimerInv, SendBlocked, RtoBusy, SplitFails, queues, timers, output, Queued,
       Fits
  <2>3. CASE PersistAsserts \/ SendAsserts
    BY <2>3 DEF Core, TimerInv, PersistAsserts, SendAsserts, queues, timers, output
  <2>4. CASE OutputFails
    BY <2>4 DEF Core, TimerInv, OutputFails, queues
  <2>5. CASE OutputEnds
    BY <2>5 DEF Core, TimerInv, OutputEnds, NagleHolds, queues, timers, Queued
  <2> QED BY <2>1, <2>2, <2>3, <2>4, <2>5
<1> QED BY <1>2, <1>3, <1>4 DEF Core

\* With nothing in flight the first segment fits a window of a whole segment.
LEMMA FirstFits ==
  ASSUME Core, pcb # "removed", unacked = <<>>, unsent # <<>>, ~persist, NEW w \in Nat, Mss <= w
  PROVE  Fits(Head(unsent), w)
<1> DEFINE h == Head(unsent)
<1>1. /\ h \in Segment /\ Segs(unsent) = {h} \union Segs(Tail(unsent))
      /\ \A t \in Segs(Tail(unsent)) : End(h) <= t.seq
  BY HeadTail DEF Core, Types, QueueInv
<1>2. Segs(unacked) = {}
  BY DEF Segs
<1>3. AllSegs = Segs(unsent) /\ h \in AllSegs
  BY <1>1, <1>2 DEF AllSegs
<1>4. lastack <= End(h) /\ End(h) <= snd_lbb /\ Len(h.data) \in 1..Mss
  BY <1>3 DEF Core, QueueInv, FrontInv
<1>6. h.seq \in Nat /\ Len(h.data) \in Nat /\ End(h) \in Nat /\ End(h) = h.seq + Len(h.data)
  BY <1>1, EndType
<1>7. lastack \in Nat /\ snd_lbb \in Nat /\ Mss \in Nat
  BY SendAssumption DEF Core, Types
<1> HIDE DEF h
<1>8. CASE End(h) = lastack
  BY <1>6, <1>7, <1>8 DEF Fits, h
<1>9. CASE lastack < End(h)
  <2>1. lastack \in lastack..(snd_lbb - 1)
    BY <1>4, <1>6, <1>7, <1>9
  <2>2. PICK s \in AllSegs : s.seq <= lastack /\ lastack < End(s)
    BY <2>1 DEF Core, CoverInv
  <2>3. s = h
    <3>1. ASSUME s # h PROVE FALSE
      <4>1. End(h) <= s.seq
        BY <1>1, <1>3, <2>2, <3>1
      <4>2. s.seq \in Nat
        BY AllSegsType, EndType DEF Core
      <4> QED BY <1>6, <1>7, <1>9, <2>2, <4>1, <4>2
    <3> QED BY <3>1
  <2>4. End(h) - lastack \in 0..w
    BY <1>4, <1>6, <1>7, <2>2, <2>3
  <2> QED BY <2>4 DEF Fits, h
<1> QED BY <1>4, <1>6, <1>7, <1>8, <1>9

LEMMA OutputBeginsLemma ==
  ASSUME Core, OutputBegins
  PROVE  Core'
<1>1. /\ UNCHANGED <<queues, net, got, written, short>> /\ snd_wnd_max' = snd_wnd_max
      /\ snd_wnd' = snd_wnd /\ pcb' = pcb /\ msgs' = msgs /\ rtime' = rtime
  BY DEF OutputBegins, history, window
<1>2. StreamInv' /\ QueueInv' /\ CoverInv' /\ SpaceInv' /\ AlignInv'
  BY <1>1, Quiet DEF Core, Types
<1>3. pcb = "open"
  BY DEF Core, Types, OutputBegins, Called
<1>4. UNCHANGED <<unsent, unacked, snd_lbb, snd_nxt, lastack, snd_buf, net, got, written>>
  BY <1>1 DEF queues
<1>5. PICK w \in {snd_wnd} \union (Mss..snd_wnd) :
        \/ /\ unsent # <<>> /\ Fits(Head(unsent), w)
           /\ persist' = FALSE /\ out' = "loop" /\ wnd' = w
        \/ /\ unsent = <<>> /\ out' = "idle" /\ wnd' = wnd /\ persist' = persist
        \/ /\ unsent # <<>> /\ ~Fits(Head(unsent), w) /\ out' = "idle" /\ wnd' = wnd
           /\ IF w = snd_wnd /\ unacked = <<>> /\ ~persist
              THEN persist' = TRUE ELSE persist' = persist
  BY DEF OutputBegins
<1>6. w \in Nat /\ wnd' \in Nat
  BY <1>5, SendAssumption DEF Core, Types
<1>7. Types'
  BY <1>1, <1>3, <1>4, <1>6 DEF Core, Types
<1>8. TimerInv'
  <2>1. CASE /\ unsent # <<>> /\ Fits(Head(unsent), w)
             /\ persist' = FALSE /\ out' = "loop" /\ wnd' = w
    BY <1>1, <1>4, <2>1 DEF Core, TimerInv, Ready, Fits
  <2>2. CASE unsent = <<>> /\ out' = "idle" /\ wnd' = wnd /\ persist' = persist
    BY <1>1, <1>4, <2>2 DEF Core, TimerInv, Ready, Queued
  <2>3. CASE /\ unsent # <<>> /\ ~Fits(Head(unsent), w) /\ out' = "idle" /\ wnd' = wnd
             /\ IF w = snd_wnd /\ unacked = <<>> /\ ~persist
                THEN persist' = TRUE ELSE persist' = persist
    <3>1. CASE w = snd_wnd /\ unacked = <<>> /\ ~persist
      BY <1>1, <1>4, <2>3, <3>1 DEF Core, TimerInv, Ready, Queued
    <3>2. CASE ~(w = snd_wnd /\ unacked = <<>> /\ ~persist)
      <4>1. persist' = persist
        BY <2>3, <3>2
      <4>2. unacked # <<>> \/ persist
        <5> SUFFICES ASSUME unacked = <<>>, ~persist PROVE FALSE
          OBVIOUS
        <5>1. Mss <= w
          BY <1>5, <3>2, SendAssumption DEF Core, Types
        <5> QED BY <1>3, <1>6, <2>3, <5>1, FirstFits
      <4> QED BY <1>1, <1>4, <2>3, <4>1, <4>2 DEF Core, TimerInv, Ready, Queued
    <3> QED BY <3>1, <3>2
  <2> QED BY <1>5, <2>1, <2>2, <2>3
<1>9. FrontInv'
  <2>1. AllSegs' = AllSegs /\ lastack' = lastack
    BY <1>4 DEF AllSegs
  <2>2. CASE persist' \/ ~persist
    BY <2>1, <2>2 DEF Core, FrontInv
  <2>3. CASE persist /\ ~persist'
    <3>1. unsent # <<>> /\ Fits(Head(unsent), w) /\ unacked = <<>>
      BY <1>5, <2>3 DEF Core, TimerInv
    <3>2. /\ Head(unsent) \in Segment /\ Segs(unsent) = {Head(unsent)} \union Segs(Tail(unsent))
          /\ \A t \in Segs(Tail(unsent)) : End(Head(unsent)) <= t.seq
      BY <3>1, HeadTail DEF Core, Types, QueueInv
    <3>3. End(Head(unsent)) \in Nat /\ lastack \in Nat
      BY <3>2, EndType DEF Core, Types
    <3>4. lastack <= End(Head(unsent))
      BY <1>6, <3>1, <3>3 DEF Fits
    <3>5. Segs(unacked) = {}
      BY <3>1 DEF Segs
    <3>6. ASSUME NEW s \in AllSegs PROVE lastack <= End(s)
      <4>1. s = Head(unsent) \/ s \in Segs(Tail(unsent))
        BY <3>2, <3>5 DEF AllSegs
      <4>2. s.seq \in Nat /\ Len(s.data) \in Nat /\ End(s) = s.seq + Len(s.data)
        BY AllSegsType, EndType DEF Core
      <4> QED BY <3>2, <3>3, <3>4, <4>1, <4>2
    <3> QED BY <2>1, <3>6 DEF FrontInv
  <2> QED BY <2>2, <2>3
<1> QED BY <1>2, <1>7, <1>8, <1>9 DEF Core

LEMMA OutputSegmentLemma ==
  ASSUME Core, OutputSegment
  PROVE  Core'
<1> DEFINE s == Head(unsent)
<1>1. /\ unsent # <<>> /\ out = "loop" /\ pcb = "open" /\ pcb' = pcb /\ out' = out
      /\ unsent' = Tail(unsent) /\ unacked' = AddUnacked(s)
      /\ net' = net \union {s} /\ rtime' = TRUE
      /\ snd_nxt' = IF snd_nxt < End(s) THEN End(s) ELSE snd_nxt
      /\ UNCHANGED <<snd_lbb, lastack, snd_buf, snd_wnd, snd_wnd_max, wnd, persist, got, msgs,
                     written, short>>
  BY DEF Core, Types, OutputSegment, Sending, window, output, history
<1>2. /\ s \in Segment /\ Tail(unsent) \in Seq(Segment)
      /\ Segs(unsent) = {s} \union Segs(Tail(unsent))
      /\ Bytes(unsent) = Len(s.data) + Bytes(Tail(unsent))
      /\ Sorted(Tail(unsent)) /\ \A t \in Segs(Tail(unsent)) : End(s) <= t.seq
  BY <1>1, HeadTail DEF Core, Types, QueueInv
<1>3. /\ s \in AllSegs /\ Placed(s) /\ End(s) <= snd_lbb /\ Len(s.data) > 0
      /\ s.seq \in Nat \ {0} /\ Len(s.data) \in Nat /\ End(s) \in Nat /\ End(s) = s.seq + Len(s.data)
  <2>1. s \in AllSegs
    BY <1>2 DEF AllSegs
  <2>2. Placed(s) /\ End(s) <= snd_lbb /\ Len(s.data) \in 1..Mss
    BY <2>1 DEF Core, QueueInv
  <2>3. /\ s.seq \in Nat \ {0} /\ Len(s.data) \in Nat /\ End(s) \in Nat
        /\ End(s) = s.seq + Len(s.data)
    BY <1>2, EndType
  <2> QED BY <2>1, <2>2, <2>3
<1> HIDE DEF s
<1>4. \A t \in Segs(unacked) : /\ t \in Segment /\ Apart(s, t) /\ Len(t.data) > 0
  <2> SUFFICES ASSUME NEW t \in Segs(unacked)
               PROVE  t \in Segment /\ Apart(s, t) /\ Len(t.data) > 0
    OBVIOUS
  <2>1. t \in AllSegs /\ t # s /\ t \in Segment
    BY <1>2, AllSegsType DEF AllSegs, Core, QueueInv
  <2>2. Apart(s, t) /\ Len(t.data) \in 1..Mss
    BY <1>3, <2>1 DEF Core, QueueInv
  <2> QED BY <2>1, <2>2
<1>5. unacked \in Seq(Segment) /\ Sorted(unacked)
  BY DEF Core, Types, QueueInv
<1>6. /\ unacked' \in Seq(Segment) /\ unacked' # <<>> /\ Segs(unacked') = Segs(unacked) \union {s}
      /\ Bytes(unacked') = Bytes(unacked) + Len(s.data) /\ Sorted(unacked')
  <2>1. CASE unacked # <<>> /\ s.seq < Last(unacked).seq
    <3>1. unacked' = InsertSeg(unacked, s)
      BY <1>1, <2>1 DEF AddUnacked
    <3> QED BY <1>2, <1>3, <1>4, <1>5, <3>1, InsertLemma
  <2>2. CASE ~(unacked # <<>> /\ s.seq < Last(unacked).seq)
    <3>1. unacked' = Append(unacked, s)
      BY <1>1, <2>2 DEF AddUnacked
    <3>2. \A t \in Segs(unacked) : End(t) <= s.seq
      <4> SUFFICES ASSUME NEW i \in 1..Len(unacked) PROVE End(unacked[i]) <= s.seq
        BY <1>5 DEF Segs
      <4> DEFINE m == Len(unacked)
                 l == unacked[m]
      <4>1. m \in 1..m /\ i \in 1..m /\ m \in Nat /\ unacked # <<>> /\ DOMAIN unacked = 1..m
        BY <1>5
      <4>2. l = Last(unacked) /\ l \in Segs(unacked) /\ unacked[i] \in Segs(unacked)
        BY <4>1 DEF Last, Segs
      <4> HIDE DEF l, m
      <4>3. /\ l.seq \in Nat /\ End(l) = l.seq + Len(l.data) /\ Len(l.data) \in Nat
            /\ End(unacked[i]) \in Nat
        BY <1>4, <4>2, EndType
      <4>4. Len(l.data) > 0 /\ (End(s) <= l.seq \/ End(l) <= s.seq)
        BY <1>4, <4>2 DEF Apart
      <4>5. l.seq <= s.seq
        BY <1>3, <2>2, <4>1, <4>2, <4>3
      <4>6. End(l) <= s.seq
        BY <1>3, <4>3, <4>4, <4>5
      <4>7. i = m \/ End(unacked[i]) <= l.seq
        <5>1. i = m \/ i < m
          BY <4>1
        <5>2. i < m => End(unacked[i]) <= unacked[m].seq
          BY <1>5, <4>1 DEF Sorted
        <5> QED BY <5>1, <5>2 DEF l
      <4>8. CASE i = m
        BY <4>6, <4>8 DEF l
      <4>9. CASE End(unacked[i]) <= l.seq
        BY <1>3, <4>3, <4>5, <4>9
      <4> QED BY <4>7, <4>8, <4>9
    <3> QED BY <1>2, <1>5, <3>1, <3>2, AppendLemma
  <2> QED BY <2>1, <2>2
<1>7. AllSegs' = AllSegs /\ Segs(unsent') \intersect Segs(unacked') = {}
  <2>1. AllSegs' = AllSegs
    BY <1>1, <1>2, <1>6 DEF AllSegs
  <2>2. s \notin Segs(Tail(unsent))
    BY <1>2, <1>3
  <2> QED BY <1>1, <1>2, <1>6, <2>1, <2>2 DEF Core, QueueInv
<1>8. QueueInv'
  <2>2. Sorted(unsent') /\ snd_wnd_max' \in Nat
    BY <1>1, <1>2 DEF Core, Types
  <2> QED BY <1>1, <1>6, <1>7, <2>2, QueueShrinks DEF Core
<1>9. StreamInv'
  <2>1. snd_nxt \in Nat /\ snd_lbb \in Nat /\ Len(got) \in Nat
    BY DEF Core, Types
  <2>2. snd_nxt <= snd_nxt' /\ End(s) <= snd_nxt' /\ snd_nxt' <= snd_lbb /\ snd_nxt' \in Nat
    BY <1>1, <1>3, <2>1 DEF Core, StreamInv
  <2>3. \A t \in net' : Placed(t)' /\ End(t) <= snd_nxt'
    <3> SUFFICES ASSUME NEW t \in net' PROVE Placed(t)' /\ End(t) <= snd_nxt'
      OBVIOUS
    <3>1. CASE t = s
      BY <1>1, <1>3, <2>2, <3>1 DEF Placed
    <3>2. CASE t \in net
      <4>1. Placed(t) /\ End(t) <= snd_nxt /\ t \in Segment
        BY <3>2 DEF Core, StreamInv, Types
      <4>2. End(t) \in Nat
        BY <4>1, EndType
      <4>3. Placed(t)'
        BY <1>1, <4>1 DEF Placed
      <4> QED BY <2>1, <2>2, <4>1, <4>2, <4>3
    <3> QED BY <1>1, <3>1, <3>2
  <2> QED BY <1>1, <2>1, <2>2, <2>3 DEF Core, StreamInv
<1>10. SpaceInv'
  <2>1. /\ Bytes(Tail(unsent)) \in Nat /\ Bytes(unacked) \in Nat /\ snd_buf \in Nat
    BY <1>2, <1>5, BytesType DEF Core, Types
  <2>2. snd_buf + (Len(s.data) + Bytes(Tail(unsent))) + Bytes(unacked) = SndBuf
    BY <1>1, <1>2 DEF Core, SpaceInv
  <2>3. /\ snd_buf' = snd_buf /\ Bytes(unsent') = Bytes(Tail(unsent))
        /\ Bytes(unacked') = Bytes(unacked) + Len(s.data)
    BY <1>1, <1>6
  <2> QED BY <1>3, <2>1, <2>2, <2>3 DEF SpaceInv
<1>11. Types'
  <2>1. snd_nxt' \in Nat
    BY <1>1, <1>3 DEF Core, Types
  <2> QED BY <1>1, <1>2, <1>6, <2>1 DEF Core, Types
<1>12. TimerInv'
  BY <1>1, <1>6 DEF Core, TimerInv, Ready
<1>13. CoverInv' /\ FrontInv' /\ AlignInv'
  BY <1>1, <1>7 DEF Core, CoverInv, FrontInv, AlignInv
<1> QED BY <1>8, <1>9, <1>10, <1>11, <1>12, <1>13 DEF Core

\* The window that comes with an acknowledgement.
LEMMA InputLemma ==
  ASSUME Types, NEW w \in Wnds, Input(w)
  PROVE  /\ pcb = "open" /\ out = "idle" /\ out' = "input"
         /\ snd_wnd' \in Nat /\ snd_wnd_max' \in Nat
<1>1. w \in Nat
  BY SendAssumption
<1>2. CASE snd_wnd' = w /\ snd_wnd_max' = IF snd_wnd_max < w THEN w ELSE snd_wnd_max
  BY <1>1, <1>2 DEF Types, Input, Ready
<1>3. CASE UNCHANGED window
  BY <1>3 DEF Types, Input, Ready, window
<1> QED BY <1>2, <1>3 DEF Input, UpdateWindow

LEMMA AckOldLemma ==
  ASSUME Core, NEW ackno, NEW w \in Wnds, AckOld(ackno, w)
  PROVE  Core'
<1>1. /\ UNCHANGED <<queues, net, got, written, short>> /\ pcb' = pcb /\ msgs' = msgs
      /\ UNCHANGED <<rtime, persist, wnd>> /\ Input(w)
  BY DEF AckOld, history
<1>2. /\ pcb = "open" /\ out = "idle" /\ out' = "input"
      /\ snd_wnd' \in Nat /\ snd_wnd_max' \in Nat
  BY <1>1, InputLemma DEF Core
<1>3. StreamInv' /\ QueueInv' /\ CoverInv' /\ SpaceInv' /\ AlignInv' /\ FrontInv'
  BY <1>1, <1>2, Quiet
<1>4. Types'
  BY <1>1, <1>2 DEF Core, Types, queues
<1>5. TimerInv'
  BY <1>1, <1>2 DEF Core, TimerInv, Ready, queues
<1> QED BY <1>3, <1>4, <1>5 DEF Core

LEMMA AckFastRexmitLemma ==
  ASSUME Core, NEW ackno, NEW w \in Wnds, AckFastRexmit(ackno, w)
  PROVE  Core'
<1> DEFINE s == Head(unacked)
<1>1. /\ Input(w) /\ rtime /\ unacked # <<>> /\ unacked' = Tail(unacked)
      /\ unsent' = InsertSeg(unsent, s) /\ pcb' = pcb
      /\ UNCHANGED <<snd_lbb, snd_nxt, lastack, snd_buf, rtime, persist, wnd, net, got, msgs,
                     written, short>>
  BY DEF AckFastRexmit, history
<1>2. /\ pcb = "open" /\ out = "idle" /\ out' = "input"
      /\ snd_wnd' \in Nat /\ snd_wnd_max' \in Nat
  BY <1>1, InputLemma DEF Core
<1>3. /\ s \in Segment /\ Tail(unacked) \in Seq(Segment)
      /\ Segs(unacked) = {s} \union Segs(Tail(unacked))
      /\ Bytes(unacked) = Len(s.data) + Bytes(Tail(unacked))
      /\ Sorted(Tail(unacked)) /\ \A t \in Segs(Tail(unacked)) : End(s) <= t.seq
  BY <1>1, HeadTail DEF Core, Types, QueueInv
<1> HIDE DEF s
<1>4. /\ s \in AllSegs /\ Len(s.data) \in 1..Mss
      /\ s.seq \in Nat \ {0} /\ Len(s.data) \in Nat /\ End(s) = s.seq + Len(s.data)
      /\ Len(s.data) > 0
  <2>1. s \in AllSegs
    BY <1>3 DEF AllSegs
  <2>2. Len(s.data) \in 1..Mss
    BY <2>1 DEF Core, QueueInv
  <2> QED BY <1>3, <2>1, <2>2, EndType
<1>5. \A t \in Segs(unsent) : Apart(s, t) /\ Len(t.data) > 0
  <2> SUFFICES ASSUME NEW t \in Segs(unsent) PROVE Apart(s, t) /\ Len(t.data) > 0
    OBVIOUS
  <2>1. t \in AllSegs /\ t # s
    BY <1>3 DEF AllSegs, Core, QueueInv
  <2>2. Apart(s, t) /\ Len(t.data) \in 1..Mss
    BY <1>4, <2>1 DEF Core, QueueInv
  <2> QED BY <2>2
<1>6. /\ unsent' \in Seq(Segment) /\ Segs(unsent') = Segs(unsent) \union {s}
      /\ Bytes(unsent') = Bytes(unsent) + Len(s.data) /\ Sorted(unsent')
  <2>1. unsent \in Seq(Segment) /\ Sorted(unsent)
    BY DEF Core, Types, QueueInv
  <2> QED BY <1>1, <1>3, <1>4, <1>5, <2>1, InsertLemma
<1>7. AllSegs' = AllSegs /\ Segs(unsent') \intersect Segs(unacked') = {}
  <2>1. AllSegs' = AllSegs
    BY <1>1, <1>3, <1>6 DEF AllSegs
  <2>2. s \notin Segs(Tail(unacked))
    BY <1>3, <1>4
  <2> QED BY <1>1, <1>3, <1>6, <2>1, <2>2 DEF Core, QueueInv
<1>8. QueueInv'
  <2> QED BY <1>1, <1>2, <1>3, <1>6, <1>7, QueueShrinks DEF Core
<1>9. SpaceInv'
  <2>1. Bytes(Tail(unacked)) \in Nat /\ Bytes(unsent) \in Nat /\ snd_buf \in Nat
    BY <1>3, BytesType DEF Core, Types
  <2>2. snd_buf + Bytes(unsent) + (Len(s.data) + Bytes(Tail(unacked))) = SndBuf
    BY <1>2, <1>3 DEF Core, SpaceInv
  <2>3. /\ snd_buf' = snd_buf /\ Bytes(unacked') = Bytes(Tail(unacked))
        /\ Bytes(unsent') = Bytes(unsent) + Len(s.data)
    BY <1>1, <1>6
  <2> QED BY <1>4, <2>1, <2>2, <2>3 DEF SpaceInv
<1>10. Types'
  BY <1>1, <1>2, <1>3, <1>6 DEF Core, Types
<1>11. TimerInv'
  BY <1>1, <1>2 DEF Core, TimerInv, Ready
<1>12. StreamInv' /\ CoverInv' /\ FrontInv' /\ AlignInv'
  BY <1>1, <1>7 DEF Core, StreamInv, Placed, CoverInv, FrontInv, AlignInv
<1> QED BY <1>8, <1>9, <1>10, <1>11, <1>12 DEF Core

LEMMA AckNewLemma ==
  ASSUME Core, NEW ackno \in 1..(Len(got) + 1), NEW w \in Wnds, AckNew(ackno, w)
  PROVE  Core'
<1>0. ackno \in Nat \ {0} /\ ackno <= Len(got) + 1
  BY DEF Core, Types
<1>1. /\ Input(w) /\ lastack < ackno /\ lastack' = ackno /\ pcb' = pcb
      /\ unacked' = Kept(unacked, ackno) /\ unsent' = Kept(unsent, ackno)
      /\ snd_buf' = snd_buf + Bytes(Freed(unacked, ackno)) + Bytes(Freed(unsent, ackno))
      /\ rtime' = (unacked' # <<>>)
      /\ UNCHANGED <<snd_lbb, snd_nxt, persist, wnd, net, got, msgs, written, short>>
  BY DEF AckNew, history
<1>2. /\ pcb = "open" /\ out = "idle" /\ out' = "input"
      /\ snd_wnd' \in Nat /\ snd_wnd_max' \in Nat
  BY <1>1, InputLemma DEF Core
<1>3. /\ unsent' \in Seq(Segment) /\ Sorted(unsent')
      /\ Segs(unsent') = {s \in Segs(unsent) : End(s) > ackno}
      /\ Bytes(unsent) = Bytes(Freed(unsent, ackno)) + Bytes(unsent')
      /\ Bytes(Freed(unsent, ackno)) \in Nat
  BY <1>0, <1>1, KeptLemma DEF Core, Types, QueueInv
<1>4. /\ unacked' \in Seq(Segment) /\ Sorted(unacked')
      /\ Segs(unacked') = {s \in Segs(unacked) : End(s) > ackno}
      /\ Bytes(unacked) = Bytes(Freed(unacked, ackno)) + Bytes(unacked')
      /\ Bytes(Freed(unacked, ackno)) \in Nat
  BY <1>0, <1>1, KeptLemma DEF Core, Types, QueueInv
<1>5. AllSegs' = {s \in AllSegs : End(s) > ackno}
  BY <1>3, <1>4 DEF AllSegs
<1>6. QueueInv'
  <2>1. AllSegs' \subseteq AllSegs
    BY <1>5
  <2>3. Segs(unsent') \intersect Segs(unacked') = {}
    BY <1>3, <1>4 DEF Core, QueueInv
  <2> QED BY <1>1, <1>2, <1>3, <1>4, <2>1, <2>3, QueueShrinks DEF Core
<1>7. CoverInv'
  <2> SUFFICES ASSUME NEW p \in ackno..(snd_lbb - 1)
               PROVE  \E s \in AllSegs' : s.seq <= p /\ p < End(s)
    BY <1>1 DEF CoverInv
  <2>1. p \in lastack..(snd_lbb - 1) /\ p \in Nat /\ ackno <= p
    BY <1>0, <1>1 DEF Core, Types
  <2>2. PICK s \in AllSegs : s.seq <= p /\ p < End(s)
    BY <1>2, <2>1 DEF Core, CoverInv
  <2>3. End(s) \in Nat
    BY AllSegsType, EndType DEF Core
  <2>4. End(s) > ackno
    BY <1>0, <2>1, <2>2, <2>3
  <2> QED BY <1>5, <2>2, <2>4
<1>8. snd_buf' \in Nat /\ SpaceInv'
  <2>1. PICK b \in Nat, x \in Nat, y \in Nat, u \in Nat, v \in Nat :
          /\ b = snd_buf /\ x = Bytes(Freed(unacked, ackno)) /\ y = Bytes(Freed(unsent, ackno))
          /\ u = Bytes(unacked') /\ v = Bytes(unsent')
    BY <1>3, <1>4, BytesType DEF Core, Types
  <2>2. b + (y + v) + (x + u) = SndBuf
    BY <1>2, <1>3, <1>4, <2>1 DEF Core, SpaceInv
  <2>3. snd_buf' = b + x + y
    BY <1>1, <2>1
  <2>4. (b + x + y) + v + u = b + (y + v) + (x + u) /\ b + x + y \in Nat
    OBVIOUS
  <2> QED BY <2>1, <2>2, <2>3, <2>4 DEF SpaceInv
<1>9. Types'
  BY <1>0, <1>1, <1>2, <1>3, <1>4, <1>8 DEF Core, Types
<1>10. TimerInv'
  <2>1. persist => unacked' = <<>>
    <3> SUFFICES ASSUME persist PROVE unacked' = <<>>
      OBVIOUS
    <3>1. Segs(unacked') = {}
      BY <1>4 DEF Core, TimerInv, Segs
    <3>2. unacked' # <<>> => 1 \in DOMAIN unacked'
      BY <1>4
    <3> QED BY <3>1, <3>2 DEF Segs
  <2> QED BY <1>1, <1>2, <2>1 DEF TimerInv, Ready
<1>11. StreamInv' /\ AlignInv'
  BY <1>0, <1>1 DEF Core, StreamInv, Placed, AlignInv
<1>12. FrontInv'
  <2> SUFFICES ASSUME NEW s \in AllSegs' PROVE lastack' <= End(s)
    BY DEF FrontInv
  <2>1. s \in Segment /\ End(s) > ackno
    BY <1>5, AllSegsType DEF Core
  <2>2. End(s) \in Nat
    BY <2>1, EndType
  <2> QED BY <1>0, <1>1, <2>1, <2>2
<1> QED BY <1>6, <1>7, <1>8, <1>9, <1>10, <1>11, <1>12 DEF Core

LEMMA RtoLemma ==
  ASSUME Core, Rto, ~mixed'
  PROVE  Core'
<1>1. /\ pcb = "open" /\ pcb' = pcb /\ out' = "called" /\ ~persist /\ Sorted(unsent')
      /\ unsent' = unacked \o unsent /\ unacked' = <<>>
      /\ UNCHANGED <<snd_lbb, snd_nxt, lastack, snd_buf, snd_wnd, snd_wnd_max, persist, wnd, net,
                     got, msgs, written, short>>
  BY DEF Rto, Ready, window
<1>2. /\ unacked \in Seq(Segment) /\ unsent \in Seq(Segment) /\ unsent' \in Seq(Segment)
      /\ unacked' \in Seq(Segment)
  BY <1>1 DEF Core, Types
<1>3. Segs(unsent') = Segs(unacked) \union Segs(unsent) /\ Segs(unacked') = {}
  <2>1. Segs(unacked \o unsent) = Segs(unacked) \union Segs(unsent)
    BY <1>2, SegsConcat
  <2>2. Segs(<<>>) = {}
    BY DEF Segs
  <2> QED BY <1>1, <2>1, <2>2
<1>4. Bytes(unsent') = Bytes(unacked) + Bytes(unsent) /\ Bytes(unacked') = 0
  <2>1. Bytes(unacked \o unsent) = Bytes(unacked) + Bytes(unsent)
    BY <1>2, BytesConcat
  <2> QED BY <1>1, <2>1, BytesOfNone
<1>5. AllSegs' = AllSegs
  BY <1>3 DEF AllSegs
<1>6. QueueInv'
  <2>2. Sorted(unacked') /\ snd_wnd_max' \in Nat
    BY <1>1 DEF Core, Types, Sorted
  <2> QED BY <1>1, <1>3, <1>5, <2>2, QueueShrinks DEF Core
<1>7. SpaceInv'
  <2>1. Bytes(unacked) \in Nat /\ Bytes(unsent) \in Nat /\ snd_buf \in Nat
    BY <1>2, BytesType DEF Core, Types
  <2> QED BY <1>1, <1>4, <2>1 DEF Core, SpaceInv
<1>8. Types'
  BY <1>1, <1>2 DEF Core, Types
<1>9. TimerInv'
  BY <1>1 DEF TimerInv, Ready
<1>10. StreamInv' /\ CoverInv' /\ FrontInv' /\ AlignInv'
  BY <1>1, <1>5 DEF Core, StreamInv, Placed, CoverInv, FrontInv, AlignInv
<1> QED BY <1>6, <1>7, <1>8, <1>9, <1>10 DEF Core

LEMMA RemovePcbLemma ==
  ASSUME Core, RemovePcb
  PROVE  Core'
<1>1. /\ pcb = "open" /\ out = "idle" /\ pcb' = "removed" /\ unsent' = <<>> /\ unacked' = <<>>
      /\ UNCHANGED <<snd_lbb, snd_nxt, lastack, snd_buf, snd_wnd, snd_wnd_max, persist, out, wnd,
                     net, got, msgs, written, short>>
  BY DEF RemovePcb, Ready, window, output, history
<1>2. AllSegs' = {} /\ Segs(unsent') = {} /\ Segs(unacked') = {}
  BY <1>1 DEF AllSegs, Segs
<1>3. QueueInv'
  BY <1>1, <1>2 DEF QueueInv, Sorted
<1>4. Types'
  BY <1>1 DEF Core, Types
<1>5. TimerInv'
  BY <1>1 DEF TimerInv, Ready
<1>6. StreamInv' /\ CoverInv' /\ SpaceInv' /\ FrontInv' /\ AlignInv'
  BY <1>1, <1>2 DEF Core, StreamInv, Placed, CoverInv, SpaceInv, FrontInv, AlignInv
<1> QED BY <1>3, <1>4, <1>5, <1>6 DEF Core

\* The byte of a probe is the first of the unsent segment.
LEMMA ProbeLemma ==
  ASSUME Core, Probe
  PROVE  Core'
<1> DEFINE h == unsent[1]
           s == Seg(h.seq, <<h.data[1]>>)
<1>1. /\ pcb = "open" /\ out = "idle" /\ unsent # <<>>
      /\ UNCHANGED <<unsent, unacked, snd_lbb, lastack, snd_buf, snd_wnd, snd_wnd_max, persist,
                     rtime, pcb, out, wnd, got, msgs, written, short>>
      /\ \/ UNCHANGED <<snd_nxt, net>>
         \/ /\ snd_nxt' = IF snd_nxt < End(s) THEN End(s) ELSE snd_nxt
            /\ net' = net \union {s}
  BY DEF Probe, Persisting, Consistent, Ready, window, output, history
<1>2. h \in Segment /\ h \in AllSegs
  BY <1>1 DEF Core, Types, AllSegs, Segs
<1>3. Placed(h) /\ End(h) <= snd_lbb /\ Len(h.data) > 0
  BY <1>2, MssLemma DEF Core, Types, QueueInv
<1>4. h.seq \in Nat \ {0} /\ Len(h.data) \in Nat /\ End(h) = h.seq + Len(h.data)
  BY <1>2, EndType
<1>5. h.data \in Seq(Byte) /\ h.data[1] \in Byte
  BY <1>2, <1>3 DEF Segment
<1> HIDE DEF h
<1>6. s \in Segment /\ s.seq = h.seq /\ s.data = <<h.data[1]>> /\ End(s) = h.seq + 1
  <2>1. <<h.data[1]>> \in Seq(Byte) /\ Len(<<h.data[1]>>) = 1
    BY <1>5
  <2> QED BY <1>4, <2>1, SegType
<1>7. Placed(s)
  <2>1. h.data[1] = written[h.seq + 1 - 1]
    BY <1>3, <1>4 DEF Placed
  <2>2. Len(s.data) = 1 /\ s.data[1] = h.data[1]
    BY <1>6
  <2>3. \A k \in 1..1 : k = 1
    OBVIOUS
  <2> QED BY <1>6, <2>1, <2>2, <2>3 DEF Placed
<1> HIDE DEF s
<1>8. /\ snd_nxt' \in Nat /\ snd_nxt <= snd_nxt' /\ snd_nxt' <= snd_lbb
      /\ net' \subseteq net \union {s} /\ (s \in net' => s \in net \/ End(s) <= snd_nxt')
  <2>1. snd_nxt \in Nat /\ snd_nxt <= snd_lbb /\ End(s) \in Nat /\ End(s) <= snd_lbb
    BY <1>3, <1>4, <1>6, SMTT(30) DEF Core, Types, StreamInv
  <2> QED BY <1>1, <2>1
<1>9. StreamInv'
  <2>1. \A t \in net' : Placed(t)' /\ End(t) <= snd_nxt'
    <3> SUFFICES ASSUME NEW t \in net' PROVE Placed(t)' /\ End(t) <= snd_nxt'
      OBVIOUS
    <3>1. CASE t \in net
      <4>1. Placed(t) /\ End(t) <= snd_nxt /\ t \in Segment
        BY <3>1 DEF Core, StreamInv, Types
      <4>2. End(t) \in Nat /\ snd_nxt \in Nat
        BY <4>1, EndType DEF Core, Types
      <4>3. Placed(t)'
        BY <1>1, <4>1 DEF Placed
      <4> QED BY <1>8, <4>1, <4>2, <4>3
    <3>2. CASE t = s /\ t \notin net
      <4>1. Placed(t)'
        BY <1>1, <1>7, <3>2 DEF Placed
      <4> QED BY <1>8, <3>2, <4>1
    <3> QED BY <1>8, <3>1, <3>2
  <2>2. Len(got) < snd_nxt'
    BY <1>8 DEF Core, Types, StreamInv
  <2> QED BY <1>1, <1>8, <2>1, <2>2 DEF Core, StreamInv
<1>10. AllSegs' = AllSegs
  BY <1>1 DEF AllSegs
<1>11. QueueInv'
  <2>2. Segs(unsent) \intersect Segs(unacked) = {} /\ Sorted(unsent) /\ Sorted(unacked)
    BY DEF Core, QueueInv
  <2>3. snd_wnd_max' \in Nat
    BY <1>1 DEF Core, Types
  <2> QED BY <1>1, <1>10, <2>2, <2>3, QueueShrinks DEF Core
<1>12. Types'
  BY <1>1, <1>6, <1>8 DEF Core, Types
<1>13. TimerInv'
  BY <1>1 DEF Core, TimerInv, Ready, Queued
<1>14. CoverInv' /\ SpaceInv' /\ FrontInv' /\ AlignInv'
  BY <1>1, <1>10 DEF Core, CoverInv, SpaceInv, FrontInv, AlignInv
<1> QED BY <1>9, <1>11, <1>12, <1>13, <1>14 DEF Core

\* The first segment is cut; both parts carry its bytes.
LEMMA SplitActionLemma ==
  ASSUME Core, Split
  PROVE  Core'
<1> DEFINE h == Head(unsent)
           r == Tail(unsent)
           n == snd_wnd
           x == Seg(h.seq, SubSeq(h.data, 1, n))
           y == Seg(h.seq + n, SubSeq(h.data, n + 1, Len(h.data)))
<1>1. /\ pcb = "open" /\ out = "idle" /\ out' = "called" /\ unsent # <<>> /\ unacked = <<>> /\ n > 0
      /\ unsent' = (IF Len(h.data) <= n THEN unsent ELSE <<x, y>> \o r) /\ persist
      /\ UNCHANGED <<unacked, snd_lbb, snd_nxt, lastack, snd_buf, snd_wnd, snd_wnd_max, persist,
                     rtime, pcb, wnd, net, got, msgs, written, short>>
  BY DEF Split, SplitHead, Persisting, Consistent, Ready, window, timers, history
<1>2. /\ h \in Segment /\ r \in Seq(Segment) /\ Segs(unsent) = {h} \union Segs(r)
      /\ Bytes(unsent) = Len(h.data) + Bytes(r)
      /\ Sorted(r) /\ \A t \in Segs(r) : End(h) <= t.seq
  BY <1>1, HeadTail DEF Core, Types, QueueInv
<1>3. TimerInv' /\ FrontInv'
  BY <1>1 DEF Core, TimerInv, FrontInv, Ready
<1>4. AlignInv' /\ StreamInv'
  BY <1>1 DEF Core, AlignInv, StreamInv, Placed
<1>5. CASE Len(h.data) <= n
  <2>1. /\ UNCHANGED <<queues, net, got, written, short>>
        /\ snd_wnd_max' \in Nat
    BY <1>1, <1>5 DEF queues, Core, Types
  <2>2. QueueInv' /\ CoverInv' /\ SpaceInv'
    BY <1>1, <2>1, Quiet
  <2>3. Types'
    BY <1>1, <1>5 DEF Core, Types
  <2> QED BY <1>3, <1>4, <2>2, <2>3 DEF Core
<1>6. CASE ~(Len(h.data) <= n)
  <2>1. n \in 1..(Len(h.data) - 1)
    BY <1>1, <1>2, <1>6, EndType DEF Core, Types
  <2>2. /\ x \in Segment /\ y \in Segment /\ <<x, y>> \o r \in Seq(Segment)
        /\ x.seq = h.seq /\ y.seq = h.seq + n
        /\ Len(x.data) = n /\ Len(y.data) = Len(h.data) - n
        /\ \A k \in 1..n : x.data[k] = h.data[k]
        /\ \A k \in 1..(Len(h.data) - n) : y.data[k] = h.data[n + k]
        /\ Segs(<<x, y>> \o r) = {x, y} \union Segs(r) /\ Sorted(<<x, y>> \o r)
        /\ Bytes(<<x, y>> \o r) = Len(h.data) + Bytes(r)
    BY <1>2, <2>1, SplitLemma
  <2>3. unsent' = <<x, y>> \o r
    BY <1>1, <1>6
  <2>4. PICK H, X, Y, R : H = h /\ X = x /\ Y = y /\ R = Segs(r)
    OBVIOUS
  <2>5. PICK N \in Nat, L \in Nat, S \in Nat : N = n /\ L = Len(H.data) /\ S = H.seq
    BY <1>2, <2>4, EndType DEF Core, Types
  <2>6. /\ N \in 1..(L - 1) /\ End(H) = S + L /\ H \in Segment
        /\ X \in Segment /\ Y \in Segment /\ X.seq = S /\ Y.seq = S + N
        /\ Len(X.data) = N /\ Len(Y.data) = L - N
        /\ \A k \in 1..N : X.data[k] = H.data[k]
        /\ \A k \in 1..(L - N) : Y.data[k] = H.data[N + k]
    BY <1>2, <2>1, <2>2, <2>4, <2>5, EndType
  <2>7. R \subseteq Segment /\ \A t \in R : End(H) <= t.seq
    BY <1>2, <2>4, SegsType
  <2>8. Segs(unsent') = {X, Y} \union R /\ Sorted(unsent') /\ unsent' \in Seq(Segment)
    BY <2>2, <2>3, <2>4
  <2>9. /\ Segs(unacked') = {} /\ AllSegs = {H} \union R /\ AllSegs' = {X, Y} \union R
    <3>1. Segs(unacked) = {} /\ Segs(unacked') = {}
      BY <1>1 DEF Segs
    <3> QED BY <1>2, <2>4, <2>8, <3>1 DEF AllSegs
  <2>10. Bytes(unsent') = Bytes(unsent)
    BY <1>2, <2>2, <2>3
  <2> HIDE DEF h, r, n, x, y
  <2>11. /\ Placed(H) /\ End(H) <= snd_lbb /\ L \in 1..Mss
         /\ Mss \in Nat /\ snd_lbb \in Nat
    BY <2>5, <2>9, SendAssumption DEF Core, QueueInv, Types
  <2>12. End(X) = S + N /\ End(Y) = S + L
    <3>1. End(X) = X.seq + Len(X.data) /\ End(Y) = Y.seq + Len(Y.data)
      BY <2>6, EndType
    <3>2. (S + N) + (L - N) = S + L
      OBVIOUS
    <3> QED BY <2>6, <3>1, <3>2
  <2>13. QueueInv'
    <3>1. Placed(X)'
      <4> SUFFICES ASSUME NEW k \in 1..N PROVE X.data[k] = written'[S + k - 1]
        BY <2>6 DEF Placed
      <4>1. k \in 1..L
        BY <2>6
      <4>2. H.data[k] = written[S + k - 1]
        BY <2>5, <2>11, <4>1 DEF Placed
      <4> QED BY <1>1, <2>6, <4>2
    <3>2. Placed(Y)'
      <4> SUFFICES ASSUME NEW k \in 1..(L - N) PROVE Y.data[k] = written'[(S + N) + k - 1]
        BY <2>6 DEF Placed
      <4>1. N + k \in 1..L /\ (S + N) + k - 1 = S + (N + k) - 1
        BY <2>6
      <4>2. H.data[N + k] = written[S + (N + k) - 1]
        BY <2>5, <2>11, <4>1 DEF Placed
      <4> QED BY <1>1, <2>6, <4>1, <4>2
    <3>3. ASSUME NEW t \in AllSegs'
          PROVE  Placed(t)' /\ End(t) <= snd_lbb' /\ Len(t.data) \in 1..Mss
      <4>1. CASE t = X
        <5>1. End(X) <= snd_lbb /\ Len(X.data) \in 1..Mss
          BY <2>6, <2>11, <2>12
        <5> QED BY <1>1, <2>11, <3>1, <4>1, <5>1
      <4>2. CASE t = Y
        <5>1. End(Y) <= snd_lbb /\ Len(Y.data) \in 1..Mss
          BY <2>6, <2>11, <2>12
        <5> QED BY <1>1, <2>11, <3>2, <4>2, <5>1
      <4>3. CASE t \in R
        <5>1. Placed(t) /\ End(t) <= snd_lbb /\ Len(t.data) \in 1..Mss
          BY <2>9, <4>3 DEF Core, QueueInv
        <5>2. Placed(t)'
          BY <1>1, <5>1 DEF Placed
        <5> QED BY <1>1, <2>11, <5>1, <5>2
      <4> QED BY <2>9, <4>1, <4>2, <4>3
    <3>4. ASSUME NEW t \in AllSegs', NEW u \in AllSegs', t # u PROVE Apart(t, u)
      <4>1. End(X) <= Y.seq
        BY <2>6, <2>12
      <4>2. \A v \in R : End(X) <= v.seq /\ End(Y) <= v.seq
        <5> SUFFICES ASSUME NEW v \in R PROVE End(X) <= v.seq /\ End(Y) <= v.seq
          OBVIOUS
        <5>1. v.seq \in Nat /\ End(H) <= v.seq
          BY <2>7, EndType
        <5> QED BY <2>6, <2>12, <5>1
      <4>3. \A v, z \in R : v # z => Apart(v, z)
        BY <2>9 DEF Core, QueueInv
      <4>4. CASE t \in R /\ u \in R
        BY <3>4, <4>3, <4>4
      <4>5. CASE t \in R /\ u \notin R
        BY <2>9, <4>2, <4>5 DEF Apart
      <4>6. CASE t \notin R /\ u \in R
        BY <2>9, <4>2, <4>6 DEF Apart
      <4>7. CASE t \notin R /\ u \notin R
        BY <2>9, <3>4, <4>1, <4>7 DEF Apart
      <4> QED BY <4>4, <4>5, <4>6, <4>7
    <3>5. Sorted(unacked')
      BY <1>1 DEF Sorted
    <3>6. Segs(unsent') \intersect Segs(unacked') = {}
      BY <2>9
    <3> QED BY <2>8, <3>3, <3>4, <3>5, <3>6 DEF QueueInv
  <2>14. CoverInv'
    <3> SUFFICES ASSUME NEW p \in lastack..(snd_lbb - 1)
                 PROVE  \E s \in AllSegs' : s.seq <= p /\ p < End(s)
      BY <1>1 DEF CoverInv
    <3>1. PICK s \in AllSegs : s.seq <= p /\ p < End(s)
      BY <1>1 DEF Core, CoverInv
    <3>2. CASE s = H
      <4>1. p \in Int /\ S <= p /\ p < S + L
        BY <2>5, <2>6, <3>1, <3>2 DEF Core, Types
      <4>2. (X.seq <= p /\ p < End(X)) \/ (Y.seq <= p /\ p < End(Y))
        BY <2>6, <2>12, <4>1
      <4> QED BY <2>9, <4>2
    <3>3. CASE s \in R
      BY <2>9, <3>1, <3>3
    <3> QED BY <2>9, <3>2, <3>3
  <2>15. SpaceInv'
    <3>1. Bytes(unacked') = Bytes(unacked)
      BY <1>1
    <3> QED BY <1>1, <2>10, <3>1 DEF Core, SpaceInv
  <2>16. Types'
    BY <1>1, <2>8 DEF Core, Types
  <2> QED BY <1>3, <1>4, <2>13, <2>14, <2>15, <2>16 DEF Core
<1> QED BY <1>5, <1>6

\* The peer takes the part of a segment that it does not have.
LEMMA PeerLemma ==
  ASSUME Core, NEW s \in net, PeerReceives(s)
  PROVE  Core'
<1>1. PICK m \in Nat, q \in Nat \ {0}, d \in Seq(Byte), L \in Nat :
        m = Len(got) /\ q = s.seq /\ d = s.data /\ L = Len(d) /\ End(s) = q + L
  <2>1. s \in Segment /\ Len(got) \in Nat
    BY DEF Core, Types
  <2>2. s.data \in Seq(Byte)
    BY <2>1 DEF Segment
  <2> QED BY <2>1, <2>2, EndType
<1>2. PICK a \in Int : a = m + 2 - q
  OBVIOUS
<1>3. /\ q <= m + 1 /\ m + 1 < q + L /\ got' = got \o SubSeq(d, a, L)
      /\ net' \subseteq net
      /\ UNCHANGED <<queues, window, timers, flags, pcb, output, history>>
  BY <1>1, <1>2 DEF PeerReceives
<1>4. UNCHANGED <<unsent, unacked, snd_lbb, snd_nxt, lastack, snd_buf, snd_wnd, snd_wnd_max,
                  rtime, persist, pcb, out, wnd, msgs, written, short>>
  BY <1>3 DEF queues, window, timers, output, history
<1>5. a \in 1..L /\ a \in Nat
  BY <1>2, <1>3
<1>6. PICK e \in Seq(Byte) : /\ e = SubSeq(d, a, L) /\ Len(e) = L - a + 1
                             /\ \A k \in 1..(L - a + 1) : e[k] = d[a + k - 1]
  <2>1. /\ SubSeq(d, a, L) \in Seq(Byte) /\ Len(SubSeq(d, a, L)) = L - a + 1
        /\ \A k \in 1..(L - a + 1) : SubSeq(d, a, L)[k] = d[a + k - 1]
    BY <1>1, <1>5
  <2> QED BY <2>1
<1>7. got \in Seq(Byte) /\ got' \in Seq(Byte) /\ Len(got') = m + (L - a + 1)
  <2>1. got \in Seq(Byte)
    BY DEF Core, Types
  <2>2. got \o e \in Seq(Byte) /\ Len(got \o e) = Len(got) + Len(e)
    BY <2>1
  <2> QED BY <1>1, <1>3, <1>6, <2>1, <2>2
<1>8. Len(got') = q + L - 1 /\ m < Len(got')
  BY <1>2, <1>3, <1>7
<1>9. ASSUME NEW i \in 1..Len(got') PROVE got'[i] = written[i]
  <2>1. got'[i] = IF i <= m THEN got[i] ELSE e[i - m]
    BY <1>1, <1>3, <1>6, <1>7, ConcatProperties, SMTT(30)
  <2>2. CASE i <= m
    <3>1. i \in 1..Len(got)
      BY <1>1, <1>7, <2>2
    <3> QED BY <2>1, <2>2, <3>1 DEF Core, StreamInv
  <2>3. CASE ~(i <= m)
    <3>1. PICK k \in Nat : k = i - m /\ k \in 1..(L - a + 1)
      BY <1>5, <1>7, <2>3
    <3>2. got'[i] = d[a + k - 1]
      BY <1>6, <2>1, <2>3, <3>1
    <3>3. a + k - 1 \in 1..L /\ q + (a + k - 1) - 1 = i
      BY <1>2, <1>5, <3>1
    <3>4. d[a + k - 1] = written[q + (a + k - 1) - 1]
      BY <1>1, <3>3 DEF Core, StreamInv, Placed
    <3> QED BY <3>2, <3>3, <3>4
  <2> QED BY <2>2, <2>3
<1>10. StreamInv'
  <2>1. Len(got') < snd_nxt' /\ lastack' <= Len(got') + 1
    <3>1. q + L <= snd_nxt /\ lastack <= m + 1 /\ snd_nxt \in Nat /\ lastack \in Nat
      BY <1>1 DEF Core, Types, StreamInv
    <3> QED BY <1>4, <1>8, <3>1
  <2>2. \A t \in net' : Placed(t)' /\ End(t) <= snd_nxt'
    BY <1>3, <1>4 DEF Core, StreamInv, Placed
  <2>3. \A i \in 1..Len(got') : got'[i] = written'[i]
    BY <1>4, <1>9
  <2> QED BY <1>4, <2>1, <2>2, <2>3 DEF Core, StreamInv
<1>11. AllSegs' = AllSegs
  BY <1>4 DEF AllSegs
<1>12. QueueInv' /\ CoverInv' /\ SpaceInv' /\ FrontInv' /\ AlignInv'
  BY <1>4, <1>11 DEF Core, QueueInv, Placed, CoverInv, SpaceInv, FrontInv, AlignInv
<1>13. Types'
  BY <1>3, <1>4, <1>7 DEF Core, Types
<1>14. TimerInv'
  BY <1>4 DEF Core, TimerInv, Ready, Queued, Fits
<1> QED BY <1>10, <1>12, <1>13, <1>14 DEF Core

\* Segment s is t with the data d, which is the next to be queued, added to it.
Grows(s, t, d) ==
  /\ s.seq = t.seq /\ Len(s.data) = Len(t.data) + Len(d)
  /\ \A k \in 1..Len(t.data) : s.data[k] = t.data[k]
  /\ \A k \in 1..Len(d) : s.data[Len(t.data) + k] = d[k]
  /\ Len(d) > 0 => End(t) = snd_lbb
  /\ Len(s.data) <= mss_local

LEMMA GrownLemma ==
  ASSUME Core, NEW d \in Seq(Byte), unsent = <<>> => Len(d) = 0,
         unsent # <<>> => Len(Last(unsent).data) + Len(d) <= mss_local,
         Len(d) > 0 => End(Last(unsent)) = snd_lbb
  PROVE  /\ Extended(d) \in Seq(Segment) /\ Sorted(Extended(d))
         /\ Bytes(Extended(d)) = Bytes(unsent) + Len(d)
         /\ \A s \in Segs(Extended(d)) :
              s \in Segs(unsent) \/ \E t \in Segs(unsent) : Grows(s, t, d)
         /\ \A t \in Segs(unsent) :
              t \in Segs(Extended(d)) \/ \E s \in Segs(Extended(d)) : Grows(s, t, d)
         /\ Len(d) > 0 => \E s \in Segs(Extended(d)), t \in Segs(unsent) : Grows(s, t, d)
<1>1. CASE unsent = <<>>
  <2>1. Extended(d) = <<>> /\ Segs(<<>>) = {} /\ Len(d) = 0
    BY <1>1 DEF Extended, Segs
  <2>2. Sorted(<<>>)
    BY DEF Sorted
  <2>3. Bytes(<<>>) = 0 /\ <<>> \in Seq(Segment)
    BY BytesOfNone
  <2> QED BY <1>1, <2>1, <2>2, <2>3
<1>2. CASE unsent # <<>>
  <2> DEFINE l == Last(unsent)
             m == [l EXCEPT !.data = @ \o d]
  <2>1. unsent \in Seq(Segment) /\ Sorted(unsent)
    BY DEF Core, Types, QueueInv
  <2>2. /\ l \in Segment /\ m \in Segment /\ Extended(d) \in Seq(Segment)
        /\ m.seq = l.seq /\ m.data = l.data \o d
        /\ Segs(unsent) = Segs(Front(unsent)) \union {l}
        /\ Segs(Extended(d)) = Segs(Front(unsent)) \union {m}
        /\ Bytes(Extended(d)) = Bytes(unsent) + Len(d) /\ Sorted(Extended(d))
    BY <1>2, <2>1, ExtendLemma
  <2>3. (Len(d) > 0 => End(l) = snd_lbb) /\ Len(l.data) + Len(d) <= mss_local
    BY <1>2
  <2> HIDE DEF l, m
  <2>4. Grows(m, l, d)
    <3>1. l.data \in Seq(Byte)
      BY <2>2 DEF Segment
    <3>2. /\ Len(l.data \o d) = Len(l.data) + Len(d)
          /\ \A k \in 1..Len(l.data) : (l.data \o d)[k] = l.data[k]
          /\ \A k \in 1..Len(d) : (l.data \o d)[Len(l.data) + k] = d[k]
      BY <3>1
    <3> QED BY <2>2, <2>3, <3>2 DEF Grows
  <2> QED BY <2>2, <2>4
<1> QED BY <1>1, <1>2

\* tcp_write: the bytes taken continue the stream.
LEMMA SendLemma ==
  ASSUME Core, NEW n \in Sizes, Send(n), ~mixed'
  PROVE  Core'
<1>1. PICK W \in Nat, M \in Nat \ {0}, K \in Nat :
        W = Len(written) /\ snd_lbb = W + 1 /\ M = mss_local /\ K = Mss /\ M <= K
  BY MssLemma, SendAssumption DEF Core, Types, StreamInv
<1>2. PICK T \in Nat \ {0} : T = Taken(n) /\ T <= n /\ T <= snd_buf /\ n \in Nat \ {0}
  BY SendAssumption DEF Core, Types, Send, Taken, Least
<1>3. PICK x \in Nat : /\ x = Extension(n) /\ x <= T
                       /\ unsent = <<>> => x = 0
                       /\ unsent # <<>> => Len(Last(unsent).data) + x <= M
  <2>1. CASE unsent = <<>>
    BY <2>1 DEF Extension
  <2>2. CASE unsent # <<>>
    <3> DEFINE l == Last(unsent)
    <3>1. l \in Segs(unsent) /\ l \in AllSegs
      BY <2>2 DEF Core, Types, Last, Segs, AllSegs
    <3>2. Len(l.data) \in Nat /\ Len(l.data) <= M
      BY <1>1, <2>2, <3>1 DEF Core, QueueInv, Send, Extensible
    <3> HIDE DEF l
    <3>3. PICK L \in Nat : L = Len(l.data) /\ L <= M
      BY <3>2
    <3>4. Extension(n) = Least(T, M - L)
      BY <1>1, <1>2, <2>2, <3>3 DEF Extension, l
    <3>5. Least(T, M - L) \in Nat /\ Least(T, M - L) <= T /\ L + Least(T, M - L) <= M
      <4>1. \A i, j, k \in Nat :
              k <= j => /\ Least(i, j - k) \in Nat /\ Least(i, j - k) <= i
                        /\ k + Least(i, j - k) <= j
        BY DEF Least
      <4> QED BY <3>3, <4>1
    <3> QED BY <2>2, <3>3, <3>4, <3>5 DEF l
  <2> QED BY <2>1, <2>2
<1>4. PICK b \in Seq(Byte) : /\ b = [i \in 1..T |-> <<msgs + 1, i, n>>] /\ Len(b) = T
                             /\ \A i \in 1..T : b[i] = <<msgs + 1, i, n>>
  <2> DEFINE g == [i \in 1..T |-> <<msgs + 1, i, n>>]
  <2>1. g \in [1..T -> Byte]
    BY <1>2 DEF Core, Types, Byte
  <2>2. \A i \in 1..T : g[i] = <<msgs + 1, i, n>>
    OBVIOUS
  <2> HIDE DEF g
  <2>3. g \in Seq(Byte) /\ Len(g) = T
    BY <2>1
  <2> QED BY <2>2, <2>3 DEF g
<1>5. PICK d \in Seq(Byte) : d = SubSeq(b, 1, x) /\ Len(d) = x /\ \A k \in 1..x : d[k] = b[k]
  <2>1. /\ SubSeq(b, 1, x) \in Seq(Byte) /\ Len(SubSeq(b, 1, x)) = x
        /\ \A k \in 1..x : SubSeq(b, 1, x)[k] = b[k]
    <3>1. x <= T /\ Len(b) = T
      BY <1>3, <1>4
    <3> QED BY <3>1
  <2> QED BY <2>1
<1>6. PICK f \in Seq(Byte) : /\ f = SubSeq(b, x + 1, T) /\ Len(f) = T - x
                             /\ \A k \in 1..(T - x) : f[k] = b[x + k]
  <2>1. /\ SubSeq(b, x + 1, T) \in Seq(Byte) /\ Len(SubSeq(b, x + 1, T)) = T - x
        /\ \A k \in 1..(T - x) : SubSeq(b, x + 1, T)[k] = b[x + k]
    <3>1. x <= T /\ Len(b) = T
      BY <1>3, <1>4
    <3> QED BY <3>1
  <2> QED BY <2>1
<1>7. PICK E, G : E = Extended(d) /\ G = Segments(W + 1 + x, f)
  OBVIOUS
<1>8. /\ unsent' = E \o G /\ snd_lbb' = W + 1 + T /\ snd_buf' = snd_buf - T
      /\ written' = written \o b /\ pcb = "open" /\ out' = "called" /\ msgs' = msgs + 1
      /\ short' = (short \/ T < n) /\ (x > 0 => End(Last(unsent)) = snd_lbb)
      /\ UNCHANGED <<unacked, snd_nxt, lastack, snd_wnd, snd_wnd_max, persist, rtime, pcb, wnd,
                     net, got>>
  BY <1>1, <1>2, <1>3, <1>4, <1>5, <1>6, <1>7 DEF Send, tcp_write, Ready, window, timers
<1>9. /\ E \in Seq(Segment) /\ Sorted(E) /\ Bytes(E) = Bytes(unsent) + x
      /\ \A s \in Segs(E) : s \in Segs(unsent) \/ \E t \in Segs(unsent) : Grows(s, t, d)
      /\ \A t \in Segs(unsent) : t \in Segs(E) \/ \E s \in Segs(E) : Grows(s, t, d)
      /\ x > 0 => \E s \in Segs(E), t \in Segs(unsent) : Grows(s, t, d)
  BY <1>1, <1>3, <1>5, <1>7, <1>8, GrownLemma, ZenonT(60)
<1>10. /\ G \in Seq(Segment) /\ Sorted(G) /\ Bytes(G) = T - x
       /\ \A s \in Segs(G) :
            /\ W + 1 + x <= s.seq /\ End(s) <= W + 1 + x + (T - x) /\ Len(s.data) \in 1..M
            /\ \A k \in 1..Len(s.data) : s.data[k] = f[s.seq - (W + 1 + x) + k]
       /\ \A p \in (W + 1 + x)..(W + 1 + x + (T - x) - 1) :
            \E s \in Segs(G) : s.seq <= p /\ p < End(s)
  <2>1. W + 1 + x \in Nat \ {0}
    OBVIOUS
  <2> QED BY <1>1, <1>6, <1>7, <2>1, SegmentsLemma, ZenonT(60)
<1>11. /\ written' \in Seq(Byte) /\ Len(written') = W + T
       /\ \A i \in 1..W : written'[i] = written[i]
       /\ \A i \in 1..T : written'[W + i] = b[i]
  <2>1. written \in Seq(Byte)
    BY DEF Core, Types
  <2>2. /\ written \o b \in Seq(Byte) /\ Len(written \o b) = Len(written) + Len(b)
        /\ \A i \in 1..Len(written) : (written \o b)[i] = written[i]
        /\ \A i \in 1..Len(b) : (written \o b)[Len(written) + i] = b[i]
    BY <2>1
  <2> QED BY <1>1, <1>4, <1>8, <2>2
<1>12. ASSUME NEW t \in AllSegs
       PROVE  /\ t \in Segment /\ t.seq \in Nat \ {0} /\ Len(t.data) \in 1..K /\ Len(t.data) \in Nat
              /\ End(t) = t.seq + Len(t.data) /\ End(t) <= W + 1
              /\ \A k \in 1..Len(t.data) : t.data[k] = written'[t.seq + k - 1]
  <2>1. t \in Segment
    BY AllSegsType DEF Core
  <2>2. /\ t.seq \in Nat \ {0} /\ Len(t.data) \in Nat /\ End(t) = t.seq + Len(t.data)
    BY <2>1, EndType
  <2>3. Placed(t) /\ End(t) <= W + 1 /\ Len(t.data) \in 1..K
    BY <1>1 DEF Core, QueueInv
  <2>4. ASSUME NEW k \in 1..Len(t.data) PROVE t.data[k] = written'[t.seq + k - 1]
    <3>1. t.seq + k - 1 \in 1..W
      BY <2>2, <2>3, SMTT(30)
    <3> QED BY <1>11, <2>3, <3>1 DEF Placed
  <2> QED BY <2>1, <2>2, <2>3, <2>4
<1>13. Segs(unsent) \subseteq AllSegs /\ Segs(unacked) \subseteq AllSegs
  BY DEF AllSegs
<1>14. ASSUME NEW s \in Segs(E)
       PROVE  /\ s \in Segment /\ s.seq \in Nat \ {0} /\ Len(s.data) \in 1..K /\ Len(s.data) \in Nat
              /\ End(s) = s.seq + Len(s.data) /\ End(s) <= W + 1 + x
              /\ \A k \in 1..Len(s.data) : s.data[k] = written'[s.seq + k - 1]
              /\ \A u \in Segs(unacked) : Apart(s, u)
              /\ persist \/ lastack <= End(s)
  <2>0. lastack \in Nat
    BY DEF Core, Types
  <2>1. CASE s \in Segs(unsent)
    <3>1. s \in AllSegs
      BY <1>13, <2>1
    <3>2. \A u \in Segs(unacked) : Apart(s, u)
      BY <1>13, <2>1, <3>1 DEF Core, QueueInv
    <3>3. persist \/ lastack <= End(s)
      BY <3>1 DEF Core, FrontInv
    <3>4. End(s) <= W + 1 + x
      BY <1>12, <3>1
    <3> QED BY <1>12, <3>1, <3>2, <3>3, <3>4
  <2>2. CASE \E t \in Segs(unsent) : Grows(s, t, d)
    <3>1. PICK t \in Segs(unsent) : Grows(s, t, d)
      BY <2>2
    <3>2. t \in AllSegs
      BY <1>13, <3>1
    <3>3. PICK q \in Nat \ {0}, L \in Nat :
            /\ q = t.seq /\ L = Len(t.data) /\ L \in 1..K /\ End(t) = q + L /\ q + L <= W + 1
            /\ \A k \in 1..L : t.data[k] = written'[q + k - 1]
      BY <1>12, <3>2, ZenonT(60)
    <3>4. s \in Segment
      BY <1>9, SegsType
    <3>5. /\ s.seq = q /\ Len(s.data) = L + x /\ L + x <= M /\ (x > 0 => q + L = W + 1)
          /\ \A k \in 1..L : s.data[k] = t.data[k]
          /\ \A k \in 1..x : s.data[L + k] = d[k]
      BY <1>1, <1>5, <3>1, <3>3, SMTT(30) DEF Grows
    <3>6. End(s) = q + (L + x)
      BY <3>4, <3>5, EndType
    <3>7. L + x \in 1..K /\ q + (L + x) <= W + 1 + x
      <4>1. 1 <= L /\ L + x <= M /\ q + L <= W + 1
        BY <3>3, <3>5
      <4> QED BY <1>1, <4>1
    <3>8. ASSUME NEW k \in 1..(L + x) PROVE s.data[k] = written'[q + k - 1]
      <4>1. CASE k <= L
        <5>1. k \in 1..L
          BY <4>1
        <5> QED BY <3>3, <3>5, <5>1
      <4>2. CASE ~(k <= L)
        <5>1. PICK j \in 1..x : k = L + j
          <6>1. k - L \in 1..x /\ k = L + (k - L)
            BY <4>2
          <6> QED BY <6>1
        <5>2. x > 0 /\ q + L = W + 1
          BY <3>5, <5>1
        <5>3. q + k - 1 = W + j /\ j \in 1..T
          BY <1>3, <5>1, <5>2
        <5>4. s.data[k] = b[j]
          BY <1>5, <3>5, <5>1
        <5>5. written'[W + j] = b[j]
          BY <1>11, <5>3
        <5> QED BY <5>3, <5>4, <5>5
      <4> QED BY <4>1, <4>2
    <3>9. ASSUME NEW u \in Segs(unacked) PROVE Apart(s, u)
      <4>1. u \in AllSegs /\ u # t
        BY <1>13, <3>1 DEF Core, QueueInv
      <4>2. End(t) <= u.seq \/ End(u) <= t.seq
        BY <3>2, <4>1 DEF Core, QueueInv, Apart
      <4>3. /\ u.seq \in Nat /\ Len(u.data) \in 1..K /\ End(u) = u.seq + Len(u.data)
            /\ End(u) <= W + 1 /\ Len(u.data) \in Nat
        BY <1>12, <4>1
      <4>4. CASE x = 0
        <5>1. q + (L + 0) = q + L
          OBVIOUS
        <5> QED BY <3>3, <3>5, <3>6, <4>2, <4>4, <5>1 DEF Apart
      <4>5. CASE x > 0
        <5>1. End(t) = W + 1
          BY <3>3, <3>5, <4>5
        <5>2. ~(End(t) <= u.seq)
          BY <4>3, <5>1
        <5> QED BY <3>3, <3>5, <4>2, <5>2 DEF Apart
      <4> QED BY <4>4, <4>5
    <3>10. persist \/ lastack <= End(s)
      <4>1. persist \/ lastack <= q + L
        BY <3>2, <3>3 DEF Core, FrontInv
      <4> QED BY <2>0, <3>6, <4>1
    <3> QED BY <3>3, <3>4, <3>5, <3>6, <3>7, <3>8, <3>9, <3>10
  <2> QED BY <1>9, <2>1, <2>2
<1>15. ASSUME NEW s \in Segs(G)
       PROVE  /\ s \in Segment /\ s.seq \in Nat \ {0} /\ Len(s.data) \in 1..K /\ Len(s.data) \in Nat
              /\ End(s) = s.seq + Len(s.data) /\ End(s) <= W + 1 + T /\ W + 1 + x <= s.seq
              /\ \A k \in 1..Len(s.data) : s.data[k] = written'[s.seq + k - 1]
              /\ \A u \in Segs(unacked) : Apart(s, u)
              /\ persist \/ lastack <= End(s)
  <2>1. s \in Segment
    BY <1>10, SegsType
  <2>2. PICK q \in Nat \ {0}, L \in Nat : q = s.seq /\ L = Len(s.data) /\ End(s) = q + L
    BY <2>1, EndType
  <2>3. /\ W + 1 + x <= q /\ q + L <= W + 1 + x + (T - x) /\ L \in 1..M
        /\ \A k \in 1..L : s.data[k] = f[q - (W + 1 + x) + k]
    BY <1>10, <2>2
  <2>4. q + L <= W + 1 + T /\ L \in 1..K
    BY <1>1, <2>3
  <2>5. ASSUME NEW k \in 1..L PROVE s.data[k] = written'[q + k - 1]
    <3>1. PICK j \in 1..(T - x) : j = q - (W + 1 + x) + k
      <4>1. W + 1 + x <= q /\ q + L <= W + 1 + x + (T - x)
        BY <2>3
      <4>2. q - (W + 1 + x) + k \in 1..(T - x)
        BY <4>1
      <4> QED BY <4>2
    <3>2. s.data[k] = b[x + j]
      BY <1>6, <2>3, <3>1
    <3>3. x + j \in 1..T /\ W + (x + j) = q + k - 1
      <4>1. j = q - (W + 1 + x) + k /\ x <= T
        BY <1>3, <3>1
      <4> QED BY <4>1
    <3> QED BY <1>11, <3>2, <3>3
  <2>6. ASSUME NEW u \in Segs(unacked) PROVE Apart(s, u)
    <3>1. End(u) <= W + 1 /\ End(u) \in Nat
      BY <1>12, <1>13, EndType
    <3>2. End(u) <= q
      BY <2>3, <3>1
    <3> QED BY <2>2, <3>2 DEF Apart
  <2>7. lastack <= q + L
    <3>1. lastack \in Nat /\ lastack <= W + 1
      BY <1>1 DEF Core, Types, StreamInv
    <3> QED BY <2>3, <3>1
  <2> QED BY <2>1, <2>2, <2>3, <2>4, <2>5, <2>6, <2>7
<1>16. /\ unsent' \in Seq(Segment) /\ Segs(unsent') = Segs(E) \union Segs(G) /\ Sorted(unsent')
       /\ Bytes(unsent') = Bytes(E) + Bytes(G)
  <2>1. ASSUME NEW s \in Segs(E), NEW t \in Segs(G) PROVE End(s) <= t.seq
    BY <1>14, <1>15, SMTT(30)
  <2>2. /\ E \o G \in Seq(Segment)
    BY <1>9, <1>10
  <2>3. Segs(E \o G) = Segs(E) \union Segs(G) /\ Bytes(E \o G) = Bytes(E) + Bytes(G)
    BY <1>9, <1>10, SegsConcat, BytesConcat
  <2>4. Sorted(E \o G)
    BY <1>9, <1>10, <2>1, SortedConcat
  <2> QED BY <1>8, <2>2, <2>3, <2>4
<1>17. /\ Segs(unacked') = Segs(unacked)
       /\ AllSegs' = Segs(E) \union Segs(G) \union Segs(unacked)
  BY <1>8, <1>16 DEF AllSegs
<1>18. QueueInv'
  <2>1. ASSUME NEW s \in AllSegs'
        PROVE  Placed(s)' /\ End(s) <= snd_lbb' /\ Len(s.data) \in 1..Mss
    <3>1. CASE s \in Segs(E)
      <4>1. End(s) <= W + 1 + T
        BY <1>3, <1>14, <3>1
      <4> QED BY <1>1, <1>8, <1>14, <1>17, <3>1, <4>1 DEF Placed
    <3>2. CASE s \in Segs(G)
      BY <1>1, <1>8, <1>15, <1>17, <3>2 DEF Placed
    <3>3. CASE s \in Segs(unacked)
      <4>1. s \in AllSegs
        BY <1>13, <3>3
      <4>2. End(s) <= W + 1 + T
        BY <1>12, <4>1
      <4> QED BY <1>1, <1>8, <1>12, <1>17, <4>1, <4>2 DEF Placed
    <3> QED BY <1>17, <3>1, <3>2, <3>3
  <2>2. ASSUME NEW s \in Segs(unsent'), NEW u \in Segs(unacked') PROVE Apart(s, u) /\ s # u
    <3>1. Apart(s, u)
      BY <1>14, <1>15, <1>16, <1>17
    <3>2. /\ s.seq \in Nat /\ End(s) = s.seq + Len(s.data) /\ Len(s.data) \in Nat
          /\ Len(s.data) \in 1..K
      BY <1>14, <1>15, <1>16
    <3>3. ~Apart(s, s)
      BY <3>2 DEF Apart
    <3> QED BY <3>1, <3>3
  <2>3. ASSUME NEW s \in AllSegs', NEW t \in AllSegs', s # t PROVE Apart(s, t)
    <3>1. CASE s \in Segs(unsent') /\ t \in Segs(unsent')
      <4>1. PICK i \in DOMAIN unsent' : s = unsent'[i]
        BY <3>1 DEF Segs
      <4>2. PICK j \in DOMAIN unsent' : t = unsent'[j]
        BY <3>1 DEF Segs
      <4>3. i < j \/ j < i
        BY <1>16, <2>3, <4>1, <4>2
      <4> QED BY <1>16, <4>1, <4>2, <4>3 DEF Sorted, Apart
    <3>2. CASE s \in Segs(unacked) /\ t \in Segs(unacked)
      BY <1>13, <2>3, <3>2 DEF Core, QueueInv
    <3>3. CASE s \in Segs(unsent') /\ t \in Segs(unacked)
      BY <1>17, <2>2, <3>3
    <3>4. CASE s \in Segs(unacked) /\ t \in Segs(unsent')
      <4>1. Apart(t, s)
        BY <1>17, <2>2, <3>4
      <4> QED BY <4>1 DEF Apart
    <3> QED BY <1>16, <1>17, <3>1, <3>2, <3>3, <3>4
  <2>4. Segs(unsent') \intersect Segs(unacked') = {}
    BY <2>2
  <2>5. Sorted(unacked')
    BY <1>8 DEF Core, QueueInv
  <2> QED BY <1>16, <2>1, <2>3, <2>4, <2>5 DEF QueueInv
<1>19. CoverInv'
  <2> SUFFICES ASSUME NEW p \in lastack..(W + 1 + T - 1)
               PROVE  \E s \in AllSegs' : s.seq <= p /\ p < End(s)
    BY <1>8 DEF CoverInv
  <2>0. p \in Int /\ lastack \in Nat /\ lastack <= p
    BY DEF Core, Types
  <2>1. CASE p < W + 1
    <3>1. p \in lastack..(snd_lbb - 1)
      BY <1>1, <2>0, <2>1
    <3>2. PICK t \in AllSegs : t.seq <= p /\ p < End(t)
      BY <1>8, <3>1 DEF Core, CoverInv
    <3>3. CASE t \in Segs(unacked) \/ t \in Segs(E)
      BY <1>17, <3>2, <3>3
    <3>4. CASE t \in Segs(unsent) /\ t \notin Segs(E)
      <4>1. PICK s \in Segs(E) : Grows(s, t, d)
        BY <1>9, <3>4
      <4>2. s.seq = t.seq /\ Len(s.data) = Len(t.data) + x
        BY <1>5, <4>1 DEF Grows
      <4>3. End(s) = s.seq + Len(s.data)
        BY <1>14
      <4>4. End(t) = t.seq + Len(t.data) /\ t.seq \in Nat /\ Len(t.data) \in Nat
        BY <1>12, <3>2
      <4>5. s.seq <= p /\ p < End(s)
        BY <2>0, <3>2, <4>2, <4>3, <4>4
      <4> QED BY <1>17, <4>5
    <3> QED BY <3>2, <3>3, <3>4 DEF AllSegs
  <2>2. CASE W + 1 <= p /\ p < W + 1 + x
    <3>1. x > 0
      BY <2>0, <2>2
    <3>2. PICK s \in Segs(E), t \in Segs(unsent) : Grows(s, t, d)
      BY <1>9, <3>1
    <3>3. s.seq = t.seq /\ Len(s.data) = Len(t.data) + x /\ End(t) = W + 1
      BY <1>1, <1>5, <3>1, <3>2 DEF Grows
    <3>4. End(s) = s.seq + Len(s.data)
      BY <1>14, <3>2
    <3>5. End(t) = t.seq + Len(t.data) /\ t.seq \in Nat /\ Len(t.data) \in Nat
      BY <1>12, <1>13, <3>2
    <3>6. s.seq <= p /\ p < End(s)
      BY <2>0, <2>2, <3>3, <3>4, <3>5
    <3> QED BY <1>17, <3>2, <3>6
  <2>3. CASE W + 1 + x <= p
    <3>1. p \in (W + 1 + x)..(W + 1 + x + (T - x) - 1)
      BY <2>0, <2>3
    <3> QED BY <1>10, <1>17, <3>1
  <2> QED BY <2>0, <2>1, <2>2, <2>3
<1>20. SpaceInv' /\ snd_buf' \in Nat
  <2>1. PICK B \in Nat, U \in Nat, V \in Nat : B = snd_buf /\ U = Bytes(unsent) /\ V = Bytes(unacked)
    BY BytesType DEF Core, Types
  <2>2. B + U + V = SndBuf
    BY <1>8, <2>1 DEF Core, SpaceInv
  <2>3. Bytes(unsent') = U + x + (T - x) /\ snd_buf' = B - T /\ Bytes(unacked') = V /\ T <= B
    BY <1>2, <1>8, <1>9, <1>10, <1>16, <2>1
  <2>4. (B - T) + (U + x + (T - x)) + V = B + U + V /\ (T <= B => B - T \in Nat)
    OBVIOUS
  <2> QED BY <2>2, <2>3, <2>4 DEF SpaceInv
<1>21. FrontInv'
  <2> SUFFICES ASSUME NEW s \in AllSegs' PROVE persist \/ lastack <= End(s)
    BY <1>8 DEF FrontInv
  <2>1. CASE s \in Segs(E)
    BY <1>14, <2>1
  <2>2. CASE s \in Segs(G)
    BY <1>15, <2>2
  <2>3. CASE s \in Segs(unacked)
    BY <1>13, <2>3 DEF Core, FrontInv
  <2> QED BY <1>17, <2>1, <2>2, <2>3
<1>22. StreamInv'
  <2>1. snd_nxt \in Nat /\ snd_nxt <= W + 1 /\ Len(got) \in Nat /\ Len(got) < snd_nxt
        /\ lastack <= Len(got) + 1
    BY <1>1 DEF Core, Types, StreamInv
  <2>2. ASSUME NEW i \in 1..Len(got') PROVE got'[i] = written'[i]
    <3>1. i \in 1..Len(got) /\ i \in 1..W
      BY <1>8, <2>1
    <3> QED BY <1>8, <1>11, <3>1 DEF Core, StreamInv
  <2>3. ASSUME NEW s \in net' PROVE Placed(s)' /\ End(s) <= snd_nxt'
    <3>1. s \in net /\ s \in Segment /\ Placed(s) /\ End(s) <= snd_nxt
      BY <1>8 DEF Core, Types, StreamInv
    <3>2. s.seq \in Nat \ {0} /\ Len(s.data) \in Nat /\ End(s) = s.seq + Len(s.data)
      BY <3>1, EndType
    <3>3. ASSUME NEW k \in 1..Len(s.data) PROVE s.data[k] = written'[s.seq + k - 1]
      <4>1. s.seq + k - 1 \in 1..W
        BY <2>1, <3>1, <3>2, SMTT(30)
      <4> QED BY <1>11, <3>1, <4>1 DEF Placed
    <3> QED BY <1>8, <3>1, <3>3 DEF Placed
  <2>4. snd_lbb' = Len(written') + 1 /\ snd_nxt' <= snd_lbb'
    BY <1>8, <1>11, <2>1
  <2> QED BY <1>8, <2>1, <2>2, <2>3, <2>4 DEF StreamInv
<1>23. AlignInv'
  <2> SUFFICES ASSUME ~short, T = n
               PROVE  /\ \A i \in 2..(W + T) : Follows(written'[i - 1], written'[i])
                      /\ written'[W + T][2] = written'[W + T][3]
    <3>1. (~short' => ~short /\ T = n) /\ Len(written') = W + T
      <4>1. short' = (short \/ T < n) /\ Len(written') = W + T
        BY <1>8, <1>11
      <4>2. T = n \/ T < n
        BY <1>2
      <4> QED BY <4>1, <4>2
    <3> QED BY <3>1 DEF AlignInv
  <2>1. ASSUME NEW i \in 2..(W + T) PROVE Follows(written'[i - 1], written'[i])
    <3>1. CASE i <= W
      <4>1. i \in 2..Len(written) /\ i \in 1..W /\ i - 1 \in 1..W
        BY <1>1, <3>1
      <4>2. Follows(written[i - 1], written[i])
        BY <4>1 DEF Core, AlignInv
      <4> QED BY <1>11, <4>1, <4>2
    <3>2. CASE i = W + 1
      <4>1. W \in 1..W /\ 1 \in 1..T /\ i - 1 = W
        BY <3>2
      <4>2. written # <<>>
        BY <1>1, <4>1
      <4>3. written[W][2] = written[W][3]
        BY <1>1, <4>2 DEF Core, AlignInv
      <4>4. written'[W + 1] = <<msgs + 1, 1, n>> /\ written'[W] = written[W]
        BY <1>4, <1>11, <4>1
      <4> QED BY <3>2, <4>1, <4>3, <4>4 DEF Follows
    <3>3. CASE W + 1 < i
      <4>1. PICK j \in Nat : i = W + j /\ j \in 2..T
        <5>1. i - W \in Nat /\ i = W + (i - W) /\ i - W \in 2..T
          BY <3>3
        <5> QED BY <5>1
      <4>2. j - 1 \in 1..T /\ j \in 1..T /\ i - 1 = W + (j - 1)
        BY <4>1
      <4>3. written'[i - 1] = <<msgs + 1, j - 1, n>> /\ written'[i] = <<msgs + 1, j, n>>
        BY <1>4, <1>11, <4>1, <4>2
      <4>4. j - 1 # n /\ (j - 1) + 1 = j
        <5>1. j \in Nat /\ j <= T
          BY <4>1
        <5>2. j - 1 # T /\ (j - 1) + 1 = j
          BY <5>1
        <5> QED BY <5>2
      <4> QED BY <4>3, <4>4 DEF Follows
    <3> QED BY <3>1, <3>2, <3>3
  <2>2. written'[W + T] = <<msgs + 1, T, n>>
    BY <1>4, <1>11
  <2> QED BY <2>1, <2>2
<1>24. Types'
  <2>1. /\ snd_lbb' \in Nat /\ msgs' \in Nat /\ written' \in Seq(Byte) /\ snd_buf' \in Nat
        /\ unsent' \in Seq(Segment) /\ (pcb' # "open" => out' = "idle")
    BY <1>8, <1>11, <1>16, <1>20 DEF Core, Types
  <2> QED BY <1>8, <2>1 DEF Core, Types
<1>25. TimerInv'
  BY <1>8 DEF Core, TimerInv, Ready
<1> QED BY <1>18, <1>19, <1>20, <1>21, <1>22, <1>23, <1>24, <1>25 DEF Core

----------------------------------------------------------------------------
\* The theorems.

LEMMA InitIInv == Init => IInv
<1> SUFFICES ASSUME Init PROVE Core
  BY DEF IInv
<1>1. AllSegs = {} /\ Segs(unsent) = {} /\ Segs(unacked) = {}
  BY DEF Init, AllSegs, Segs
<1>2. Types
  <2>1. snd_wnd \in Nat /\ snd_wnd_max = snd_wnd
    BY SendAssumption DEF Init
  <2> QED BY <2>1, SendAssumption DEF Init, Types
<1>3. StreamInv /\ QueueInv /\ CoverInv /\ FrontInv /\ AlignInv
  BY <1>1 DEF Init, StreamInv, QueueInv, Sorted, CoverInv, FrontInv, AlignInv
<1>4. SpaceInv
  BY BytesOfNone, SendAssumption DEF Init, SpaceInv
<1>5. TimerInv
  BY DEF Init, TimerInv, Queued
<1> QED BY <1>2, <1>3, <1>4, <1>5 DEF Core

LEMMA CoreStep ==
  ASSUME Core, Next, ~mixed'
  PROVE  Core'
<1>1. CASE \E n \in Sizes : Send(n)
  BY <1>1, SendLemma
<1>2. CASE SendFails \/ SendBlocked \/ SendAsserts \/ Poll
  BY <1>2, SendFailsLemma
<1>3. CASE tcp_output
  BY <1>3, SendFailsLemma, OutputBeginsLemma, OutputSegmentLemma DEF tcp_output
<1>4. CASE tcp_receive
  BY <1>4, AckOldLemma, AckFastRexmitLemma, AckNewLemma DEF tcp_receive
<1>5. CASE tcp_slowtmr
  BY <1>5, RtoLemma, SendFailsLemma, ProbeLemma, SplitActionLemma, RemovePcbLemma
     DEF tcp_slowtmr
<1>6. CASE \E s \in net : PeerReceives(s)
  BY <1>6, PeerLemma
<1> QED BY <1>1, <1>2, <1>3, <1>4, <1>5, <1>6 DEF Next

LEMMA MixedStays ==
  ASSUME mixed, Next
  PROVE  mixed'
BY DEF Next, Send, SendFails, SendBlocked, SendAsserts, Poll, tcp_output, OutputBegins, OutputSegment,
   OutputFails, OutputEnds, tcp_receive, AckOld, AckFastRexmit, AckNew, tcp_slowtmr, Rto,
   PersistAsserts, Probe, Split, RemovePcb, Refusal, RtoBusy, SplitFails, PeerReceives, history

LEMMA StutterStep ==
  ASSUME Core, UNCHANGED vars
  PROVE  Core'
<1>1. /\ UNCHANGED <<unsent, unacked, snd_lbb, snd_nxt, lastack, snd_buf, snd_wnd, snd_wnd_max,
                     rtime, persist, pcb, out, wnd, net, got, msgs, written, short>>
  BY DEF vars, queues, window, timers, output, history
<1>2. AllSegs' = AllSegs
  BY <1>1 DEF AllSegs
<1>3. Types' /\ StreamInv' /\ AlignInv'
  BY <1>1 DEF Core, Types, StreamInv, Placed, AlignInv
<1>4. QueueInv' /\ CoverInv' /\ SpaceInv' /\ FrontInv'
  BY <1>1, <1>2 DEF Core, QueueInv, Placed, CoverInv, SpaceInv, FrontInv
<1>5. TimerInv'
  BY <1>1 DEF Core, TimerInv, Ready, Queued, Fits
<1> QED BY <1>3, <1>4, <1>5 DEF Core

\* Whatever the network and the peer do, and whichever calls fail, the invariant of the
\* send side holds until data is queued out of place.
THEOREM SendInvariant == Spec => []IInv
<1>1. IInv /\ [Next]_vars => IInv'
  <2> SUFFICES ASSUME IInv, [Next]_vars PROVE IInv'
    OBVIOUS
  <2>1. CASE mixed /\ Next
    BY <2>1, MixedStays DEF IInv
  <2>2. CASE mixed /\ UNCHANGED vars
    BY <2>2 DEF IInv, vars, history
  <2>3. CASE Core /\ Next
    BY <2>3, CoreStep DEF IInv
  <2>4. CASE Core /\ UNCHANGED vars
    BY <2>4, StutterStep DEF IInv
  <2> QED BY <2>1, <2>2, <2>3, <2>4 DEF IInv
<1> QED BY <1>1, InitIInv, PTL DEF Spec

\* A segment in its place is the part of the stream that its numbers name.
LEMMA PlacedData ==
  ASSUME Types, NEW s \in Segment, Placed(s), End(s) <= Len(written) + 1
  PROVE  s.data = SubSeq(written, s.seq, End(s) - 1)
<1>1. PICK q \in Nat \ {0}, L \in Nat, d \in Seq(Byte) :
        q = s.seq /\ d = s.data /\ L = Len(d) /\ End(s) = q + L
  BY EndType DEF Segment
<1>2. q + L <= Len(written) + 1 /\ written \in Seq(Byte) /\ Len(written) \in Nat
  BY <1>1 DEF Types
<1>3. PICK e \in Seq(Byte) : /\ e = SubSeq(written, q, q + L - 1) /\ Len(e) = L
                             /\ \A k \in 1..L : e[k] = written[q + k - 1]
  <2>1. /\ SubSeq(written, q, q + L - 1) \in Seq(Byte)
        /\ Len(SubSeq(written, q, q + L - 1)) = L
        /\ \A k \in 1..L : SubSeq(written, q, q + L - 1)[k] = written[q + k - 1]
    BY <1>2
  <2> QED BY <2>1
<1>4. \A k \in 1..L : d[k] = e[k]
  BY <1>1, <1>3 DEF Placed
<1>5. d = e
  BY <1>1, <1>3, <1>4, SeqEqual, ZenonT(60)
<1>6. End(s) = q + L /\ s.seq = q /\ s.data = d
  BY <1>1
<1>7. s.data = SubSeq(written, q, q + L - 1)
  BY <1>3, <1>5, <1>6
<1> QED BY ONLY <1>6, <1>7

\* Every segment, queued or in the network, carries the bytes written for its sequence
\* numbers, and the peer has a prefix of what was written, through extension, splitting,
\* probes and retransmission, for any windows and any loss, repetition and reordering.
THEOREM StreamKept == Spec => []StreamExact
<1>1. IInv => StreamExact
  <2> SUFFICES ASSUME Core PROVE StreamExact
    BY DEF IInv, StreamExact
  <2>1. /\ got \in Seq(Byte) /\ written \in Seq(Byte) /\ snd_nxt \in Nat /\ Types
        /\ Len(got) < snd_nxt /\ snd_nxt <= Len(written) + 1
        /\ \A i \in 1..Len(got) : got[i] = written[i]
    BY DEF Core, Types, StreamInv
  <2>2. IsPrefix(got, written)
    <3>1. Len(got) <= Len(written)
      BY <2>1
    <3>2. \A i \in 1..Len(got) : got[i] = SubSeq(written, 1, Len(got))[i]
      BY <2>1, <3>1
    <3>3. SubSeq(written, 1, Len(got)) \in Seq(Byte) /\ Len(SubSeq(written, 1, Len(got))) = Len(got)
      BY <2>1, <3>1
    <3>4. got = SubSeq(written, 1, Len(got))
      BY <2>1, <3>2, <3>3, SeqEqual
    <3>5. SubSeq(got, 1, Len(got)) = got
      BY <2>1
    <3> QED BY <3>1, <3>4, <3>5 DEF IsPrefix
  <2>3. ASSUME NEW s \in net \union ToSet(unsent) \union ToSet(unacked)
        PROVE  s.data = SubSeq(written, s.seq, End(s) - 1)
    <3>1. s \in net \/ s \in AllSegs
      BY DEF ToSet, AllSegs, Segs
    <3>2. s \in Segment
      BY <2>1, <3>1, AllSegsType DEF Types
    <3>3. Placed(s) /\ (End(s) <= snd_nxt \/ End(s) <= Len(written) + 1)
      BY <3>1 DEF Core, StreamInv, QueueInv
    <3>4. End(s) <= Len(written) + 1
      BY <2>1, <3>2, <3>3, EndType
    <3> QED BY <2>1, <3>2, <3>3, <3>4, PlacedData
  <2> QED BY <2>1, <2>2, <2>3 DEF StreamExact
<1> QED BY <1>1, SendInvariant, PTL

\* A byte is in at most one segment of a queue.
LEMMA HeldOnce ==
  ASSUME NEW q \in Seq(Segment), Sorted(q), NEW p \in Int, NEW i \in DOMAIN q,
         q[i].seq <= p, p < End(q[i])
  PROVE  Holds(q, p) = {i}
<1>1. DOMAIN q = 1..Len(q) /\ Len(q) \in Nat
  OBVIOUS
<1>2. ASSUME NEW j \in DOMAIN q, q[j].seq <= p, p < End(q[j]), j # i PROVE FALSE
  <2>1. q[i].seq \in Nat /\ q[j].seq \in Nat /\ End(q[i]) \in Nat /\ End(q[j]) \in Nat
    BY <1>1, SegmentType, EndType
  <2>2. i < j \/ j < i
    BY <1>1, <1>2
  <2>3. End(q[i]) <= q[j].seq \/ End(q[j]) <= q[i].seq
    BY <2>2 DEF Sorted
  <2> QED BY <1>2, <2>1, <2>3
<1> QED BY <1>2 DEF Holds

\* A byte that is held by a segment of one queue is in none of the other.
LEMMA HeldHere ==
  ASSUME Core, NEW q \in {unsent, unacked}, NEW r \in {unsent, unacked},
         Segs(q) \intersect Segs(r) = {}, NEW p \in Int, NEW s \in Segs(q), s.seq <= p, p < End(s)
  PROVE  (\E i \in DOMAIN q : Holds(q, p) = {i}) /\ Holds(r, p) = {}
<1>1. q \in Seq(Segment) /\ r \in Seq(Segment) /\ Sorted(q)
  BY DEF Core, Types, QueueInv
<1>2. PICK i \in DOMAIN q : s = q[i]
  BY DEF Segs
<1>3. Holds(q, p) = {i}
  BY <1>1, <1>2, HeldOnce
<1>4. ASSUME NEW j \in DOMAIN r, r[j].seq <= p, p < End(r[j]) PROVE FALSE
  <2>1. r[j] \in Segs(r)
    BY DEF Segs
  <2>2. s \in AllSegs /\ r[j] \in AllSegs /\ s # r[j]
    BY <2>1 DEF AllSegs
  <2>3. End(s) <= r[j].seq \/ End(r[j]) <= s.seq
    BY <2>2 DEF Core, QueueInv, Apart
  <2>4. s \in Segment /\ r[j] \in Segment
    BY <2>2, AllSegsType DEF Core
  <2>5. s.seq \in Nat /\ End(s) \in Nat /\ r[j].seq \in Nat /\ End(r[j]) \in Nat
    BY <2>4, EndType
  <2> QED BY <1>4, <2>3, <2>5
<1> QED BY <1>2, <1>3, <1>4 DEF Holds

\* A byte that is not acknowledged is in exactly one segment of one queue, and the send
\* buffer's space adds up, for every number of retransmissions, splits and failed calls.
THEOREM NothingLost == Spec => []Retained
<1>1. IInv => Retained
  <2> SUFFICES ASSUME Core, pcb # "removed" PROVE Retained
    BY DEF IInv, Retained
  <2>1. ASSUME NEW p \in lastack..(snd_lbb - 1)
        PROVE  \/ \E i \in DOMAIN unsent : Holds(unsent, p) = {i} /\ Holds(unacked, p) = {}
               \/ \E i \in DOMAIN unacked : Holds(unacked, p) = {i} /\ Holds(unsent, p) = {}
    <3>1. p \in Int
      BY DEF Core, Types
    <3>2. PICK s \in AllSegs : s.seq <= p /\ p < End(s)
      BY DEF Core, CoverInv
    <3>3. /\ Segs(unsent) \intersect Segs(unacked) = {}
          /\ Segs(unacked) \intersect Segs(unsent) = {}
      BY DEF Core, QueueInv
    <3>4. CASE s \in Segs(unsent)
      <4>1. (\E i \in DOMAIN unsent : Holds(unsent, p) = {i}) /\ Holds(unacked, p) = {}
        BY <3>1, <3>2, <3>3, <3>4, HeldHere
      <4> QED BY <4>1
    <3>5. CASE s \in Segs(unacked)
      <4>1. (\E i \in DOMAIN unacked : Holds(unacked, p) = {i}) /\ Holds(unsent, p) = {}
        BY <3>1, <3>2, <3>3, <3>5, HeldHere
      <4> QED BY <4>1
    <3> QED BY <3>2, <3>4, <3>5 DEF AllSegs
  <2>2. snd_buf + Bytes(unsent) + Bytes(unacked) = SndBuf
    BY DEF Core, SpaceInv
  <2> QED BY <2>1, <2>2 DEF Retained
<1> QED BY <1>1, SendInvariant, PTL

\* Data never waits without a timer, and the persist timer runs only with nothing in
\* flight: what tcp_output leaves behind, on every way out of it, is covered.
THEOREM AlwaysTimed == Spec => []TimerRuns
<1>1. IInv => TimerRuns
  BY DEF IInv, Core, TimerInv, TimerRuns
<1> QED BY <1>1, SendInvariant, PTL

\* As long as lwip_send takes whole messages, the tester reads whole messages, one behind
\* the other.
THEOREM ReaderKept == Spec => []ReaderAligned
<1>1. IInv => ReaderAligned
  <2> SUFFICES ASSUME Core, ~short, NEW i \in 2..Len(got) PROVE Follows(got[i - 1], got[i])
    BY DEF IInv, ReaderAligned, Follows
  <2>1. Len(got) \in Nat /\ Len(written) \in Nat /\ Len(got) <= Len(written)
    BY DEF Core, Types, StreamInv
  <2>2. i - 1 \in 1..Len(got) /\ i \in 1..Len(got) /\ i \in 2..Len(written)
    BY <2>1
  <2>3. got[i - 1] = written[i - 1] /\ got[i] = written[i]
    BY <2>2 DEF Core, StreamInv
  <2>4. Follows(written[i - 1], written[i])
    BY <2>2 DEF Core, AlignInv
  <2> QED BY <2>3, <2>4
<1> QED BY <1>1, SendInvariant, PTL
============================================================================
