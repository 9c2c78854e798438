------------------------------ MODULE TcpSend ------------------------------
(***************************************************************************)
(* lwIP's send side of one established TCP connection, as the DoIP task    *)
(* uses it through a non-blocking socket (sockets.c, api_msg.c, tcp_out.c, *)
(* tcp_in.c, tcp.c).                                                       *)
(*                                                                         *)
(* A segment has a sequence number and carries the bytes it was given; a   *)
(* byte is <<message, position, size of the message>>.  Every step is      *)
(* taken with the core lock; a call of tcp_output is several of them, and  *)
(* out keeps all others waiting until it has returned.                     *)
(*                                                                         *)
(* The network loses, repeats and reorders segments; the peer acknowledges *)
(* what it likes of the bytes it has, with any window.  Timers may expire  *)
(* whenever they run.  Left to chance are memory, the driver's hold on a   *)
(* pbuf, the number of pbufs queued, the count of duplicate                *)
(* acknowledgements, and the congestion window, of which only that it is   *)
(* at least one segment is used.                                           *)
(***************************************************************************)
EXTENDS Integers, Sequences, SequencesExt

CONSTANTS
  Mss,       \* pcb->mss
  SndBuf,    \* TCP_SND_BUF
  MaxRtx,    \* TCP_MAXRTX
  Wnds,      \* the windows a peer announces
  Sizes,     \* the sizes of messages
  MaxMsgs    \* bound on the messages sent

ASSUME SendAssumption ==
  /\ Mss \in Nat \ {0} /\ SndBuf \in Nat \ {0} /\ MaxRtx \in Nat \ {0} /\ MaxMsgs \in Nat
  /\ Wnds \subseteq Nat /\ Sizes \subseteq Nat \ {0}

VARIABLES
  unsent, unacked,         \* the queues of segments
  snd_lbb, snd_nxt,        \* the next byte to queue; to send
  lastack,                 \* the first byte not acknowledged
  snd_buf,                 \* bytes that may still be queued
  snd_wnd, snd_wnd_max,    \* the peer's window; the largest so far
  rtime, nrtx,             \* the retransmission timer runs (rtime >= 0); retransmissions
  infr, nagleerr,          \* TF_INFR, TF_NAGLEMEMERR
  persist, persist_probe,  \* the persist timer runs (persist_backoff > 0); probes
  pcb,                     \* "open", "removed", or "halted" by a failed assertion
  out, wnd,                \* tcp_output: "idle", "called", by tcp_input "input", or "loop";
                           \* its local wnd
  net,                     \* segments sent that the peer may yet receive
  got,                     \* the bytes the peer has, in sequence
  msgs, written, short,    \* history: messages tried, bytes taken, a message was cut
  mixed,                   \* history: data was queued out of place
  refused                  \* ticks in a row that came to nothing, modulo 2

queues == <<unsent, unacked, snd_lbb, snd_nxt, lastack, snd_buf>>
window == <<snd_wnd, snd_wnd_max>>
timers == <<rtime, nrtx, persist, persist_probe>>
flags == <<infr, nagleerr>>
output == <<out, wnd>>
history == <<msgs, written, short, mixed>>
vars == <<queues, window, timers, flags, pcb, output, net, got, history, refused>>

\* A connection just accepted, with the window of the peer's SYN.
Init ==
  /\ unsent = <<>> /\ unacked = <<>>
  /\ snd_lbb = 1 /\ snd_nxt = 1 /\ lastack = 1 /\ snd_buf = SndBuf
  /\ snd_wnd \in Wnds /\ snd_wnd_max = snd_wnd
  /\ rtime = FALSE /\ nrtx = 0 /\ persist = FALSE /\ persist_probe = 0
  /\ infr = FALSE /\ nagleerr = FALSE
  /\ pcb = "open" /\ out = "idle" /\ wnd = 0
  /\ net = {} /\ got = <<>>
  /\ msgs = 0 /\ written = <<>> /\ short = FALSE /\ mixed = FALSE
  /\ refused = FALSE

Least(a, b) == IF a < b THEN a ELSE b
Seg(seq, data) == [seq |-> seq, data |-> data]
End(s) == s.seq + Len(s.data)
Sorted(q) == \A i, j \in DOMAIN q : i < j => End(q[i]) <= q[j].seq

\* No call of tcp_output is under way.
Ready == pcb = "open" /\ out = "idle"

----------------------------------------------------------------------------
\* lwip_send of a message of n bytes: tcp_write takes what snd_buf has room for.
Taken(n) == Least(n, snd_buf)

\* "Don't allocate segments bigger than half the maximum window".
mss_local ==
  LET half == snd_wnd_max \div 2
  IN  IF half = 0 THEN Mss ELSE Least(Mss, half)

\* The bytes of a message that go into the last unsent segment.
Extension(n) ==
  IF unsent = <<>> THEN 0 ELSE Least(Taken(n), mss_local - Len(Last(unsent).data))

Extended(data) ==
  IF unsent = <<>> THEN <<>>
  ELSE Append(Front(unsent), [Last(unsent) EXCEPT !.data = @ \o data])

\* The rest, cut into segments.
Segments(seq, data) ==
  [i \in 1..((Len(data) + mss_local - 1) \div mss_local) |->
     LET from == (i - 1) * mss_local
     IN  Seg(seq + from, SubSeq(data, from + 1, Least(from + mss_local, Len(data))))]

tcp_write(bytes, ext) ==
  /\ unsent' = Extended(SubSeq(bytes, 1, ext))
               \o Segments(snd_lbb + ext, SubSeq(bytes, ext + 1, Len(bytes)))
  /\ snd_lbb' = snd_lbb + Len(bytes)
  /\ snd_buf' = snd_buf - Len(bytes)
  /\ written' = written \o bytes

\* The last unsent segment fits the size that segments have now.
Extensible == unsent # <<>> => Len(Last(unsent).data) <= mss_local

Send(n) ==
  /\ Ready /\ msgs < MaxMsgs /\ snd_buf > 0 /\ Extensible
  /\ tcp_write([i \in 1..Taken(n) |-> <<msgs + 1, i, n>>], Extension(n))
  /\ msgs' = msgs + 1
  /\ short' = (short \/ Taken(n) < n)
  /\ mixed' = (mixed \/ (Extension(n) > 0 /\ End(Last(unsent)) # snd_lbb))
  /\ out' = "called" /\ refused' = FALSE
  /\ UNCHANGED <<unacked, snd_nxt, lastack, window, timers, flags, pcb, wnd, net, got>>

\* "mss_local is too small": the largest window was below two bytes when the segment
\* was made and has since become larger.  LWIP_PLATFORM_ASSERT does not return.
SendAsserts ==
  /\ Ready /\ msgs < MaxMsgs /\ snd_buf > 0 /\ ~Extensible
  /\ pcb' = "halted" /\ refused' = FALSE
  /\ UNCHANGED <<queues, window, timers, flags, output, net, got, history>>

\* Mutant: what was queued before the error stays queued.
X_error_keeps_part ==
  /\ Ready /\ msgs < MaxMsgs /\ snd_buf > 0 /\ Extensible
  /\ \E n \in Sizes : tcp_write(<<<<msgs + 1, 1, n>>>>, Least(Extension(n), 1))
  /\ nagleerr' = TRUE
  /\ msgs' = msgs + 1
  /\ out' = "called" /\ refused' = FALSE
  /\ UNCHANGED <<unacked, snd_nxt, lastack, window, timers, infr, pcb, wnd, net, got, short,
                 mixed>>

\* ERR_MEM: nothing is queued, lwip_send returns -1.
SendFails ==
  /\ Ready /\ msgs < MaxMsgs /\ snd_buf > 0
  /\ nagleerr' = TRUE
  /\ msgs' = msgs + 1
  /\ out' = "called" /\ refused' = FALSE
  /\ UNCHANGED <<queues, window, timers, infr, pcb, wnd, net, got,
                 written, short, mixed>>

\* ERR_WOULDBLOCK.
SendBlocked ==
  /\ Ready /\ msgs < MaxMsgs /\ snd_buf = 0
  /\ msgs' = msgs + 1 /\ refused' = FALSE
  /\ UNCHANGED <<queues, window, timers, flags, pcb, output, net, got,
                 written, short, mixed>>

----------------------------------------------------------------------------
\* tcp_output.

Called == out \in {"called", "input"}

\* The comparison is unsigned.
Fits(s, w) == End(s) - lastack \in 0..w

\* Mutant: the persist timer is started for a closed window only, not for one that is
\* too small for the segment.
X_persist_only_at_zero ==
  /\ Called /\ refused' = FALSE
  /\ out' = IF unsent # <<>> /\ Fits(Head(unsent), snd_wnd) THEN "loop" ELSE "idle"
  /\ wnd' = IF out' = "loop" THEN snd_wnd ELSE wnd
  /\ persist' = (out' = "idle" /\ (persist \/ (unsent # <<>> /\ unacked = <<>> /\ snd_wnd = 0)))
  /\ UNCHANGED <<queues, window, rtime, nrtx, persist_probe, flags, pcb, net, got, history>>

\* The congestion window, which is never less than a segment, may be the smaller.
OutputBegins ==
  /\ Called /\ refused' = FALSE
  /\ \E w \in {snd_wnd} \union (Mss..snd_wnd) :
       /\ \/ /\ unsent # <<>> /\ Fits(Head(unsent), w)
             /\ persist' = FALSE /\ out' = "loop" /\ wnd' = w
             /\ UNCHANGED <<nagleerr, persist_probe>>
          \/ /\ unsent = <<>>
             /\ out' = "idle" /\ nagleerr' = FALSE
             /\ UNCHANGED <<persist, persist_probe, wnd>>
          \/ /\ unsent # <<>> /\ ~Fits(Head(unsent), w)
             /\ out' = "idle" /\ nagleerr' = FALSE /\ UNCHANGED wnd
             /\ IF w = snd_wnd /\ unacked = <<>> /\ ~persist
                THEN persist' = TRUE /\ persist_probe' = 0
                ELSE UNCHANGED <<persist, persist_probe>>
  /\ UNCHANGED <<queues, window, rtime, nrtx, infr, pcb, net, got, history>>

\* tcp_do_output_nagle, but for the number of pbufs queued.
NagleHolds ==
  /\ unacked # <<>> /\ ~infr /\ ~nagleerr /\ snd_buf > 0
  /\ Len(unsent) = 1 /\ Len(unsent[1].data) < Mss

\* "Keep the unsent queue sorted."
InsertSeg(q, s) ==
  LET i == SelectInSeq(q, LAMBDA t : t.seq >= s.seq)
  IN  IF i = 0 THEN Append(q, s) ELSE InsertAt(q, i, s)

\* A segment sent goes to the end of the unacked queue, unless it was there before.
AddUnacked(s) ==
  IF unacked # <<>> /\ s.seq < Last(unacked).seq THEN InsertSeg(unacked, s)
  ELSE Append(unacked, s)

Sending == out = "loop" /\ unsent # <<>> /\ Fits(Head(unsent), wnd)

OutputSegment ==
  /\ Sending
  /\ LET s == Head(unsent)
     IN  /\ unsent' = Tail(unsent)
         /\ unacked' = AddUnacked(s)
         /\ snd_nxt' = IF snd_nxt < End(s) THEN End(s) ELSE snd_nxt
         /\ net' = net \union {s}
  /\ rtime' = TRUE /\ refused' = FALSE
  /\ UNCHANGED <<snd_lbb, lastack, snd_buf, window, nrtx, persist, persist_probe, flags,
                 pcb, output, got, history>>

\* ip_output_if reports an error; the timer has been started.
OutputFails ==
  /\ Sending
  /\ rtime' = TRUE /\ nagleerr' = TRUE /\ out' = "idle" /\ wnd' = 0
  /\ refused' = FALSE
  /\ UNCHANGED <<queues, window, nrtx, persist, persist_probe, infr, pcb, net,
                 got, history>>

OutputEnds ==
  /\ out = "loop" /\ (Sending => NagleHolds)
  /\ nagleerr' = FALSE /\ out' = "idle" /\ wnd' = 0 /\ refused' = FALSE
  /\ UNCHANGED <<queues, window, timers, infr, pcb, net, got, history>>

tcp_output == OutputBegins \/ OutputSegment \/ OutputFails \/ OutputEnds

----------------------------------------------------------------------------
\* tcp_receive, the part for acknowledgements; tcp_input calls tcp_output after it.

\* The window comes with it, unless the segment is older than the last one that
\* updated the window (snd_wl1, snd_wl2): the network's order decides.
UpdateWindow(w) ==
  \/ /\ snd_wnd' = w
     /\ snd_wnd_max' = IF snd_wnd_max < w THEN w ELSE snd_wnd_max
  \/ UNCHANGED window

Input(w) == Ready /\ UpdateWindow(w) /\ persist_probe' = 0 /\ out' = "input" /\ refused' = FALSE

\* Nothing new is acknowledged.
AckOld(ackno, w) ==
  /\ Input(w) /\ ackno <= lastack
  /\ UNCHANGED <<queues, rtime, nrtx, persist, flags, pcb, wnd, net, got, history>>

\* The third duplicate or a later one, which the order of windows and data decides: the
\* first unacknowledged segment is queued again.
AckFastRexmit(ackno, w) ==
  /\ Input(w) /\ ackno = lastack /\ rtime /\ unacked # <<>> /\ ~infr
  /\ unsent' = InsertSeg(unsent, Head(unacked))
  /\ unacked' = Tail(unacked)
  /\ nrtx' = nrtx + 1 /\ infr' = TRUE
  /\ UNCHANGED <<snd_lbb, snd_nxt, lastack, snd_buf, rtime, persist, nagleerr, pcb, wnd,
                 net, got, history>>

\* Mutant: a segment goes when its first byte is acknowledged.
X_frees_at_first_byte(q, ackno) ==
  LET i == SelectInSeq(q, LAMBDA s : s.seq >= ackno)
  IN  IF i = 0 THEN q ELSE SubSeq(q, 1, i - 1)

\* tcp_free_acked_segments.
Freed(q, ackno) ==
  LET i == SelectInSeq(q, LAMBDA s : End(s) > ackno)
  IN  IF i = 0 THEN q ELSE SubSeq(q, 1, i - 1)
Kept(q, ackno) == SubSeq(q, Len(Freed(q, ackno)) + 1, Len(q))

Bytes(q) ==
  LET sum[n \in 0..Len(q)] == IF n = 0 THEN 0 ELSE sum[n - 1] + Len(q[n].data)
  IN  sum[Len(q)]

AckNew(ackno, w) ==
  /\ Input(w) /\ lastack < ackno /\ ackno <= snd_nxt
  /\ lastack' = ackno
  /\ unacked' = Kept(unacked, ackno) /\ unsent' = Kept(unsent, ackno)
  /\ snd_buf' = snd_buf + Bytes(Freed(unacked, ackno)) + Bytes(Freed(unsent, ackno))
  /\ rtime' = (unacked' # <<>>)
  /\ nrtx' = 0 /\ infr' = FALSE
  /\ UNCHANGED <<snd_lbb, snd_nxt, persist, nagleerr, pcb, wnd, net, got, history>>

\* The peer acknowledges bytes it has, now or long ago, with any window.
tcp_receive ==
  \E ackno \in 1..(Len(got) + 1), w \in Wnds :
    AckOld(ackno, w) \/ AckFastRexmit(ackno, w) \/ AckNew(ackno, w)

----------------------------------------------------------------------------
\* tcp_slowtmr.

Removed == nrtx >= MaxRtx \/ (persist /\ persist_probe >= MaxRtx)

\* Mutant: a segment that could not be sent is tried again without being counted.
X_failed_output_not_counted ==
  /\ Ready /\ ~Removed /\ ~persist /\ rtime
  /\ unacked # <<>> \/ unsent # <<>>
  /\ unsent' = unacked \o unsent /\ unacked' = <<>>
  /\ nrtx' = IF unacked = <<>> THEN nrtx ELSE nrtx + 1
  /\ out' = "called" /\ refused' = FALSE
  /\ mixed' = (mixed \/ ~Sorted(unsent'))
  /\ UNCHANGED <<snd_lbb, snd_nxt, lastack, snd_buf, window, rtime, persist, persist_probe,
                 flags, pcb, wnd, net, got, msgs, written, short>>

\* Both queues become the unsent one.
Rto ==
  /\ Ready /\ ~Removed /\ ~persist /\ rtime
  /\ unacked # <<>> \/ unsent # <<>>
  /\ unsent' = unacked \o unsent /\ unacked' = <<>>
  /\ nrtx' = nrtx + 1
  /\ out' = "called" /\ refused' = FALSE
  /\ mixed' = (mixed \/ ~Sorted(unsent'))
  /\ UNCHANGED <<snd_lbb, snd_nxt, lastack, snd_buf, window, rtime, persist, persist_probe,
                 flags, pcb, wnd, net, got, msgs, written, short>>

\* tcp_rexmit_rto_prepare: "give up if any of the unsent pbufs are still referenced by
\* the netif driver".  The tick is not counted.
RtoBusy ==
  /\ Ready /\ ~Removed /\ ~persist /\ rtime /\ unacked # <<>>
  /\ refused' = ~refused
  /\ UNCHANGED <<queues, window, timers, flags, pcb, output, net, got, history>>

\* "persist ticking with in-flight data", "with empty send buffer".
Consistent == unacked = <<>> /\ unsent # <<>>

Persisting == Ready /\ nrtx < MaxRtx /\ persist

PersistAsserts ==
  /\ Persisting /\ ~Consistent
  /\ pcb' = "halted" /\ refused' = FALSE
  /\ UNCHANGED <<queues, window, timers, flags, output, net, got, history>>

\* tcp_zero_window_probe: one byte, unless there is no memory for it.
Probe ==
  /\ Persisting /\ Consistent /\ ~Removed /\ snd_wnd = 0
  /\ persist_probe' = persist_probe + 1 /\ refused' = FALSE
  /\ \/ UNCHANGED <<snd_nxt, net>>
     \/ LET s == Seg(unsent[1].seq, <<unsent[1].data[1]>>)
        IN  /\ snd_nxt' = IF snd_nxt < End(s) THEN End(s) ELSE snd_nxt
            /\ net' = net \union {s}
  /\ UNCHANGED <<unsent, unacked, snd_lbb, lastack, snd_buf, window, rtime, nrtx, persist,
                 flags, pcb, output, got, history>>

\* Mutant: the rest keeps the sequence number of the whole.
X_split_keeps_seq(n) ==
  LET s == Head(unsent)
  IN  IF Len(s.data) <= n THEN unsent
      ELSE <<Seg(s.seq, SubSeq(s.data, 1, n)),
             Seg(s.seq, SubSeq(s.data, n + 1, Len(s.data)))>> \o Tail(unsent)

\* tcp_split_unsent_seg: the head is cut to the window.
SplitHead(n) ==
  LET s == Head(unsent)
  IN  IF Len(s.data) <= n THEN unsent
      ELSE <<Seg(s.seq, SubSeq(s.data, 1, n)),
             Seg(s.seq + n, SubSeq(s.data, n + 1, Len(s.data)))>> \o Tail(unsent)

Split ==
  /\ Persisting /\ Consistent /\ ~Removed /\ snd_wnd > 0
  /\ unsent' = SplitHead(snd_wnd)
  /\ out' = "called" /\ refused' = FALSE
  /\ UNCHANGED <<unacked, snd_lbb, snd_nxt, lastack, snd_buf, window, timers, flags, pcb,
                 wnd, net, got, history>>

\* ERR_MEM: nothing is cut and nothing sent, and the tick is not counted.
SplitFails ==
  /\ Persisting /\ Consistent /\ ~Removed /\ snd_wnd > 0
  /\ Len(Head(unsent).data) > snd_wnd
  /\ refused' = ~refused
  /\ UNCHANGED <<queues, window, timers, flags, pcb, output, net, got, history>>

\* Too many retransmissions or probes without an answer; tcp_pcb_purge frees the queues.
RemovePcb ==
  /\ Ready /\ Removed
  /\ nrtx < MaxRtx => Consistent
  /\ pcb' = "removed" /\ refused' = FALSE
  /\ unsent' = <<>> /\ unacked' = <<>> /\ rtime' = FALSE
  /\ UNCHANGED <<snd_lbb, snd_nxt, lastack, snd_buf, window, nrtx, persist, persist_probe,
                 flags, output, net, got, history>>

\* The poll timer of the connection calls tcp_output.
Poll ==
  /\ Ready /\ ~Removed /\ unsent # <<>>
  /\ out' = "called" /\ refused' = FALSE
  /\ UNCHANGED <<queues, window, timers, flags, pcb, wnd, net, got, history>>

Refusal == RtoBusy \/ SplitFails

tcp_slowtmr == Rto \/ PersistAsserts \/ Probe \/ Split \/ RemovePcb \/ Refusal

----------------------------------------------------------------------------
\* The peer takes a segment that continues what it has.
PeerReceives(s) ==
  /\ s.seq <= Len(got) + 1 /\ Len(got) + 1 < End(s)
  /\ got' = got \o SubSeq(s.data, Len(got) + 2 - s.seq, Len(s.data))
  /\ net' = {t \in net : End(t) > Len(got') + 1}
  /\ refused' = FALSE
  /\ UNCHANGED <<queues, window, timers, flags, pcb, output, history>>

Next ==
  \/ \E n \in Sizes : Send(n)
  \/ SendFails \/ SendBlocked \/ SendAsserts
  \/ tcp_output \/ tcp_receive \/ tcp_slowtmr \/ Poll
  \/ \E s \in net : PeerReceives(s)

Spec == Init /\ [][Next]_vars

\* A call of tcp_output goes on, and the slow timer keeps ticking whatever else calls
\* tcp_output between two ticks.  A tick may come to nothing (Refusal), for ever too.
FairSpec == Spec /\ WF_vars(tcp_output) /\ SF_vars(tcp_slowtmr)

----------------------------------------------------------------------------
\* Every segment, queued or under way, still carries the bytes that were written
\* for its sequence numbers, through extension, splitting and retransmission, and
\* the peer has a prefix of what was written, none of which lies beyond snd_nxt
\* unless data was queued out of place.
StreamExact ==
  mixed \/ /\ IsPrefix(got, written) /\ Len(got) < snd_nxt
           /\ \A s \in net \union ToSet(unsent) \union ToSet(unacked) :
                s.data = SubSeq(written, s.seq, End(s) - 1)

Holds(q, p) == {i \in DOMAIN q : q[i].seq <= p /\ p < End(q[i])}

\* A byte that is not acknowledged is in exactly one segment of one queue, so it can
\* be sent again and is not sent as two segments; and what snd_buf and the queues
\* have adds up, so that no space of the send buffer is lost.
Retained ==
  mixed \/ pcb = "removed"
        \/ /\ \A p \in lastack..(snd_lbb - 1) :
                \/ \E i \in DOMAIN unsent : Holds(unsent, p) = {i} /\ Holds(unacked, p) = {}
                \/ \E i \in DOMAIN unacked : Holds(unacked, p) = {i} /\ Holds(unsent, p) = {}
           /\ snd_buf + Bytes(unsent) + Bytes(unacked) = SndBuf

Queued == unsent # <<>> \/ unacked # <<>>

\* Data never waits without a timer: what Nagle's algorithm, the congestion window or
\* an error in the interface holds back is covered by the retransmission timer, what
\* the peer's window holds back by the persist timer; and the latter is "off when
\* there is data in-flight".
TimerRuns ==
  mixed \/ /\ persist => unacked = <<>>
           /\ Ready /\ Queued => rtime \/ persist

\* If no call of lwip_send took only part of a message, the tester reads whole
\* messages, one behind the other.
ReaderAligned ==
  mixed \/ short \/ \A i \in 2..Len(got) :
    LET b == got[i - 1]
    IN  IF b[2] = b[3] THEN got[i][2] = 1 ELSE got[i] = <<b[1], b[2] + 1, b[3]>>

\* The first unsent segment ends before lastack: the unsigned comparison never lets it
\* go, whatever the window.
Stranded == unsent # <<>> /\ End(Head(unsent)) < lastack

\* A connection with data to send is done with it, or given up.
Settles == Queued ~> (~Queued \/ pcb # "open" \/ mixed \/ Stranded)

\* If ticks are refused again and again, others are not: the driver gives pbufs back
\* and the heap has room for a piece of a segment, not once for all but now and then.
GivesWay == []<><<Refusal>>_vars => []<><<Rto \/ Split>>_vars

\* A connection whose peer has fallen silent is given up if it has data to send:
\* it does not stay "as an indefinite zombie", unless it is stranded.  The limits
\* count what was tried; a tick that the driver or the heap refused is not counted,
\* so that they give way again and again is a hypothesis.
GivesUp == <>[][~tcp_receive]_vars /\ GivesWay => Settles

\* The same without the hypothesis.
NeverZombie == <>[][~tcp_receive]_vars => Settles

\* "snd_wnd not fully closed, split unsent head and fill window": what the split leaves
\* at the head of the queue can be sent.
SplitFills == [][Split => Fits(Head(unsent'), snd_wnd)]_vars

\* tcp_slowtmr asserts that the persist timer does not run with an empty queue, and
\* tcp_write that a segment queued is not larger than one it would make: the tcpip
\* thread does not stop there.
NeverHalted == pcb # "halted"

\* The tester reads what was written, even after data was queued out of place.
StreamIntact == IsPrefix(got, written)
============================================================================
