------------------------------ MODULE RxFraming ------------------------------
(***************************************************************************)
(* The receive path of one TCP connection: from the byte stream a tester   *)
(* writes, through lwIP's receive queue and the 4096-byte rx_buffer of a   *)
(* slot, to the calls of tcp_callback (the receive and parse loop of       *)
(* doip_interface_process in src/src/doip/doip_interface.c).               *)
(*                                                                         *)
(* A byte is its position in the stream.  lens[k] is the payload length    *)
(* message k announces, starts[k] the position of its header, wire the     *)
(* bytes written so far.  lwIP has handed out the bytes below got; the     *)
(* buffer holds the `used' bytes from position base on.  The parse loop is *)
(* taken one iteration at a time.                                          *)
(***************************************************************************)
EXTENDS Integers, Sequences

CONSTANTS
  Hdr,         \* 8U, the length of a DoIP header
  BufSize,     \* DOIP_RX_BUFFER_SIZE
  MaxPayload,  \* DOIP_MAX_PAYLOAD_SIZE
  SizeMod,     \* 2^32: width of total_message_size
  Lens,        \* payload lengths that occur
  MaxMsgs      \* bound on the messages a tester sends

\* Out of frame there is no header to read: sizes that wrap round to a part of a
\* header are left out.
ASSUME FramingAssumption ==
  /\ Hdr \in Nat \ {0} /\ BufSize \in Nat /\ BufSize >= Hdr
  /\ MaxPayload \in Nat /\ MaxMsgs \in Nat
  /\ SizeMod \in Nat /\ SizeMod > BufSize
  /\ BufSize <= Hdr + MaxPayload
  /\ Lens \subseteq 0..(SizeMod - Hdr)

VARIABLES
  lens, starts, wire,  \* the tester's stream
  peer,                \* "open", or "closed": the tester has sent its FIN
  got,                 \* lwIP: bytes handed out by tcp_recv
  base, used,          \* rx_buffer and rx_buffer_used
  conn,                \* "open", or "closed": the slot has been reset
  pc,                  \* "recv" or "parse"
  delivered,           \* payload lengths of the messages given to the handlers
  pass                 \* history: flips with every pass of the parse loop

vars == <<lens, starts, wire, peer, got, base, used, conn, pc, delivered, pass>>

Init ==
  /\ lens = <<>> /\ starts = <<>> /\ wire = 0
  /\ peer = "open" /\ got = 0
  /\ base = 0 /\ used = 0 /\ conn = "open"
  /\ pc = "recv" /\ delivered = <<>> /\ pass = 0

------------------------------------------------------------------------------
\* Bytes of a message on the wire; of one that announces more than a tester can
\* ever mean to send, only the header is.
WireSize(n) == IF n = SizeMod - Hdr THEN Hdr ELSE Hdr + n

PeerSends(n) ==
  /\ peer = "open" /\ Len(lens) < MaxMsgs
  /\ lens' = Append(lens, n)
  /\ starts' = Append(starts, wire)
  /\ wire' = wire + WireSize(n)
  /\ UNCHANGED <<peer, got, base, used, conn, pc, delivered, pass>>

PeerCloses ==
  /\ peer = "open"
  /\ peer' = "closed"
  /\ UNCHANGED <<lens, starts, wire, got, base, used, conn, pc, delivered, pass>>

Space == BufSize - used
Pending == wire - got

\* tcp_recv returns k > 0: as much as has arrived and fits.
RecvData(k) ==
  /\ pc = "recv" /\ conn = "open"
  /\ Pending > 0 /\ k \in 1..Space /\ k <= Pending
  /\ got' = got + k
  /\ used' = used + k
  /\ pc' = "parse"
  /\ UNCHANGED <<lens, starts, wire, peer, base, conn, delivered, pass>>

X_recv_zero_at_fin == peer = "closed"

\* lwip_recv returns 0 when the peer's FIN is next in the queue, and also when
\* it is asked for no bytes while some are there.
RecvZero == IF Pending = 0 THEN peer = "closed" ELSE Space = 0

RecvClosed ==
  /\ pc = "recv" /\ conn = "open"
  /\ RecvZero
  /\ conn' = "closed" /\ used' = 0
  /\ UNCHANGED <<lens, starts, wire, peer, got, base, pc, delivered, pass>>

------------------------------------------------------------------------------
TotalSize(n) == (Hdr + n) % SizeMod

\* What doip_decode_header reads from the first bytes of the buffer.
HeaderLengths ==
  LET here == {k \in DOMAIN starts : starts[k] = base}
  IN  IF here = {} THEN Lens ELSE {lens[k] : k \in here}

\* doip_validate_header, as far as lengths are concerned.
doip_validate_header(n) == n <= MaxPayload

\* tcp_callback, memmove and the decrement of rx_buffer_used.
TakeMessage(n) ==
  /\ delivered' = IF doip_validate_header(n) THEN Append(delivered, n) ELSE delivered
  /\ base' = base + TotalSize(n)
  /\ used' = used - TotalSize(n)

X_strictly_more(n) == used > TotalSize(n)

Complete(n) == used >= TotalSize(n)

ParseMessage(n) ==
  /\ pc = "parse" /\ used >= Hdr
  /\ n \in HeaderLengths
  /\ Complete(n)
  /\ TakeMessage(n)
  /\ pass' = 1 - pass
  /\ UNCHANGED <<lens, starts, wire, peer, got, conn, pc>>

X_short_header_spins ==
  /\ pc = "parse" /\ used >= Hdr
  /\ \E n \in HeaderLengths : ~Complete(n)
  /\ pc' = "recv"
  /\ UNCHANGED <<lens, starts, wire, peer, got, base, used, conn, delivered, pass>>

\* Less than a header, or an incomplete message: wait for the next cycle.
ParseDone ==
  /\ pc = "parse"
  /\ used < Hdr \/ \E n \in HeaderLengths : ~Complete(n)
  /\ pc' = "recv"
  /\ UNCHANGED <<lens, starts, wire, peer, got, base, used, conn, delivered, pass>>

\* The lengths for which the receive path is meant to work, message and header
\* in one buffer; the theorems assume it, two runs show what happens beyond.
LensFit == \A n \in Lens : Hdr + n <= BufSize

------------------------------------------------------------------------------
Task ==
  \/ \E k \in 1..BufSize : RecvData(k)
  \/ RecvClosed
  \/ \E n \in Lens : ParseMessage(n)
  \/ ParseDone

Next == Task \/ PeerCloses \/ \E n \in Lens : PeerSends(n)

Spec == Init /\ [][Next]_vars

\* The entity task polls the connection in every cycle.
FairSpec == Spec /\ WF_vars(Task)

------------------------------------------------------------------------------
\* Type invariant of the stream and of the buffer.
TypeOK ==
  /\ lens \in Seq(Lens) /\ starts \in Seq(Nat) /\ wire \in Nat
  /\ peer \in {"open", "closed"} /\ conn \in {"open", "closed"}
  /\ got \in Nat /\ base \in Nat /\ used \in 0..BufSize
  /\ pc \in {"recv", "parse"} /\ delivered \in Seq(Lens)
  /\ pass \in {0, 1}

\* The buffer is a window of the stream without gap or overlap, wherever recv
\* cuts the stream and however many messages one receive call completes: it
\* begins at the start of a message and ends where lwIP will continue.
BufferIsWindow ==
  /\ got <= wire
  /\ conn = "open" => base + used = got
  /\ base = wire \/ \E k \in DOMAIN starts : starts[k] = base

\* Messages are handed over in order, none twice and none skipped.
DeliveredIsPrefix ==
  /\ Len(delivered) <= Len(lens)
  /\ \A k \in DOMAIN delivered : delivered[k] = lens[k]

\* "Connection closed": the slot is reset only when the tester has closed the
\* connection and everything it sent has been handed over.
CloseOnlyAfterPeer ==
  conn = "closed" => peer = "closed" /\ Len(delivered) = Len(lens)

\* The stream as a channel of messages.
Channel == INSTANCE MessageChannel
             WITH Msg <- Lens, sent <- lens, received <- delivered, writer <- peer, reader <- conn

\* To tcp_callback and disconnected_callback a connection is such a channel:
\* whatever pieces tcp_recv returns, each message is handed over once, whole and in
\* order, and the slot is reset only behind the last one.
ImplementsChannel == Channel!Spec

\* Every message a tester sends is handed over in the end.
AllDelivered ==
  \A k \in 1..MaxMsgs : Len(lens) >= k ~> Len(delivered) >= k

\* "Remove processed message from buffer": the parse loop comes to an end, since
\* every pass takes a message out of the buffer.
ParseEnds == pc = "parse" ~> pc = "recv"
==============================================================================
