# A TLA+ model of the DoIP/UDS server

This directory models the program's own code in `src/src/`: the diagnostics
over IP (DoIP) entity, its connection table and receive path, the UDS server
behind it and the DoIP tester that is its client, as they run on the S32K344
under FreeRTOS and lwIP. Below it, it models the path of a frame through vendored
code that the entity depends on and that is full of concurrency: the lwIP port and
the GMAC driver's two descriptor rings, lwIP's tcpip thread and mailboxes, and both
directions of an lwIP TCP connection. The rest of the repository (the FreeRTOS
kernel, other drivers, generated board code) appears only as the results its calls
can have.

## 1. Inventory

| Component | State | Operations |
|---|---|---|
| DoIP task (`doip_task_example.c`) | the DoIP mutex, `g_uds_context`, the place in the loop | `doip_application_init`, `doip_entity_task` (one cycle every 10 ms), `doip_entity_uds_rx_handler` |
| DoIP interface (`doip_interface.c`) | per slot: descriptor, state, `rx_buffer`, `rx_buffer_used`; one UDP buffer | start, `process` (UDP poll, accept, receive and parse), `tcp_send`, `close_connection` |
| DoIP entity (`app_doip_entity.c`) | per slot: connection number, tester address, activation flag, two timers; announcement counter and timer | connected / disconnected / receive callbacks, routing activation, diagnostic message, response routing, timer update, announcements |
| UDS services (`uds_services.c`) | session, lock, seed, attempt counter | five services behind `uds_process_request` |
| DoIP codec (`doip_protocol.c`) | none | encoders, decoders, `doip_validate_header` |
| lwIP adapter (`doip_lwip_adapter.c`) | none of its own | thin wrappers round the socket API |
| DoIP tester (`app_doip_tester.c`) | client state, one timer, the discovered entity, one connection | discovery, connect, activation and diagnostic requests; `process`, `update_timers`. The task that would run it is declared (`doip_task_example.h`) but not part of this build |
| lwIP port and GMAC driver, transmit side (`ethif_port.c`, `Eth_43_GMAC*.c`, `Gmac_Ip.c`) | descriptor ring with ownership, lock and last flags; two pointers into it and the DMA's; queue of transmission requests; `tx_pbufs` | `ethif_low_level_output`, transmit interrupt, confirmation |
| lwIP port and GMAC driver, receive side | receive ring, `RX_POOL` | receive interrupt, `ethif_input` |
| lwIP tcpip thread (`tcpip.c`, `sys_arch.c`) | mailbox, two message pools, core lock | input packets, callbacks, timers |
| lwIP TCP and sockets, receive side (`tcp_in.c`, `api_msg.c`, `api_lib.c`, `sockets.c`) | `rcv_nxt`, window, receive mailboxes | `tcp_receive`, `recv_tcp`, `recv_udp`, `lwip_recv` |
| lwIP TCP and sockets, send side (`tcp_out.c`, `tcp_in.c`, `tcp.c`) | unsent and unacked queues, send buffer, peer's window, retransmission and persist timers | `lwip_send`, `tcp_write`, `tcp_output`, acknowledgements, `tcp_slowtmr` |
| Log, UART output, LEDs, board start-up | format buffer, blink counters | printing and pin output |

**How they interact.** One task does all the work of DoIP. In each cycle it takes the
mutex, calls `doip_entity_process`, then `doip_entity_update_timers`, releases
the mutex and sleeps. `doip_interface_process` polls the UDP socket for one
datagram, accepts one connection at most, and then serves every slot: it
receives once and hands each complete message to the entity's callback. The
entity answers from inside the callback. A diagnostic message goes on to the
UDS server by a synchronous call, and the UDS response comes back by address:
`doip_entity_send_diagnostic_response` *searches the contexts* for the tester
address. So the interface and the entity each keep an array per slot; the two
are joined only by the slot number and by callbacks that not every close path
makes. Concurrency is with the outside, where testers connect, send, close and
fall silent between any two steps of the task, and below. A frame that arrives is
stored by the DMA into a descriptor's buffer; the receive interrupt wraps it into a
pbuf and posts it to the tcpip thread, which runs TCP under the core lock and queues
data in the socket's mailbox; the DoIP task takes it from there, with the core lock
only when it reports what it has read. On the way out the task itself, in
`lwip_send` and under the core lock, or the tcpip thread, for an acknowledgement or a
retransmission, fills descriptors that the DMA empties and the transmit interrupt
releases.

**What is hard here.**

- Two tables for one connection: a connection closed by its inactivity timer
  keeps its context in the entity; a slot is reused by the next tester.
- Time: two timers per connection, switched by activation, counted in steps of
  10 ms and never reaching zero.
- A byte stream cut anywhere, several messages per receive call, a buffer that
  must stay aligned with the stream, and a receive call whose result 0 has two
  causes.
- Unsigned arithmetic on lengths that come from the wire.
- Failures whose result is discarded (a broadcast that does not leave, a receive
  error) and that only a timer repairs, if anything does.
- The tester: one timer for two kinds of wait, answers that arrive after the
  wait is over, a socket that blocks, and no notice when the entity closes.
- Three actors on one descriptor ring, of which the thread can be interrupted almost
  anywhere and the DMA never: allocation and filling go by different pointers, and a
  frame may need several descriptors.
- Interrupts acknowledged before their cause is removed; posts from an interrupt that
  cannot report failure; eight pbufs shared by everything that is received.
- A thread that may wait for a reader that needs the lock it holds.
- TCP: loss, repetition and reordering in both directions; segments that are extended,
  split and retransmitted between two queues; timers that exclude each other.
- Message layouts written down twice, by sender and reader, as literal offsets.

`PROJECT.json` lists these, line by line, as hazards with the properties that
address them.

**What makes each part correct.** The table of descriptors neither leaks nor
shares one. A context describes the connection that is open *now*. No connection
outlives its limit and none is closed early. A response reaches only a tester
that activated the address it is for. Every message arrives once and in order.
Each UDS service works from bytes of its own request, and a refusal changes nothing. Announcements
are all attempted, on time and apart. The tester waits for its full timeout and
no longer, and is ready only on a connection the entity accepted. Each reader
finds the fields where the sender put them, and nothing but this message's. A frame
leaves whole, from descriptors that were its own; whoever sends gets back. No pbuf,
message or byte of window is lost; data arrives in order and the FIN behind it. What
was written stays queued until it is acknowledged, with a timer running, and is given
up if nobody answers.

## 2. Modules

| Module | Models |
|---|---|
| `UdsServices` | `uds_services.c` and the handler that builds a request from a diagnostic message |
| `RxFraming` | the receive and parse loop for one connection, byte by byte |
| `DoipConfig` | the configuration both halves of the entity share, with its assumptions |
| `DoipInterface` | the connection table and lwIP's descriptors |
| `DoipEntity` | the contexts, callbacks, handlers and inactivity timers |
| `DoipDiscovery` | announcements and vehicle identification on UDP |
| `DoipStack` | the task's loop: composes the last three; holds their properties |
| `DoipTester` | `app_doip_tester.c`: the application's calls, the tester's cycle, an entity at the far end |
| `DoipCodec` | `doip_protocol.c` and the hand-written encoders and decoders, on bytes |
| `MessageChannel` | what a connection promises to the entity: whole messages, in order, then the close. `RxFraming` implements it |
| `GmacTx` | the transmit path: lwIP port, descriptor ring, DMA, transmit interrupt |
| `GmacRx` | the receive ring and interrupt, the pbuf pool and the mailbox of the tcpip thread |
| `NetPath` | `GmacRx`, the tcpip thread with TCP's receive side, the socket calls and the start of the DoIP task |
| `TcpSend` | the send side of one TCP connection |
| `UdsServicesProofs`, `RxFramingProofs`, `DoipStackProofs`, `DoipTesterProofs`, `GmacTxProofs`, `NetPathProofs`, `TcpSendProofs`, `DoipCodecProofs` | theorems |
| `MC_Uds`, `MC_RxFraming`, `MC_Stack`, `MC_Tester`, `MC_Codec`, `MC_GmacTx`, `MC_NetPath`, `MC_TcpSend` | constants for TLC |

Definitions carry the name of the C function or field they model; the map in
`PROJECT.json` gives the lines. Operators that begin with `X_` are deliberate
mistakes, never used by the specifications: putting one in the place of the
definition that follows it must break a property.

### UdsServices

`ctx` is `g_uds_context` without the fields no service reads. The only action is
`doip_entity_uds_rx_handler(req)`; every service is a function from context and
request to context and response. A request carries the user-data length the DoIP
message announces and the bytes the handler finds in the buffer, which are there
whatever the length is: `request.length = length - 1U` is taken modulo 2^32, so a
message without user data is *long*. The key test `seed ^ 0xA5A5A5A5` is an
injective function. The attempt counter is 8 bits wide. `wrongKeys` is history.

`ServedWasSent` says what the length checks are for: the buffer still holds the bytes of
earlier messages, and no service carries out a request, or counts a key, from bytes the
message does not announce. The empty request is the exception (finding 7). That
`uds_process_request` leaves a response for *every* request (`AlwaysAnswered`, a theorem) is what
`DoipStack` uses, and is itself at odds with the documentation for TesterPresent
(finding 15).

### RxFraming

A byte is its position in the stream. The buffer is the window
`base .. base + used - 1`, message `k` starts at `starts[k]`, and lwIP continues
at `got`. `RecvData(k)` lets TCP cut the stream after any number of bytes that
fits. `RecvClosed` is the result 0, in both its cases: the tester's FIN is next,
or the call asked for no bytes. `ParseMessage` is one pass of the `while` loop,
with the total size modulo 2^32; `ParseDone` its end. `pass` flips with every
pass, so that a loop which changes nothing else is still seen as one.

`ImplementsChannel` is the specification of `MessageChannel` under a refinement
mapping: the messages written are the lengths `PeerSends` has put into the stream, the
messages received are `delivered`, the writer is closed by the FIN and the reader by
the slot's reset.

### DoipInterface, DoipEntity, DoipDiscovery and DoipStack

`pc` walks the cycle: `udp`, `accept`, `conn` (once for each slot), `timers`. A
receive call is either empty, a close, or a batch of up to `MaxBatch` messages
(how bytes make messages is `RxFraming`'s subject), and each message is then one
action which runs its whole handler, responses included: `tx` is what that step
gave to `tcp_send`, on which descriptor. The UDS server is synchronous and always
answers (theorem `EveryRequestAnswered`), so an accepted request is followed by one response in
the same step. `doip_entity_update_timers` is one action: the announcement half,
then every watched context counts down or has its connection closed.

`quiet` and `activator` are history, recorded from what happens and never read
by an action: how long an open connection has been idle, and which address the
peer of a descriptor last activated. The properties compare the entity's tables
with them.

A UDP datagram is its header (valid or not, type, announced length) and the bytes
it brings behind it. The buffer is not cleared between datagrams: a datagram overwrites a
prefix and leaves the rest as earlier ones left it, so the identifier that is compared may be
made up of several datagrams. `IdentifierBytesSeen` is therefore about single bytes:
those the request brings agree with the identifier, and every other was in this place of
some earlier datagram (`seenAt`). That one datagram brought them all is finding 13.

### DoipTester

One task makes the application's calls (`doip_tester_start_discovery`,
`doip_tester_connect`, `doip_tester_activate_routing`,
`doip_tester_send_diagnostic`, each with its failures) while `pc` is `idle`, and
runs the cycle: the UDP poll, the receive call on slot 0 (`tcp`), one callback
for each message (`parse`) and `doip_tester_update_timers` (`timers`). A
descriptor carries a queue of messages in each direction, and the entity
answers, refuses, closes or does nothing. A receive call may end inside a message; `partial`
says that its first bytes are in the slot's buffer. `doip_tester_connect` leaves them there.
The new stream is then read from the middle of a message (`aligned` is false), and what the parse loop
finds in it may be any messages, or a length that fills the buffer (`TcpReceiveGarbled`,
`RecvZero`). `lwip_tcp_connect` does not make its
socket non-blocking, so the step `tcp` is enabled only when there is no
connection, a message or a close: the cycle really waits there. `waited`,
`overlaps` and `rebinds` are history; `accepted` is the entity's own memory.

### DoipCodec

`Send` encodes a message into a buffer of some size; if that succeeded, `Receive`
puts the bytes at the start of the reader's receive buffer and decodes them
there. The buffer is never cleared: what lies behind the message is what earlier
ones left. The encoders' size tests, lengths and offsets and the decoders'
offsets are the code's literals, so that an encoder is always checked against the
decoder of the *other* side. The two readers differ: the entity validates the header before
it looks at the payload and so ignores a diagnostic message longer than
`DOIP_MAX_PAYLOAD_SIZE`, the tester does not (`EntityDecode`, `TesterDecode`). A routing activation is
also sent in its short form, without the OEM field.

### GmacTx

The sending thread is `pc`: `probe` while it looks for a free slot of `tx_pbufs` and
for descriptors, `fill` while `Gmac_Ip_SendMultiBufferFrame` writes them one by one,
which it does in a critical section; `Start` gives the first one away last and moves
the tail pointer. The interrupt preempts the thread between any two steps outside that
section: `TxIrq` acknowledges TI, then `ReportBusy` and `ReportDone` are the passes of
`ReportTransmission`'s loop. `DmaReads` is the DMA: it reads the next descriptor if it owns it, at
any moment. The driver's three ways of naming a descriptor are kept apart, as in the
code: `cur` (allocation), `tail` (filling) and the queue of transmission requests
(reporting).

### GmacRx and NetPath

`GmacRx` ends where a message enters the mailbox. `Receive` is one pass of the
interrupt's loop: it allocates the pbuf and the message, posts it, and gives the
descriptor back. In `NetPath` the tcpip thread fetches and handles one message at a
time; while it handles a packet it holds the core lock. Which segment a packet carries
is chosen when the thread looks at it, since the network may send anything in any
order and a later frame may have overwritten the buffer by then. The stream is made of numbered bytes,
and a segment is any interval of them, since a peer cuts the stream anew when it sends
again. `HandleNext` is the whole of `tcp_receive` for a segment that contains the byte
expected: it is trimmed at both ends (`LastTaken`; the FIN may be trimmed away), and `recv_tcp` posts
data and FIN. The queued pbuf only *refers* to the receive buffer, which the driver has
given back to the DMA: `DmaOverwrites` stores the next frame there, and `Copied` then
copies other bytes. The DoIP task's receive call is split where the core lock is taken:
`RecvPbuf` copies a pbuf, in part when the caller's buffer ends, and `TcpRecvd` reports what
was copied. `EntityStart` is the task's start-up with its two failures.

Only established connections are followed. The TCP settings of the `.mex` file have `boolQueue`
false (line 2753), which leaves lwIP's out-of-sequence queue out of the build: a segment ahead of a
missing byte is dropped (`HandleStray`). A failed allocation of a `netbuf` drops the datagram,
which is a lost frame.

### TcpSend

A segment carries the bytes it was given, and bytes know their message. `Send` is the
socket call as far as `tcp_write`; a call of `tcp_output` follows, one action per
segment, with the core lock keeping everything else waiting (`out`). `AckNew`,
`AckOld` and `AckFastRexmit` are `tcp_receive`'s acknowledgement part; `Rto`,
`Probe`, `Split`, `PersistAsserts` and `RemovePcb` the branches of `tcp_slowtmr`; `Poll`
is its last lines. `RtoBusy` and `SplitFails` are the ticks that come to nothing and are not
counted: a segment to be retransmitted is still with the driver, or there is no memory for the
second half of a segment to be split. `refused` changes with each of them, so that a connection
which does nothing else is seen. `SendAsserts` is the assertion of `tcp_write` that a queued segment is
not larger than one it would make. The connection starts with whatever window the
peer's SYN announced. Timers are "running" or not and may expire whenever they run. Some
of the code's arithmetic is left to chance, which allows more than the code does:
when an acknowledgement is old enough not to change the window (`snd_wl1`,
`snd_wl2`), when a duplicate acknowledgement is the third, how large the congestion
window is (at least a segment), how many pbufs a segment has, and whether memory can
be had. `mixed` and `short` are history: data was appended to a segment that is not
the end of the stream, or concatenated out of order; a message was taken in part.

## 3. Runs

| Run | Shows |
|---|---|
| `uds` | each request of each service, at lengths on both sides of every check, in every state: services work from bytes that were sent; counter and refusal codes agree |
| `stack` | safety of connection table, contexts, timers and response routing; silence ends and waiting connections are served |
| `discovery` | announcements, and identification requests against a buffer of old bytes |
| `framing` | three messages cut in every way: the receive loop implements `MessageChannel`, everything is delivered, the parse loop ends |
| `tester` | four calls in any order, messages received in part: timers, readiness, sockets; each wait ends |
| `codec` | layouts, sizes and old bytes for every type of message and both readers |
| `gmac_tx` | thread, interrupt and DMA on the transmit ring: frames leave whole, no descriptor is reused early; with single-buffer frames every send returns, every frame is reported and the interrupt follows no NULL pointer |
| `net_path` | from the receive ring to the DoIP task: no message, pbuf or window is lost, order, no waiting for the reader, recovery from exhaustion, the FIN arrives |
| `tcp_send` | the send queues under loss, retransmission, closing windows and a failing interface: exact stream, nothing lost, a timer always runs, a silent peer is given up if driver and heap give way |
| `stack_reconnect`, `framing_wrap`, `tx_stuck` | disagreements between code and documentation (section 6) |

| Run | Its properties and, in brackets, the theorem that proves one for every instance |
|---|---|
| `uds` | `ServedWasSent` (OnlySentBytesServed), `AttemptsExact` (AttemptsCounted) |
| `stack` | `SocketsAccounted` (SocketsKept), `ContextIsCurrent` (ContextsCurrent), `InactivityBounded` (SilenceBounded), `ResponseRouted` (ResponsesRouted), `AskerAnswered` (AskersAnswered), `NeverClosedEarly` (ClosedOnTime), `SilenceEnds`, `BacklogServed` |
| `stack_reconnect` (violated) | `ReconnectedTesterAnswered` |
| `discovery` | `AnnouncementsOnTime` (AnnouncedOnTime), `IdentifierBytesSeen` (IdentifiersSeen) |
| `framing` | `ImplementsChannel` (ChannelImplemented), `AllDelivered`, `ParseEnds` |
| `framing_wrap` (violated) | `ParseEnds` |
| `tester` | `WaitBounded` (WaitsBounded), `ReadyWasAccepted` (ReadyAccepted), `SocketsExact` (SocketsCounted), `WaitEnds` |
| `gmac_tx` | `FillsItsOwnRoom` (RoomIsOwn), `FramesLeaveWhole` (FramesWhole), `OwnedIsLocked` (OwnedStaysLocked), `SinglesNeverFault`, `SinglesReported` |
| `tx_stuck` (violated) | `OutputReturns` |
| `net_path` | `NoMessageLost` (MessagesKept), `ReadInOrder` (StreamInOrder), `PoolAccounted` (PoolKept), `NeverWaitsForReader` (NoWaitForReader), `WindowAccounted` (WindowKept), `RingEmptied`, `ReceptionRecovers`, `FinDelivered` |
| `tcp_send` | `StreamExact` (StreamKept), `Retained` (NothingLost), `TimerRuns` (AlwaysTimed), `ReaderAligned` (ReaderKept), `GivesUp` |
| `codec` | `FramesAligned` (FramesAlways), `FitsBuffer` (BufferKept), `FieldsUnderstood` (FieldsKept) |

A module's type invariant is proved where it has a proof module (section 4), and
not repeated as a run.

**Bounds and why they suffice.** `uds` uses both seeds the code can hold and a
key for neither, all services and an unknown one, sub-functions inside, outside
and with the suppress bit, and lengths 0, 1, 2, 3, 5 and 6: each side of every
length check. It sends at most `MaxWrong` wrong keys in a row, which passes the
threshold of three; that the 8-bit counter behaves the same across its
wrap-around, for any number of keys, is proved (section 4). `stack` keeps `DOIP_MAX_CONNECTIONS = 2`, which is the code's own
value, and gives lwIP one descriptor more than there are slots, so that refusal
of a connection and reuse of a descriptor both happen. The addresses are both
ends of the tester range and the neighbours outside it. Timers are two and three cycles
long, one a multiple of the cycle and one not, since only their comparison with
the cycle matters. Batches of two let a second message be handled in the state the first one left.
Discovery shares no variable with the connections, so `stack` leaves datagrams
out and `discovery` leaves connections out. In `discovery` the VIN has three bytes and the EID two, and
datagrams bring none, some or all of either. `framing` uses a header of 2 and a
small buffer with every payload that fits; `framing_wrap` adds
the length that makes the total size wrap.
`tester` allows four calls (`MaxCalls`), the length of discovery, connect,
activation and a second activation or a reconnect; two TCP and two UDP sockets
(`MaxUdp`), so that an open one can be overwritten; two messages in flight per
direction (`MaxWire`), so that a late answer can precede another; and a timeout of
two and a half cycles. `codec` uses buffer sizes on both sides of every test of an
encoder, and field values at the ends of their ranges or with bytes that all
differ; the largest payload is 32 bytes, with diagnostic messages on both sides of it. TLC's integers end at 2^31, so 32-bit fields stay below it; the proofs have no such limit. `gmac_tx` has a
ring of three descriptors, chains of one and two buffers and five frames: the ring
fills, wraps and is too small for a chain. `net_path` keeps the proportions of the
configured sizes (8 descriptors, 20 and 20 messages, a mailbox of 40, receive mailboxes of
20): two descriptors and pbufs, pools of two and one, a mailbox of three, receive
mailboxes of three, a stream of three bytes and a FIN and a window of three: segments of one to
four, and room for one that is trimmed at both ends. `tcp_send` has segments of two bytes, a send buffer of three, windows 0, 1
and 2 (closed, smaller than a segment, and a segment; each may be the first one), two messages
of two or three bytes, of which the second may be cut, and two retransmissions before the connection is given up.
With these windows the congestion window, at least a segment, is never the smaller one; the theorems cover that case.
A segment that can never be sent again (`Stranded`, finding 12) needs segments of four bytes, which is
too large for this run together with two messages; with one message of four bytes and windows 1 and 8 `MC_SendStranded` reaches it, and there `GivesUp` needs its exception for `Stranded`.

**Deadlock** is checked except in `framing`, where a connection that has been
closed has nothing left to do, in `gmac_tx`, where all frames may have been sent, and in
`tcp_send`, where the connection may have been removed.

**Fairness.** `stack` assumes weak fairness of
`doip_entity_task`, and `framing` of the same task's receive step. The task is
created once, it is never deleted after start-up, nothing else takes the DoIP
mutex, every socket it uses is non-blocking, and it sleeps with a bound. No
fairness is assumed of testers: they may stop at any moment. `DoipTester`'s
`Spec` assumes weak fairness of the tester's cycle, for the same reason: one task
that runs `process` and `update_timers` in a loop. The run `tester` also assumes that
the entity does something (`SpecResponsive`): answer or close. That is what
`SilenceEnds` shows of the entity here; section 6 says what happens
without it. In `gmac_tx` the sender inside `ethif_low_level_output`, the interrupt and the DMA are
weakly fair: the first holds the core lock and is a ready thread, the others are hardware.
In `net_path` the interrupt is weakly fair and the two threads are strongly fair, since
interrupts switch a ready thread off again and again.
The receive interrupt's loop has no limit, so its two liveness properties have the
hypothesis that the handler returns again and again. In `tcp_send` a call of
`tcp_output` goes on (weak fairness) and the slow timer ticks between other callers
of `tcp_output` (strong fairness). A tick may be one that is refused, so this says nothing of memory or of
the driver; `GivesUp` states what it needs of them as its hypothesis `GivesWay`: if ticks are refused again and again,
then others are not. Nothing is assumed of the peer, the network or the interface.

## 4. Proofs

`UdsServicesProofs` shows, for all requests, seeds, keys and lengths that satisfy
the assumptions (the key function is injective; the response buffer holds the
longest answer): `TypeOK`, `ServedWasSent`, `AlwaysAnswered`, `AttemptsExact`, `UnlockedStays` and
`RefusalIsHarmless`. `TypeOK` is inductive; the proof goes service by service, with
one lemma for each that says what it can return. `AttemptsExact` needs the counter's equation
with the history modulo 256. `ServedWasSent` needs, for each service, which requests it carries out, and that
the announced length less one, in 32 bits, is at least what the service asks for only if the message is that long or
empty. `AlwaysAnswered` and the two action properties follow from the same lemmas.

`RxFramingProofs` shows `TypeOK`, `BufferIsWindow`, `DeliveredIsPrefix` and
`CloseOnlyAfterPeer`, for every header length, buffer size, number of messages
and way of cutting the stream, *under the hypothesis* `LensFit`: header and
payload of each message fit the buffer together. The code does not ensure it
(section 6). None of the four is inductive. `IInv` adds that messages follow each
other without gap (`StreamInv`); that the buffer begins at the message after the
last one delivered (`BufferInv`), which makes the header found there that message's own
(`HeaderLemma`); and that a finished parse loop leaves less than a message
(`ParsedInv`), which is why the buffer is never full when `tcp_recv` is called and its 0
can only be the tester's FIN. `ChannelImplemented` is the refinement, from the same
invariant: the delivery of a message is `Receive` because the message at the start of the buffer is the next one,
the reset is `CloseReader` because nothing is left, and every other step is the
tester's or leaves the channel as it is.

`DoipStackProofs` covers the entity's loop for any number of slots, descriptors
and addresses and any timers and cycle length. `IInv` is the inductive invariant
for connections: the types; `SocketsAccounted`; that the context of an open slot
belongs to its present connection (`ContextIsCurrent`) and that a context is found
under its own slot number (`OwnSlot`); that each timer and the time the connection
has been silent add up to the limit in force (`TimersAddUp`); that a batch of messages is
handled only while its slot is open (`BatchOpen`); and the two statements about
responses. None of these stands alone: the response search looks at all contexts,
so where a response goes depends on what the close paths left behind.
`MinLemma` turns "the first slot such that" into a fact about that slot.
`NeverClosedEarly` and `InactivityBounded` follow from `TimersAddUp`. `DInv` is the
corresponding invariant for discovery: `AnnouncementsAddUp`, from which both
announcement properties follow, and `BufferSeen`, every byte in the UDP buffer came
in its place of some datagram, or is one of the zeros the buffer starts with.

`DoipTesterProofs` shows the tester's five safety properties for any sockets,
timeout, cycle length and number of calls. `WaitBounded` is inductive together with
the types. `ReadyWasAccepted` needs that positive answers are found only in queues
of accepted connections (`QueuesAccepted`), which holds of the messages a receive call finds only while the buffer
is `aligned`, and that a buffer which is not belongs to a connection opened over another; `SocketsExact` that the set of
sockets is finite, to count it.

`GmacTxProofs` is for rings of any size, chains of any length below it and any number
of frames, with the interrupt and the DMA at any moment. `IInv` joins
`FillsItsOwnRoom` and `OwnedIsLocked` with `FillInv`: while a frame is filled the
interrupt is off and all descriptors it was promised are locked. `FramesWhole` needs more: `WireInv` says that
for some `c` the `c` descriptors from the DMA's position to the tail pointer are the
DMA's, carry the buffers of the frames handed over in the order of transmission, and
end with the last buffer of the last such frame; what is being filled lies behind them and is
not the DMA's for its first descriptor. The proof goes by position on the ring, so most lemmas are
about `Plus` and `Span`.

`NetPathProofs` is for any ring, pools, mailboxes, window and stream, assuming what the
configuration ensures: the mailbox is as large as its two pools, and the receive mailbox
larger than `RX_POOL`. `IInv` has the accounts of
four resources, each of which needs the others: the messages in the mailbox are those taken from the
pools (`MsgInv`), every pbuf is in one place (`PoolAccounted`), the window is what is
neither queued nor unreported (`WndInv`), and the bytes read and then those of the queued pbufs, which follow one another
without gap (`Follow`), are exactly what lies before `rcv_nxt`, with the FIN behind it (`EndInv`).
`NoMessageLost` and `NeverWaitsForReader` follow by counting: the mailboxes cannot be full
because there are not enough messages or pbufs.

`TcpSendProofs` is for any segment size, send buffer, set of windows, messages and number of
retransmissions, under loss, repetition and reordering. The four invariants of the run `tcp_send` follow from
one, `IInv`: data was queued out of place (`mixed`, finding 10), or `Core` holds. `Core` treats the two
queues as one set of segments. These carry the bytes written for their sequence numbers, do not overlap, are
sorted within each queue and no larger than `pcb->mss` (`QueueInv`); together they
cover everything from `lastack` to the end of what was written (`CoverInv`); their lengths and `snd_buf` add
up (`SpaceInv`). What is on the network or with the peer was sent (`StreamInv`). `TimerInv` says why a timer
is left running when `tcp_output` returns: inside its loop either something is in flight or the first segment
fits. `FrontInv`, that no queued segment ends before `lastack` unless the persist timer runs, is what makes
freeing acknowledged segments leave the queue sorted and covered; the obvious stronger form, without the
exception, is false, and that is finding 12. `AlignInv` carries message boundaries from `tcp_write` to the
reader. The first part of the module has one lemma for what each queue operation (append, insert in order,
cut, free, move) does to the set, the order and the number of bytes. A sum over a queue is a
recursive function: that it exists, its equations and its bounds are proved by taking the least
counterexample, which stands in for induction.

`DoipCodecProofs` is for all messages with fields in the range of their C types, all buffer sizes, all contents of
the receive buffer and user data of any length that 32 bits can count with the header. It assumes
that `DOIP_MAX_PAYLOAD_SIZE` (4096) is at least 11, the length of an activation request. `Has(b, i, s)` says that the part `s` stands at
offset `i` of `b`. An encoder puts parts behind one another (`Behind`), and each part is read back by the
function that belongs to it (`OneByte`, `Be16`, `Be32`, `SliceLemma`). One lemma per message (`ActivationFramed`,
`DiagnosticFramed`, ...) puts these together: the frame is as long as its header says, and decoding it in *any*
buffer that begins with it yields the sender's fields. That last statement, `Understood`, is the
strengthening `FieldsUnderstood` needs: it holds from the moment of encoding (`Pending`), when the buffer it will land in is not known.

Left to TLC: the liveness properties (`AllDelivered`, `ParseEnds`, `SilenceEnds`,
`BacklogServed`, `WaitEnds`, `SinglesReported`, `SinglesNeverFault` with its premise about the whole behaviour, `RingEmptied`,
`ReceptionRecovers`, `FinDelivered`, `GivesUp`), which need fairness and are outside
what the prover does. Every other property of a passing run is proved.

## 5. Not modelled

- The bytes of the tester's stream. What the parse loop makes of a stream it reads from the middle of a
  message is left open (`Garbled`), which allows more than the code does.
- The wrap of `total_length` in the encoders for payloads near 2^32 bytes, which no
  caller can supply.
- `doip_log.c`, `debug_print.c`: text output. The UART routine repeats a failed
  transmission by calling itself; how often that happens depends on a driver whose
  source is not here. The log's buffer is written by one task, with its size passed on.
- `led.c`, `device.c`, `main.c`: straight-line initialisation and pin output.
- `test.c` and lwIP's applications: demonstrations that `main` does not start.
- FreeRTOS's kernel: queues, mutexes and scheduling are the atomic steps and the
  fairness of the models.
- lwIP: connection set-up, reset and close from this side, ARP, IP, fragments, DHCP,
  keep-alive, the size of the congestion window and the round-trip estimate, and the `oversize` of a pbuf with its own
  assertion (`tcp_out.c:503`). The out-of-sequence queue and its time-out are not compiled (section 2).
  `refused_data` is not needed because `recv_tcp` never refuses
  (`NeverWaitsForReader`). `ERR_RTE` from `tcp_output` cannot occur while the interface is up.
- The driver: link control, filters, time stamps and their context descriptors,
  statistics, the single-buffer API, and errors that the hardware reports for a frame.
  Chains are shorter than the ring in the model; `ethif_low_level_output` passes chains of up to
  16 buffers to a ring of 8, of which more than 8 could never be satisfied, but
  neither TCP nor UDP here makes chains as long.
- What the entity does about a message lwIP takes only in part: all callers ignore the result of
  `tcp_send`, so no state of the entity depends on it. What the tester then reads is in `TcpSend`.
- `alive_check_pending` is never set by the code; it is kept as state and the
  absence of alive checks is visible in that nothing reads it.

## 6. What the models found

The first three are runs that TLC must find violated.

1. `stack_reconnect`: a timeout closes a connection without the disconnected
   callback. The context stays activated, and the search for the receiver of a
   response stops at it: a tester that came back on another slot is acknowledged
   but gets no response.
2. `framing_wrap`: `8U + payload_length` can be 0 in 32 bits; the parse loop then
   removes nothing and does not end.
3. `tx_stuck`: a frame of two buffers that finds one free descriptor locks it, gets
   nothing and tries again. Nobody unlocks that descriptor, so the thread tries for ever
   with the core lock held.

The others can be reproduced with the configurations named, which check one
property each and are not among the listed runs.

4. `MC_RxOverwritten` (module `MC_NetPath`, `BufferHeld`): the receive buffer
   belongs to the DMA again as soon as the interrupt's indication returns, while the pbuf that
   refers to it waits in the mailbox. `ethif_port.c:222` says "When the pbuf is eventually freed, the
   receive buffer is given back to the driver." A burst of frames overwrites some that are
   still to be read. The same buffer holds the TCP header that `tcp_in.c` keeps pointers to.
   `MC_RxSpoilt` (`ReadIntact`) follows it to the end: data that TCP has accepted and acknowledged is overwritten while it
   waits for the task, which then reads bytes the peer did not send in this place.
5. `MC_TxReleased` (`MC_GmacTx`, `HeldWhileInFlight`): a confirmation releases the
   pbufs of all frames handed to the driver, not of the one confirmed.
6. `MC_RxLarge` (`MC_RxFraming`, `CloseOnlyAfterPeer`): payloads of 4089 to 4096
   bytes pass validation but do not fit behind their header; the connection is reset as if
   the tester had closed it.
7. `MC_UdsShort` (`MC_Uds`, `ShortRequestRefused`): `length - 1U` wraps for an
   empty request, which is then served.
8. `MC_Announced` (`MC_Stack`, `AnnouncedThreeTimes`): an announcement that could
   not be sent counts as sent.
9. `MC_TesterBlocked` (`MC_Tester`, `WaitEnds`): the tester's TCP socket is
   blocking; with a silent entity its cycle stays in the receive call and the response
   timeout never runs.
10. `MC_SendCorrupted` (`MC_TcpSend`, `StreamIntact`): a short segment is queued for
    fast retransmission while a later one is in flight, and the interface fails to send it. The next
    `tcp_write` takes it for the end of the stream and appends new data to it, which the
    peer reads in the place of the later segment's. A retransmission time-out in the same
    state puts the later segment in front of it, although `tcp_rexmit` promises "Keep the
    unsent queue sorted." (`tcp_out.c:1746`). `mixed` marks exactly these
    two cases; the four invariants of `tcp_send` are proved for all others.
11. `MC_SendHalted` (`MC_TcpSend`, `NeverHalted`): the probe of a closed window
    carries the only byte left in the queue and is acknowledged. The queue is empty, the persist
    timer still runs, and `tcp_slowtmr` asserts "persist ticking with empty send
    buffer" (`tcp.c:1238`). This port's assertion is an endless loop, in the tcpip thread.
12. `MC_SendStranded` (`MC_TcpSend`, `SplitFills`): met while proving `FrontInv`. When the window is smaller than
    the first unsent segment, the persist timer cuts that segment, to "fill window" (`tcp.c:1253`): it keeps
    `snd_wnd` bytes from the segment's own sequence number, not from `lastack`. If more of the segment than that is
    acknowledged already (it was retransmitted as part of a longer one, or the peer took part of it and then shrank its window), the first part
    ends before `lastack`. `seqno - lastack + len` (`tcp_out.c:1306` and `1334`) is then negative, which in 32 unsigned bits is
    larger than any window: the segment is never sent and blocks everything behind it. As the window is open no
    probe is counted, so the connection is not given up either, and keeps its slot until the entity's timers close it.
13. `MC_IdentifierPieced` (`MC_Stack`, `IdentifierBroughtWhole`): the receive buffer for datagrams is not cleared, and the
    announced length is not compared with the received one. A request that brings the first bytes of the VIN is
    answered if the others were left there by another datagram; none of them brought the VIN.
14. `MC_TesterStale` (`MC_Tester`, `ReadyMeansAccepted`): `doip_tester_connect` does not reset `rx_buffer_used` of slot 0.
    Over a connection of which a message was half received, the rest of that message is taken from the new
    stream, message boundaries are lost, and the tester can become ready on a connection whose entity has not accepted it.
15. `MC_UdsSuppress` (`MC_Uds`, `SuppressHonoured`): `uds_handle_tester_present` answers although the suppress bit is set;
    `.clinerules/rules.md:140` asks for "suppress positive response support".
16. `MC_SendZombie` (`MC_TcpSend`, `NeverZombie`): a retransmission that finds its segment still with the driver
    (`tcp_out.c:1646`) is not counted, nor is a split that finds no memory. As long as the driver keeps the pbuf, or the heap
    has no room, a connection to a silent peer is not given up: the "indefinite zombie" (`tcp_out.c:2148`) that counting what does
    not leave the node is there to prevent.
17. `MC_SendTooSmall` (`MC_TcpSend`, `NeverHalted`): `tcp_write` makes segments no larger than half the largest window seen, or of
    full size while that half is 0 (`tcp_out.c:418`). A peer whose SYN announces a window below 2 and later opens it a little finds a
    full-sized segment in the queue; the next `tcp_write` asserts "mss_local is too small" (`tcp_out.c:486`) and does not return.

Seen while modelling, and visible in the definitions without a configuration of their own:

- A frame of two buffers of which only the first has been sent when the interrupt
  runs has its first descriptor cleared and is never found again by the report (`ReportBusy`).
- `tester_tcp_rx_callback` hands on `NULL` in the place of the application's
  `uds_indication`, so the tester decodes diagnostic responses and drops them.
- The tester passes no disconnected callback (`TcpClosed`): after a close it stays
  ready, with its routing flag set, without a connection.
- `doip_interface_tcp_send` takes any result from 0 on for success, so a message
  taken in part (`short`) makes the tester misread everything that follows.
- UDP data is passed to the driver by reference to the caller's stack buffer, which
  the driver may read after the call has returned.
- If the TCP server cannot be started the task deletes itself and leaves the UDP socket
  bound: datagrams fill its mailbox and keep their pbufs (`ReceptionRecovers` excepts this).

## 7. Plan

Done, in this order: UDS server, connection table and entity, composition with
the loop, discovery, receive path, tester, codec; `MessageChannel` and its refinement; the
transmit ring; the receive ring with lwIP's receive side and the task's start-up; lwIP's
send side; the proofs of section 4, which cover every safety property of the passing runs.

1. `DoipUds`: `DoipStack` with `UdsServices` in place of "always answers": two
   testers sharing one session and one security state.
2. Types of `GmacTx` for the queue of transmission requests, and the invariant under `SinglesNeverFault`, as theorems.
3. lwIP: close and reset of a connection while data is queued in either direction.
