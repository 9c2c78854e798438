---------------------------- MODULE DoipDiscovery ----------------------------
(***************************************************************************)
(* Vehicle discovery on UDP: the announcements broadcast after start-up    *)
(* (first half of doip_entity_update_timers) and the answers to vehicle    *)
(* identification requests (entity_udp_rx_callback and                     *)
(* handle_vehicle_id_request in src/src/doip/app_doip_entity.c).           *)
(*                                                                         *)
(* A datagram is abstracted to its header - valid or not, payload type,    *)
(* announced payload length - and `brought', the payload bytes that really *)
(* follow the header.  The receive buffer is never cleared: a datagram     *)
(* overwrites as many bytes as it brings and leaves the others as earlier  *)
(* datagrams left them.                                                    *)
(***************************************************************************)
EXTENDS DoipConfig, Sequences

CONSTANTS
  IdByte,           \* byte values that occur in an identifier field
  Vin, Eid,         \* config.vin, config.eid: sequences of bytes
  Datagrams         \* datagrams that occur

ASSUME DiscoveryAssumption ==
  /\ 0 \in IdByte /\ Vin \in Seq(IdByte) /\ Eid \in Seq(IdByte) /\ Len(Eid) <= Len(Vin)
  /\ Datagrams \subseteq [valid : BOOLEAN, type : {"REQ", "REQ_VIN", "REQ_EID", "OTHER"},
                          announced : Nat, brought : Seq(IdByte)]

\* The positions behind the header that identifiers are compared at.
IdField == 1..Len(Vin)

VARIABLES
  announcement_count,  \* entity->announcement_count
  announcement_timer,  \* entity->announcement_timer
  udp_rx_buffer,       \* interface->udp_rx_buffer, the bytes of IdField
  udp_tx,              \* what the current step sent: nothing, an announcement, or
                       \* a response to the given type of request
  lastBrought,         \* history: the bytes the datagram handled last brought
  seenAt,              \* history: bytes brought so far at each position (and the
                       \* zeros of the static buffer at start-up)
  sentOk,              \* history: announcements lwIP accepted for transmission
  sinceAnnounce        \* history: ms counted since the last announcement attempt

discoveryVars ==
  <<announcement_count, announcement_timer, udp_rx_buffer, udp_tx, lastBrought, seenAt,
    sentOk, sinceAnnounce>>

VehicleIdReq == {"REQ", "REQ_VIN", "REQ_EID"}
DiscoveryTypeOK ==
  /\ announcement_count \in 0..AnnounceCount
  /\ announcement_timer \in 0..AnnounceMs
  /\ udp_rx_buffer \in [IdField -> IdByte]
  /\ udp_tx \in {"nothing", "announcement"} \cup VehicleIdReq
  /\ lastBrought \in Seq(IdByte)
  /\ seenAt \in [IdField -> SUBSET IdByte]
  /\ sentOk \in 0..AnnounceCount
  /\ sinceAnnounce \in Nat

DiscoveryInit ==
  /\ announcement_count = 0
  /\ announcement_timer = 0
  /\ udp_rx_buffer = [i \in IdField |-> 0]
  /\ udp_tx = "nothing"
  /\ lastBrought = <<>>
  /\ seenAt = [i \in IdField |-> {0}]
  /\ sentOk = 0
  /\ sinceAnnounce = 0

\* The receive buffer after udp_recvfrom: a prefix is overwritten.
BufferAfter(d) ==
  [i \in IdField |-> IF i <= Len(d.brought) THEN d.brought[i] ELSE udp_rx_buffer[i]]

\* memcmp of the payload with an identifier, over the identifier's length.
Compared(d, id) == \A i \in DOMAIN id : BufferAfter(d)[i] = id[i]

X_compares_too_little(d) ==
  \/ d.type = "REQ"
  \/ /\ d.type = "REQ_VIN" /\ d.announced >= Len(Eid)
     /\ \A i \in DOMAIN Eid : BufferAfter(d)[i] = Vin[i]
  \/ d.type = "REQ_EID" /\ d.announced >= Len(Eid) /\ Compared(d, Eid)

handle_vehicle_id_request(d) ==
  \/ d.type = "REQ"
  \/ d.type = "REQ_VIN" /\ d.announced >= Len(Vin) /\ Compared(d, Vin)
  \/ d.type = "REQ_EID" /\ d.announced >= Len(Eid) /\ Compared(d, Eid)

\* One datagram of at least a header's length.
entity_udp_rx_callback(d) ==
  /\ udp_rx_buffer' = BufferAfter(d)
  /\ udp_tx' = IF d.valid /\ handle_vehicle_id_request(d) THEN d.type ELSE "nothing"
  /\ lastBrought' = d.brought
  /\ seenAt' = [i \in IdField |-> IF i <= Len(d.brought) THEN seenAt[i] \cup {d.brought[i]}
                                                       ELSE seenAt[i]]
  /\ UNCHANGED <<announcement_count, announcement_timer, sentOk, sinceAnnounce>>

\* udp_recvfrom has nothing, or a datagram shorter than a header.
NoDatagram ==
  /\ udp_tx' = "nothing"
  /\ UNCHANGED <<announcement_count, announcement_timer, udp_rx_buffer, lastBrought, seenAt, sentOk, sinceAnnounce>>

X_due_at_zero == announcement_count < AnnounceCount /\ announcement_timer = 0

AnnounceDue == announcement_count < AnnounceCount /\ announcement_timer <= CycleMs

\* The first half of doip_entity_update_timers.  `ok': did the broadcast leave?
\* The count and the timer advance either way.
Announce(ok) ==
  /\ AnnounceDue
  /\ announcement_timer' = AnnounceMs
  /\ announcement_count' = announcement_count + 1
  /\ udp_tx' = IF ok THEN "announcement" ELSE "nothing"
  /\ sentOk' = IF ok THEN sentOk + 1 ELSE sentOk
  /\ sinceAnnounce' = 0
  /\ UNCHANGED <<udp_rx_buffer, lastBrought, seenAt>>

UpdateAnnouncementTimer ==
  \/ \E ok \in BOOLEAN : Announce(ok)
  \/ /\ announcement_count < AnnounceCount /\ ~AnnounceDue
     /\ announcement_timer' = announcement_timer - CycleMs
     /\ sinceAnnounce' = sinceAnnounce + CycleMs
     /\ udp_tx' = "nothing"
     /\ UNCHANGED <<announcement_count, udp_rx_buffer, lastBrought, seenAt, sentOk>>
  \/ /\ announcement_count = AnnounceCount
     /\ udp_tx' = "nothing"
     /\ UNCHANGED <<announcement_count, announcement_timer, udp_rx_buffer, lastBrought, seenAt, sentOk, sinceAnnounce>>
==============================================================================
