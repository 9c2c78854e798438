------------------------------ MODULE DoipCodec ------------------------------
(***************************************************************************)
(* The encoders and decoders of src/src/doip/doip_protocol.c, with the     *)
(* acknowledgement encoder of app_doip_entity.c and the two responses the  *)
(* tester takes apart by hand (app_doip_tester.c).  The layout of each     *)
(* message is written down twice in the code, by the side that sends it    *)
(* and by the side that reads it; this module puts the two together.       *)
(*                                                                         *)
(* Bytes are modelled as they are.  `rx' is the receive buffer of the      *)
(* reader: it is not cleared between messages, so a decoder that reads     *)
(* past its message sees what earlier messages left there.                 *)
(***************************************************************************)
EXTENDS Integers, Sequences

CONSTANTS
  Messages,    \* messages to be encoded: records with a kind and its fields
  Sizes,       \* values of buffer_size
  MaxPayload,  \* DOIP_MAX_PAYLOAD_SIZE
  RxSize       \* DOIP_RX_BUFFER_SIZE

Byte == 0..255
Uint16 == 0..65535
Uint32 == {v \in Nat : v \div 65536 <= 65535}

doip_vehicle_id_response_t ==
  [kind : {"VEHICLE"}, vin : [1..17 -> Byte], logical_address : Uint16, eid : [1..6 -> Byte],
   gid : [1..6 -> Byte], further_action_required : Byte, sync_status : Byte]

doip_routing_activation_req_t ==
  [kind : {"ACTIVATE"}, source_address : Uint16, activation_type : Byte, reserved : Uint32,
   oem_specific : Uint32]

doip_routing_activation_res_t ==
  [kind : {"ACTIVATED"}, tester_address : Uint16, entity_address : Uint16, response_code : Byte,
   reserved : Uint32, oem_specific : Uint32]

\* A message whose size, header included, can be counted in 32 bits.
doip_diagnostic_message_t ==
  [kind : {"DIAG"}, source_address : Uint16, target_address : Uint16,
   user_data : {d \in Seq(Byte) : 12 + Len(d) \in Uint32}]

Acknowledgement ==
  [kind : {"ACK"}, source_address : Uint16, target_address : Uint16, ack_code : Byte]

Message ==
  doip_vehicle_id_response_t \union doip_routing_activation_req_t
    \union doip_routing_activation_res_t \union doip_diagnostic_message_t
    \union Acknowledgement \union [kind : {"NACK"}, nack_code : Byte]
    \union [kind : {"IDENTIFY"}]

\* A routing activation request passes the entity's length check.
ASSUME CodecAssumption ==
  /\ Messages \subseteq Message /\ Sizes \subseteq Nat
  /\ MaxPayload \in Nat /\ MaxPayload >= 11 /\ RxSize \in Nat

VARIABLES
  sent,    \* the message last encoded
  size,    \* buffer_size of that call
  result,  \* what the encoder returned
  bytes,   \* what it wrote; its length is *encoded_length
  rx,      \* the reader's receive buffer
  got      \* what the reader decoded: the fields it looks at

vars == <<sent, size, result, bytes, rx, got>>

Nothing == [kind |-> "NONE"]

\* The code's offsets start at 0.
At(b, i) == b[i + 1]
Slice(b, i, n) == SubSeq(b, i + 1, i + n)

write_be16(v) == <<v \div 256, v % 256>>
write_be32(v) == <<v \div 16777216, (v \div 65536) % 256, (v \div 256) % 256, v % 256>>
read_be16(b, i) == At(b, i) * 256 + At(b, i + 1)
read_be32(b, i) == read_be16(b, i) * 65536 + read_be16(b, i + 2)

doip_encode_header(h) ==
  <<h.protocol_version, h.inverse_protocol_version>>
    \o write_be16(h.payload_type) \o write_be32(h.payload_length)

doip_decode_header(b) ==
  [protocol_version |-> At(b, 0), inverse_protocol_version |-> At(b, 1),
   payload_type |-> read_be16(b, 2), payload_length |-> read_be32(b, 4)]

doip_validate_header(h) ==
  /\ <<h.protocol_version, h.inverse_protocol_version>> \in {<<2, 253>>, <<3, 252>>}
  /\ h.payload_length <= MaxPayload

\* The header every encoder writes: version 2019, the type, the payload length.
Header(type, len) ==
  doip_encode_header([protocol_version |-> 3, inverse_protocol_version |-> 252,
                      payload_type |-> type, payload_length |-> len])

\* DOIP_PAYLOAD_TYPE_*
GENERIC_NACK == 0
VEHICLE_ID_REQ == 1
VEHICLE_ANNOUNCEMENT == 4
ROUTING_ACTIVATION_REQ == 5
ROUTING_ACTIVATION_RES == 6
DIAG_MESSAGE == 32769
DIAG_MESSAGE_ACK == 32770
DIAG_MESSAGE_NACK == 32771

\* DOIP_RESULT_OK with the bytes written, when `need' bytes fit the buffer.
Encoded(need, sz, b) ==
  IF sz < need THEN [result |-> "BUFFER_TOO_SMALL", bytes |-> <<>>]
  ELSE [result |-> "OK", bytes |-> b]

doip_encode_vehicle_id_response(m, sz) ==
  Encoded(41, sz, Header(VEHICLE_ANNOUNCEMENT, 33) \o m.vin \o write_be16(m.logical_address)
                  \o m.eid \o m.gid \o <<m.further_action_required, m.sync_status>>)

doip_encode_routing_activation_req(m, sz) ==
  Encoded(19, sz, Header(ROUTING_ACTIVATION_REQ, 11) \o write_be16(m.source_address)
                  \o <<m.activation_type>> \o write_be32(m.reserved) \o write_be32(m.oem_specific))

X_response_announces_11(m, sz) ==
  Encoded(21, sz, Header(ROUTING_ACTIVATION_RES, 11) \o write_be16(m.tester_address)
                  \o write_be16(m.entity_address) \o <<m.response_code>>
                  \o write_be32(m.reserved) \o write_be32(m.oem_specific))

doip_encode_routing_activation_res(m, sz) ==
  Encoded(21, sz, Header(ROUTING_ACTIVATION_RES, 13) \o write_be16(m.tester_address)
                  \o write_be16(m.entity_address) \o <<m.response_code>>
                  \o write_be32(m.reserved) \o write_be32(m.oem_specific))

X_size_without_header(m, sz) ==
  Encoded(4 + Len(m.user_data), sz,
          Header(DIAG_MESSAGE, 4 + Len(m.user_data)) \o write_be16(m.source_address)
          \o write_be16(m.target_address) \o m.user_data)

\* 8U + 4U + user_data_length does not wrap for the lengths callers pass.
doip_encode_diagnostic_message(m, sz) ==
  Encoded(8 + 4 + Len(m.user_data), sz,
          Header(DIAG_MESSAGE, 4 + Len(m.user_data)) \o write_be16(m.source_address)
          \o write_be16(m.target_address) \o m.user_data)

doip_encode_diag_message_ack(m, sz) ==
  Encoded(13, sz,
          Header(IF m.ack_code = 0 THEN DIAG_MESSAGE_ACK ELSE DIAG_MESSAGE_NACK, 5)
          \o write_be16(m.source_address) \o write_be16(m.target_address) \o <<m.ack_code>>)

doip_encode_generic_nack(m, sz) ==
  Encoded(9, sz, Header(GENERIC_NACK, 1) \o <<m.nack_code>>)

\* doip_tester_start_discovery: a header alone, written by doip_encode_header.
VehicleIdRequest(sz) == Encoded(8, sz, Header(VEHICLE_ID_REQ, 0))

Encode(m, sz) ==
  CASE m.kind = "VEHICLE"       -> doip_encode_vehicle_id_response(m, sz)
    [] m.kind = "ACTIVATE"      -> doip_encode_routing_activation_req(m, sz)
    [] m.kind = "ACTIVATED"     -> doip_encode_routing_activation_res(m, sz)
    [] m.kind = "DIAG"          -> doip_encode_diagnostic_message(m, sz)
    [] m.kind = "ACK"           -> doip_encode_diag_message_ack(m, sz)
    [] m.kind = "NACK"          -> doip_encode_generic_nack(m, sz)
    [] m.kind = "IDENTIFY"      -> VehicleIdRequest(sz)

-----------------------------------------------------------------------------
\* The readers.  b is the receive buffer, the payload starts at offset 8, len is
\* the announced payload length.

X_oem_always_read(b, len) ==
  [kind |-> "ACTIVATE", source_address |-> read_be16(b, 8), activation_type |-> At(b, 10),
   reserved |-> read_be32(b, 11), oem_specific |-> read_be32(b, 15)]

\* The length check is commented out: only oem_specific depends on it.
doip_decode_routing_activation_req(b, len) ==
  [kind |-> "ACTIVATE", source_address |-> read_be16(b, 8), activation_type |-> At(b, 10),
   reserved |-> read_be32(b, 11),
   oem_specific |-> IF len >= 11 THEN read_be32(b, 15) ELSE 0]

doip_decode_diagnostic_message(b, len) ==
  IF len < 4 THEN Nothing
  ELSE [kind |-> "DIAG", source_address |-> read_be16(b, 8), target_address |-> read_be16(b, 10),
        user_data |-> Slice(b, 12, len - 4)]

\* The tester reads vin, logical address and eid of an announcement ...
handle_vehicle_announcement(b, len) ==
  IF len < 33 THEN Nothing
  ELSE [kind |-> "VEHICLE", vin |-> Slice(b, 8, 17), logical_address |-> read_be16(b, 25),
        eid |-> Slice(b, 27, 6)]

\* ... and the code of an activation response.
handle_routing_activation_response(b, len) ==
  IF len < 13 THEN Nothing ELSE [kind |-> "ACTIVATED", response_code |-> At(b, 12)]

\* The dispatch on the payload type in the receive callbacks.  The entity validates
\* the header first and ignores a message with a bad one ...
EntityDecode(b) ==
  LET h == doip_decode_header(b) IN
  CASE ~doip_validate_header(h) -> Nothing
    [] doip_validate_header(h) /\ h.payload_type = ROUTING_ACTIVATION_REQ ->
         doip_decode_routing_activation_req(b, h.payload_length)
    [] doip_validate_header(h) /\ h.payload_type = DIAG_MESSAGE ->
         doip_decode_diagnostic_message(b, h.payload_length)
    [] OTHER -> Nothing

\* ... the tester does not validate.  (Announcements come by its UDP callback.)
TesterDecode(b) ==
  LET h == doip_decode_header(b) IN
  CASE h.payload_type = DIAG_MESSAGE           -> doip_decode_diagnostic_message(b, h.payload_length)
    [] h.payload_type = VEHICLE_ANNOUNCEMENT   -> handle_vehicle_announcement(b, h.payload_length)
    [] h.payload_type = ROUTING_ACTIVATION_RES -> handle_routing_activation_response(b, h.payload_length)
    [] OTHER                                   -> Nothing

\* The side that receives a message; diagnostic messages go both ways.
Receivers(kind) ==
  CASE kind \in {"ACTIVATE", "IDENTIFY"} -> {"entity"}
    [] kind = "DIAG"                     -> {"entity", "tester"}
    [] OTHER                             -> {"tester"}

Decode(side, b) == IF side = "entity" THEN EntityDecode(b) ELSE TesterDecode(b)

-----------------------------------------------------------------------------
Init ==
  /\ sent = Nothing /\ size = 0 /\ result = "NONE" /\ bytes = <<>>
  /\ rx = [i \in 1..RxSize |-> 0] /\ got = Nothing

\* One side encodes a message into a buffer of sz bytes.
Send(m, sz) ==
  /\ result # "OK"
  /\ sent' = m /\ size' = sz
  /\ result' = Encode(m, sz).result /\ bytes' = Encode(m, sz).bytes
  /\ got' = Nothing
  /\ UNCHANGED rx

\* A tester of the 2012 edition: an activation request without the OEM field.
SendShortActivation(m) ==
  /\ result # "OK" /\ m.kind = "ACTIVATE"
  /\ sent' = [m EXCEPT !.oem_specific = 0] /\ size' = 15
  /\ result' = "OK"
  /\ bytes' = Header(ROUTING_ACTIVATION_REQ, 7) \o write_be16(m.source_address)
              \o <<m.activation_type>> \o write_be32(m.reserved)
  /\ got' = Nothing
  /\ UNCHANGED rx

\* The bytes arrive in the reader's buffer and are decoded there.
Receive ==
  /\ result = "OK" /\ Len(bytes) <= RxSize
  /\ rx' = bytes \o Slice(rx, Len(bytes), RxSize - Len(bytes))
  /\ \E side \in Receivers(sent.kind) : got' = Decode(side, rx')
  /\ result' = "NONE"
  /\ UNCHANGED <<sent, size, bytes>>

Next ==
  \/ \E m \in Messages, sz \in Sizes : Send(m, sz)
  \/ \E m \in Messages : SendShortActivation(m)
  \/ Receive

Spec == Init /\ [][Next]_vars

-----------------------------------------------------------------------------
\* The payload length in the header, a literal of each encoder, agrees with the
\* offset the encoder counts: a reader that trusts the header finds the next
\* message where it starts.
FramesAligned == bytes # <<>> => Len(bytes) = 8 + read_be32(bytes, 4)

\* No encoder writes more than buffer_size bytes.
FitsBuffer == Len(bytes) <= size

\* Every field of d is that of the message m, unless m is longer than the entity takes.
Faithful(m, d) ==
  \/ d.kind = m.kind /\ \A f \in DOMAIN d : d[f] = m[f]
  \/ d = Nothing /\ m.kind = "DIAG" /\ 4 + Len(m.user_data) > MaxPayload

\* A reader decodes every message meant for it, but those too long for the entity, and
\* every field it looks at is the field the sender wrote, whatever earlier messages left
\* in the receive buffer: the offsets of the two sides agree, and the missing OEM field
\* of a short activation is not taken from old bytes.
FieldsUnderstood ==
  result = "NONE" /\ sent.kind \in {"VEHICLE", "ACTIVATE", "ACTIVATED", "DIAG"} =>
    Faithful(sent, got)
==============================================================================
