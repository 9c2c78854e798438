-------------------------- MODULE DoipCodecProofs --------------------------
(***************************************************************************)
(* Proofs about DoipCodec, for all messages, buffer sizes and contents of  *)
(* the receive buffer.                                                     *)
(*                                                                         *)
(* An encoder puts parts one behind the other, a decoder reads at offsets: *)
(* Has(b, i, s) says that the part s stands at offset i of the bytes b.    *)
(* The first lemmas say where the parts of a concatenation stand, and what *)
(* reading a part returns; then there is one lemma for each message.       *)
(***************************************************************************)
EXTENDS DoipCodec, SequenceTheorems, TLAPS

Has(b, i, s) == \A k \in 1..Len(s) : b[i + k] = s[k]

----------------------------------------------------------------------------
\* Parts.

LEMMA Joined ==
  ASSUME NEW a \in Seq(Byte), NEW s \in Seq(Byte)
  PROVE  /\ a \o s \in Seq(Byte) /\ Len(a \o s) = Len(a) + Len(s)
         /\ Has(a \o s, 0, a) /\ Has(a \o s, Len(a), s)
<1>1. /\ a \o s \in Seq(Byte) /\ Len(a \o s) = Len(a) + Len(s)
      /\ \A k \in 1..Len(a) : (a \o s)[0 + k] = a[k]
      /\ \A k \in 1..Len(s) : (a \o s)[Len(a) + k] = s[k]
  OBVIOUS
<1> QED BY <1>1 DEF Has

\* A part of what b begins with is a part of b.
LEMMA Within ==
  ASSUME NEW b, NEW c \in Seq(Byte), Has(b, 0, c), NEW i \in Nat, NEW s \in Seq(Byte),
         Has(c, i, s), i + Len(s) <= Len(c)
  PROVE  Has(b, i, s)
<1> SUFFICES ASSUME NEW k \in 1..Len(s) PROVE b[i + k] = s[k]
  BY DEF Has
<1>1. i + k \in 1..Len(c) /\ 0 + (i + k) = i + k
  OBVIOUS
<1>2. b[0 + (i + k)] = c[i + k] /\ c[i + k] = s[k]
  BY <1>1 DEF Has
<1> QED BY <1>1, <1>2

\* Bytes that begin with a and then s.
LEMMA Parted ==
  ASSUME NEW b, NEW a \in Seq(Byte), NEW s \in Seq(Byte), Has(b, 0, a \o s)
  PROVE  Has(b, 0, a) /\ Has(b, Len(a), s)
<1> DEFINE c == a \o s
<1>1. c \in Seq(Byte) /\ Len(c) = Len(a) + Len(s) /\ Has(c, 0, a) /\ Has(c, Len(a), s)
  BY Joined
<1>2. Has(b, 0, c)
  OBVIOUS
<1> HIDE DEF c
<1>3. 0 \in Nat /\ 0 + Len(a) <= Len(c) /\ Len(a) \in Nat /\ Len(a) + Len(s) <= Len(c)
  BY <1>1
<1>4. Has(b, 0, a)
  BY <1>1, <1>2, <1>3, Within
<1>5. Has(b, Len(a), s)
  BY <1>1, <1>2, <1>3, Within
<1> QED BY <1>4, <1>5

LEMMA OneByte ==
  ASSUME NEW v \in Byte
  PROVE  /\ <<v>> \in Seq(Byte) /\ Len(<<v>>) = 1
         /\ \A b, i : Has(b, i, <<v>>) => b[i + 1] = v
<1>1. <<v>> \in Seq(Byte) /\ Len(<<v>>) = 1 /\ <<v>>[1] = v /\ 1 \in 1..1
  OBVIOUS
<1> QED BY <1>1 DEF Has

LEMMA Be16 ==
  ASSUME NEW v \in Uint16
  PROVE  /\ write_be16(v) \in Seq(Byte) /\ Len(write_be16(v)) = 2
         /\ \A b, i : i \in Nat /\ Has(b, i, write_be16(v)) => read_be16(b, i) = v
<1> DEFINE w == write_be16(v)
<1>1. v \div 256 \in Byte /\ v % 256 \in Byte /\ (v \div 256) * 256 + (v % 256) = v
  BY DEF Uint16, Byte
<1>2. w \in Seq(Byte) /\ Len(w) = 2 /\ w[1] = v \div 256 /\ w[2] = v % 256
  BY <1>1 DEF write_be16
<1> HIDE DEF w
<1>3. ASSUME NEW b, NEW i \in Nat, Has(b, i, w) PROVE read_be16(b, i) = v
  <2>1. 1 \in 1..2 /\ 2 \in 1..2
    OBVIOUS
  <2>2. b[i + 1] = v \div 256 /\ b[i + 2] = v % 256
    BY <1>2, <1>3, <2>1 DEF Has
  <2>3. read_be16(b, i) = b[i + 1] * 256 + b[i + 2]
    <3>1. i + 1 + 1 = i + 2
      OBVIOUS
    <3> QED BY <3>1 DEF read_be16, At
  <2> QED BY <1>1, <2>2, <2>3
<1> QED BY <1>2, <1>3 DEF w

LEMMA Digits ==
  ASSUME NEW v \in Uint32
  PROVE  /\ v \div 16777216 \in Byte /\ (v \div 65536) % 256 \in Byte
         /\ (v \div 256) % 256 \in Byte /\ v % 256 \in Byte
         /\ ((v \div 16777216) * 256 + ((v \div 65536) % 256)) * 65536
              + (((v \div 256) % 256) * 256 + (v % 256)) = v
<1>1. v \in Nat /\ v \div 65536 <= 65535
  BY DEF Uint32
<1>2. /\ v \div 16777216 \in Byte /\ (v \div 65536) % 256 \in Byte
      /\ (v \div 256) % 256 \in Byte /\ v % 256 \in Byte
  BY <1>1 DEF Byte
<1>3. ((v \div 16777216) * 256 + ((v \div 65536) % 256)) * 65536
        + (((v \div 256) % 256) * 256 + (v % 256)) = v
  BY <1>1
<1> QED BY <1>2, <1>3

LEMMA Be32 ==
  ASSUME NEW v \in Uint32
  PROVE  /\ write_be32(v) \in Seq(Byte) /\ Len(write_be32(v)) = 4
         /\ \A b, i : i \in Nat /\ Has(b, i, write_be32(v)) => read_be32(b, i) = v
<1>1. PICK x \in Byte, y \in Byte, z \in Byte, t \in Byte :
        /\ x = v \div 16777216 /\ y = (v \div 65536) % 256
        /\ z = (v \div 256) % 256 /\ t = v % 256
        /\ (x * 256 + y) * 65536 + (z * 256 + t) = v
  BY Digits
<1> DEFINE w == write_be32(v)
<1>2. w = <<x, y, z, t>>
  BY <1>1 DEF write_be32
<1>3. w \in Seq(Byte) /\ Len(w) = 4 /\ w[1] = x /\ w[2] = y /\ w[3] = z /\ w[4] = t
  BY <1>2
<1> HIDE DEF w
<1>4. ASSUME NEW b, NEW i \in Nat, Has(b, i, w) PROVE read_be32(b, i) = v
  <2>1. 1 \in 1..4 /\ 2 \in 1..4 /\ 3 \in 1..4 /\ 4 \in 1..4
    OBVIOUS
  <2>2. b[i + 1] = x /\ b[i + 2] = y /\ b[i + 3] = z /\ b[i + 4] = t
    BY <1>3, <1>4, <2>1 DEF Has
  <2>3. read_be32(b, i) = (b[i + 1] * 256 + b[i + 2]) * 65536 + (b[i + 3] * 256 + b[i + 4])
    <3>1. i + 1 + 1 = i + 2 /\ i + 2 + 1 = i + 3 /\ i + 2 + 1 + 1 = i + 4
      OBVIOUS
    <3> QED BY <3>1 DEF read_be32, read_be16, At
  <2> QED BY <1>1, <2>2, <2>3
<1> QED BY <1>3, <1>4 DEF w

LEMMA SliceLemma ==
  ASSUME NEW b \in Seq(Byte), NEW i \in Nat, NEW s \in Seq(Byte), Has(b, i, s), i + Len(s) <= Len(b)
  PROVE  Slice(b, i, Len(s)) = s
<1>1. PICK n \in Nat : n = Len(s)
  OBVIOUS
<1> DEFINE u == SubSeq(b, i + 1, i + n)
<1>2. u \in Seq(Byte) /\ Len(u) = n /\ \A k \in 1..n : u[k] = b[i + k]
  BY <1>1
<1> HIDE DEF u
<1>3. \A k \in 1..n : u[k] = s[k]
  BY <1>1, <1>2 DEF Has
<1>4. u = s
  BY <1>1, <1>2, <1>3, SeqEqual
<1> QED BY <1>1, <1>4 DEF Slice, u

\* c is s behind the n bytes of a, j bytes in all.
Joins(c, a, n, s, j) ==
  /\ c \in Seq(Byte) /\ Len(c) = j
  /\ \A b : Has(b, 0, c) => Has(b, 0, a) /\ Has(b, n, s)

LEMMA Behind ==
  ASSUME NEW a \in Seq(Byte), NEW s \in Seq(Byte)
  PROVE  Joins(a \o s, a, Len(a), s, Len(a) + Len(s))
BY Joined, Parted DEF Joins

\* The header of type t that announces l bytes.
Heads(b, t, l) ==
  doip_decode_header(b) = [protocol_version |-> 3, inverse_protocol_version |-> 252,
                           payload_type |-> t, payload_length |-> l]

LEMMA HeaderRead ==
  ASSUME NEW t \in Uint16, NEW l \in Uint32
  PROVE  /\ Header(t, l) \in Seq(Byte) /\ Len(Header(t, l)) = 8
         /\ \A b : Has(b, 0, Header(t, l)) => Heads(b, t, l)
<1> DEFINE v == <<3, 252>>
           s == write_be16(t)
           u == write_be32(l)
           c == v \o s
           d == c \o u
<1>1. v \in Seq(Byte) /\ Len(v) = 2 /\ v[1] = 3 /\ v[2] = 252
  BY DEF Byte
<1>2. /\ s \in Seq(Byte) /\ Len(s) = 2
      /\ \A b, i : i \in Nat /\ Has(b, i, s) => read_be16(b, i) = t
  BY Be16
<1>3. /\ u \in Seq(Byte) /\ Len(u) = 4
      /\ \A b, i : i \in Nat /\ Has(b, i, u) => read_be32(b, i) = l
  BY Be32
<1>4. Header(t, l) = d
  BY DEF Header, doip_encode_header
<1> HIDE DEF v, s, u
<1>5. Joins(c, v, 2, s, 4)
  <2>1. Joins(c, v, Len(v), s, Len(v) + Len(s))
    BY <1>1, <1>2, Behind
  <2> QED BY <1>1, <1>2, <2>1
<1>6. c \in Seq(Byte) /\ Len(c) = 4
  BY <1>5 DEF Joins
<1> HIDE DEF c
<1>7. Joins(d, c, 4, u, 8)
  <2>1. Joins(d, c, Len(c), u, Len(c) + Len(u))
    BY <1>3, <1>6, Behind
  <2> QED BY <1>3, <1>6, <2>1
<1> HIDE DEF d
<1>8. ASSUME NEW b, Has(b, 0, d) PROVE Heads(b, t, l)
  <2>1. Has(b, 0, v) /\ Has(b, 2, s) /\ Has(b, 4, u)
    BY <1>5, <1>7, <1>8 DEF Joins
  <2>2. read_be16(b, 2) = t /\ read_be32(b, 4) = l
    BY <1>2, <1>3, <2>1
  <2>3. At(b, 0) = 3 /\ At(b, 1) = 252
    <3>1. 1 \in 1..2 /\ 2 \in 1..2 /\ 0 + 1 = 1 /\ 0 + 2 = 2 /\ 1 + 1 = 2
      OBVIOUS
    <3> QED BY <1>1, <2>1, <3>1 DEF Has, At
  <2> QED BY <2>2, <2>3 DEF doip_decode_header, Heads
<1> QED BY <1>4, <1>7, <1>8 DEF Joins

----------------------------------------------------------------------------
\* Messages.

\* The kinds some side reads.
Read == {"VEHICLE", "ACTIVATE", "ACTIVATED", "DIAG"}

\* Whoever reads c from the front of a buffer finds the fields of m, whatever
\* stands behind c.
Understood(m, c) ==
  m.kind \in Read =>
    \A b \in Seq(Byte) : Len(c) <= Len(b) /\ Has(b, 0, c) =>
      \A side \in Receivers(m.kind) : Faithful(m, Decode(side, b))

\* c is a frame of n bytes, as long as its header says, that stands for m.
Framed(m, c, n) ==
  c \in Seq(Byte) /\ Len(c) = n /\ n = 8 + read_be32(c, 4) /\ Understood(m, c)

\* The header at the front of c says how long c is.
LEMMA LengthSaid ==
  ASSUME NEW c \in Seq(Byte), NEW t, NEW l, \A b : Has(b, 0, c) => Heads(b, t, l)
  PROVE  read_be32(c, 4) = l
<1>1. Has(c, 0, c)
  <2>1. \A k \in 1..Len(c) : 0 + k = k
    OBVIOUS
  <2> QED BY <2>1 DEF Has
<1>2. doip_decode_header(c).payload_length = l
  BY <1>1 DEF Heads
<1> QED BY <1>2 DEF doip_decode_header

LEMMA Array ==
  ASSUME NEW n \in Nat, NEW s \in [1..n -> Byte]
  PROVE  s \in Seq(Byte) /\ Len(s) = n
OBVIOUS

LEMMA ActivationFramed ==
  ASSUME NEW m \in doip_routing_activation_req_t
  PROVE  Framed(m, Header(ROUTING_ACTIVATION_REQ, 11)
                   \o write_be16(m.source_address)
                   \o <<m.activation_type>>
                   \o write_be32(m.reserved)
                   \o write_be32(m.oem_specific), 19)
<1> USE DEF ROUTING_ACTIVATION_REQ
<1> DEFINE h == Header(ROUTING_ACTIVATION_REQ, 11)
           s1 == write_be16(m.source_address)
           s2 == <<m.activation_type>>
           s3 == write_be32(m.reserved)
           s4 == write_be32(m.oem_specific)
           c1 == h \o s1
           c2 == c1 \o s2
           c3 == c2 \o s3
           c == c3 \o s4
<1>0. /\ m.kind = "ACTIVATE" /\ m.source_address \in Uint16 /\ m.activation_type \in Byte
      /\ m.reserved \in Uint32 /\ m.oem_specific \in Uint32
      /\ m = [kind |-> "ACTIVATE", source_address |-> m.source_address,
              activation_type |-> m.activation_type, reserved |-> m.reserved,
              oem_specific |-> m.oem_specific]
  BY DEF doip_routing_activation_req_t
<1>1. h \in Seq(Byte) /\ Len(h) = 8 /\ \A b : Has(b, 0, h) => Heads(b, 5, 11)
  <2>1. 5 \in Uint16 /\ 11 \in Uint32
    BY DEF Uint16, Uint32
  <2> QED BY <2>1, HeaderRead
<1>2. /\ s1 \in Seq(Byte) /\ Len(s1) = 2
      /\ \A b, i : i \in Nat /\ Has(b, i, s1) => read_be16(b, i) = m.source_address
  BY <1>0, Be16
<1>3. /\ s2 \in Seq(Byte) /\ Len(s2) = 1
      /\ \A b, i : Has(b, i, s2) => b[i + 1] = m.activation_type
  BY <1>0, OneByte
<1>4. /\ s3 \in Seq(Byte) /\ Len(s3) = 4
      /\ \A b, i : i \in Nat /\ Has(b, i, s3) => read_be32(b, i) = m.reserved
  BY <1>0, Be32
<1>5. /\ s4 \in Seq(Byte) /\ Len(s4) = 4
      /\ \A b, i : i \in Nat /\ Has(b, i, s4) => read_be32(b, i) = m.oem_specific
  BY <1>0, Be32
<1> SUFFICES Framed(m, c, 19)
  OBVIOUS
<1> HIDE DEF h, s1, s2, s3, s4
<1>6. Joins(c1, h, 8, s1, 10) /\ c1 \in Seq(Byte) /\ Len(c1) = 10
  <2>1. Joins(c1, h, Len(h), s1, Len(h) + Len(s1))
    BY <1>1, <1>2, Behind
  <2>2. Joins(c1, h, 8, s1, 10)
    BY <1>1, <1>2, <2>1
  <2> QED BY <2>2 DEF Joins
<1> HIDE DEF c1
<1>7. Joins(c2, c1, 10, s2, 11) /\ c2 \in Seq(Byte) /\ Len(c2) = 11
  <2>1. Joins(c2, c1, Len(c1), s2, Len(c1) + Len(s2))
    BY <1>6, <1>3, Behind
  <2>2. Joins(c2, c1, 10, s2, 11)
    BY <1>6, <1>3, <2>1
  <2> QED BY <2>2 DEF Joins
<1> HIDE DEF c2
<1>8. Joins(c3, c2, 11, s3, 15) /\ c3 \in Seq(Byte) /\ Len(c3) = 15
  <2>1. Joins(c3, c2, Len(c2), s3, Len(c2) + Len(s3))
    BY <1>7, <1>4, Behind
  <2>2. Joins(c3, c2, 11, s3, 15)
    BY <1>7, <1>4, <2>1
  <2> QED BY <2>2 DEF Joins
<1> HIDE DEF c3
<1>9. Joins(c, c3, 15, s4, 19) /\ c \in Seq(Byte) /\ Len(c) = 19
  <2>1. Joins(c, c3, Len(c3), s4, Len(c3) + Len(s4))
    BY <1>8, <1>5, Behind
  <2>2. Joins(c, c3, 15, s4, 19)
    BY <1>8, <1>5, <2>1
  <2> QED BY <2>2 DEF Joins
<1> HIDE DEF c
<1>10. \A b : Has(b, 0, c) => Heads(b, 5, 11)
  BY <1>1, <1>6, <1>7, <1>8, <1>9 DEF Joins
<1>11. c \in Seq(Byte) /\ Len(c) = 19 /\ read_be32(c, 4) = 11
  BY <1>9, <1>10, LengthSaid
<1>12. ASSUME NEW b, Has(b, 0, c) PROVE EntityDecode(b) = m
  <2>1. Has(b, 8, s1) /\ Has(b, 10, s2) /\ Has(b, 11, s3) /\ Has(b, 15, s4)
    BY <1>6, <1>7, <1>8, <1>9, <1>12 DEF Joins
  <2>2. /\ read_be16(b, 8) = m.source_address /\ At(b, 10) = m.activation_type
        /\ read_be32(b, 11) = m.reserved /\ read_be32(b, 15) = m.oem_specific
    BY <1>2, <1>3, <1>4, <1>5, <2>1 DEF At
  <2>3. doip_decode_routing_activation_req(b, 11) = m
    BY <1>0, <2>2 DEF doip_decode_routing_activation_req
  <2>4. PICK g : g = doip_decode_header(b)
    OBVIOUS
  <2>5. /\ g.payload_type = 5 /\ g.payload_length = 11
        /\ g.protocol_version = 3 /\ g.inverse_protocol_version = 252
    BY <1>10, <1>12, <2>4 DEF Heads
  <2>6. doip_validate_header(g)
    BY <2>5, CodecAssumption DEF doip_validate_header
  <2> QED BY <2>3, <2>4, <2>5, <2>6 DEF EntityDecode, DIAG_MESSAGE
<1>13. Understood(m, c)
  BY <1>0, <1>12 DEF Understood, Receivers, Decode, Faithful
<1> QED BY <1>11, <1>13 DEF Framed

\* The request of the 2012 edition says: no OEM field.
LEMMA ShortActivationFramed ==
  ASSUME NEW m \in doip_routing_activation_req_t, NEW x, x = [m EXCEPT !.oem_specific = 0]
  PROVE  Framed(x, Header(ROUTING_ACTIVATION_REQ, 7)
                   \o write_be16(m.source_address)
                   \o <<m.activation_type>>
                   \o write_be32(m.reserved), 15)
<1> USE DEF ROUTING_ACTIVATION_REQ
<1> DEFINE h == Header(ROUTING_ACTIVATION_REQ, 7)
           s1 == write_be16(m.source_address)
           s2 == <<m.activation_type>>
           s3 == write_be32(m.reserved)
           c1 == h \o s1
           c2 == c1 \o s2
           c == c2 \o s3
<1>0. /\ m.source_address \in Uint16 /\ m.activation_type \in Byte /\ m.reserved \in Uint32
      /\ x = [kind |-> "ACTIVATE", source_address |-> m.source_address,
              activation_type |-> m.activation_type, reserved |-> m.reserved,
              oem_specific |-> 0]
  BY DEF doip_routing_activation_req_t
<1>1. h \in Seq(Byte) /\ Len(h) = 8 /\ \A b : Has(b, 0, h) => Heads(b, 5, 7)
  <2>1. 5 \in Uint16 /\ 7 \in Uint32
    BY DEF Uint16, Uint32
  <2> QED BY <2>1, HeaderRead
<1>2. /\ s1 \in Seq(Byte) /\ Len(s1) = 2
      /\ \A b, i : i \in Nat /\ Has(b, i, s1) => read_be16(b, i) = m.source_address
  BY <1>0, Be16
<1>3. /\ s2 \in Seq(Byte) /\ Len(s2) = 1
      /\ \A b, i : Has(b, i, s2) => b[i + 1] = m.activation_type
  BY <1>0, OneByte
<1>4. /\ s3 \in Seq(Byte) /\ Len(s3) = 4
      /\ \A b, i : i \in Nat /\ Has(b, i, s3) => read_be32(b, i) = m.reserved
  BY <1>0, Be32
<1> SUFFICES Framed(x, c, 15)
  OBVIOUS
<1> HIDE DEF h, s1, s2, s3
<1>5. Joins(c1, h, 8, s1, 10) /\ c1 \in Seq(Byte) /\ Len(c1) = 10
  <2>1. Joins(c1, h, Len(h), s1, Len(h) + Len(s1))
    BY <1>1, <1>2, Behind
  <2>2. Joins(c1, h, 8, s1, 10)
    BY <1>1, <1>2, <2>1
  <2> QED BY <2>2 DEF Joins
<1> HIDE DEF c1
<1>6. Joins(c2, c1, 10, s2, 11) /\ c2 \in Seq(Byte) /\ Len(c2) = 11
  <2>1. Joins(c2, c1, Len(c1), s2, Len(c1) + Len(s2))
    BY <1>5, <1>3, Behind
  <2>2. Joins(c2, c1, 10, s2, 11)
    BY <1>5, <1>3, <2>1
  <2> QED BY <2>2 DEF Joins
<1> HIDE DEF c2
<1>7. Joins(c, c2, 11, s3, 15) /\ c \in Seq(Byte) /\ Len(c) = 15
  <2>1. Joins(c, c2, Len(c2), s3, Len(c2) + Len(s3))
    BY <1>6, <1>4, Behind
  <2>2. Joins(c, c2, 11, s3, 15)
    BY <1>6, <1>4, <2>1
  <2> QED BY <2>2 DEF Joins
<1> HIDE DEF c
<1>8. \A b : Has(b, 0, c) => Heads(b, 5, 7)
  BY <1>1, <1>5, <1>6, <1>7 DEF Joins
<1>9. c \in Seq(Byte) /\ Len(c) = 15 /\ read_be32(c, 4) = 7
  BY <1>7, <1>8, LengthSaid
<1>10. ASSUME NEW b, Has(b, 0, c) PROVE EntityDecode(b) = x
  <2>1. Has(b, 8, s1) /\ Has(b, 10, s2) /\ Has(b, 11, s3)
    BY <1>5, <1>6, <1>7, <1>10 DEF Joins
  <2>2. /\ read_be16(b, 8) = m.source_address /\ At(b, 10) = m.activation_type
        /\ read_be32(b, 11) = m.reserved
    BY <1>2, <1>3, <1>4, <2>1 DEF At
  <2>3. doip_decode_routing_activation_req(b, 7) = x
    <3>1. ~(7 >= 11)
      OBVIOUS
    <3> QED BY <1>0, <2>2, <3>1 DEF doip_decode_routing_activation_req
  <2>4. PICK g : g = doip_decode_header(b)
    OBVIOUS
  <2>5. /\ g.payload_type = 5 /\ g.payload_length = 7
        /\ g.protocol_version = 3 /\ g.inverse_protocol_version = 252
    BY <1>8, <1>10, <2>4 DEF Heads
  <2>6. doip_validate_header(g)
    BY <2>5, CodecAssumption DEF doip_validate_header
  <2> QED BY <2>3, <2>4, <2>5, <2>6 DEF EntityDecode, DIAG_MESSAGE
<1>11. Understood(x, c)
  <2>1. x.kind = "ACTIVATE"
    BY <1>0
  <2> SUFFICES ASSUME NEW b \in Seq(Byte), Has(b, 0, c) PROVE Faithful(x, EntityDecode(b))
    BY <2>1 DEF Understood, Receivers, Decode
  <2>2. EntityDecode(b) = x
    BY <1>10
  <2> QED BY <2>2 DEF Faithful
<1> QED BY <1>9, <1>11 DEF Framed

LEMMA ResponseFramed ==
  ASSUME NEW m \in doip_routing_activation_res_t
  PROVE  Framed(m, Header(ROUTING_ACTIVATION_RES, 13)
                   \o write_be16(m.tester_address)
                   \o write_be16(m.entity_address)
                   \o <<m.response_code>>
                   \o write_be32(m.reserved)
                   \o write_be32(m.oem_specific), 21)
<1> USE DEF ROUTING_ACTIVATION_RES
<1> DEFINE h == Header(ROUTING_ACTIVATION_RES, 13)
           s1 == write_be16(m.tester_address)
           s2 == write_be16(m.entity_address)
           s3 == <<m.response_code>>
           s4 == write_be32(m.reserved)
           s5 == write_be32(m.oem_specific)
           c1 == h \o s1
           c2 == c1 \o s2
           c3 == c2 \o s3
           c4 == c3 \o s4
           c == c4 \o s5
<1>0. /\ m.kind = "ACTIVATED" /\ m.tester_address \in Uint16 /\ m.entity_address \in Uint16
      /\ m.response_code \in Byte /\ m.reserved \in Uint32 /\ m.oem_specific \in Uint32
  BY DEF doip_routing_activation_res_t
<1>1. h \in Seq(Byte) /\ Len(h) = 8 /\ \A b : Has(b, 0, h) => Heads(b, 6, 13)
  <2>1. 6 \in Uint16 /\ 13 \in Uint32
    BY DEF Uint16, Uint32
  <2> QED BY <2>1, HeaderRead
<1>2. /\ s1 \in Seq(Byte) /\ Len(s1) = 2
      /\ \A b, i : i \in Nat /\ Has(b, i, s1) => read_be16(b, i) = m.tester_address
  BY <1>0, Be16
<1>3. /\ s2 \in Seq(Byte) /\ Len(s2) = 2
      /\ \A b, i : i \in Nat /\ Has(b, i, s2) => read_be16(b, i) = m.entity_address
  BY <1>0, Be16
<1>4. /\ s3 \in Seq(Byte) /\ Len(s3) = 1
      /\ \A b, i : Has(b, i, s3) => b[i + 1] = m.response_code
  BY <1>0, OneByte
<1>5. /\ s4 \in Seq(Byte) /\ Len(s4) = 4
      /\ \A b, i : i \in Nat /\ Has(b, i, s4) => read_be32(b, i) = m.reserved
  BY <1>0, Be32
<1>6. /\ s5 \in Seq(Byte) /\ Len(s5) = 4
      /\ \A b, i : i \in Nat /\ Has(b, i, s5) => read_be32(b, i) = m.oem_specific
  BY <1>0, Be32
<1> SUFFICES Framed(m, c, 21)
  OBVIOUS
<1> HIDE DEF h, s1, s2, s3, s4, s5
<1>7. Joins(c1, h, 8, s1, 10) /\ c1 \in Seq(Byte) /\ Len(c1) = 10
  <2>1. Joins(c1, h, Len(h), s1, Len(h) + Len(s1))
    BY <1>1, <1>2, Behind
  <2>2. Joins(c1, h, 8, s1, 10)
    BY <1>1, <1>2, <2>1
  <2> QED BY <2>2 DEF Joins
<1> HIDE DEF c1
<1>8. Joins(c2, c1, 10, s2, 12) /\ c2 \in Seq(Byte) /\ Len(c2) = 12
  <2>1. Joins(c2, c1, Len(c1), s2, Len(c1) + Len(s2))
    BY <1>7, <1>3, Behind
  <2>2. Joins(c2, c1, 10, s2, 12)
    BY <1>7, <1>3, <2>1
  <2> QED BY <2>2 DEF Joins
<1> HIDE DEF c2
<1>9. Joins(c3, c2, 12, s3, 13) /\ c3 \in Seq(Byte) /\ Len(c3) = 13
  <2>1. Joins(c3, c2, Len(c2), s3, Len(c2) + Len(s3))
    BY <1>8, <1>4, Behind
  <2>2. Joins(c3, c2, 12, s3, 13)
    BY <1>8, <1>4, <2>1
  <2> QED BY <2>2 DEF Joins
<1> HIDE DEF c3
<1>10. Joins(c4, c3, 13, s4, 17) /\ c4 \in Seq(Byte) /\ Len(c4) = 17
  <2>1. Joins(c4, c3, Len(c3), s4, Len(c3) + Len(s4))
    BY <1>9, <1>5, Behind
  <2>2. Joins(c4, c3, 13, s4, 17)
    BY <1>9, <1>5, <2>1
  <2> QED BY <2>2 DEF Joins
<1> HIDE DEF c4
<1>11. Joins(c, c4, 17, s5, 21) /\ c \in Seq(Byte) /\ Len(c) = 21
  <2>1. Joins(c, c4, Len(c4), s5, Len(c4) + Len(s5))
    BY <1>10, <1>6, Behind
  <2>2. Joins(c, c4, 17, s5, 21)
    BY <1>10, <1>6, <2>1
  <2> QED BY <2>2 DEF Joins
<1> HIDE DEF c
<1>12. \A b : Has(b, 0, c) => Heads(b, 6, 13)
  BY <1>1, <1>7, <1>8, <1>9, <1>10, <1>11 DEF Joins
<1>13. c \in Seq(Byte) /\ Len(c) = 21 /\ read_be32(c, 4) = 13
  BY <1>11, <1>12, LengthSaid
<1>14. ASSUME NEW b, Has(b, 0, c)
       PROVE  TesterDecode(b) = [kind |-> "ACTIVATED", response_code |-> m.response_code]
  <2>1. Has(b, 12, s3)
    BY <1>7, <1>8, <1>9, <1>10, <1>11, <1>14 DEF Joins
  <2>2. At(b, 12) = m.response_code
    BY <1>4, <2>1 DEF At
  <2>3. PICK g : g = doip_decode_header(b)
    OBVIOUS
  <2>4. /\ g.payload_type = 6 /\ g.payload_length = 13
        /\ g.protocol_version = 3 /\ g.inverse_protocol_version = 252
    BY <1>12, <1>14, <2>3 DEF Heads
  <2>5. handle_routing_activation_response(b, 13) =
          [kind |-> "ACTIVATED", response_code |-> m.response_code]
    BY <2>2 DEF handle_routing_activation_response
  <2> QED BY <2>3, <2>4, <2>5 DEF TesterDecode, DIAG_MESSAGE, VEHICLE_ANNOUNCEMENT
<1>15. Understood(m, c)
  BY <1>0, <1>14 DEF Understood, Receivers, Decode, Faithful
<1> QED BY <1>13, <1>15 DEF Framed

LEMMA AnnouncementFramed ==
  ASSUME NEW m \in doip_vehicle_id_response_t
  PROVE  Framed(m, Header(VEHICLE_ANNOUNCEMENT, 33)
                   \o m.vin
                   \o write_be16(m.logical_address)
                   \o m.eid
                   \o m.gid
                   \o <<m.further_action_required, m.sync_status>>, 41)
<1> USE DEF VEHICLE_ANNOUNCEMENT
<1> DEFINE h == Header(VEHICLE_ANNOUNCEMENT, 33)
           s1 == m.vin
           s2 == write_be16(m.logical_address)
           s3 == m.eid
           s4 == m.gid
           s5 == <<m.further_action_required, m.sync_status>>
           c1 == h \o s1
           c2 == c1 \o s2
           c3 == c2 \o s3
           c4 == c3 \o s4
           c == c4 \o s5
<1>0. /\ m.kind = "VEHICLE" /\ m.vin \in [1..17 -> Byte] /\ m.logical_address \in Uint16
      /\ m.eid \in [1..6 -> Byte] /\ m.gid \in [1..6 -> Byte]
      /\ m.further_action_required \in Byte /\ m.sync_status \in Byte
  BY DEF doip_vehicle_id_response_t
<1>1. h \in Seq(Byte) /\ Len(h) = 8 /\ \A b : Has(b, 0, h) => Heads(b, 4, 33)
  <2>1. 4 \in Uint16 /\ 33 \in Uint32
    BY DEF Uint16, Uint32
  <2> QED BY <2>1, HeaderRead
<1>2. s1 \in Seq(Byte) /\ Len(s1) = 17
  BY <1>0, Array
<1>3. /\ s2 \in Seq(Byte) /\ Len(s2) = 2
      /\ \A b, i : i \in Nat /\ Has(b, i, s2) => read_be16(b, i) = m.logical_address
  BY <1>0, Be16
<1>4. s3 \in Seq(Byte) /\ Len(s3) = 6
  BY <1>0, Array
<1>5. s4 \in Seq(Byte) /\ Len(s4) = 6
  BY <1>0, Array
<1>6. s5 \in Seq(Byte) /\ Len(s5) = 2
  BY <1>0
<1> SUFFICES Framed(m, c, 41)
  OBVIOUS
<1> HIDE DEF h, s1, s2, s3, s4, s5
<1>7. Joins(c1, h, 8, s1, 25) /\ c1 \in Seq(Byte) /\ Len(c1) = 25
  <2>1. Joins(c1, h, Len(h), s1, Len(h) + Len(s1))
    BY <1>1, <1>2, Behind
  <2>2. Joins(c1, h, 8, s1, 25)
    BY <1>1, <1>2, <2>1
  <2> QED BY <2>2 DEF Joins
<1> HIDE DEF c1
<1>8. Joins(c2, c1, 25, s2, 27) /\ c2 \in Seq(Byte) /\ Len(c2) = 27
  <2>1. Joins(c2, c1, Len(c1), s2, Len(c1) + Len(s2))
    BY <1>7, <1>3, Behind
  <2>2. Joins(c2, c1, 25, s2, 27)
    BY <1>7, <1>3, <2>1
  <2> QED BY <2>2 DEF Joins
<1> HIDE DEF c2
<1>9. Joins(c3, c2, 27, s3, 33) /\ c3 \in Seq(Byte) /\ Len(c3) = 33
  <2>1. Joins(c3, c2, Len(c2), s3, Len(c2) + Len(s3))
    BY <1>8, <1>4, Behind
  <2>2. Joins(c3, c2, 27, s3, 33)
    BY <1>8, <1>4, <2>1
  <2> QED BY <2>2 DEF Joins
<1> HIDE DEF c3
<1>10. Joins(c4, c3, 33, s4, 39) /\ c4 \in Seq(Byte) /\ Len(c4) = 39
  <2>1. Joins(c4, c3, Len(c3), s4, Len(c3) + Len(s4))
    BY <1>9, <1>5, Behind
  <2>2. Joins(c4, c3, 33, s4, 39)
    BY <1>9, <1>5, <2>1
  <2> QED BY <2>2 DEF Joins
<1> HIDE DEF c4
<1>11. Joins(c, c4, 39, s5, 41) /\ c \in Seq(Byte) /\ Len(c) = 41
  <2>1. Joins(c, c4, Len(c4), s5, Len(c4) + Len(s5))
    BY <1>10, <1>6, Behind
  <2>2. Joins(c, c4, 39, s5, 41)
    BY <1>10, <1>6, <2>1
  <2> QED BY <2>2 DEF Joins
<1> HIDE DEF c
<1>12. \A b : Has(b, 0, c) => Heads(b, 4, 33)
  BY <1>1, <1>7, <1>8, <1>9, <1>10, <1>11 DEF Joins
<1>13. c \in Seq(Byte) /\ Len(c) = 41 /\ read_be32(c, 4) = 33
  BY <1>11, <1>12, LengthSaid
<1>14. ASSUME NEW b \in Seq(Byte), Has(b, 0, c), 41 <= Len(b)
       PROVE  TesterDecode(b) = [kind |-> "VEHICLE", vin |-> m.vin,
                                 logical_address |-> m.logical_address, eid |-> m.eid]
  <2>1. Has(b, 8, s1) /\ Has(b, 25, s2) /\ Has(b, 27, s3)
    BY <1>7, <1>8, <1>9, <1>10, <1>11, <1>14 DEF Joins
  <2>2. read_be16(b, 25) = m.logical_address
    BY <1>3, <2>1
  <2>3. 8 + Len(s1) <= Len(b) /\ 27 + Len(s3) <= Len(b)
    BY <1>2, <1>4, <1>14
  <2>4. Slice(b, 8, Len(s1)) = s1
    BY <1>2, <1>14, <2>1, <2>3, SliceLemma
  <2>5. Slice(b, 27, Len(s3)) = s3
    BY <1>4, <1>14, <2>1, <2>3, SliceLemma
  <2>6. Slice(b, 8, 17) = m.vin /\ Slice(b, 27, 6) = m.eid
    BY <1>2, <1>4, <2>4, <2>5 DEF s1, s3
  <2>7. handle_vehicle_announcement(b, 33) =
          [kind |-> "VEHICLE", vin |-> m.vin, logical_address |-> m.logical_address, eid |-> m.eid]
    BY <2>2, <2>6 DEF handle_vehicle_announcement
  <2>8. PICK g : g = doip_decode_header(b)
    OBVIOUS
  <2>9. /\ g.payload_type = 4 /\ g.payload_length = 33
        /\ g.protocol_version = 3 /\ g.inverse_protocol_version = 252
    BY <1>12, <1>14, <2>8 DEF Heads
  <2> QED BY <2>7, <2>8, <2>9 DEF TesterDecode, DIAG_MESSAGE, ROUTING_ACTIVATION_RES
<1>15. Understood(m, c)
  <2>1. SUFFICES ASSUME NEW b \in Seq(Byte), Has(b, 0, c), Len(c) <= Len(b)
                 PROVE  Faithful(m, TesterDecode(b))
    BY <1>0 DEF Understood, Receivers, Decode
  <2>2. TesterDecode(b) = [kind |-> "VEHICLE", vin |-> m.vin,
                           logical_address |-> m.logical_address, eid |-> m.eid]
    BY <1>13, <1>14, <2>1
  <2> QED BY <1>0, <2>2 DEF Faithful
<1> QED BY <1>13, <1>15 DEF Framed

LEMMA Shorter ==
  ASSUME NEW k \in Nat, 12 + k \in Uint32
  PROVE  4 + k \in Uint32
<1>1. (12 + k) \div 65536 <= 65535 => (4 + k) \div 65536 <= 65535
  OBVIOUS
<1> QED BY <1>1 DEF Uint32

LEMMA DiagnosticFramed ==
  ASSUME NEW m \in doip_diagnostic_message_t
  PROVE  Framed(m, Header(DIAG_MESSAGE, 4 + Len(m.user_data)) \o write_be16(m.source_address)
                   \o write_be16(m.target_address) \o m.user_data,
                12 + Len(m.user_data))
<1> USE DEF DIAG_MESSAGE
<1>0. PICK l \in Nat, n \in Nat : l = 4 + Len(m.user_data) /\ n = 12 + Len(m.user_data)
  BY DEF doip_diagnostic_message_t
<1> DEFINE h == Header(DIAG_MESSAGE, l)
           s1 == write_be16(m.source_address)
           s2 == write_be16(m.target_address)
           s3 == m.user_data
           c1 == h \o s1
           c2 == c1 \o s2
           c == c2 \o s3
<1>a. /\ m.kind = "DIAG" /\ m.source_address \in Uint16 /\ m.target_address \in Uint16
      /\ m.user_data \in Seq(Byte) /\ 12 + Len(m.user_data) \in Uint32
      /\ m = [kind |-> "DIAG", source_address |-> m.source_address,
              target_address |-> m.target_address, user_data |-> m.user_data]
  BY DEF doip_diagnostic_message_t
<1>1. h \in Seq(Byte) /\ Len(h) = 8 /\ \A b : Has(b, 0, h) => Heads(b, 32769, l)
  <2>1. 32769 \in Uint16 /\ l \in Uint32
    <3>1. PICK k \in Nat : k = Len(m.user_data)
      BY <1>a
    <3>2. 12 + k \in Uint32
      BY <1>a, <3>1
    <3>3. 4 + k \in Uint32
      BY <3>2, Shorter
    <3> QED BY <1>0, <3>1, <3>3 DEF Uint16
  <2> QED BY <2>1, HeaderRead
<1>2. /\ s1 \in Seq(Byte) /\ Len(s1) = 2
      /\ \A b, i : i \in Nat /\ Has(b, i, s1) => read_be16(b, i) = m.source_address
  BY <1>a, Be16
<1>3. /\ s2 \in Seq(Byte) /\ Len(s2) = 2
      /\ \A b, i : i \in Nat /\ Has(b, i, s2) => read_be16(b, i) = m.target_address
  BY <1>a, Be16
<1>4. s3 \in Seq(Byte) /\ Len(s3) = Len(m.user_data)
  BY <1>a
<1> SUFFICES Framed(m, c, n)
  BY <1>0
<1> HIDE DEF h, s1, s2, s3
<1>5. Joins(c1, h, 8, s1, 10) /\ c1 \in Seq(Byte) /\ Len(c1) = 10
  <2>1. Joins(c1, h, Len(h), s1, Len(h) + Len(s1))
    <3>1. h \in Seq(Byte) /\ s1 \in Seq(Byte)
      BY <1>1, <1>2
    <3> QED BY <3>1, Behind
  <2>2. Joins(c1, h, 8, s1, 10)
    BY <1>1, <1>2, <2>1
  <2> QED BY <2>2 DEF Joins
<1> HIDE DEF c1
<1>6. Joins(c2, c1, 10, s2, 12) /\ c2 \in Seq(Byte) /\ Len(c2) = 12
  <2>1. Joins(c2, c1, Len(c1), s2, Len(c1) + Len(s2))
    BY <1>5, <1>3, Behind
  <2>2. Joins(c2, c1, 10, s2, 12)
    BY <1>5, <1>3, <2>1
  <2> QED BY <2>2 DEF Joins
<1> HIDE DEF c2
<1>7. Joins(c, c2, 12, s3, n) /\ c \in Seq(Byte) /\ Len(c) = n
  <2>1. Joins(c, c2, Len(c2), s3, Len(c2) + Len(s3))
    BY <1>6, <1>4, <1>a, Behind
  <2>2. Joins(c, c2, 12, s3, n)
    <3>1. Len(c2) = 12 /\ Len(c2) + Len(s3) = n
      BY <1>0, <1>4, <1>6, <1>a
    <3> QED BY <2>1, <3>1
  <2> QED BY <2>2 DEF Joins
<1> HIDE DEF c
<1>8. \A b : Has(b, 0, c) => Heads(b, 32769, l)
  BY <1>1, <1>5, <1>6, <1>7 DEF Joins
<1>9. c \in Seq(Byte) /\ Len(c) = n /\ read_be32(c, 4) = l
  BY <1>7, <1>8, LengthSaid
<1>10. ASSUME NEW b \in Seq(Byte), Has(b, 0, c), n <= Len(b)
       PROVE  TesterDecode(b) = m /\ (EntityDecode(b) = m \/ (EntityDecode(b) = Nothing /\ l > MaxPayload))
  <2>1. Has(b, 8, s1) /\ Has(b, 10, s2) /\ Has(b, 12, s3)
    BY <1>5, <1>6, <1>7, <1>10 DEF Joins
  <2>2. read_be16(b, 8) = m.source_address /\ read_be16(b, 10) = m.target_address
    BY <1>2, <1>3, <2>1
  <2>3. 12 + Len(s3) <= Len(b) /\ l - 4 = Len(s3)
    BY <1>0, <1>4, <1>10, <1>a
  <2>4. Slice(b, 12, Len(s3)) = s3
    BY <1>4, <1>10, <2>1, <2>3, SliceLemma
  <2>5. Slice(b, 12, l - 4) = m.user_data
    BY <2>3, <2>4 DEF s3
  <2>6. ~(l < 4)
    BY <1>0, <1>a
  <2>7. doip_decode_diagnostic_message(b, l) = m
    BY <1>a, <2>2, <2>5, <2>6 DEF doip_decode_diagnostic_message
  <2>8. PICK g : g = doip_decode_header(b)
    OBVIOUS
  <2>9. /\ g.payload_type = 32769 /\ g.payload_length = l
        /\ g.protocol_version = 3 /\ g.inverse_protocol_version = 252
    BY <1>8, <1>10, <2>8 DEF Heads
  <2>10. TesterDecode(b) = m
    BY <2>7, <2>8, <2>9 DEF TesterDecode, VEHICLE_ANNOUNCEMENT, ROUTING_ACTIVATION_RES
  <2>11. CASE doip_validate_header(g)
    <3>1. EntityDecode(b) = m
      BY <2>7, <2>8, <2>9, <2>11 DEF EntityDecode, ROUTING_ACTIVATION_REQ
    <3> QED BY <2>10, <3>1
  <2>12. CASE ~doip_validate_header(g)
    <3>1. EntityDecode(b) = Nothing
      BY <2>8, <2>12 DEF EntityDecode
    <3>2. l > MaxPayload
      BY <2>9, <2>12, CodecAssumption DEF doip_validate_header
    <3> QED BY <2>10, <3>1, <3>2
  <2> QED BY <2>11, <2>12
<1>11. Understood(m, c)
  <2> SUFFICES ASSUME NEW b \in Seq(Byte), Len(c) <= Len(b), Has(b, 0, c)
               PROVE  Faithful(m, TesterDecode(b)) /\ Faithful(m, EntityDecode(b))
    BY <1>a DEF Understood, Receivers, Decode
  <2>1. TesterDecode(b) = m /\ (EntityDecode(b) = m \/ (EntityDecode(b) = Nothing /\ l > MaxPayload))
    BY <1>9, <1>10
  <2> QED BY <1>0, <1>a, <2>1 DEF Faithful
<1>12. n = 8 + l
  BY <1>0, <1>a
<1> QED BY <1>9, <1>11, <1>12 DEF Framed

\* Acknowledgements are framed; the tester reads no field of them.
LEMMA AckFramed ==
  ASSUME NEW m \in Acknowledgement, NEW t \in Uint16
  PROVE  Framed(m, Header(t, 5)
                   \o write_be16(m.source_address)
                   \o write_be16(m.target_address)
                   \o <<m.ack_code>>, 13)
<1> DEFINE h == Header(t, 5)
           s1 == write_be16(m.source_address)
           s2 == write_be16(m.target_address)
           s3 == <<m.ack_code>>
           c1 == h \o s1
           c2 == c1 \o s2
           c == c2 \o s3
<1>0. /\ m.kind = "ACK" /\ m.source_address \in Uint16 /\ m.target_address \in Uint16
      /\ m.ack_code \in Byte
  BY DEF Acknowledgement
<1>1. h \in Seq(Byte) /\ Len(h) = 8 /\ \A b : Has(b, 0, h) => Heads(b, t, 5)
  <2>1. t \in Uint16 /\ 5 \in Uint32
    BY <1>0 DEF Uint32
  <2> QED BY <2>1, HeaderRead
<1>2. /\ s1 \in Seq(Byte) /\ Len(s1) = 2
      /\ \A b, i : i \in Nat /\ Has(b, i, s1) => read_be16(b, i) = m.source_address
  BY <1>0, Be16
<1>3. /\ s2 \in Seq(Byte) /\ Len(s2) = 2
      /\ \A b, i : i \in Nat /\ Has(b, i, s2) => read_be16(b, i) = m.target_address
  BY <1>0, Be16
<1>4. /\ s3 \in Seq(Byte) /\ Len(s3) = 1
      /\ \A b, i : Has(b, i, s3) => b[i + 1] = m.ack_code
  BY <1>0, OneByte
<1> SUFFICES Framed(m, c, 13)
  OBVIOUS
<1> HIDE DEF h, s1, s2, s3
<1>5. Joins(c1, h, 8, s1, 10) /\ c1 \in Seq(Byte) /\ Len(c1) = 10
  <2>1. Joins(c1, h, Len(h), s1, Len(h) + Len(s1))
    BY <1>1, <1>2, Behind
  <2>2. Joins(c1, h, 8, s1, 10)
    BY <1>1, <1>2, <2>1
  <2> QED BY <2>2 DEF Joins
<1> HIDE DEF c1
<1>6. Joins(c2, c1, 10, s2, 12) /\ c2 \in Seq(Byte) /\ Len(c2) = 12
  <2>1. Joins(c2, c1, Len(c1), s2, Len(c1) + Len(s2))
    BY <1>5, <1>3, Behind
  <2>2. Joins(c2, c1, 10, s2, 12)
    BY <1>5, <1>3, <2>1
  <2> QED BY <2>2 DEF Joins
<1> HIDE DEF c2
<1>7. Joins(c, c2, 12, s3, 13) /\ c \in Seq(Byte) /\ Len(c) = 13
  <2>1. Joins(c, c2, Len(c2), s3, Len(c2) + Len(s3))
    BY <1>6, <1>4, Behind
  <2>2. Joins(c, c2, 12, s3, 13)
    BY <1>6, <1>4, <2>1
  <2> QED BY <2>2 DEF Joins
<1> HIDE DEF c
<1>8. \A b : Has(b, 0, c) => Heads(b, t, 5)
  BY <1>1, <1>5, <1>6, <1>7 DEF Joins
<1>9. c \in Seq(Byte) /\ Len(c) = 13 /\ read_be32(c, 4) = 5
  BY <1>7, <1>8, LengthSaid
<1>10. m.kind \notin Read
  BY <1>0 DEF Read
<1>11. Understood(m, c)
  BY <1>10 DEF Understood
<1> QED BY <1>9, <1>11 DEF Framed

LEMMA NackFramed ==
  ASSUME NEW m \in [kind : {"NACK"}, nack_code : Byte]
  PROVE  Framed(m, Header(GENERIC_NACK, 1)
                   \o <<m.nack_code>>, 9)
<1> USE DEF GENERIC_NACK
<1> DEFINE h == Header(GENERIC_NACK, 1)
           s1 == <<m.nack_code>>
           c == h \o s1
<1>0. m.kind = "NACK" /\ m.nack_code \in Byte
  OBVIOUS
<1>1. h \in Seq(Byte) /\ Len(h) = 8 /\ \A b : Has(b, 0, h) => Heads(b, 0, 1)
  <2>1. 0 \in Uint16 /\ 1 \in Uint32
    BY DEF Uint16, Uint32
  <2> QED BY <2>1, HeaderRead
<1>2. /\ s1 \in Seq(Byte) /\ Len(s1) = 1
      /\ \A b, i : Has(b, i, s1) => b[i + 1] = m.nack_code
  BY <1>0, OneByte
<1> SUFFICES Framed(m, c, 9)
  OBVIOUS
<1> HIDE DEF h, s1
<1>3. Joins(c, h, 8, s1, 9) /\ c \in Seq(Byte) /\ Len(c) = 9
  <2>1. Joins(c, h, Len(h), s1, Len(h) + Len(s1))
    BY <1>1, <1>2, Behind
  <2>2. Joins(c, h, 8, s1, 9)
    BY <1>1, <1>2, <2>1
  <2> QED BY <2>2 DEF Joins
<1> HIDE DEF c
<1>4. \A b : Has(b, 0, c) => Heads(b, 0, 1)
  BY <1>1, <1>3 DEF Joins
<1>5. c \in Seq(Byte) /\ Len(c) = 9 /\ read_be32(c, 4) = 1
  BY <1>3, <1>4, LengthSaid
<1>6. m.kind \notin Read
  BY <1>0 DEF Read
<1>7. Understood(m, c)
  BY <1>6 DEF Understood
<1> QED BY <1>5, <1>7 DEF Framed

LEMMA RequestFramed ==
  ASSUME NEW m \in [kind : {"IDENTIFY"}]
  PROVE  Framed(m, Header(VEHICLE_ID_REQ, 0), 8)
<1> USE DEF VEHICLE_ID_REQ
<1> DEFINE h == Header(VEHICLE_ID_REQ, 0)
<1>1. h \in Seq(Byte) /\ Len(h) = 8 /\ \A b : Has(b, 0, h) => Heads(b, 1, 0)
  <2>1. 1 \in Uint16 /\ 0 \in Uint32
    BY DEF Uint16, Uint32
  <2> QED BY <2>1, HeaderRead
<1> HIDE DEF h
<1>2. read_be32(h, 4) = 0
  BY <1>1, LengthSaid
<1>3. m.kind \notin Read
  BY DEF Read
<1>4. Understood(m, h)
  BY <1>3 DEF Understood
<1>5. Framed(m, h, 8)
  BY <1>1, <1>2, <1>4 DEF Framed
<1> QED BY <1>5 DEF h

----------------------------------------------------------------------------
\* Encoders.

\* What a call of an encoder for m with a buffer of sz bytes leaves.
Outcome(m, sz, e) ==
  \/ e.result = "BUFFER_TOO_SMALL" /\ e.bytes = <<>>
  \/ e.result = "OK" /\ Len(e.bytes) <= sz /\ Framed(m, e.bytes, Len(e.bytes))

LEMMA EncodedOutcome ==
  ASSUME NEW m, NEW sz \in Nat, NEW n \in Nat, NEW c, Framed(m, c, n)
  PROVE  Outcome(m, sz, Encoded(n, sz, c))
<1>1. CASE sz < n
  BY <1>1 DEF Encoded, Outcome
<1>2. CASE ~(sz < n)
  BY <1>2 DEF Encoded, Outcome, Framed
<1> QED BY <1>1, <1>2

LEMMA EncodeOutcome ==
  ASSUME NEW m \in Message, NEW sz \in Nat
  PROVE  Outcome(m, sz, Encode(m, sz))
<1>1. CASE m \in doip_vehicle_id_response_t
  <2>1. m.kind = "VEHICLE"
    BY <1>1 DEF doip_vehicle_id_response_t
  <2>2. Encode(m, sz) = doip_encode_vehicle_id_response(m, sz)
    BY <2>1 DEF Encode
  <2> QED BY <1>1, <2>2, AnnouncementFramed, EncodedOutcome DEF doip_encode_vehicle_id_response
<1>2. CASE m \in doip_routing_activation_req_t
  <2>1. m.kind = "ACTIVATE"
    BY <1>2 DEF doip_routing_activation_req_t
  <2>2. Encode(m, sz) = doip_encode_routing_activation_req(m, sz)
    BY <2>1 DEF Encode
  <2> QED BY <1>2, <2>2, ActivationFramed, EncodedOutcome DEF doip_encode_routing_activation_req
<1>3. CASE m \in doip_routing_activation_res_t
  <2>1. m.kind = "ACTIVATED"
    BY <1>3 DEF doip_routing_activation_res_t
  <2>2. Encode(m, sz) = doip_encode_routing_activation_res(m, sz)
    BY <2>1 DEF Encode
  <2> QED BY <1>3, <2>2, ResponseFramed, EncodedOutcome DEF doip_encode_routing_activation_res
<1>4. CASE m \in doip_diagnostic_message_t
  <2>1. m.kind = "DIAG" /\ Len(m.user_data) \in Nat
    BY <1>4 DEF doip_diagnostic_message_t
  <2>2. Encode(m, sz) = doip_encode_diagnostic_message(m, sz)
    BY <2>1 DEF Encode
  <2>3. 8 + 4 + Len(m.user_data) = 12 + Len(m.user_data) /\ 12 + Len(m.user_data) \in Nat
    BY <2>1
  <2> QED BY <1>4, <2>2, <2>3, DiagnosticFramed, EncodedOutcome DEF doip_encode_diagnostic_message
<1>5. CASE m \in Acknowledgement
  <2>1. m.kind = "ACK"
    BY <1>5 DEF Acknowledgement
  <2>2. Encode(m, sz) = doip_encode_diag_message_ack(m, sz)
    BY <2>1 DEF Encode
  <2>3. PICK t : t = IF m.ack_code = 0 THEN DIAG_MESSAGE_ACK ELSE DIAG_MESSAGE_NACK
    OBVIOUS
  <2>4. t \in Uint16
    BY <2>3 DEF DIAG_MESSAGE_ACK, DIAG_MESSAGE_NACK, Uint16
  <2> QED BY <1>5, <2>2, <2>3, <2>4, AckFramed, EncodedOutcome DEF doip_encode_diag_message_ack
<1>6. CASE m \in [kind : {"NACK"}, nack_code : Byte]
  <2>1. m.kind = "NACK"
    BY <1>6
  <2>2. Encode(m, sz) = doip_encode_generic_nack(m, sz)
    BY <2>1 DEF Encode
  <2> QED BY <1>6, <2>2, NackFramed, EncodedOutcome DEF doip_encode_generic_nack
<1>7. CASE m \in [kind : {"IDENTIFY"}]
  <2>1. m.kind = "IDENTIFY"
    BY <1>7
  <2>2. Encode(m, sz) = VehicleIdRequest(sz)
    BY <2>1 DEF Encode
  <2> QED BY <1>7, <2>2, RequestFramed, EncodedOutcome DEF VehicleIdRequest
<1> QED BY <1>1, <1>2, <1>3, <1>4, <1>5, <1>6, <1>7 DEF Message

----------------------------------------------------------------------------
\* The invariant.

CodecTypes ==
  size \in Nat /\ bytes \in Seq(Byte) /\ rx \in Seq(Byte) /\ Len(rx) = RxSize

\* What has been encoded and not yet received says what its sender meant.
Pending == result = "OK" => Understood(sent, bytes)

IInv == CodecTypes /\ FramesAligned /\ FitsBuffer /\ Pending /\ FieldsUnderstood

LEMMA InitCodec == Init => IInv
<1> SUFFICES ASSUME Init PROVE IInv
  OBVIOUS
<1>1. rx \in Seq(Byte) /\ Len(rx) = RxSize
  <2>1. RxSize \in Nat /\ rx \in [1..RxSize -> Byte]
    BY CodecAssumption DEF Init, Byte
  <2> QED BY <2>1, Array
<1>2. CodecTypes /\ FramesAligned /\ FitsBuffer /\ Pending
  <2>1. bytes = <<>> /\ size = 0 /\ result = "NONE" /\ bytes \in Seq(Byte) /\ Len(bytes) = 0
    BY DEF Init
  <2> QED BY <1>1, <2>1 DEF CodecTypes, FramesAligned, FitsBuffer, Pending
<1>3. FieldsUnderstood
  BY DEF Init, FieldsUnderstood, Nothing
<1> QED BY <1>2, <1>3 DEF IInv

LEMMA SendKept ==
  ASSUME IInv, NEW m \in Messages, NEW sz \in Sizes, Send(m, sz)
  PROVE  IInv'
<1>1. m \in Message /\ sz \in Nat
  BY CodecAssumption
<1>2. PICK e : e = Encode(m, sz)
  OBVIOUS
<1>3. Outcome(m, sz, e)
  BY <1>1, <1>2, EncodeOutcome
<1>4. /\ sent' = m /\ size' = sz /\ result' = e.result /\ bytes' = e.bytes /\ rx' = rx
  BY <1>2 DEF Send
<1>5. CASE e.result = "BUFFER_TOO_SMALL" /\ e.bytes = <<>>
  BY <1>1, <1>4, <1>5 DEF IInv, CodecTypes, FramesAligned, FitsBuffer, Pending, FieldsUnderstood
<1>6. CASE e.result = "OK" /\ Len(e.bytes) <= sz /\ Framed(m, e.bytes, Len(e.bytes))
  <2>1. e.bytes \in Seq(Byte) /\ Len(e.bytes) = 8 + read_be32(e.bytes, 4) /\ Understood(m, e.bytes)
    BY <1>6 DEF Framed
  <2>2. CodecTypes' /\ FitsBuffer' /\ FieldsUnderstood'
    BY <1>1, <1>4, <1>6, <2>1 DEF IInv, CodecTypes, FitsBuffer, FieldsUnderstood
  <2>3. FramesAligned' /\ Pending'
    BY <1>4, <2>1 DEF FramesAligned, Pending, read_be32, read_be16, At
  <2> QED BY <2>2, <2>3 DEF IInv
<1> QED BY <1>3, <1>5, <1>6 DEF Outcome

LEMMA ShortKept ==
  ASSUME IInv, NEW m \in Messages, SendShortActivation(m)
  PROVE  IInv'
<1>1. m \in doip_routing_activation_req_t
  <2>1. m \in Message /\ m.kind = "ACTIVATE"
    BY CodecAssumption DEF SendShortActivation
  <2> QED BY <2>1 DEF Message, doip_vehicle_id_response_t, doip_routing_activation_req_t,
                      doip_routing_activation_res_t, doip_diagnostic_message_t, Acknowledgement
<1>2. PICK x : x = [m EXCEPT !.oem_specific = 0]
  OBVIOUS
<1>3. PICK c : c = Header(ROUTING_ACTIVATION_REQ, 7) \o write_be16(m.source_address)
                   \o <<m.activation_type>> \o write_be32(m.reserved)
  OBVIOUS
<1>4. Framed(x, c, 15)
  BY <1>1, <1>2, <1>3, ShortActivationFramed
<1>5. sent' = x /\ size' = 15 /\ result' = "OK" /\ bytes' = c /\ rx' = rx
  BY <1>2, <1>3 DEF SendShortActivation
<1>6. c \in Seq(Byte) /\ Len(c) = 15 /\ 15 = 8 + read_be32(c, 4) /\ Understood(x, c)
  BY <1>4 DEF Framed
<1>7. CodecTypes' /\ FitsBuffer' /\ FieldsUnderstood'
  BY <1>5, <1>6 DEF IInv, CodecTypes, FitsBuffer, FieldsUnderstood
<1>8. FramesAligned' /\ Pending'
  BY <1>5, <1>6 DEF FramesAligned, Pending, read_be32, read_be16, At
<1> QED BY <1>7, <1>8 DEF IInv

\* The bytes land at the front of the receive buffer, whatever it held.
LEMMA Landed ==
  ASSUME NEW c \in Seq(Byte), NEW b \in Seq(Byte), Len(c) <= Len(b)
  PROVE  LET d == c \o Slice(b, Len(c), Len(b) - Len(c))
         IN  d \in Seq(Byte) /\ Len(d) = Len(b) /\ Has(d, 0, c)
<1>1. PICK i \in Nat, j \in Nat : i = Len(c) /\ j = Len(b)
  OBVIOUS
<1> DEFINE u == SubSeq(b, i + 1, i + (j - i))
<1>2. u \in Seq(Byte) /\ Len(u) = j - i
  BY <1>1
<1>3. Slice(b, Len(c), Len(b) - Len(c)) = u
  BY <1>1 DEF Slice
<1> HIDE DEF u
<1>4. c \o u \in Seq(Byte) /\ Len(c \o u) = Len(b) /\ Has(c \o u, 0, c)
  BY <1>1, <1>2, Joined
<1> QED BY <1>3, <1>4

LEMMA ReceiveKept ==
  ASSUME IInv, Receive
  PROVE  IInv'
<1>1. /\ bytes \in Seq(Byte) /\ rx \in Seq(Byte) /\ Len(rx) = RxSize /\ Len(bytes) <= Len(rx)
      /\ rx' = bytes \o Slice(rx, Len(bytes), Len(rx) - Len(bytes))
  BY DEF IInv, CodecTypes, Receive
<1>2. rx' \in Seq(Byte) /\ Len(rx') = Len(rx) /\ Has(rx', 0, bytes)
  BY <1>1, Landed
<1>3. Understood(sent, bytes)
  BY DEF IInv, Pending, Receive
<1>4. PICK b \in Seq(Byte) : b = rx' /\ Len(bytes) <= Len(b) /\ Has(b, 0, bytes)
  BY <1>1, <1>2
<1>5. PICK side \in Receivers(sent.kind) :
        /\ got' = Decode(side, b) /\ sent' = sent /\ size' = size /\ bytes' = bytes
        /\ result' = "NONE"
  BY <1>4 DEF Receive
<1>6. CodecTypes' /\ FitsBuffer' /\ Pending'
  BY <1>1, <1>2, <1>5 DEF IInv, CodecTypes, FitsBuffer, Pending
<1>7. FramesAligned'
  BY <1>5 DEF IInv, FramesAligned, read_be32, read_be16, At
<1>8. ASSUME sent.kind \in Read
      PROVE  Faithful(sent, Decode(side, b))
  BY <1>3, <1>4, <1>8 DEF Understood
<1>9. FieldsUnderstood'
  BY <1>5, <1>8 DEF FieldsUnderstood, Read
<1> QED BY <1>6, <1>7, <1>9 DEF IInv

\* The invariant holds for all messages, buffer sizes and buffer contents.
THEOREM CodecInvariant == Spec => []IInv
<1>1. ASSUME IInv, [Next]_vars PROVE IInv'
  <2>1. ASSUME NEW m \in Messages, NEW sz \in Sizes, Send(m, sz) PROVE IInv'
    BY <1>1, <2>1, SendKept
  <2>2. ASSUME NEW m \in Messages, SendShortActivation(m) PROVE IInv'
    BY <1>1, <2>2, ShortKept
  <2>3. CASE Receive
    BY <1>1, <2>3, ReceiveKept
  <2>4. CASE UNCHANGED vars
    <3>1. CodecTypes' /\ FitsBuffer' /\ FieldsUnderstood'
      BY <1>1, <2>4 DEF vars, IInv, CodecTypes, FitsBuffer, FieldsUnderstood
    <3>2. FramesAligned'
      BY <1>1, <2>4 DEF vars, IInv, FramesAligned, read_be32, read_be16, At
    <3>3. Pending'
      BY <1>1, <2>4 DEF vars, IInv, Pending, Understood, Has
    <3> QED BY <3>1, <3>2, <3>3 DEF IInv
  <2> QED BY <1>1, <2>1, <2>2, <2>3, <2>4 DEF Next
<1> QED BY <1>1, InitCodec, PTL DEF Spec

\* The payload length every encoder announces is the length of what it wrote
\* behind the header, for user data of any length that 32 bits can count.
THEOREM FramesAlways == Spec => []FramesAligned
<1>1. IInv => FramesAligned
  BY DEF IInv
<1> QED BY <1>1, CodecInvariant, PTL

\* No encoder of doip_protocol.c, and not the acknowledgement encoder, writes
\* more than buffer_size bytes, whatever the buffer and the message.
THEOREM BufferKept == Spec => []FitsBuffer
<1>1. IInv => FitsBuffer
  BY DEF IInv
<1> QED BY <1>1, CodecInvariant, PTL

\* Decoding undoes encoding: for all field values and whatever older messages
\* left in the receive buffer, the reader finds the fields the sender wrote.
THEOREM FieldsKept == Spec => []FieldsUnderstood
<1>1. IInv => FieldsUnderstood
  BY DEF IInv
<1> QED BY <1>1, CodecInvariant, PTL
============================================================================
