----------------------------- MODULE UdsServices -----------------------------
(***************************************************************************)
(* The UDS server of src/src/uds/uds_services.c: the diagnostic session,   *)
(* the security-access state and the five services, called synchronously  *)
(* by doip_entity_uds_rx_handler (src/src/doip/doip_task_example.c) for    *)
(* every diagnostic message the entity accepts.                            *)
(*                                                                         *)
(* A request is what the handler finds in the receive buffer: the number   *)
(* `user' of user-data bytes the DoIP message announces, and the bytes     *)
(* that follow the service identifier: data[0], data[1] and, as one        *)
(* value, data[1..4].  The bytes exist whatever `user' is: beyond the      *)
(* message they are what the buffer held before.  Seeds and keys are       *)
(* opaque 32-bit values; the code's `seed ^ 0xA5A5A5A5' is the injective   *)
(* function ExpectedKey.                                                   *)
(***************************************************************************)
EXTENDS Integers, FiniteSets

CONSTANTS
  Seed,            \* 32-bit seed values that occur: ZeroSeed, FixedSeed
  ZeroSeed,        \* 0U, the seed of uds_init
  FixedSeed,       \* 0x12345678U, the seed every request generates
  Key,             \* 32-bit keys a tester may send
  ExpectedKey,     \* [Seed -> Key], seed ^ 0xA5A5A5A5U
  Sid,             \* values of the service identifier
  Byte0,           \* values of data[0]: sub-function or high byte of a DID
  Byte1,           \* values of data[1]: low byte of a DID
  UserLen,         \* user-data lengths that occur
  LenMod,          \* 2^32: width of uds_request_t.length
  RespMax,         \* sizeof(response_buffer)
  MaxWrong         \* bound on the history counter wrongKeys

Byte == 0..255

\* Width of failed_security_attempts, a uint8_t.
AttemptMod == 256

UDS_SID_DIAGNOSTIC_SESSION_CONTROL == 16
UDS_SID_ECU_RESET == 17
UDS_SID_READ_DATA_BY_IDENTIFIER == 34
UDS_SID_SECURITY_ACCESS == 39
UDS_SID_TESTER_PRESENT == 62

UDS_NRC_SERVICE_NOT_SUPPORTED == 17
UDS_NRC_SUB_FUNCTION_NOT_SUPPORTED == 18
UDS_NRC_INCORRECT_MESSAGE_LENGTH == 19
UDS_NRC_REQUEST_OUT_OF_RANGE == 49
UDS_NRC_SECURITY_ACCESS_DENIED == 51
UDS_NRC_INVALID_KEY == 53
UDS_NRC_EXCEEDED_NUMBER_OF_ATTEMPTS == 54

UDS_SESSION_DEFAULT == 1
UDS_SESSION_PROGRAMMING == 2
UDS_SESSION_EXTENDED == 3
Session == {UDS_SESSION_DEFAULT, UDS_SESSION_PROGRAMMING, UDS_SESSION_EXTENDED}

ResetType == {1, 2, 3}

UDS_SECURITY_REQUEST_SEED_LEVEL_1 == 1
UDS_SECURITY_SEND_KEY_LEVEL_1 == 2

\* 0xF190, 0xF18C, 0xF194 and the number of value bytes of each
KnownDid == {61840, 61836, 61844}
DidLength == [d \in KnownDid |-> CASE d = 61840 -> 17 [] d = 61836 -> 11 [] d = 61844 -> 3]

ASSUME SeedAssumption ==
  /\ ZeroSeed \in Seed /\ FixedSeed \in Seed /\ ZeroSeed # FixedSeed
  /\ ExpectedKey \in [Seed -> Key]
  /\ \A s, t \in Seed : ExpectedKey[s] = ExpectedKey[t] => s = t

ASSUME WireAssumption ==
  /\ Sid \subseteq Byte /\ Byte0 \subseteq Byte /\ Byte1 \subseteq Byte
  /\ UserLen \subseteq Nat
  /\ \A n \in UserLen : n < LenMod

ASSUME WidthAssumption ==
  /\ LenMod \in Nat \ {0}
  /\ RespMax \in Nat /\ RespMax >= 20
  /\ MaxWrong \in Nat

VARIABLES
  ctx,        \* g_uds_context, the fields that services read or write
  asked,      \* the request handled last: announced length, sid and data[0]
  response,   \* what was answered: a record, or NoResponse
  wrongKeys   \* history: wrong keys received since the last accepted one

vars == <<ctx, asked, response, wrongKeys>>

------------------------------------------------------------------------------
NoResponse == [kind |-> "none"]
NegativeResponse == [kind : {"neg"}, sid : Byte, nrc : Byte]
PositiveResponse == [kind : {"pos"}, sid : Byte, seed : Seed]
Response == {NoResponse} \cup NegativeResponse \cup PositiveResponse

Request == [user : UserLen, sid : Sid, byte0 : Byte0, byte1 : Byte1, key : Key]

Context == [current_session : Session, security_unlocked : BOOLEAN,
            seed : Seed, failed_security_attempts : 0..(AttemptMod - 1)]

uds_init == [current_session |-> UDS_SESSION_DEFAULT, security_unlocked |-> FALSE,
             seed |-> ZeroSeed, failed_security_attempts |-> 0]

\* The length as if it still counted the service identifier.
X_length_counts_sid(req) == req.user % LenMod

\* request.length = length - 1U, unsigned: no user data at all gives 2^32 - 1.
RequestLength(req) == (req.user - 1) % LenMod

uds_send_negative_response(sid, nrc) ==
  IF RespMax >= 3 THEN [kind |-> "neg", sid |-> sid, nrc |-> nrc] ELSE NoResponse

\* Of the data the reply repeats or reads out only its length counts, and the
\* seed where it carries one (zero otherwise).
uds_send_positive_response(sid, seed, length) ==
  IF RespMax >= 1 + length
  THEN [kind |-> "pos", sid |-> (sid + 64) % 256, seed |-> seed]
  ELSE NoResponse

\* What a service returns: the context it leaves and the response it wrote.
Result(c, r) == [ctx |-> c, response |-> r]
Refuse(c, sid, nrc) == Result(c, uds_send_negative_response(sid, nrc))


\* The checks three services begin with: at least one byte after the service
\* identifier, and a sub-function the service knows.
CheckSubFunction(c, req, subs, result) ==
  IF RequestLength(req) < 1
    THEN Refuse(c, req.sid, UDS_NRC_INCORRECT_MESSAGE_LENGTH)
  ELSE IF req.byte0 \notin subs
    THEN Refuse(c, req.sid, UDS_NRC_SUB_FUNCTION_NOT_SUPPORTED)
  ELSE result

uds_handle_diagnostic_session_control(c, req) ==
  CheckSubFunction(c, req, Session,
    Result([c EXCEPT !.current_session = req.byte0],
           uds_send_positive_response(req.sid, ZeroSeed, 5)))

\* The positive response is all there is: the reset itself is a TODO.
uds_handle_ecu_reset(c, req) ==
  CheckSubFunction(c, req, ResetType,
    IF ~c.security_unlocked /\ c.current_session # UDS_SESSION_DEFAULT
      THEN Refuse(c, req.sid, UDS_NRC_SECURITY_ACCESS_DENIED)
      ELSE Result(c, uds_send_positive_response(req.sid, ZeroSeed, 1)))

RequestSeed(c, req) ==
  IF c.security_unlocked
    THEN Result(c, uds_send_positive_response(req.sid, ZeroSeed, 5))
    ELSE Result([c EXCEPT !.seed = FixedSeed],
                uds_send_positive_response(req.sid, FixedSeed, 5))

WrongKey(c, req) ==
  LET n == (c.failed_security_attempts + 1) % AttemptMod
      d == [c EXCEPT !.failed_security_attempts = n]
  IN  Refuse(d, req.sid, IF n >= 3 THEN UDS_NRC_EXCEEDED_NUMBER_OF_ATTEMPTS
                                   ELSE UDS_NRC_INVALID_KEY)

KeyAccepted(c, req) == req.key = ExpectedKey[c.seed]

X_counter_kept(c, req) ==
  IF RequestLength(req) < 5
    THEN Refuse(c, req.sid, UDS_NRC_INCORRECT_MESSAGE_LENGTH)
  ELSE IF KeyAccepted(c, req)
    THEN Result([c EXCEPT !.security_unlocked = TRUE],
                uds_send_positive_response(req.sid, ZeroSeed, 1))
  ELSE WrongKey(c, req)

SendKey(c, req) ==
  IF RequestLength(req) < 5
    THEN Refuse(c, req.sid, UDS_NRC_INCORRECT_MESSAGE_LENGTH)
  ELSE IF KeyAccepted(c, req)
    THEN Result([c EXCEPT !.security_unlocked = TRUE, !.failed_security_attempts = 0],
                uds_send_positive_response(req.sid, ZeroSeed, 1))
  ELSE WrongKey(c, req)

uds_handle_security_access(c, req) ==
  CheckSubFunction(c, req,
    {UDS_SECURITY_REQUEST_SEED_LEVEL_1, UDS_SECURITY_SEND_KEY_LEVEL_1},
    IF req.byte0 = UDS_SECURITY_REQUEST_SEED_LEVEL_1
      THEN RequestSeed(c, req) ELSE SendKey(c, req))

\* Any sub-function is answered, the suppress bit (0x80) included.
uds_handle_tester_present(c, req) ==
  IF RequestLength(req) < 1
    THEN Refuse(c, req.sid, UDS_NRC_INCORRECT_MESSAGE_LENGTH)
    ELSE Result(c, uds_send_positive_response(req.sid, ZeroSeed, 1))

uds_handle_read_data_by_id(c, req) ==
  LET did == 256 * req.byte0 + req.byte1 IN
  IF RequestLength(req) < 2
    THEN Refuse(c, req.sid, UDS_NRC_INCORRECT_MESSAGE_LENGTH)
  ELSE IF did \notin KnownDid
    THEN Refuse(c, req.sid, UDS_NRC_REQUEST_OUT_OF_RANGE)
  ELSE Result(c, uds_send_positive_response(req.sid, ZeroSeed, 2 + DidLength[did]))

uds_process_request(c, req) ==
  CASE req.sid = UDS_SID_DIAGNOSTIC_SESSION_CONTROL ->
         uds_handle_diagnostic_session_control(c, req)
    [] req.sid = UDS_SID_ECU_RESET -> uds_handle_ecu_reset(c, req)
    [] req.sid = UDS_SID_SECURITY_ACCESS -> uds_handle_security_access(c, req)
    [] req.sid = UDS_SID_TESTER_PRESENT -> uds_handle_tester_present(c, req)
    [] req.sid = UDS_SID_READ_DATA_BY_IDENTIFIER -> uds_handle_read_data_by_id(c, req)
    [] OTHER -> Refuse(c, req.sid, UDS_NRC_SERVICE_NOT_SUPPORTED)

------------------------------------------------------------------------------
\* History: is the request a key that gets compared, and is it the right one?
IsKeyAttempt(req) ==
  /\ req.sid = UDS_SID_SECURITY_ACCESS
  /\ req.byte0 = UDS_SECURITY_SEND_KEY_LEVEL_1
  /\ RequestLength(req) >= 5

WrongKeysAfter(c, req) ==
  IF ~IsKeyAttempt(req) THEN wrongKeys
  ELSE IF req.key = ExpectedKey[c.seed] THEN 0
  ELSE wrongKeys + 1

Init ==
  /\ ctx = uds_init
  /\ asked = [user |-> 0, sid |-> 0, byte0 |-> 0]
  /\ response = NoResponse
  /\ wrongKeys = 0

\* One accepted diagnostic message: request built, service run, response sent
\* when the service wrote one.
doip_entity_uds_rx_handler(req) ==
  LET result == uds_process_request(ctx, req) IN
  /\ WrongKeysAfter(ctx, req) <= MaxWrong
  /\ ctx' = result.ctx
  /\ response' = result.response
  /\ asked' = [user |-> req.user, sid |-> req.sid, byte0 |-> req.byte0]
  /\ wrongKeys' = WrongKeysAfter(ctx, req)

Next == \E req \in Request : doip_entity_uds_rx_handler(req)

Spec == Init /\ [][Next]_vars

------------------------------------------------------------------------------
\* Type invariant of the server's context, the last exchange and the history.
TypeOK ==
  /\ ctx \in Context
  /\ asked \in [user : Nat, sid : Byte, byte0 : Byte]
  /\ response \in Response
  /\ wrongKeys \in 0..MaxWrong

\* The 8-bit attempt counter and the refusals it selects: after k consecutive
\* wrong keys the counter is k mod 256, an INVALID_KEY answer means it is below
\* three and an EXCEEDED_NUMBER_OF_ATTEMPTS answer that it is three or more,
\* also across the wrap-around of the counter (uds_handle_security_access).
AttemptsExact ==
  /\ ctx.failed_security_attempts = wrongKeys % AttemptMod
  /\ response.kind = "neg" =>
       /\ response.nrc = UDS_NRC_INVALID_KEY => wrongKeys % AttemptMod < 3
       /\ response.nrc = UDS_NRC_EXCEEDED_NUMBER_OF_ATTEMPTS => wrongKeys % AttemptMod >= 3

\* Unlocking needs a seed that fits the accepted key, and no later request -
\* seed requests, wrong keys and session changes included - locks the server
\* again or replaces the seed it was unlocked with.
UnlockedStays ==
  [][ctx.security_unlocked => ctx'.security_unlocked /\ ctx'.seed = ctx.seed]_vars

\* A refused request is harmless: a negative response leaves the session, the
\* lock and the seed alone, and touches the attempt counter only when it
\* reports a wrong key.
RefusalIsHarmless ==
  [][response'.kind = "neg" =>
       /\ ctx'.current_session = ctx.current_session
       /\ ctx'.security_unlocked = ctx.security_unlocked
       /\ ctx'.seed = ctx.seed
       /\ ctx'.failed_security_attempts # ctx.failed_security_attempts =>
            response'.nrc \in {UDS_NRC_INVALID_KEY, UDS_NRC_EXCEEDED_NUMBER_OF_ATTEMPTS}]_vars

\* What the handler leaves after every request, and what the entity's model
\* rests on: one response, for the service asked.  uds_process_request never
\* returns false, also where a tester asks for no positive response (see
\* SuppressHonoured).
AlwaysAnswered ==
  asked.sid # 0 =>
    /\ response.kind \in {"pos", "neg"}
    /\ response.kind = "neg" => response.sid = asked.sid
    /\ response.kind = "pos" => response.sid = (asked.sid + 64) % 256

\* The number of user-data bytes, service identifier included, that a service
\* reads before it does what it is asked.
Needed(req) ==
  CASE req.sid = UDS_SID_READ_DATA_BY_IDENTIFIER -> 3
    [] req.sid = UDS_SID_SECURITY_ACCESS /\ req.byte0 = UDS_SECURITY_SEND_KEY_LEVEL_1 -> 6
    [] OTHER -> 2

\* The response says that the request was carried out, or its key compared.
Served ==
  \/ response.kind = "pos"
  \/ /\ response.kind = "neg"
     /\ response.nrc \in {UDS_NRC_INVALID_KEY, UDS_NRC_EXCEEDED_NUMBER_OF_ATTEMPTS}

\* The receive buffer keeps what earlier messages left in it, and the length a
\* service checks is the announced one less 1, in 32 bits.  A request is
\* carried out, and a key compared and counted, only from bytes the message
\* itself announces; the one exception is the message without any user data,
\* whose length wraps to 2^32 - 1 (ShortRequestRefused is what fails of it).
ServedWasSent ==
  Served => asked.user = 0 \/ asked.user >= Needed(asked)

\* "Check message length": a diagnostic message too short to hold the service's
\* first parameter is refused, never served from bytes it does not contain.
ShortRequestRefused ==
  asked.sid # 0 /\ asked.user < 2 => response.kind # "pos"

\* "suppress positive response support": TesterPresent with bit 0x80 of its
\* sub-function set gets no positive response.
SuppressHonoured ==
  asked.sid = UDS_SID_TESTER_PRESENT /\ asked.byte0 >= 128 => response.kind # "pos"
==============================================================================
