-------------------------- MODULE UdsServicesProofs --------------------------
(***************************************************************************)
(* Proofs about UdsServices, for every set of requests, seeds and keys and *)
(* every width of the length.  What serving a request does to the context  *)
(* is stated once, service by service (the ...Effect lemmas); the theorems *)
(* about the specification follow from it.                                 *)
(***************************************************************************)
EXTENDS UdsServices, TLAPS

\* Serving request r in context c: what may change and what the response says.
\* `res' is the service's result.
Effect(c, r, res) ==
  /\ res.ctx \in Context
  /\ res.response \in Response
  /\ c.security_unlocked => res.ctx.security_unlocked /\ res.ctx.seed = c.seed
  /\ res.ctx.failed_security_attempts =
       IF ~IsKeyAttempt(r) THEN c.failed_security_attempts
       ELSE IF r.key = ExpectedKey[c.seed] THEN 0
       ELSE (c.failed_security_attempts + 1) % AttemptMod
  /\ res.response.kind = "neg" =>
       /\ res.ctx.current_session = c.current_session
       /\ res.ctx.security_unlocked = c.security_unlocked
       /\ res.ctx.seed = c.seed
       /\ res.response.nrc = UDS_NRC_INVALID_KEY =>
            res.ctx.failed_security_attempts < 3
       /\ res.response.nrc = UDS_NRC_EXCEEDED_NUMBER_OF_ATTEMPTS =>
            res.ctx.failed_security_attempts >= 3
       /\ IsKeyAttempt(r) =>
            res.response.nrc \in {UDS_NRC_INVALID_KEY, UDS_NRC_EXCEEDED_NUMBER_OF_ATTEMPTS}

\* The refusal codes that have nothing to do with a key.
PlainNrc == Byte \ {UDS_NRC_INVALID_KEY, UDS_NRC_EXCEEDED_NUMBER_OF_ATTEMPTS}

\* The code constants of the services are bytes, and none of them a key refusal.
LEMMA NrcLemma ==
  /\ UDS_NRC_SERVICE_NOT_SUPPORTED \in PlainNrc
  /\ UDS_NRC_SUB_FUNCTION_NOT_SUPPORTED \in PlainNrc
  /\ UDS_NRC_INCORRECT_MESSAGE_LENGTH \in PlainNrc
  /\ UDS_NRC_REQUEST_OUT_OF_RANGE \in PlainNrc
  /\ UDS_NRC_SECURITY_ACCESS_DENIED \in PlainNrc
  BY DEF PlainNrc, Byte, UDS_NRC_SERVICE_NOT_SUPPORTED, UDS_NRC_SUB_FUNCTION_NOT_SUPPORTED,
     UDS_NRC_INCORRECT_MESSAGE_LENGTH, UDS_NRC_REQUEST_OUT_OF_RANGE,
     UDS_NRC_SECURITY_ACCESS_DENIED, UDS_NRC_INVALID_KEY, UDS_NRC_EXCEEDED_NUMBER_OF_ATTEMPTS

\* What the handler finds in a request are bytes.
LEMMA RequestLemma ==
  ASSUME NEW r \in Request
  PROVE  r.sid \in Byte /\ r.byte0 \in Byte /\ r.user \in Nat
  BY WireAssumption DEF Request

\* A positive response is a response, whatever data it carries.
LEMMA PositiveLemma ==
  ASSUME NEW sid \in Byte, NEW s \in Seed, NEW n
  PROVE  /\ uds_send_positive_response(sid, s, n) \in Response
         /\ uds_send_positive_response(sid, s, n).kind # "neg"
<1>1. (sid + 64) % 256 \in Byte
  BY DEF Byte
<1>2. [kind |-> "pos", sid |-> (sid + 64) % 256, seed |-> s] \in PositiveResponse
  BY <1>1 DEF PositiveResponse
<1> QED
  BY <1>2 DEF uds_send_positive_response, Response, NoResponse

\* A negative response carries the code it is given.
LEMMA NegativeLemma ==
  ASSUME NEW sid \in Byte, NEW nrc \in Byte
  PROVE  /\ uds_send_negative_response(sid, nrc) \in Response
         /\ uds_send_negative_response(sid, nrc).kind = "neg" =>
              uds_send_negative_response(sid, nrc).nrc = nrc
<1>1. [kind |-> "neg", sid |-> sid, nrc |-> nrc] \in NegativeResponse
  BY DEF NegativeResponse
<1> QED
  BY <1>1 DEF uds_send_negative_response, Response, NoResponse

------------------------------------------------------------------------------
\* A refusal that is not about a key changes nothing.
LEMMA RefuseLemma ==
  ASSUME NEW c \in Context, NEW r \in Request, ~IsKeyAttempt(r), NEW nrc \in PlainNrc
  PROVE  Effect(c, r, Refuse(c, r.sid, nrc))
<1>1. r.sid \in Byte /\ nrc \in Byte
  BY RequestLemma DEF PlainNrc
<1>2. /\ uds_send_negative_response(r.sid, nrc) \in Response
      /\ uds_send_negative_response(r.sid, nrc).kind = "neg" =>
           uds_send_negative_response(r.sid, nrc).nrc = nrc
  BY <1>1, NegativeLemma
<1>3. nrc # UDS_NRC_INVALID_KEY /\ nrc # UDS_NRC_EXCEEDED_NUMBER_OF_ATTEMPTS
  BY DEF PlainNrc
<1> QED BY <1>2, <1>3 DEF Effect, Refuse, Result

\* A positive answer that leaves the counter alone and keeps an unlocked server
\* unlocked with its seed.
LEMMA AcceptLemma ==
  ASSUME NEW c \in Context, NEW d \in Context, NEW r \in Request, ~IsKeyAttempt(r),
         NEW s \in Seed, NEW n,
         d.failed_security_attempts = c.failed_security_attempts,
         c.security_unlocked => d.security_unlocked /\ d.seed = c.seed
  PROVE  Effect(c, r, Result(d, uds_send_positive_response(r.sid, s, n)))
<1>1. r.sid \in Byte
  BY RequestLemma
<1>2. /\ uds_send_positive_response(r.sid, s, n) \in Response
      /\ uds_send_positive_response(r.sid, s, n).kind # "neg"
  BY <1>1, PositiveLemma
<1> QED BY <1>2 DEF Effect, Result

\* The checks at the beginning of a service pass on the effect of its body.
LEMMA CheckLemma ==
  ASSUME NEW c \in Context, NEW r \in Request, NEW subs, NEW res,
         RequestLength(r) < 1 \/ r.byte0 \notin subs => ~IsKeyAttempt(r),
         r.byte0 \in subs /\ ~(RequestLength(r) < 1) => Effect(c, r, res)
  PROVE  Effect(c, r, CheckSubFunction(c, r, subs, res))
<1>1. CASE RequestLength(r) < 1
  BY <1>1, RefuseLemma, NrcLemma DEF CheckSubFunction
<1>2. CASE ~(RequestLength(r) < 1) /\ r.byte0 \notin subs
  BY <1>2, RefuseLemma, NrcLemma DEF CheckSubFunction
<1>3. CASE ~(RequestLength(r) < 1) /\ r.byte0 \in subs
  BY <1>3 DEF CheckSubFunction
<1> QED BY <1>1, <1>2, <1>3

\* Service 0x10 changes the session only.
LEMMA SessionControlEffect ==
  ASSUME NEW c \in Context, NEW r \in Request, ~IsKeyAttempt(r)
  PROVE  Effect(c, r, uds_handle_diagnostic_session_control(c, r))
<1> DEFINE d == [c EXCEPT !.current_session = r.byte0]
<1>1. ASSUME r.byte0 \in Session
      PROVE  Effect(c, r, Result(d, uds_send_positive_response(r.sid, ZeroSeed, 5)))
  <2>1. /\ d \in Context
        /\ d.failed_security_attempts = c.failed_security_attempts
        /\ d.security_unlocked = c.security_unlocked
        /\ d.seed = c.seed
    BY <1>1 DEF Context
  <2> HIDE DEF d
  <2> QED BY <2>1, AcceptLemma, SeedAssumption
<1> QED BY <1>1, CheckLemma DEF uds_handle_diagnostic_session_control

\* Service 0x11 changes nothing.
LEMMA EcuResetEffect ==
  ASSUME NEW c \in Context, NEW r \in Request, ~IsKeyAttempt(r)
  PROVE  Effect(c, r, uds_handle_ecu_reset(c, r))
<1>1. Effect(c, r, Refuse(c, r.sid, UDS_NRC_SECURITY_ACCESS_DENIED))
  BY RefuseLemma, NrcLemma
<1>2. Effect(c, r, Result(c, uds_send_positive_response(r.sid, ZeroSeed, 1)))
  BY AcceptLemma, SeedAssumption
<1> QED BY <1>1, <1>2, CheckLemma DEF uds_handle_ecu_reset

\* A seed request sets the seed only while the server is locked.
LEMMA RequestSeedEffect ==
  ASSUME NEW c \in Context, NEW r \in Request, ~IsKeyAttempt(r)
  PROVE  Effect(c, r, RequestSeed(c, r))
<1>1. CASE c.security_unlocked
  BY <1>1, AcceptLemma, SeedAssumption DEF RequestSeed
<1>2. CASE ~c.security_unlocked
  <2> DEFINE d == [c EXCEPT !.seed = FixedSeed]
  <2>1. d \in Context /\ d.failed_security_attempts = c.failed_security_attempts
    BY SeedAssumption DEF Context
  <2> HIDE DEF d
  <2>2. Effect(c, r, Result(d, uds_send_positive_response(r.sid, FixedSeed, 5)))
    BY <1>2, <2>1, AcceptLemma, SeedAssumption
  <2> QED BY <1>2, <2>2 DEF RequestSeed, d
<1> QED BY <1>1, <1>2

\* The two answers to a key that is compared.
LEMMA WrongKeyEffect ==
  ASSUME NEW c \in Context, NEW r \in Request, IsKeyAttempt(r),
         r.key # ExpectedKey[c.seed]
  PROVE  Effect(c, r, WrongKey(c, r))
<1> DEFINE n == (c.failed_security_attempts + 1) % AttemptMod
           d == [c EXCEPT !.failed_security_attempts = n]
           nrc == IF n >= 3 THEN UDS_NRC_EXCEEDED_NUMBER_OF_ATTEMPTS ELSE UDS_NRC_INVALID_KEY
           res == uds_send_negative_response(r.sid, nrc)
<1>0. c.failed_security_attempts \in 0..(AttemptMod - 1)
  BY DEF Context
<1>1. n \in 0..(AttemptMod - 1)
  BY <1>0 DEF AttemptMod
<1>2. /\ d \in Context
      /\ d.failed_security_attempts = n
      /\ d.current_session = c.current_session
      /\ d.security_unlocked = c.security_unlocked
      /\ d.seed = c.seed
  <2> HIDE DEF n
  <2> QED BY <1>1 DEF Context
<1>3. /\ nrc \in Byte
      /\ nrc = UDS_NRC_INVALID_KEY => n < 3
      /\ nrc = UDS_NRC_EXCEEDED_NUMBER_OF_ATTEMPTS => n >= 3
      /\ nrc \in {UDS_NRC_INVALID_KEY, UDS_NRC_EXCEEDED_NUMBER_OF_ATTEMPTS}
  <2> HIDE DEF n
  <2> QED BY <1>1 DEF Byte, AttemptMod, UDS_NRC_INVALID_KEY, UDS_NRC_EXCEEDED_NUMBER_OF_ATTEMPTS
<1>4. res \in Response /\ (res.kind = "neg" => res.nrc = nrc)
  BY <1>3, RequestLemma, NegativeLemma
<1>5. WrongKey(c, r) = [ctx |-> d, response |-> res]
  BY DEF WrongKey, Refuse, Result
<1>6. d.failed_security_attempts = (c.failed_security_attempts + 1) % AttemptMod
  BY <1>2
<1> HIDE DEF n, d, nrc, res
<1> QED BY <1>2, <1>3, <1>4, <1>5, <1>6 DEF Effect

\* A key is compared and counted only when the request is long enough.
LEMMA SendKeyEffect ==
  ASSUME NEW c \in Context, NEW r \in Request,
         IsKeyAttempt(r) <=> ~(RequestLength(r) < 5)
  PROVE  Effect(c, r, SendKey(c, r))
<1>1. CASE RequestLength(r) < 5
  BY <1>1, RefuseLemma, NrcLemma DEF SendKey
<1>2. CASE ~(RequestLength(r) < 5) /\ r.key # ExpectedKey[c.seed]
  BY <1>2, WrongKeyEffect DEF SendKey, KeyAccepted
<1>3. CASE ~(RequestLength(r) < 5) /\ r.key = ExpectedKey[c.seed]
  <2> DEFINE d == [c EXCEPT !.security_unlocked = TRUE, !.failed_security_attempts = 0]
             res == uds_send_positive_response(r.sid, ZeroSeed, 1)
  <2>0. 0 \in 0..(AttemptMod - 1)
    BY DEF AttemptMod
  <2>1. d \in Context /\ d.failed_security_attempts = 0 /\ d.security_unlocked /\ d.seed = c.seed
    BY <2>0 DEF Context
  <2>2. res \in Response /\ res.kind # "neg"
    BY PositiveLemma, RequestLemma, SeedAssumption
  <2>3. SendKey(c, r) = [ctx |-> d, response |-> res]
    BY <1>3 DEF SendKey, KeyAccepted, Result
  <2> HIDE DEF d, res
  <2> QED BY <1>3, <2>1, <2>2, <2>3 DEF Effect
<1> QED BY <1>1, <1>2, <1>3

\* Service 0x27: a seed request or a key.
LEMMA SecurityAccessEffect ==
  ASSUME NEW c \in Context, NEW r \in Request, r.sid = UDS_SID_SECURITY_ACCESS
  PROVE  Effect(c, r, uds_handle_security_access(c, r))
<1> DEFINE subs == {UDS_SECURITY_REQUEST_SEED_LEVEL_1, UDS_SECURITY_SEND_KEY_LEVEL_1}
           body == IF r.byte0 = UDS_SECURITY_REQUEST_SEED_LEVEL_1
                   THEN RequestSeed(c, r) ELSE SendKey(c, r)
<1>1. UDS_SECURITY_REQUEST_SEED_LEVEL_1 # UDS_SECURITY_SEND_KEY_LEVEL_1
  BY DEF UDS_SECURITY_REQUEST_SEED_LEVEL_1, UDS_SECURITY_SEND_KEY_LEVEL_1
<1>2. RequestLength(r) \in Int
  BY RequestLemma, WidthAssumption DEF RequestLength
<1>3. r.byte0 = UDS_SECURITY_SEND_KEY_LEVEL_1 =>
        (IsKeyAttempt(r) <=> ~(RequestLength(r) < 5))
  BY <1>2 DEF IsKeyAttempt
<1>4. RequestLength(r) < 1 => ~IsKeyAttempt(r)
  BY <1>2 DEF IsKeyAttempt
<1>5. r.byte0 # UDS_SECURITY_SEND_KEY_LEVEL_1 => ~IsKeyAttempt(r)
  BY DEF IsKeyAttempt
<1>6. r.byte0 \in subs => Effect(c, r, body)
  BY <1>1, <1>3, <1>5, RequestSeedEffect, SendKeyEffect
<1>7. RequestLength(r) < 1 \/ r.byte0 \notin subs => ~IsKeyAttempt(r)
  BY <1>4, <1>5
<1> HIDE DEF subs, body
<1>8. Effect(c, r, CheckSubFunction(c, r, subs, body))
  BY <1>6, <1>7, CheckLemma
<1> QED BY <1>8 DEF uds_handle_security_access, subs, body

\* Service 0x3E changes nothing.
LEMMA TesterPresentEffect ==
  ASSUME NEW c \in Context, NEW r \in Request, ~IsKeyAttempt(r)
  PROVE  Effect(c, r, uds_handle_tester_present(c, r))
<1>1. Effect(c, r, Refuse(c, r.sid, UDS_NRC_INCORRECT_MESSAGE_LENGTH))
  BY RefuseLemma, NrcLemma
<1>2. Effect(c, r, Result(c, uds_send_positive_response(r.sid, ZeroSeed, 1)))
  BY AcceptLemma, SeedAssumption
<1> QED BY <1>1, <1>2 DEF uds_handle_tester_present

\* Service 0x22 changes nothing.
LEMMA ReadDataEffect ==
  ASSUME NEW c \in Context, NEW r \in Request, ~IsKeyAttempt(r)
  PROVE  Effect(c, r, uds_handle_read_data_by_id(c, r))
<1> DEFINE n == 2 + DidLength[256 * r.byte0 + r.byte1]
<1>1. /\ Effect(c, r, Refuse(c, r.sid, UDS_NRC_INCORRECT_MESSAGE_LENGTH))
      /\ Effect(c, r, Refuse(c, r.sid, UDS_NRC_REQUEST_OUT_OF_RANGE))
  BY RefuseLemma, NrcLemma
<1>2. Effect(c, r, Result(c, uds_send_positive_response(r.sid, ZeroSeed, n)))
  BY AcceptLemma, SeedAssumption
<1> QED BY <1>1, <1>2 DEF uds_handle_read_data_by_id

\* Every request, whatever its service.
LEMMA ServiceEffect ==
  ASSUME NEW c \in Context, NEW r \in Request
  PROVE  Effect(c, r, uds_process_request(c, r))
<1>1. CASE r.sid = UDS_SID_SECURITY_ACCESS
  <2>1. uds_process_request(c, r) = uds_handle_security_access(c, r)
    BY <1>1 DEF uds_process_request, UDS_SID_SECURITY_ACCESS, UDS_SID_DIAGNOSTIC_SESSION_CONTROL,
       UDS_SID_ECU_RESET, UDS_SID_TESTER_PRESENT, UDS_SID_READ_DATA_BY_IDENTIFIER
  <2> QED BY <1>1, <2>1, SecurityAccessEffect
<1>2. CASE r.sid # UDS_SID_SECURITY_ACCESS
  <2>1. ~IsKeyAttempt(r)
    BY <1>2 DEF IsKeyAttempt
  <2>2. uds_process_request(c, r) \in
          {uds_handle_diagnostic_session_control(c, r), uds_handle_ecu_reset(c, r),
           uds_handle_tester_present(c, r), uds_handle_read_data_by_id(c, r),
           Refuse(c, r.sid, UDS_NRC_SERVICE_NOT_SUPPORTED)}
    BY <1>2 DEF uds_process_request
  <2>3. Effect(c, r, Refuse(c, r.sid, UDS_NRC_SERVICE_NOT_SUPPORTED))
    BY <2>1, RefuseLemma, NrcLemma
  <2> QED
    BY <2>1, <2>2, <2>3, SessionControlEffect, EcuResetEffect, TesterPresentEffect, ReadDataEffect
<1> QED BY <1>1, <1>2

------------------------------------------------------------------------------
\* One step of the specification, in terms of Effect.
LEMMA StepLemma ==
  ASSUME TypeOK, Next
  PROVE  \E r \in Request :
           /\ Effect(ctx, r, [ctx |-> ctx', response |-> response'])
           /\ asked' = [user |-> r.user, sid |-> r.sid, byte0 |-> r.byte0]
           /\ wrongKeys' = WrongKeysAfter(ctx, r)
           /\ wrongKeys' <= MaxWrong
<1>1. PICK r \in Request : doip_entity_uds_rx_handler(r)
  BY DEF Next
<1>2. Effect(ctx, r, uds_process_request(ctx, r))
  BY ServiceEffect DEF TypeOK
<1>3. /\ ctx' = uds_process_request(ctx, r).ctx
      /\ response' = uds_process_request(ctx, r).response
  BY <1>1 DEF doip_entity_uds_rx_handler
<1>4. Effect(ctx, r, [ctx |-> ctx', response |-> response'])
  BY <1>2, <1>3 DEF Effect
<1> QED BY <1>1, <1>4 DEF doip_entity_uds_rx_handler

\* The server's context, responses and history keep their types: no sequence of
\* requests stores an unknown session or lets the counter leave its 8 bits.
THEOREM TypeCorrect == Spec => []TypeOK
<1>1. Init => TypeOK
  <2>1. 0 \in Byte /\ 0 \in 0..(AttemptMod - 1) /\ 0 \in 0..MaxWrong
    BY WidthAssumption DEF Byte, AttemptMod
  <2>2. uds_init \in Context
    BY <2>1, SeedAssumption DEF uds_init, Context, Session
  <2> QED BY <2>1, <2>2 DEF Init, TypeOK, Response
<1>2. TypeOK /\ [Next]_vars => TypeOK'
  <2> SUFFICES ASSUME TypeOK, [Next]_vars PROVE TypeOK'
    OBVIOUS
  <2>1. CASE Next
    <3>1. PICK r \in Request :
            /\ Effect(ctx, r, [ctx |-> ctx', response |-> response'])
            /\ asked' = [user |-> r.user, sid |-> r.sid, byte0 |-> r.byte0]
            /\ wrongKeys' = WrongKeysAfter(ctx, r)
            /\ wrongKeys' <= MaxWrong
      BY <2>1, StepLemma
    <3>2. ctx' \in Context /\ response' \in Response
      BY <3>1 DEF Effect
    <3>3. asked' \in [user : Nat, sid : Byte, byte0 : Byte]
      BY <3>1, RequestLemma
    <3>4. wrongKeys' \in 0..MaxWrong
      BY <3>1, WidthAssumption DEF TypeOK, WrongKeysAfter
    <3> QED BY <3>2, <3>3, <3>4 DEF TypeOK
  <2>2. CASE UNCHANGED vars
    BY <2>2 DEF TypeOK, vars
  <2> QED BY <2>1, <2>2
<1> QED BY <1>1, <1>2, PTL DEF Spec

\* After k wrong keys in a row the attempt counter is k mod 256, and the refusal
\* code sent follows from it, for any number of attempts.
THEOREM AttemptsCounted == Spec => []AttemptsExact
<1>1. Init => AttemptsExact
  BY DEF Init, AttemptsExact, uds_init, AttemptMod, NoResponse
<1>2. TypeOK /\ AttemptsExact /\ [Next]_vars => AttemptsExact'
  <2> SUFFICES ASSUME TypeOK, AttemptsExact, [Next]_vars PROVE AttemptsExact'
    OBVIOUS
  <2>1. CASE Next
    <3>1. PICK r \in Request :
            /\ Effect(ctx, r, [ctx |-> ctx', response |-> response'])
            /\ wrongKeys' = WrongKeysAfter(ctx, r)
      BY <2>1, StepLemma
    <3>2. wrongKeys \in Nat
      BY WidthAssumption DEF TypeOK
    <3>3. ctx.failed_security_attempts = wrongKeys % AttemptMod
      BY DEF AttemptsExact
    <3>4. ((wrongKeys % AttemptMod) + 1) % AttemptMod = (wrongKeys + 1) % AttemptMod
      BY <3>2 DEF AttemptMod
    <3>5. 0 % AttemptMod = 0
      BY DEF AttemptMod
    <3>6. ctx'.failed_security_attempts = wrongKeys' % AttemptMod
      BY <3>1, <3>3, <3>4, <3>5 DEF Effect, WrongKeysAfter
    <3> QED BY <3>1, <3>6 DEF Effect, AttemptsExact
  <2>2. CASE UNCHANGED vars
    BY <2>2 DEF AttemptsExact, vars
  <2> QED BY <2>1, <2>2
<1> QED BY <1>1, <1>2, TypeCorrect, PTL DEF Spec

\* An unlocked server stays unlocked and keeps its seed, whatever is asked.
THEOREM NeverRelocked == Spec => UnlockedStays
<1>1. TypeOK /\ [Next]_vars =>
        [ctx.security_unlocked => ctx'.security_unlocked /\ ctx'.seed = ctx.seed]_vars
  <2> SUFFICES ASSUME TypeOK, Next, ctx.security_unlocked
               PROVE  ctx'.security_unlocked /\ ctx'.seed = ctx.seed
    OBVIOUS
  <2>1. PICK r \in Request : Effect(ctx, r, [ctx |-> ctx', response |-> response'])
    BY StepLemma
  <2> QED BY <2>1 DEF Effect
<1> QED BY <1>1, TypeCorrect, PTL DEF Spec, UnlockedStays

\* A negative response changes nothing but, for a wrong key, the counter.
THEOREM RefusalsHarmless == Spec => RefusalIsHarmless
<1> DEFINE A == response'.kind = "neg" =>
       /\ ctx'.current_session = ctx.current_session
       /\ ctx'.security_unlocked = ctx.security_unlocked
       /\ ctx'.seed = ctx.seed
       /\ ctx'.failed_security_attempts # ctx.failed_security_attempts =>
            response'.nrc \in {UDS_NRC_INVALID_KEY, UDS_NRC_EXCEEDED_NUMBER_OF_ATTEMPTS}
<1>1. TypeOK /\ [Next]_vars => [A]_vars
  <2> SUFFICES ASSUME TypeOK, Next PROVE A
    OBVIOUS
  <2>1. PICK r \in Request : Effect(ctx, r, [ctx |-> ctx', response |-> response'])
    BY StepLemma
  <2> QED BY <2>1 DEF Effect
<1> QED BY <1>1, TypeCorrect, PTL DEF Spec, RefusalIsHarmless

------------------------------------------------------------------------------
\* The response p answers a request for service sid.
Answers(sid, p) ==
  /\ p.kind \in {"pos", "neg"}
  /\ p.kind = "neg" => p.sid = sid
  /\ p.kind = "pos" => p.sid = (sid + 64) % 256

\* The response buffer has room for every refusal, and for 19 bytes of data.
LEMMA RoomLemma ==
  ASSUME NEW sid, NEW s, NEW c, NEW nrc
  PROVE  /\ Answers(sid, Refuse(c, sid, nrc).response)
         /\ \A n \in 0..19 : Answers(sid, Result(c, uds_send_positive_response(sid, s, n)).response)
<1>1. RespMax >= 3 /\ \A n \in 0..19 : RespMax >= 1 + n
  BY WidthAssumption
<1> QED
  BY <1>1 DEF Answers, Refuse, Result, uds_send_negative_response, uds_send_positive_response

LEMMA CheckAnswers ==
  ASSUME NEW c, NEW r, NEW subs, NEW res, Answers(r.sid, res.response)
  PROVE  Answers(r.sid, CheckSubFunction(c, r, subs, res).response)
BY RoomLemma DEF CheckSubFunction

LEMMA SecurityAnswers ==
  ASSUME NEW c, NEW r
  PROVE  Answers(r.sid, uds_handle_security_access(c, r).response)
<1>1. 1 \in 0..19 /\ 5 \in 0..19
  OBVIOUS
<1>2. Answers(r.sid, RequestSeed(c, r).response)
  BY <1>1, RoomLemma DEF RequestSeed
<1>3. Answers(r.sid, WrongKey(c, r).response)
  BY RoomLemma DEF WrongKey
<1>4. Answers(r.sid, SendKey(c, r).response)
  BY <1>1, <1>3, RoomLemma DEF SendKey
<1> QED
  BY <1>2, <1>4, CheckAnswers DEF uds_handle_security_access

\* Every service answers, and no data identifier is longer than the room.
LEMMA ServiceAnswers ==
  ASSUME NEW c, NEW r
  PROVE  Answers(r.sid, uds_process_request(c, r).response)
<1>1. 1 \in 0..19 /\ 5 \in 0..19
  OBVIOUS
<1>2. Answers(r.sid, uds_handle_diagnostic_session_control(c, r).response)
  BY <1>1, RoomLemma, CheckAnswers DEF uds_handle_diagnostic_session_control
<1>3. Answers(r.sid, uds_handle_ecu_reset(c, r).response)
  BY <1>1, RoomLemma, CheckAnswers DEF uds_handle_ecu_reset
<1>4. Answers(r.sid, uds_handle_tester_present(c, r).response)
  BY <1>1, RoomLemma DEF uds_handle_tester_present
<1>5. Answers(r.sid, uds_handle_read_data_by_id(c, r).response)
  <2>1. \A d \in KnownDid : 2 + DidLength[d] \in 0..19
    BY DEF KnownDid, DidLength
  <2> QED
    BY <2>1, RoomLemma DEF uds_handle_read_data_by_id
<1>6. Answers(r.sid, Refuse(c, r.sid, UDS_NRC_SERVICE_NOT_SUPPORTED).response)
  BY RoomLemma
<1> QED
  BY <1>2, <1>3, <1>4, <1>5, <1>6, SecurityAnswers DEF uds_process_request

\* Every request gets one answer, for the service it asked, for every response
\* buffer the longest data identifier fits; what the entity's model assumes of
\* the server.
THEOREM EveryRequestAnswered == Spec => []AlwaysAnswered
<1>1. Init => AlwaysAnswered
  BY DEF Init, AlwaysAnswered
<1>2. AlwaysAnswered /\ [Next]_vars => AlwaysAnswered'
  <2> SUFFICES ASSUME AlwaysAnswered, [Next]_vars PROVE AlwaysAnswered'
    OBVIOUS
  <2>1. CASE Next
    <3>1. PICK r \in Request : doip_entity_uds_rx_handler(r)
      BY <2>1 DEF Next
    <3>2. asked'.sid = r.sid /\ response' = uds_process_request(ctx, r).response
      BY <3>1 DEF doip_entity_uds_rx_handler
    <3>3. Answers(asked'.sid, response')
      BY <3>2, ServiceAnswers
    <3> QED
      BY <3>3 DEF Answers, AlwaysAnswered
  <2>2. CASE UNCHANGED vars
    BY <2>2 DEF AlwaysAnswered, vars
  <2> QED
    BY <2>1, <2>2
<1> QED
  BY <1>1, <1>2, PTL DEF Spec
------------------------------------------------------------------------------
\* The request r holds the bytes its service needs, or none and its length wraps.
Enough(r) == r.user = 0 \/ r.user >= Needed(r)

\* The response p reports nothing done or compared unless r holds enough.
Backed(r, p) ==
  \/ p.kind = "pos"
  \/ p.kind = "neg" /\ p.nrc \in {UDS_NRC_INVALID_KEY, UDS_NRC_EXCEEDED_NUMBER_OF_ATTEMPTS}
  => Enough(r)

\* Without the wrap the length checked is the announced one less 1.
LEMMA LengthLemma ==
  ASSUME NEW r \in Request
  PROVE  /\ r.user \in Nat
         /\ r.user # 0 => RequestLength(r) = r.user - 1
<1>1. r.user \in UserLen
  BY DEF Request
<1>2. r.user \in Nat /\ r.user < LenMod /\ LenMod \in Nat \ {0}
  BY <1>1, WireAssumption, WidthAssumption
<1>3. r.user # 0 => (r.user - 1) % LenMod = r.user - 1
  BY <1>2
<1> QED
  BY <1>2, <1>3 DEF RequestLength

\* A refusal that is not about a key reports nothing done.
LEMMA RefuseBacked ==
  ASSUME NEW c, NEW r \in Request, NEW nrc \in PlainNrc
  PROVE  Backed(r, Refuse(c, r.sid, nrc).response)
BY DEF Backed, Refuse, Result, uds_send_negative_response, NoResponse, PlainNrc

\* The common checks let through a request with a sub-function in subs and at
\* least two bytes, or none.
LEMMA CheckBacked ==
  ASSUME NEW c, NEW r \in Request, NEW subs, NEW res,
         (r.user = 0 \/ r.user >= 2) /\ r.byte0 \in subs => Backed(r, res.response)
  PROVE  Backed(r, CheckSubFunction(c, r, subs, res).response)
<1>1. r.user = 0 \/ r.user >= 2 \/ RequestLength(r) < 1
  BY LengthLemma
<1>2. CASE RequestLength(r) < 1
  BY <1>2, RefuseBacked, NrcLemma DEF CheckSubFunction
<1>3. CASE ~(RequestLength(r) < 1) /\ r.byte0 \notin subs
  BY <1>3, RefuseBacked, NrcLemma DEF CheckSubFunction
<1>4. CASE ~(RequestLength(r) < 1) /\ r.byte0 \in subs
  BY <1>1, <1>4 DEF CheckSubFunction
<1> QED
  BY <1>2, <1>3, <1>4

\* A service with one parameter byte that is not a key.
LEMMA ShortBacked ==
  ASSUME NEW r \in Request, NEW p, r.user = 0 \/ r.user >= 2,
         r.sid # UDS_SID_READ_DATA_BY_IDENTIFIER,
         ~(r.sid = UDS_SID_SECURITY_ACCESS /\ r.byte0 = UDS_SECURITY_SEND_KEY_LEVEL_1)
  PROVE  Backed(r, p)
<1>1. Needed(r) = 2
  BY DEF Needed
<1> QED
  BY <1>1 DEF Backed, Enough

\* Service 0x27: the key is compared only when all of it was sent.
LEMMA SecurityBacked ==
  ASSUME NEW c, NEW r \in Request, r.sid = UDS_SID_SECURITY_ACCESS
  PROVE  Backed(r, uds_handle_security_access(c, r).response)
<1> DEFINE subs == {UDS_SECURITY_REQUEST_SEED_LEVEL_1, UDS_SECURITY_SEND_KEY_LEVEL_1}
           body == IF r.byte0 = UDS_SECURITY_REQUEST_SEED_LEVEL_1
                   THEN RequestSeed(c, r) ELSE SendKey(c, r)
<1>1. /\ UDS_SID_SECURITY_ACCESS # UDS_SID_READ_DATA_BY_IDENTIFIER
      /\ UDS_SECURITY_REQUEST_SEED_LEVEL_1 # UDS_SECURITY_SEND_KEY_LEVEL_1
  BY DEF UDS_SID_SECURITY_ACCESS, UDS_SID_READ_DATA_BY_IDENTIFIER,
     UDS_SECURITY_REQUEST_SEED_LEVEL_1, UDS_SECURITY_SEND_KEY_LEVEL_1
<1>2. ASSUME r.user = 0 \/ r.user >= 2, r.byte0 = UDS_SECURITY_REQUEST_SEED_LEVEL_1
      PROVE  Backed(r, body.response)
  BY <1>1, <1>2, ShortBacked
<1>3. ASSUME r.byte0 = UDS_SECURITY_SEND_KEY_LEVEL_1
      PROVE  Backed(r, SendKey(c, r).response)
  <2>1. Needed(r) = 6
    BY <1>1, <1>3 DEF Needed
  <2>2. CASE RequestLength(r) < 5
    BY <2>2, RefuseBacked, NrcLemma DEF SendKey
  <2>3. CASE ~(RequestLength(r) < 5)
    BY <2>1, <2>3, LengthLemma DEF Backed, Enough
  <2> QED
    BY <2>2, <2>3
<1>4. (r.user = 0 \/ r.user >= 2) /\ r.byte0 \in subs => Backed(r, body.response)
  BY <1>1, <1>2, <1>3
<1> HIDE DEF subs, body
<1>5. Backed(r, CheckSubFunction(c, r, subs, body).response)
  BY <1>4, CheckBacked
<1> QED
  BY <1>5 DEF uds_handle_security_access, subs, body

\* Service 0x22: both bytes of the identifier were sent.
LEMMA ReadDataBacked ==
  ASSUME NEW c, NEW r \in Request, r.sid = UDS_SID_READ_DATA_BY_IDENTIFIER
  PROVE  Backed(r, uds_handle_read_data_by_id(c, r).response)
<1>1. Needed(r) = 3
  BY DEF Needed, UDS_SID_SECURITY_ACCESS, UDS_SID_READ_DATA_BY_IDENTIFIER
<1>2. CASE RequestLength(r) < 2
  BY <1>2, RefuseBacked, NrcLemma DEF uds_handle_read_data_by_id
<1>3. CASE ~(RequestLength(r) < 2)
  BY <1>1, <1>3, LengthLemma DEF Backed, Enough
<1> QED
  BY <1>2, <1>3

\* Every service.
LEMMA ServiceBacked ==
  ASSUME NEW c, NEW r \in Request
  PROVE  Backed(r, uds_process_request(c, r).response)
<1>1. CASE r.sid = UDS_SID_SECURITY_ACCESS
  <2>1. uds_process_request(c, r) = uds_handle_security_access(c, r)
    BY <1>1 DEF uds_process_request, UDS_SID_SECURITY_ACCESS, UDS_SID_DIAGNOSTIC_SESSION_CONTROL,
       UDS_SID_ECU_RESET, UDS_SID_TESTER_PRESENT, UDS_SID_READ_DATA_BY_IDENTIFIER
  <2> QED BY <1>1, <2>1, SecurityBacked
<1>2. CASE r.sid = UDS_SID_READ_DATA_BY_IDENTIFIER
  <2>1. uds_process_request(c, r) = uds_handle_read_data_by_id(c, r)
    BY <1>2 DEF uds_process_request, UDS_SID_SECURITY_ACCESS, UDS_SID_DIAGNOSTIC_SESSION_CONTROL,
       UDS_SID_ECU_RESET, UDS_SID_TESTER_PRESENT, UDS_SID_READ_DATA_BY_IDENTIFIER
  <2> QED BY <1>2, <2>1, ReadDataBacked
<1>3. CASE r.sid # UDS_SID_SECURITY_ACCESS /\ r.sid # UDS_SID_READ_DATA_BY_IDENTIFIER
  <2>1. uds_process_request(c, r) \in
          {uds_handle_diagnostic_session_control(c, r), uds_handle_ecu_reset(c, r),
           uds_handle_tester_present(c, r),
           Refuse(c, r.sid, UDS_NRC_SERVICE_NOT_SUPPORTED)}
    BY <1>3 DEF uds_process_request
  <2>2. \A p : r.user = 0 \/ r.user >= 2 => Backed(r, p)
    BY <1>3, ShortBacked
  <2>3. Backed(r, uds_handle_diagnostic_session_control(c, r).response)
    BY <2>2, CheckBacked DEF uds_handle_diagnostic_session_control
  <2>4. Backed(r, uds_handle_ecu_reset(c, r).response)
    BY <2>2, CheckBacked DEF uds_handle_ecu_reset
  <2>5. Backed(r, uds_handle_tester_present(c, r).response)
    <3>1. CASE RequestLength(r) < 1
      BY <3>1, RefuseBacked, NrcLemma DEF uds_handle_tester_present
    <3>2. CASE ~(RequestLength(r) < 1)
      BY <2>2, <3>2, LengthLemma
    <3> QED BY <3>1, <3>2
  <2>6. Backed(r, Refuse(c, r.sid, UDS_NRC_SERVICE_NOT_SUPPORTED).response)
    BY RefuseBacked, NrcLemma
  <2> QED
    BY <2>1, <2>3, <2>4, <2>5, <2>6
<1> QED
  BY <1>1, <1>2, <1>3

\* No request is carried out, and no key compared, from bytes its message does
\* not announce, for every length but 0: the checks of the services and the
\* "length - 1U" of the handler agree.
THEOREM OnlySentBytesServed == Spec => []ServedWasSent
<1>1. Init => ServedWasSent
  BY DEF Init, ServedWasSent, Served, NoResponse
<1>2. ServedWasSent /\ [Next]_vars => ServedWasSent'
  <2> SUFFICES ASSUME ServedWasSent, [Next]_vars PROVE ServedWasSent'
    OBVIOUS
  <2>1. CASE Next
    <3>1. PICK r \in Request : doip_entity_uds_rx_handler(r)
      BY <2>1 DEF Next
    <3>2. /\ asked' = [user |-> r.user, sid |-> r.sid, byte0 |-> r.byte0]
          /\ response' = uds_process_request(ctx, r).response
      BY <3>1 DEF doip_entity_uds_rx_handler
    <3>3. Backed(r, response')
      BY <3>2, ServiceBacked
    <3>4. Needed(r) = Needed(asked')
      BY <3>2 DEF Needed
    <3> QED
      BY <3>2, <3>3, <3>4 DEF Backed, Enough, ServedWasSent, Served
  <2>2. CASE UNCHANGED vars
    BY <2>2 DEF ServedWasSent, Served, Needed, vars
  <2> QED
    BY <2>1, <2>2
<1> QED
  BY <1>1, <1>2, PTL DEF Spec
==============================================================================
