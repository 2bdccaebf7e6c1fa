--------------------------- MODULE EndpointProofs ---------------------------
(***************************************************************************)
(* Theorems about GET /health, for every number of callers, every timeout  *)
(* of its query and every pause of the session client.                     *)
(***************************************************************************)
EXTENDS HealthEndpoint, HealthProofs

(* A call has its timeout set while it asks the database.  One without a   *)
(* cookie has no other wait: its age and what is left of the timeout make  *)
(* up the whole.                                                           *)
CallOK(c) ==
    /\ timer[c] <=> call[c] = "asking"
    /\ call[c] # "idle" => ready
    /\ session[c] = "none" =>
          /\ ~WaitsForStore(c)
          /\ age[c] <= Deadline
          /\ call[c] = "asking" => left[c] + age[c] <= Deadline

(* While Redis is up, a call is within its timeout, or Redis has not been  *)
(* up for longer than the pause of the session client and what is over of  *)
(* the timeout.                                                            *)
WaitOK(c) ==
    redis = "up" =>
        /\ call[c] = "loading" => age[c] = 0 \/ steady <= SessionRetry
        /\ call[c] = "asking" =>
              left[c] + age[c] <= Deadline \/ left[c] + steady <= SessionRetry + Deadline
        /\ call[c] = "touching" =>
              age[c] <= Deadline \/ steady <= SessionRetry + Deadline

EInv == CallTypeOK /\ \A c \in Callers : CallOK(c) /\ WaitOK(c)

(* Every step of the endpoint leaves the flag alone, every other step is   *)
(* one of RedisHealth.                                                     *)
LEMMA StepsOfFlag == [EndpointNext]_<<vars, endpoint>> => [Next]_vars
<1> SUFFICES ASSUME [EndpointNext]_<<vars, endpoint>> PROVE [Next]_vars
  OBVIOUS
<1>1. CASE \E c \in Callers : Arrives(c) \/ SessionRead(c) \/ SessionTouched(c)
  BY <1>1 DEF Arrives, SessionRead, SessionTouched
<1>2. CASE \E c \in Callers : DbAnswers(c) \/ DbFails(c)
  BY <1>2 DEF DbAnswers, DbFails, Answer
<1>3. CASE SessionConnects \/ UNCHANGED <<vars, endpoint>>
  BY <1>3 DEF SessionConnects
<1>4. CASE FlagStep \/ ConnectionsLost \/ TimePasses
  BY <1>4 DEF FlagStep, ConnectionsLost, TimePasses, Next
<1>5. QED
  BY <1>1, <1>2, <1>3, <1>4 DEF EndpointNext

LEMMA ReadyStays == ready /\ [Next]_vars => ready'
BY DEF vars, Next, TimerFires, PingAnswered, PingFails, CheckOver, ErrorEvent, Connected,
       ServerStops, ServerHangs, ServerRecovers, Tick

(* The endpoint only reads the flag: what holds of RedisHealth holds with  *)
(* the endpoint (health.service.ts:26).                                    *)
THEOREM ReadsTheFlag == EndpointSpec => Spec
<1>1. EndpointInit => Init
  BY DEF EndpointInit
<1>2. QED
  BY <1>1, StepsOfFlag, PTL DEF EndpointSpec, Spec

(* A step of one caller that leaves the flag alone has to be looked at for *)
(* that caller only.                                                       *)
LEMMA OnlyOne ==
    ASSUME EInv, CallTypeOK', UNCHANGED vars, NEW c \in Callers, CallOK(c)', WaitOK(c)',
           \A d \in Callers \ {c} :
               /\ call'[d] = call[d] /\ session'[d] = session[d] /\ age'[d] = age[d]
               /\ timer'[d] = timer[d] /\ left'[d] = left[d]
    PROVE  EInv'
<1>1. ASSUME NEW d \in Callers, d # c PROVE CallOK(d)' /\ WaitOK(d)'
  BY <1>1 DEF EInv, CallOK, WaitOK, WaitsForStore, vars
<1>2. QED
  BY <1>1 DEF EInv

LEMMA ArrivesKeepsEInv == ASSUME EInv, NEW c \in Callers, Arrives(c) PROVE EInv'
<1> USE EndpointAssumption DEF EInv, CallTypeOK, Arrives, CheckDb
<1>1. CallTypeOK'
  <2>1. storeOpen' \in BOOLEAN /\ booted' \in BOOLEAN
    OBVIOUS
  <2>2. call' \in [Callers -> {"idle", "loading", "asking", "touching"}]
    OBVIOUS
  <2>3. session' \in [Callers -> {"none", "sent", "found"}]
    OBVIOUS
  <2>4. answer' \in [Callers -> {"none"} \union Answers]
    OBVIOUS
  <2>5. timer' \in [Callers -> BOOLEAN]
    BY Zenon
  <2>6. left' \in [Callers -> 0..Deadline] /\ age' \in [Callers -> 0..(Deadline + 1)]
    OBVIOUS
  <2>7. QED
    BY <2>1, <2>2, <2>3, <2>4, <2>5, <2>6
<1>2. CallOK(c)' /\ WaitOK(c)'
  BY DEF CallOK, WaitOK, WaitsForStore, vars
<1>3. QED
  BY <1>1, <1>2, OnlyOne

LEMMA ReadKeepsEInv ==
    ASSUME EInv, TypeOK, NEW c \in Callers, SessionRead(c) PROVE EInv'
<1> USE EndpointAssumption DEF EInv, CallTypeOK, SessionRead, CheckDb
<1>1. CallTypeOK'
  OBVIOUS
<1>2. call'[c] = "asking" /\ session'[c] # "none" /\ timer'[c] /\ left'[c] = Deadline
  OBVIOUS
<1>3. ready /\ ready' = ready
  BY DEF CallOK, vars
<1>4. CallOK(c)'
  BY <1>2, <1>3 DEF CallOK
<1>5. WaitOK(c)'
  BY <1>2 DEF WaitOK, vars, TypeOK, SteadyMax
<1>6. QED
  BY <1>1, <1>4, <1>5, OnlyOne

LEMMA AnswerKeepsEInv ==
    ASSUME EInv, TypeOK, NEW c \in Callers, NEW status \in Answers,
           call[c] = "asking", Answer(c, status)
    PROVE  EInv'
<1> USE EndpointAssumption DEF EInv, CallTypeOK, Answer, TimeoutCleared
<1>1. CallTypeOK'
  OBVIOUS
<1>2. CallOK(c)'
  <2>1. call'[c] \in {"idle", "touching"} /\ ~timer'[c] /\ age' = age /\ session' = session
    OBVIOUS
  <2>2. session[c] = "none" => call'[c] = "idle" /\ age[c] <= Deadline
    BY DEF CallOK
  <2>3. ready /\ ready' = ready
    BY DEF CallOK, vars
  <2>4. QED
    BY <2>1, <2>2, <2>3 DEF CallOK, WaitsForStore
<1>3. WaitOK(c)'
  BY DEF WaitOK, vars, TypeOK, SteadyMax
<1>4. QED
  BY <1>1, <1>2, <1>3, OnlyOne

LEMMA TouchKeepsEInv == ASSUME EInv, NEW c \in Callers, SessionTouched(c) PROVE EInv'
<1> USE EndpointAssumption DEF EInv, CallTypeOK, SessionTouched
<1>1. CallTypeOK'
  OBVIOUS
<1>2. CallOK(c)' /\ WaitOK(c)'
  BY DEF CallOK, WaitOK, WaitsForStore
<1>3. QED
  BY <1>1, <1>2, OnlyOne

(* The server's own steps: when it comes back, its time begins anew.       *)
LEMMA FlagStepKeepsEInv ==
    ASSUME EInv, FlagStep, UNCHANGED endpoint PROVE EInv'
<1> USE EndpointAssumption DEF EInv, CallTypeOK, endpoint
<1>1. ready => ready'
  BY ReadyStays DEF FlagStep, Next
<1>2. redis' = "up" => steady' = 0 \/ (redis = "up" /\ steady' = steady)
  BY DEF FlagStep, TimerFires, PingAnswered, PingFails, CheckOver, ErrorEvent, Connected,
         ServerHangs, ServerRecovers, Becomes
<1>3. ASSUME NEW d \in Callers PROVE CallOK(d)' /\ WaitOK(d)'
  BY <1>1, <1>2 DEF CallOK, WaitOK, WaitsForStore
<1>4. QED
  BY <1>3

LEMMA LostKeepsEInv == ASSUME EInv, ConnectionsLost PROVE EInv'
<1> USE DEF EInv, CallTypeOK, ConnectionsLost
<1>1. ready' = ready /\ redis' = "down"
  BY DEF ServerStops, Becomes
<1>2. CallTypeOK'
  BY DEF Answers
<1>3. ASSUME NEW d \in Callers PROVE CallOK(d)' /\ WaitOK(d)'
  BY <1>1 DEF CallOK, WaitOK, WaitsForStore
<1>4. QED
  BY <1>2, <1>3

LEMMA TimeKeepsEInv == ASSUME EInv, TypeOK, TimePasses PROVE EInv'
<1> USE EndpointAssumption DEF EInv, CallTypeOK
<1>1. \A d \in Callers : left'[d] = Less(left[d]) /\ call'[d] = call[d]
                           /\ timer'[d] = timer[d] /\ session'[d] = session[d]
  BY DEF TimePasses
<1>2. \A d \in Callers : age'[d] =
          IF call[d] # "idle" /\ age[d] <= Deadline THEN age[d] + 1 ELSE age[d]
  BY DEF TimePasses
<1>3. redis' = redis /\ ready' = ready /\ steady \in Nat /\ steady' \in {steady, steady + 1}
  BY HealthAssumption DEF TimePasses, Tick, TypeOK, SteadyMax
<1>4. ASSUME NEW d \in Callers PROVE CallOK(d)'
  BY <1>1, <1>2, <1>3 DEF CallOK, TimePasses, Less, WaitsForStore
<1>5. ASSUME NEW d \in Callers PROVE WaitOK(d)'
  <2>1. redis = "up" /\ WaitsForStore(d) => steady < SessionRetry
    BY DEF TimePasses, StoreAnswers
  <2>2. call[d] = "asking" => left[d] > 0
    BY DEF TimePasses, CallOK
  <2>3. QED
    BY <1>1, <1>2, <1>3, <2>1, <2>2 DEF WaitOK, WaitsForStore, Less
<1>6. CallTypeOK'
  <2>1. left' \in [Callers -> 0..Deadline]
    BY DEF TimePasses, Less
  <2>2. age' \in [Callers -> 0..(Deadline + 1)]
    BY DEF TimePasses
  <2>3. QED
    BY <2>1, <2>2 DEF TimePasses
<1>7. QED
  BY <1>4, <1>5, <1>6

LEMMA EInvStep == EInv /\ TypeOK /\ [EndpointNext]_<<vars, endpoint>> => EInv'
<1> SUFFICES ASSUME EInv, TypeOK, [EndpointNext]_<<vars, endpoint>> PROVE EInv'
  OBVIOUS
<1>1. CASE \E c \in Callers : Arrives(c) \/ SessionRead(c) \/ SessionTouched(c)
  BY <1>1, ArrivesKeepsEInv, ReadKeepsEInv, TouchKeepsEInv
<1>2. ASSUME NEW c \in Callers, DbAnswers(c) \/ DbFails(c) PROVE EInv'
  <2>1. PICK status \in Answers : call[c] = "asking" /\ Answer(c, status)
    BY <1>2 DEF DbAnswers, DbFails, Answers
  <2>2. QED
    BY <2>1, AnswerKeepsEInv
<1>3. CASE SessionConnects
  BY <1>3 DEF EInv, CallTypeOK, CallOK, WaitOK, WaitsForStore, SessionConnects, vars
<1>4. CASE ConnectionsLost \/ TimePasses \/ (FlagStep /\ UNCHANGED endpoint)
  BY <1>4, LostKeepsEInv, TimeKeepsEInv, FlagStepKeepsEInv
<1>5. CASE UNCHANGED <<vars, endpoint>>
  BY <1>5 DEF EInv, CallTypeOK, CallOK, WaitOK, WaitsForStore, endpoint, vars
<1>6. QED
  BY <1>1, <1>2, <1>3, <1>4, <1>5 DEF EndpointNext

LEMMA EInvAlways == EndpointSpec => []EInv
<1>1. EndpointInit => EInv
  <2> SUFFICES ASSUME EndpointInit PROVE EInv
    OBVIOUS
  <2>1. CallTypeOK
    BY EndpointAssumption DEF EndpointInit, CallTypeOK, Answers
  <2>2. ASSUME NEW c \in Callers PROVE CallOK(c) /\ WaitOK(c)
    BY EndpointAssumption DEF EndpointInit, CallOK, WaitOK, WaitsForStore
  <2>3. QED
    BY <2>1, <2>2 DEF EInv
<1>2. QED
  BY <1>1, EInvStep, ReadsTheFlag, TypeCorrect, PTL DEF EndpointSpec

-----------------------------------------------------------------------------
(* Every variable of the flag and of the endpoint keeps its type           *)
(* (health.service.ts:6).                                                  *)
THEOREM EndpointTypes == EndpointSpec => []EndpointTypeOK
<1>1. TypeOK /\ EInv => EndpointTypeOK
  BY DEF EInv, EndpointTypeOK
<1>2. QED
  BY <1>1, ReadsTheFlag, TypeCorrect, EInvAlways, PTL

(* A call without a cookie is answered within DB_TIMEOUT_MS, whatever      *)
(* database and Redis do; one with a cookie takes longer only while Redis  *)
(* is away, or for the pause of the session client and one DB_TIMEOUT_MS   *)
(* after that (health.service.ts:29-36, session.module.ts:28).             *)
THEOREM AnswersInTime == EndpointSpec => []AnsweredInTime
<1>1. EInv /\ TypeOK => AnsweredInTime
  <2> SUFFICES ASSUME EInv, TypeOK, NEW c \in Callers, call[c] # "idle", age[c] > Deadline
               PROVE  /\ session[c] # "none"
                      /\ redis # "up" \/ steady <= SessionRetry + Deadline
    BY DEF AnsweredInTime
  <2> USE EndpointAssumption DEF EInv, CallTypeOK
  <2>1. session[c] # "none"
    BY DEF CallOK
  <2>2. redis # "up" \/ steady <= SessionRetry + Deadline
    <3>1. steady \in Nat /\ left[c] \in Nat
      BY HealthAssumption DEF TypeOK, SteadyMax
    <3>2. QED
      BY <3>1 DEF WaitOK
  <2>3. QED
    BY <2>1, <2>2
<1>2. QED
  BY <1>1, EInvAlways, ReadsTheFlag, TypeCorrect, PTL

(* No call leaves its timeout behind (health.service.ts:42-44).            *)
THEOREM TimeoutsEnd == EndpointSpec => []NoTimeoutLeft
<1>1. EInv => NoTimeoutLeft
  BY DEF EInv, CallOK, NoTimeoutLeft
<1>2. QED
  BY <1>1, EInvAlways, PTL

(* What an answer says of Redis is not older than the flag may be          *)
(* (health.service.ts:24-27, redis-health.service.ts:33-53).               *)
THEOREM AnswersAreCurrent == EndpointSpec => AnswerIsCurrent
<1> DEFINE Current ==
      \A c \in Callers : call[c] = "asking" /\ call'[c] # "asking" =>
          /\ answer'[c] = "ok" => redis = "up" \/ steady <= DownNoticed
          /\ answer'[c] = "degraded" => redis # "up" \/ steady <= UpNoticed
<1> DEFINE Inv == TypeOK /\ DownIsNoticed /\ UpIsNoticed /\ EInv
<1>1. EndpointSpec => []Inv
  BY ReadsTheFlag, TypeCorrect, DownNoticedInTime, UpNoticedInTime, EInvAlways, PTL
<1>2. Inv /\ [EndpointNext]_<<vars, endpoint>> => [Current]_endpoint
  <2> SUFFICES ASSUME Inv, EndpointNext, NEW c \in Callers,
                      call[c] = "asking", call'[c] # "asking"
               PROVE  /\ answer'[c] = "ok" => redis = "up" \/ steady <= DownNoticed
                      /\ answer'[c] = "degraded" => redis # "up" \/ steady <= UpNoticed
    BY DEF endpoint
  <2> USE DEF EInv, CallTypeOK
  <2>1. ready
    BY DEF CallOK
  <2>2. \A d \in Callers : ~(Arrives(d) \/ SessionRead(d) \/ SessionTouched(d))
    BY DEF Arrives, SessionRead, SessionTouched, CheckDb
  <2>3. ~SessionConnects /\ ~ConnectionsLost /\ ~TimePasses /\ ~UNCHANGED endpoint
    BY DEF SessionConnects, ConnectionsLost, TimePasses, WaitsForStore, endpoint
  <2>4. ASSUME NEW d \in Callers, DbAnswers(d) \/ DbFails(d)
        PROVE  answer'[c] = "unavailable" \/ answer'[c] = IF healthy THEN "ok" ELSE "degraded"
    <3>1. d = c
      BY <2>4 DEF DbAnswers, DbFails, Answer
    <3>2. QED
      BY <2>4, <3>1 DEF DbAnswers, DbFails, Answer
  <2>5. healthy => redis = "up" \/ steady <= DownNoticed
    BY <2>1, HealthAssumption DEF DownIsNoticed, DownNoticed, TypeOK, SteadyMax
  <2>6. ~healthy => redis # "up" \/ steady <= UpNoticed
    BY <2>1, HealthAssumption DEF UpIsNoticed, UpNoticed, TypeOK, SteadyMax
  <2>7. QED
    BY <2>2, <2>3, <2>4, <2>5, <2>6 DEF EndpointNext
<1>3. QED
  BY <1>1, <1>2, PTL DEF EndpointSpec, AnswerIsCurrent
=============================================================================
