--------------------------- MODULE HealthEndpoint ---------------------------
(***************************************************************************)
(* GET /health: HealthService asks the database within DB_TIMEOUT_MS and   *)
(* then reads the flag of RedisHealth.  Without the database it is 503,    *)
(* without Redis 200 "degraded".                                           *)
(*                                                                         *)
(* Before and after it is the session middleware, on this route like on    *)
(* every other: a call with a cookie waits for the GET of its session and, *)
(* when there is one, for the EXPIRE at the end of the response, on a      *)
(* node-redis client of its own that has no command timeout.               *)
(***************************************************************************)
EXTENDS RedisHealth

CONSTANTS
    Callers,      \* each has at most one call under way
    Deadline,     \* DB_TIMEOUT_MS, in ticks
    SessionRetry  \* the longest pause of node-redis between two attempts to connect

ASSUME EndpointAssumption ==
    /\ Deadline \in Nat \ {0}
    /\ SessionRetry \in Nat

VARIABLES
    storeOpen, \* the session client is connected
    booted,    \* its connect() in onModuleInit has come back
    call,      \* per caller: "idle", or the await its call is at
    session,   \* per caller: "none" (no cookie), "sent", or "found" in Redis
    answer,    \* per caller: the answer to its call, once it is decided
    timer,     \* per caller: the timeout of checkDb is set
    left,      \* per caller: until it fires
    age        \* history: for how long its call has been under way

endpoint == <<storeOpen, booted, call, session, answer, timer, left, age>>

Answers == {"ok", "degraded", "unavailable", "failed"}

CallTypeOK ==
    /\ storeOpen \in BOOLEAN /\ booted \in BOOLEAN
    /\ call \in [Callers -> {"idle", "loading", "asking", "touching"}]
    /\ session \in [Callers -> {"none", "sent", "found"}]
    /\ answer \in [Callers -> {"none"} \union Answers]
    /\ timer \in [Callers -> BOOLEAN]
    /\ left \in [Callers -> 0..Deadline]
    /\ age \in [Callers -> 0..(Deadline + 1)]

EndpointTypeOK == TypeOK /\ CallTypeOK

(* The session client may have connected before the first check began.     *)
EndpointInit ==
    /\ Init
    /\ booted \in BOOLEAN
    /\ storeOpen = (booted /\ redis # "down")
    /\ call = [c \in Callers |-> "idle"]
    /\ session = [c \in Callers |-> "none"]
    /\ answer = [c \in Callers |-> "none"]
    /\ timer = [c \in Callers |-> FALSE]
    /\ left = [c \in Callers |-> 0]
    /\ age = [c \in Callers |-> 0]

-----------------------------------------------------------------------------
(* The session client.  Without a connection its commands wait in the      *)
(* offline queue; those on their way fail when the connection is lost.     *)

StoreAnswers == storeOpen /\ redis = "up"

WaitsForStore(c) == call[c] \in {"loading", "touching"}

SessionConnects ==
    /\ ~storeOpen /\ redis = "up"
    /\ storeOpen' = TRUE
    /\ booted' = TRUE
    /\ UNCHANGED <<call, session, answer, timer, left, age, vars>>

(* A failed GET is passed on by next(err); a failed EXPIRE ends the        *)
(* response all the same.                                                  *)
ConnectionsLost ==
    /\ ServerStops
    /\ storeOpen' = FALSE
    /\ call' = [c \in Callers |->
                  IF storeOpen /\ WaitsForStore(c) THEN "idle" ELSE call[c]]
    /\ answer' = [c \in Callers |->
                    IF storeOpen /\ call[c] = "loading" THEN "failed" ELSE answer[c]]
    /\ UNCHANGED <<booted, session, timer, left, age>>

-----------------------------------------------------------------------------
(* One call.                                                               *)

(* Variation: the query is awaited without a timeout.                      *)
CheckDbWithoutTimeout(c) ==
    /\ call' = [call EXCEPT ![c] = "asking"]
    /\ UNCHANGED <<timer, left>>

CheckDb(c) ==
    /\ call' = [call EXCEPT ![c] = "asking"]
    /\ timer' = [timer EXCEPT ![c] = TRUE]
    /\ left' = [left EXCEPT ![c] = Deadline]

(* The middleware lets a call without a cookie through at once.            *)
Arrives(c) ==
    /\ ready /\ booted
    /\ call[c] = "idle"
    /\ \/ /\ session' = [session EXCEPT ![c] = "none"]
          /\ CheckDb(c)
       \/ /\ session' = [session EXCEPT ![c] = "sent"]
          /\ call' = [call EXCEPT ![c] = "loading"]
          /\ UNCHANGED <<timer, left>>
    /\ answer' = [answer EXCEPT ![c] = "none"]
    /\ age' = [age EXCEPT ![c] = 0]
    /\ UNCHANGED <<storeOpen, booted, vars>>

(* This route has no guard: it goes on whether or not there is a session.  *)
SessionRead(c) ==
    /\ call[c] = "loading" /\ StoreAnswers
    /\ \E found \in {"sent", "found"} : session' = [session EXCEPT ![c] = found]
    /\ CheckDb(c)
    /\ UNCHANGED <<storeOpen, booted, answer, age, vars>>

(* Variation: no finally clause; a timeout is gone only when it fires.     *)
TimeoutStays(c) ==
    /\ timer' = [timer EXCEPT ![c] = left[c] > 0]
    /\ UNCHANGED left

(* The finally clause of checkDb.                                          *)
TimeoutCleared(c) ==
    /\ timer' = [timer EXCEPT ![c] = FALSE]
    /\ left' = [left EXCEPT ![c] = 0]

(* rolling: the end of a response that has a session waits for the EXPIRE. *)
Answer(c, status) ==
    /\ call' = [call EXCEPT ![c] = IF session[c] = "found" THEN "touching" ELSE "idle"]
    /\ answer' = [answer EXCEPT ![c] = status]
    /\ TimeoutCleared(c)
    /\ UNCHANGED <<storeOpen, booted, session, age, vars>>

(* Variation: the service is asked for, not its flag.                      *)
DbAnswersOk(c) ==
    /\ call[c] = "asking"
    /\ Answer(c, "ok")

(* The SELECT wins the race; the flag is read after it.                    *)
DbAnswers(c) ==
    /\ call[c] = "asking"
    /\ Answer(c, IF healthy THEN "ok" ELSE "degraded")

(* Variation: the error is passed on as it is.                             *)
DbErrorPassedOn(c) ==
    /\ call[c] = "asking"
    /\ Answer(c, "error")

(* The SELECT fails, or the timeout wins: then what becomes of the SELECT   *)
(* is nobody's concern.                                                    *)
DbFails(c) ==
    /\ call[c] = "asking"
    /\ Answer(c, "unavailable")

SessionTouched(c) ==
    /\ call[c] = "touching" /\ StoreAnswers
    /\ call' = [call EXCEPT ![c] = "idle"]
    /\ UNCHANGED <<storeOpen, booted, session, answer, timer, left, age, vars>>

-----------------------------------------------------------------------------
(* With the flag, and time.                                                *)

FlagStep ==
    \/ TimerFires
    \/ PingAnswered
    \/ PingFails
    \/ ErrorEvent
    \/ Connected
    \/ ServerHangs
    \/ ServerRecovers

(* A timeout that is due fires before time passes; a connected server      *)
(* answers within a tick, and is connected after a pause at the latest.    *)
TimePasses ==
    /\ \A c \in Callers : timer[c] => left[c] > 0
    /\ \A c \in Callers : WaitsForStore(c) => ~StoreAnswers
    /\ ~storeOpen /\ redis = "up" => steady < SessionRetry
    /\ Tick
    /\ left' = [c \in Callers |-> Less(left[c])]
    /\ age' = [c \in Callers |->
                 IF call[c] # "idle" /\ age[c] <= Deadline THEN age[c] + 1 ELSE age[c]]
    /\ UNCHANGED <<storeOpen, booted, call, session, answer, timer>>

EndpointNext ==
    \/ \E c \in Callers :
          \/ Arrives(c)
          \/ SessionRead(c)
          \/ DbAnswers(c)
          \/ DbFails(c)
          \/ SessionTouched(c)
    \/ SessionConnects
    \/ ConnectionsLost
    \/ FlagStep /\ UNCHANGED endpoint
    \/ TimePasses

EndpointSpec == EndpointInit /\ [][EndpointNext]_<<vars, endpoint>>

-----------------------------------------------------------------------------
(* Properties.                                                             *)

(* A call without a cookie, as a load balancer sends it, is answered       *)
(* within DB_TIMEOUT_MS, whatever database and Redis do.  A call with one  *)
(* takes longer only through its session: while Redis is away, or for the  *)
(* pause before the session client is connected again and one              *)
(* DB_TIMEOUT_MS more (health.service.ts:29-36, session.module.ts:28).     *)
AnsweredInTime ==
    \A c \in Callers : call[c] # "idle" /\ age[c] > Deadline =>
        /\ session[c] # "none"
        /\ redis # "up" \/ steady <= SessionRetry + Deadline

(* No call leaves its timeout behind (health.service.ts:42-44).            *)
NoTimeoutLeft == \A c \in Callers : timer[c] => call[c] = "asking"

(* However long session and SELECT took, "ok" means that Redis answered    *)
(* within the last interval and timeout, "degraded" that it was away       *)
(* within the time a return takes to be noticed, counted from when the     *)
(* answer is decided (health.service.ts:24-27).                            *)
AnswerIsCurrent ==
    [][\A c \in Callers : call[c] = "asking" /\ call'[c] # "asking" =>
          /\ answer'[c] = "ok" => redis = "up" \/ steady <= DownNoticed
          /\ answer'[c] = "degraded" => redis # "up" \/ steady <= UpNoticed]_endpoint
=============================================================================
