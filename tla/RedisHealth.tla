---------------------------- MODULE RedisHealth ----------------------------
(***************************************************************************)
(* RedisHealthService: the flag by which every request chooses between     *)
(* Redis and the database.  A PING every PING_INTERVAL_MS raises or lowers *)
(* it, an "error" event of the connection lowers it.                       *)
(*                                                                         *)
(* Time is kept in timers that run down; a timer that is due fires before  *)
(* time passes (the event loop is not blocked for a tick).  The connection *)
(* is ioredis's: it reconnects by itself and queues commands meanwhile.    *)
(***************************************************************************)
EXTENDS Naturals

CONSTANTS
    Interval,  \* PING_INTERVAL_MS, in ticks
    Timeout,   \* commandTimeout, in ticks
    Retry      \* the longest pause of ioredis between two attempts to connect

(* 500 ms against 5 s: two PINGs are never under way together.             *)
ASSUME HealthAssumption ==
    /\ Timeout \in Nat \ {0}
    /\ Interval \in Nat /\ Timeout < Interval
    /\ Retry \in Nat \ {0}

VARIABLES
    redis,      \* the server: "up", "down" (refuses), "hung" (never answers)
    open,       \* the connection is established
    retryLeft,  \* until the next attempt to connect
    ping,       \* the PING of check(): "none", "queued", "sent"
    pingLeft,   \* until its commandTimeout
    timerLeft,  \* until setInterval fires
    ready,      \* onModuleInit is over: the application serves requests
    healthy,    \* RedisHealthService._healthy
    steady      \* history: for how long redis has been "up", or not been "up"

vars == <<redis, open, retryLeft, ping, pingLeft, timerLeft, ready, healthy, steady>>

(* How long the flag may be wrong: until the next PING has timed out; until *)
(* the PING after the last one that times out before the reconnect, or     *)
(* after the first one, whose outcome the interval waits for.              *)
DownNoticed == Interval + Timeout
UpNoticed   == Interval + (IF Retry > 2 * Timeout THEN Retry - Timeout ELSE Timeout)

(* steady is not counted any further than this.                            *)
SteadyMax == Interval + Timeout + Retry

TypeOK ==
    /\ redis \in {"up", "down", "hung"}
    /\ open \in BOOLEAN
    /\ retryLeft \in 0..Retry
    /\ ping \in {"none", "queued", "sent"}
    /\ pingLeft \in 0..Timeout
    /\ timerLeft \in 0..Interval
    /\ ready \in BOOLEAN
    /\ healthy \in BOOLEAN
    /\ steady \in 0..SteadyMax

(* The constructors have run: the client connects, onModuleInit has called *)
(* check for the first time.                                               *)
Init ==
    /\ redis \in {"up", "down", "hung"}
    /\ open = FALSE
    /\ retryLeft = 0
    /\ ping = "queued"
    /\ pingLeft = Timeout
    /\ timerLeft = 0
    /\ ready = FALSE
    /\ healthy = TRUE
    /\ steady = 0

-----------------------------------------------------------------------------
(* The service.                                                            *)

(* The first check is awaited before the interval is set.                  *)
CheckOver ==
    /\ ping' = "none"
    /\ pingLeft' = 0
    /\ ready' = TRUE
    /\ timerLeft' = IF ready THEN timerLeft ELSE Interval

TimerFires ==
    /\ ready /\ timerLeft = 0
    /\ ping = "none"
    /\ ping' = IF open THEN "sent" ELSE "queued"
    /\ pingLeft' = Timeout
    /\ timerLeft' = Interval
    /\ UNCHANGED <<redis, open, retryLeft, ready, healthy, steady>>

(* Variation: only the constructor raises the flag.                        *)
PingAnsweredSilently ==
    /\ ping = "sent" /\ open /\ redis = "up"
    /\ CheckOver
    /\ UNCHANGED <<redis, open, retryLeft, healthy, steady>>

PingAnswered ==
    /\ ping = "sent" /\ open /\ redis = "up"
    /\ healthy' = TRUE
    /\ CheckOver
    /\ UNCHANGED <<redis, open, retryLeft, steady>>

(* Variation: the catch clause does not lower the flag.                    *)
PingFailsSilently ==
    /\ ping # "none"
    /\ pingLeft = 0 \/ (ping = "sent" /\ ~open)
    /\ CheckOver
    /\ UNCHANGED <<redis, open, retryLeft, healthy, steady>>

(* The PING times out, in the offline queue or on its way, or loses its    *)
(* connection.                                                             *)
PingFails ==
    /\ ping # "none"
    /\ pingLeft = 0 \/ (ping = "sent" /\ ~open)
    /\ healthy' = FALSE
    /\ CheckOver
    /\ UNCHANGED <<redis, open, retryLeft, steady>>

(* The "error" handler of the constructor: an attempt to connect failed.   *)
ErrorEvent ==
    /\ ~open /\ retryLeft = 0 /\ redis = "down"
    /\ healthy' = FALSE
    /\ retryLeft' \in 0..Retry \ {0}
    /\ UNCHANGED <<redis, open, ping, pingLeft, timerLeft, ready, steady>>

-----------------------------------------------------------------------------
(* The connection and the server.                                          *)

(* The offline queue is sent as soon as the connection is there.           *)
Connected ==
    /\ ~open /\ retryLeft = 0 /\ redis = "up"
    /\ open' = TRUE
    /\ ping' = IF ping = "queued" THEN "sent" ELSE ping
    /\ UNCHANGED <<redis, retryLeft, pingLeft, timerLeft, ready, healthy, steady>>

Becomes(state) ==
    /\ redis' = state
    /\ steady' = IF redis = "up" <=> state = "up" THEN steady ELSE 0

(* A server that stops closes its connections.                             *)
ServerStops ==
    /\ redis # "down"
    /\ Becomes("down")
    /\ open' = FALSE
    /\ retryLeft' \in 0..Retry
    /\ UNCHANGED <<ping, pingLeft, timerLeft, ready, healthy>>

ServerHangs ==
    /\ redis = "up"
    /\ Becomes("hung")
    /\ UNCHANGED <<open, retryLeft, ping, pingLeft, timerLeft, ready, healthy>>

ServerRecovers ==
    /\ redis # "up"
    /\ Becomes("up")
    /\ UNCHANGED <<open, retryLeft, ping, pingLeft, timerLeft, ready, healthy>>

Less(n) == IF n > 0 THEN n - 1 ELSE 0

(* Nothing that is due waits for time to pass; a server that is up answers *)
(* within a tick.                                                          *)
Tick ==
    /\ ping # "none" => pingLeft > 0
    /\ ~(ping = "sent" /\ (redis = "up" \/ ~open))
    /\ ready => timerLeft > 0
    /\ ~open /\ redis # "hung" => retryLeft > 0
    /\ pingLeft' = Less(pingLeft)
    /\ timerLeft' = Less(timerLeft)
    /\ retryLeft' = Less(retryLeft)
    /\ steady' = IF steady < SteadyMax THEN steady + 1 ELSE steady
    /\ UNCHANGED <<redis, open, ping, ready, healthy>>

Next ==
    \/ TimerFires
    \/ PingAnswered
    \/ PingFails
    \/ ErrorEvent
    \/ Connected
    \/ ServerStops
    \/ ServerHangs
    \/ ServerRecovers
    \/ Tick

Spec == Init /\ [][Next]_vars

-----------------------------------------------------------------------------
(* Properties.                                                             *)

(* A Redis that has not answered for an interval and a timeout is not      *)
(* taken for healthy by any request, whether it refuses connections or     *)
(* swallows commands (redis-health.service.ts:20-25, 33-36, 43-53).        *)
DownIsNoticed ==
    ready /\ redis # "up" /\ steady > DownNoticed => ~healthy

(* A Redis that has been back for an interval and the longer of a timeout  *)
(* and a reconnect less a timeout is used again, whatever PINGs, timeouts  *)
(* and errors of its outage are still to arrive (redis-health.service.ts:44-47, README.md:102 "a    *)
(* probe every 5 seconds returns to it automatically").                    *)
UpIsNoticed ==
    ready /\ redis = "up" /\ steady > UpNoticed => healthy
=============================================================================
