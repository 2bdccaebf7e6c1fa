--------------------------- MODULE SlidingWindow ---------------------------
(***************************************************************************)
(* How a request's errors are counted, for one service: CounterSelector    *)
(* takes the Redis sorted set `count:<service>` or, without Redis, the     *)
(* rows of error_logs.  A count is modelled by the set of requests it      *)
(* counts, of which the code sees the size.                                *)
(*                                                                         *)
(* Requests pass their own time `at` with the MULTI, and the server may    *)
(* execute the MULTIs in any order, late, or after the client gave up.     *)
(***************************************************************************)
EXTENDS Naturals

CONSTANTS
    Requests,  \* the POST /errors requests of one service
    Window,    \* ALERT_WINDOW_MS, in clock ticks
    Patience,  \* commandTimeout, in clock ticks
    Faults,    \* bound of the model: the faults that happen: "redis" (Redis
               \* fails, or the flag says so), "dataLoss"
    FaultsUntil, \* bound of the model: no fault starts later than this, and
               \* after one the clock goes no further
    MaxTime    \* bound of the model: the clock stops here

(* env.schema.ts: any positive integer may be the window, even one below   *)
(* the 500 ms of commandTimeout.                                           *)
ASSUME WindowAssumption ==
    /\ Window \in Nat \ {0}
    /\ Patience \in Nat
    /\ FaultsUntil \in Nat /\ MaxTime \in Nat

VARIABLES
    clock,    \* Date.now(), the clock of the database and of Redis
    redisUp,  \* the Redis server answers
    zset,     \* the members of the sorted set; the score of r is at[r]
    expiry,   \* when the key expires
    pc,       \* per request: the await its handler is at
    created,  \* per request: created_at of its row; 0 before it is stored
    at,       \* per request: the time it passes to record
    multi,    \* per request: its MULTI, seen from the server
    answer,   \* per request: the requests its last count counted
    path,     \* per request: which counter its count came from
    log,      \* history: requests executed since Redis last lost its data
    before,   \* per request, history: the log when its MULTI was executed
    ranAt     \* per request, history: when its MULTI was executed

shared  == <<clock, redisUp, zset, expiry>>
handler == <<pc, created, at, answer, path>>
history == <<log, before, ranAt>>
vars    == <<shared, handler, multi, history>>

TypeOK ==
    /\ clock \in Nat
    /\ redisUp \in BOOLEAN
    /\ zset \in SUBSET Requests
    /\ expiry \in Nat
    /\ pc \in [Requests -> {"idle", "saved", "redis", "db", "done"}]
    /\ created \in [Requests -> Nat]
    /\ at \in [Requests -> Nat]
    /\ multi \in [Requests -> {"none", "sent", "run", "dropped"}]
    /\ answer \in [Requests -> SUBSET Requests]
    /\ path \in [Requests -> {"none", "redis", "db"}]
    /\ log \in SUBSET Requests
    /\ before \in [Requests -> SUBSET Requests]
    /\ ranAt \in [Requests -> Nat]

Init ==
    /\ clock = 1
    /\ redisUp = TRUE
    /\ zset = {}
    /\ expiry = 0
    /\ pc = [r \in Requests |-> "idle"]
    /\ created = [r \in Requests |-> 0]
    /\ at = [r \in Requests |-> 0]
    /\ multi = [r \in Requests |-> "none"]
    /\ answer = [r \in Requests |-> {}]
    /\ path = [r \in Requests |-> "none"]
    /\ log = {}
    /\ before = [r \in Requests |-> {}]
    /\ ranAt = [r \in Requests |-> 0]

-----------------------------------------------------------------------------
(* The two ways to count.                                                  *)

(* Variation: the key lives for one window only.                           *)
KeyLivesOneWindow(now) == now + Window

(* Variation: the sign of the window is wrong.                             *)
KeyLivesNever(now) == now - Window

(* PEXPIRE with twice the window.                                          *)
KeyLivesUntil(now) == now + 2 * Window

(* Variation: the trim takes a whole tick more than the window leaves out. *)
InWindowShort(score, t) == t + 1 < score + Window

(* A score of exactly t - Window is out: the trim is inclusive, the query  *)
(* of the database exclusive.                                              *)
InWindow(score, t) == t < score + Window

(* The sorted set as the next command finds it.                            *)
Members == IF clock < expiry THEN zset ELSE {}

(* ZADD and ZREMRANGEBYSCORE of r; ZCARD is the size of what is left.      *)
Trimmed(r) == {e \in Members \union {r} : InWindow(at[e], at[r])}

(* SELECT COUNT of the rows stored by now.                                 *)
RowsInWindow(r) == {e \in Requests : created[e] > 0 /\ InWindow(created[e], at[r])}

-----------------------------------------------------------------------------
(* The request handler.                                                    *)

RedisMayFail == "redis" \in Faults /\ clock <= FaultsUntil

GoTo(r, await) == pc' = [pc EXCEPT ![r] = await]

(* errors.create: the row is there before anything is counted.             *)
Save(r) ==
    /\ pc[r] = "idle"
    /\ created' = [created EXCEPT ![r] = clock]
    /\ GoTo(r, "saved")
    /\ UNCHANGED <<shared, at, answer, path, multi, history>>

(* check and record begin.  The health flag may be stale either way.       *)
Start(r, healthy) ==
    /\ pc[r] = "saved"
    /\ ~healthy => RedisMayFail
    /\ at' = [at EXCEPT ![r] = clock]
    /\ GoTo(r, IF healthy THEN "redis" ELSE "db")
    /\ multi' = [multi EXCEPT ![r] = IF healthy THEN "sent" ELSE @]
    /\ UNCHANGED <<shared, created, answer, path, history>>

(* The reply of the MULTI comes within commandTimeout.                     *)
RedisAnswers(r) ==
    /\ pc[r] = "redis" /\ multi[r] = "run"
    /\ clock <= at[r] + Patience
    /\ path' = [path EXCEPT ![r] = "redis"]
    /\ GoTo(r, "done")
    /\ UNCHANGED <<shared, created, at, answer, multi, history>>

(* An error or the timeout: the selector counts again in the database.     *)
RedisFails(r) ==
    /\ RedisMayFail
    /\ pc[r] = "redis"
    /\ GoTo(r, "db")
    /\ UNCHANGED <<shared, created, at, answer, path, multi, history>>

DbAnswers(r) ==
    /\ pc[r] = "db"
    /\ answer' = [answer EXCEPT ![r] = RowsInWindow(r)]
    /\ path' = [path EXCEPT ![r] = "db"]
    /\ GoTo(r, "done")
    /\ UNCHANGED <<shared, created, at, multi, history>>

-----------------------------------------------------------------------------
(* Redis.                                                                  *)

(* The MULTI is executed at once; the reply of one the client no longer    *)
(* waits for goes nowhere.                                                 *)
Execute(r) ==
    /\ redisUp
    /\ multi[r] = "sent"
    /\ multi' = [multi EXCEPT ![r] = "run"]
    /\ zset' = Trimmed(r)
    /\ expiry' = KeyLivesUntil(clock)
    /\ answer' = [answer EXCEPT ![r] = IF pc[r] = "redis" THEN Trimmed(r) ELSE @]
    /\ log' = log \union {r}
    /\ before' = [before EXCEPT ![r] = log \union {r}]
    /\ ranAt' = [ranAt EXCEPT ![r] = clock]
    /\ UNCHANGED <<clock, redisUp, pc, created, at, path>>

RedisDown ==
    /\ RedisMayFail
    /\ redisUp
    /\ redisUp' = FALSE
    /\ multi' = [r \in Requests |-> IF multi[r] = "sent" THEN "dropped" ELSE multi[r]]
    /\ UNCHANGED <<clock, zset, expiry, handler, history>>

RedisBack(lost) ==
    /\ ~redisUp
    /\ lost => "dataLoss" \in Faults
    /\ redisUp' = TRUE
    /\ zset' = IF lost THEN {} ELSE zset
    /\ log' = IF lost THEN {} ELSE log
    /\ UNCHANGED <<clock, expiry, handler, multi, before, ranAt>>

(* No fault has left a trace.                                              *)
Faultless ==
    /\ redisUp
    /\ log = {r \in Requests : multi[r] = "run"}
    /\ \A r \in Requests :
          multi[r] # "dropped" /\ pc[r] # "db" /\ path[r] # "db"

Tick ==
    /\ clock < (IF Faultless THEN MaxTime ELSE FaultsUntil)
    /\ clock' = clock + 1
    /\ UNCHANGED <<redisUp, zset, expiry, handler, multi, history>>

Next ==
    \/ \E r \in Requests :
          \/ Save(r)
          \/ \E healthy \in BOOLEAN : Start(r, healthy)
          \/ RedisAnswers(r)
          \/ RedisFails(r)
          \/ DbAnswers(r)
          \/ Execute(r)
    \/ RedisDown
    \/ \E lost \in BOOLEAN : RedisBack(lost)
    \/ Tick

Spec == Init /\ [][Next]_vars

-----------------------------------------------------------------------------
(* Properties.                                                             *)

(* A count that came from Redis counts only requests within the window of  *)
(* its own time, and every request executed before it that is within the   *)
(* window of all of them: neither a newer request overtaking it, nor the   *)
(* expiry of the key, nor commands executed for nobody, take more          *)
(* (redis-sliding-window.counter.ts:27-37).                                *)
CountsTheWindow ==
    \A r \in Requests : path[r] = "redis" =>
        /\ \A e \in answer[r] : e \in before[r] /\ at[r] < at[e] + Window
        /\ \A e \in before[r] :
              (\A f \in before[r] : at[f] < at[e] + Window) => e \in answer[r]

(* A burst: its requests have been counted, and no request counted so far  *)
(* is a window or more later than one of them.                             *)
Burst(B) ==
    /\ \A e \in B : path[e] # "none"
    /\ \A e \in B, f \in Requests : pc[f] # "idle" => at[f] < created[e] + Window

(* However its requests interleave, a burst counted on one path shows in   *)
(* full in the count of one of them: with it the threshold is noticed      *)
(* (counter.selector.ts:23-32, detector.service.ts:46-49).                 *)
BurstSeen ==
    \A B \in (SUBSET Requests) \ {{}} :
        /\ Burst(B)
        /\ \/ \A e \in B : path[e] = "db"
           \/ (\A e \in B : path[e] = "redis") /\ B \subseteq log
        => \E r \in B : B \subseteq answer[r]
=============================================================================
