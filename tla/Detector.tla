------------------------------ MODULE Detector ------------------------------
(***************************************************************************)
(* The alert gate of POST /errors: ErrorsController.create saves the row   *)
(* and awaits DetectorService.check, which counts the service's recent     *)
(* errors, and above the threshold lets ONE alert per cooldown through:    *)
(* under the Redis cooldown lock (then the alert is put on the BullMQ      *)
(* queue) or, when Redis is found down, under a cooldown kept in process   *)
(* memory (then the webhook is called directly).                           *)
(*                                                                         *)
(* A JavaScript handler runs to completion between two awaits, so each     *)
(* action is the code from one await to the next.  Redis executes a        *)
(* command at a moment of its own, before the client gives up on it or     *)
(* after.                                                                  *)
(***************************************************************************)
EXTENDS Naturals

CONSTANTS
    Instances,   \* backend processes behind the load balancer
    Services,    \* the `service` names the errors report
    Requests,    \* the POST /errors requests of a behaviour
    InstanceOf,  \* the process that serves a request
    ServiceOf,   \* the service a request reports
    Cooldown,    \* ALERT_COOLDOWN_SEC, in clock ticks
    Faults,      \* bound of the model: the faults, besides Redis being down
                 \* or slow, that happen: "db", "restart", "dataLoss"
    MaxTime      \* bound of the model: the clock stops here

ASSUME DetectorAssumption ==
    /\ InstanceOf \in [Requests -> Instances]
    /\ ServiceOf \in [Requests -> Services]
    /\ Cooldown \in Nat \ {0}     \* env.schema.ts: a positive integer
    /\ MaxTime \in Nat

VARIABLES
    clock,    \* Date.now(), and the clock Redis expires keys by
    redisUp,  \* the Redis server answers
    lock,     \* per service: when `cooldown:<service>` expires; 0 if never set
    healthy,  \* per process: RedisHealthService._healthy
    local,    \* per process and service: DetectorService.localCooldownUntil
    pc,       \* per request: the await its handler is at
    now,      \* per request: clock.now() when check began
    sawUp,    \* per request: the flag as check read it
    setCmd,   \* per request: its SET NX EX, seen from the server
    setAt,    \* per request: when the server executed that command
    addCmd,   \* per request: its queue.add, seen from the server
    out,      \* per request: what became of it
    probe,    \* per request: the time it passed to tryAcquireLocal
    past,     \* history: requests of an earlier life of their process
    wiped     \* history: requests whose lock went with Redis's data

shared  == <<clock, redisUp, lock, healthy, local>>
handler == <<pc, now, sawUp, out, probe>>
command == <<setCmd, setAt, addCmd>>
history == <<past, wiped>>
vars    == <<shared, handler, command, history>>

(***************************************************************************)
(* pc: "idle" until errors.create has stored the row or failed, "count"    *)
(* the Redis counter, "countDb" the DB counter, "cooldown" tryAcquire; at  *)
(* "enqueue" the response has been sent and only the catch handler of      *)
(* alerts.enqueue is still waiting.                                        *)
(***************************************************************************)
Awaits == {"idle", "count", "countDb", "cooldown", "enqueue", "done"}

(***************************************************************************)
(* out: "error" is a 500; "under" did not pass the threshold; "heldRedis"  *)
(* and "heldLocal" were silenced by a cooldown; "queued" and "direct" are  *)
(* alerts; "lost" died with its process.                                   *)
(***************************************************************************)
Outcomes == {"none", "error", "under", "heldRedis", "heldLocal", "queued", "direct", "lost"}

TypeOK ==
    /\ clock \in Nat
    /\ redisUp \in BOOLEAN
    /\ lock \in [Services -> Nat]
    /\ healthy \in [Instances -> BOOLEAN]
    /\ local \in [Instances -> [Services -> Nat]]
    /\ pc \in [Requests -> Awaits]
    /\ now \in [Requests -> Nat]
    /\ sawUp \in [Requests -> BOOLEAN]
    /\ setCmd \in [Requests -> {"none", "sent", "ok", "nil", "dropped"}]
    /\ setAt \in [Requests -> Nat]
    /\ addCmd \in [Requests -> {"none", "sent", "added", "dropped"}]
    /\ out \in [Requests -> Outcomes]
    /\ probe \in [Requests -> Nat]
    /\ past \in SUBSET Requests
    /\ wiped \in SUBSET Requests

(* onModuleInit has awaited a first PING, so the flag is up only if Redis is. *)
Init ==
    /\ clock = 1
    /\ redisUp \in BOOLEAN
    /\ lock = [s \in Services |-> 0]
    /\ healthy \in [Instances -> BOOLEAN]
    /\ \A i \in Instances : healthy[i] => redisUp
    /\ local = [i \in Instances |-> [s \in Services |-> 0]]
    /\ pc = [r \in Requests |-> "idle"]
    /\ now = [r \in Requests |-> 0]
    /\ sawUp = [r \in Requests |-> FALSE]
    /\ setCmd = [r \in Requests |-> "none"]
    /\ setAt = [r \in Requests |-> 0]
    /\ addCmd = [r \in Requests |-> "none"]
    /\ out = [r \in Requests |-> "none"]
    /\ probe = [r \in Requests |-> 0]
    /\ past = {}
    /\ wiped = {}

-----------------------------------------------------------------------------
(* The request handler.                                                    *)

GoTo(r, await) == pc' = [pc EXCEPT ![r] = await]

Finish(r, outcome) ==
    /\ GoTo(r, "done")
    /\ out' = [out EXCEPT ![r] = outcome]

(* Variation: the memory cooldown is never looked at.                      *)
LocalNeverHeld(i, s, at) == FALSE

(* tryAcquireLocal: a memory cooldown that ends after `at` refuses.        *)
LocalHeld(i, s, at) == local[i][s] > at

(* Variation: the memory cooldown ends one tick early.                     *)
LocalUntilShort(at) == (at + Cooldown) - 1

(* Variation: the sign of the cooldown is wrong.                           *)
LocalUntilBefore(at) == at - Cooldown

(* The memory cooldown starts at the caller's idea of the time.            *)
LocalUntil(at) == at + Cooldown

(* The path without Redis: the request that takes the memory cooldown      *)
(* calls the webhook directly, and does not wait for it.                   *)
Degraded(r, at) ==
    LET i == InstanceOf[r]
        s == ServiceOf[r]
    IN  /\ probe' = [probe EXCEPT ![r] = at]
        /\ \/ /\ LocalHeld(i, s, at)
              /\ Finish(r, "heldLocal")
              /\ UNCHANGED local
           \/ /\ ~LocalHeld(i, s, at)
              /\ local' = [local EXCEPT ![i][s] = LocalUntil(at)]
              /\ Finish(r, "direct")

(* What check does with the count; `over` is count > threshold.            *)
Judge(r, over) ==
    \/ /\ ~over
       /\ Finish(r, "under")
       /\ UNCHANGED <<local, probe, setCmd>>
    \/ /\ over /\ sawUp[r]
       /\ GoTo(r, "cooldown")
       /\ setCmd' = [setCmd EXCEPT ![r] = "sent"]
       /\ UNCHANGED <<local, probe, out>>
    \/ /\ over /\ ~sawUp[r]
       /\ Degraded(r, now[r])
       /\ UNCHANGED setCmd

(* errors.create rejects: a 500, and check is never called.                *)
SaveFails(r) ==
    /\ "db" \in Faults
    /\ pc[r] = "idle"
    /\ Finish(r, "error")
    /\ UNCHANGED <<shared, now, sawUp, probe, command, history>>

(* The row is stored and check begins: clock, flag and the choice of       *)
(* counter are read in one synchronous stretch.                            *)
StartCheck(r) ==
    /\ pc[r] = "idle"
    /\ now' = [now EXCEPT ![r] = clock]
    /\ sawUp' = [sawUp EXCEPT ![r] = healthy[InstanceOf[r]]]
    /\ GoTo(r, IF healthy[InstanceOf[r]] THEN "count" ELSE "countDb")
    /\ UNCHANGED <<shared, out, probe, command, history>>

RedisCounts(r, over) ==
    /\ pc[r] = "count"
    /\ redisUp
    /\ Judge(r, over)
    /\ UNCHANGED <<clock, redisUp, lock, healthy, now, sawUp, setAt, addCmd, history>>

(* An error or the 500 ms commandTimeout: count again in the database.     *)
RedisCountFails(r) ==
    /\ pc[r] = "count"
    /\ GoTo(r, "countDb")
    /\ UNCHANGED <<shared, now, sawUp, out, probe, command, history>>

DbCounts(r, over) ==
    /\ pc[r] = "countDb"
    /\ Judge(r, over)
    /\ UNCHANGED <<clock, redisUp, lock, healthy, now, sawUp, setAt, addCmd, history>>

(* The count query rejects, check rejects: a 500 for a row already stored. *)
DbCountFails(r) ==
    /\ "db" \in Faults
    /\ pc[r] = "countDb"
    /\ Finish(r, "error")
    /\ UNCHANGED <<shared, now, sawUp, probe, command, history>>

(* tryAcquire resolves true; the alert goes to the queue, not awaited.     *)
CooldownGranted(r) ==
    /\ pc[r] = "cooldown"
    /\ setCmd[r] = "ok"
    /\ GoTo(r, "enqueue")
    /\ addCmd' = [addCmd EXCEPT ![r] = "sent"]
    /\ UNCHANGED <<shared, now, sawUp, out, probe, setCmd, setAt, history>>

CooldownDenied(r) ==
    /\ pc[r] = "cooldown"
    /\ setCmd[r] = "nil"
    /\ Finish(r, "heldRedis")
    /\ UNCHANGED <<shared, now, sawUp, probe, command, history>>

(* Variation: a failed tryAcquire only logs that the alert is suppressed.  *)
CooldownFailsSuppressed(r) ==
    /\ pc[r] = "cooldown"
    /\ Finish(r, "heldLocal")
    /\ UNCHANGED <<shared, now, sawUp, probe, command, history>>

(* Variation: no commandTimeout, an unanswered tryAcquire stays pending.   *)
CooldownNeverFails(r) == FALSE

(* tryAcquire rejects (error or timeout), whatever the server did or will  *)
(* still do with the command: redisDown = true, with the `now` of the start. *)
CooldownFails(r) ==
    /\ pc[r] = "cooldown"
    /\ Degraded(r, now[r])
    /\ UNCHANGED <<clock, redisUp, lock, healthy, now, sawUp, command, history>>

EnqueueResolves(r) ==
    /\ pc[r] = "enqueue"
    /\ addCmd[r] = "added"
    /\ Finish(r, "queued")
    /\ UNCHANGED <<shared, now, sawUp, probe, command, history>>

(* The catch handler of enqueue, with a fresh clock.  A rejection may also *)
(* be the lost reply of an add that happened.                              *)
EnqueueRejects(r) ==
    /\ pc[r] = "enqueue"
    /\ Degraded(r, clock)
    /\ addCmd' = [addCmd EXCEPT ![r] = IF @ = "sent" THEN "dropped" ELSE @]
    /\ UNCHANGED <<clock, redisUp, lock, healthy, now, sawUp, setCmd, setAt, history>>

-----------------------------------------------------------------------------
(* Redis, seen through the commands above.                                 *)

(* Variation: SET without NX.                                              *)
LockNeverHeld(s) == FALSE

(* EX: the key is there until its expiry.                                  *)
LockHeld(s) == lock[s] > clock

(* SET NX EX, executed by the server: possibly after the client gave up.   *)
ExecuteSet(r) ==
    LET s == ServiceOf[r]
    IN  /\ redisUp
        /\ setCmd[r] = "sent"
        /\ setAt' = [setAt EXCEPT ![r] = clock]
        /\ \/ /\ LockHeld(s)
              /\ setCmd' = [setCmd EXCEPT ![r] = "nil"]
              /\ UNCHANGED lock
           \/ /\ ~LockHeld(s)
              /\ setCmd' = [setCmd EXCEPT ![r] = "ok"]
              /\ lock' = [lock EXCEPT ![s] = clock + Cooldown]
    /\ UNCHANGED <<clock, redisUp, healthy, local, handler, addCmd, history>>

(* The add of a job, over BullMQ's own connection.                         *)
ExecuteAdd(r) ==
    /\ redisUp
    /\ addCmd[r] = "sent"
    /\ addCmd' = [addCmd EXCEPT ![r] = "added"]
    /\ UNCHANGED <<shared, handler, setCmd, setAt, history>>

(* The connection breaks: commands sent and not answered are not sent      *)
(* again (autoResendUnfulfilledCommands: false).                           *)
RedisDown ==
    /\ redisUp
    /\ redisUp' = FALSE
    /\ setCmd' = [r \in Requests |-> IF setCmd[r] = "sent" THEN "dropped" ELSE setCmd[r]]
    /\ UNCHANGED <<clock, lock, healthy, local, handler, setAt, addCmd, history>>

(* Redis comes back without the locks of the services in S (no volume).    *)
RedisBack(S) ==
    /\ ~redisUp
    /\ S # {} => "dataLoss" \in Faults
    /\ redisUp' = TRUE
    /\ lock' = [s \in Services |-> IF s \in S THEN 0 ELSE lock[s]]
    /\ wiped' = wiped \union {r \in Requests : ServiceOf[r] \in S /\ setCmd[r] = "ok"}
    /\ UNCHANGED <<clock, healthy, local, handler, command, past>>

(* RedisHealthService: an error event, or a PING that fails or times out.  *)
FlagFalls(i) ==
    /\ healthy[i]
    /\ healthy' = [healthy EXCEPT ![i] = FALSE]
    /\ UNCHANGED <<clock, redisUp, lock, local, handler, command, history>>

(* RedisHealthService: a PING that is answered.                            *)
FlagRises(i) ==
    /\ redisUp /\ ~healthy[i]
    /\ healthy' = [healthy EXCEPT ![i] = TRUE]
    /\ UNCHANGED <<clock, redisUp, lock, local, handler, command, history>>

-----------------------------------------------------------------------------
(* A process dies and starts again: its handlers and its memory are gone,  *)
(* the commands it had sent may still reach Redis.                         *)
Restart(i, up) ==
    LET begun == {r \in Requests : InstanceOf[r] = i /\ pc[r] # "idle"}
    IN  /\ "restart" \in Faults
        /\ up => redisUp
        /\ healthy' = [healthy EXCEPT ![i] = up]
        /\ local' = [local EXCEPT ![i] = [s \in Services |-> 0]]
        /\ pc' = [r \in Requests |-> IF r \in begun THEN "done" ELSE pc[r]]
        /\ out' = [r \in Requests |->
                      IF r \in begun /\ pc[r] # "done" THEN "lost" ELSE out[r]]
        /\ past' = past \union begun
        /\ UNCHANGED <<clock, redisUp, lock, now, sawUp, probe, command, wiped>>

Tick ==
    /\ clock < MaxTime
    /\ clock' = clock + 1
    /\ UNCHANGED <<redisUp, lock, healthy, local, handler, command, history>>

(* What settles an await the response depends on.                          *)
Settle(r) ==
    \/ \E over \in BOOLEAN : RedisCounts(r, over)
    \/ RedisCountFails(r)
    \/ \E over \in BOOLEAN : DbCounts(r, over)
    \/ DbCountFails(r)
    \/ CooldownGranted(r)
    \/ CooldownDenied(r)
    \/ CooldownFails(r)

Next ==
    \/ \E r \in Requests :
          \/ SaveFails(r)
          \/ StartCheck(r)
          \/ Settle(r)
          \/ EnqueueResolves(r)
          \/ EnqueueRejects(r)
          \/ ExecuteSet(r)
          \/ ExecuteAdd(r)
    \/ RedisDown
    \/ \E S \in SUBSET Services : RedisBack(S)
    \/ \E i \in Instances :
          \/ FlagFalls(i)
          \/ FlagRises(i)
          \/ \E up \in BOOLEAN : Restart(i, up)
    \/ Tick

Spec == Init /\ [][Next]_vars

(* A Redis command is settled by its reply or by its 500 ms timeout, and   *)
(* the database answers or fails: every await of the response settles.     *)
(* Nothing is assumed of the queue, of Redis or of the flag.               *)
FairSpec == Spec /\ \A r \in Requests : WF_vars(Settle(r))

-----------------------------------------------------------------------------
(* Properties.                                                             *)

SameProcess(q, r) == InstanceOf[q] = InstanceOf[r] /\ ServiceOf[q] = ServiceOf[r]

Apart(x, y) == x + Cooldown <= y \/ y + Cooldown <= x

(* While a process lives, its direct alerts for one service are a whole    *)
(* cooldown apart, by the times their requests presented, although those   *)
(* requests present stale times and in any order (detector.service.ts:75,  *)
(* 85, 101-105).                                                           *)
DirectAlertsSpaced ==
    \A q, r \in Requests :
        /\ q # r /\ SameProcess(q, r)
        /\ q \notin past /\ r \notin past
        /\ out[q] = "direct" /\ out[r] = "direct"
        => Apart(probe[q], probe[r])

(* Across all processes, the alerts of one service handed to the queue     *)
(* were let through a whole cooldown apart, unless Redis lost a lock in    *)
(* between (cooldown.service.ts:23-32, detector.service.ts:64, 79-91).     *)
QueuedAlertsSpaced ==
    \A q, r \in Requests :
        /\ q # r /\ ServiceOf[q] = ServiceOf[r]
        /\ q \notin wiped /\ r \notin wiped
        /\ addCmd[q] # "none" /\ addCmd[r] # "none"
        => Apart(setAt[q], setAt[r])

(* p sent the alert whose memory cooldown refused r.                       *)
HeldLocallyBy(r, p) ==
    /\ SameProcess(p, r)
    /\ out[p] = "direct"
    /\ probe[r] < probe[p] + Cooldown

(* q took the lock that refused r.                                         *)
HeldInRedisBy(r, q) ==
    /\ ServiceOf[q] = ServiceOf[r]
    /\ setCmd[q] = "ok"
    /\ setAt[q] <= setAt[r] /\ setAt[r] < setAt[q] + Cooldown

(* q's own alert is out or under way, died with its process, or was        *)
(* itself refused for an alert that went out.                              *)
AnswersFor(q) ==
    \/ pc[q] # "done"
    \/ out[q] \in {"queued", "direct", "lost"}
    \/ out[q] = "heldLocal" /\ \E p \in Requests : HeldLocallyBy(q, p)

(* No request above the threshold is silenced by a lock nobody answers     *)
(* for: following who holds it leads, in at most two steps, to an alert    *)
(* sent, queued or still being made, even when the client took a lock it   *)
(* never heard of (detector.service.ts:62-92).                             *)
SilenceTracesToAlert ==
    \A r \in Requests :
        /\ out[r] = "heldRedis" =>
              \E q \in Requests : HeldInRedisBy(r, q) /\ AnswersFor(q)
        /\ out[r] = "heldLocal" =>
              \E p \in Requests : HeldLocallyBy(r, p)

(* While its process lives, the end of a memory cooldown never moves back, *)
(* whatever the order in which requests with older clocks reach it         *)
(* (detector.service.ts:101-105).                                          *)
LocalNeverShrinks ==
    [][\A i \in Instances, s \in Services :
          local'[i][s] >= local[i][s] \/ local'[i][s] = 0]_vars

(* A request is answered although the queue, Redis and the flag may do     *)
(* anything or nothing (errors.controller.ts:24-31,                        *)
(* detector.service.ts:81, redis.service.ts:18).                           *)
ResponseSent ==
    \A r \in Requests : pc[r] # "idle" ~> pc[r] \in {"enqueue", "done"}

(* docs/plans/2026-09-30-redis-resilience-and-benchmark.md:179 says of a   *)
(* SET NX that ran on the server while the client took it for failed that  *)
(* "the alert goes out in this case too" (detector.service.ts:67: "so it   *)
(* must be sent directly here").                                           *)
TimedOutLockStillAlerts ==
    \A r \in Requests :
        setCmd[r] = "ok" /\ pc[r] = "done" /\ addCmd[r] = "none"
            => out[r] \in {"direct", "lost"}
=============================================================================
