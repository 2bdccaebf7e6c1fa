---------------------------- MODULE AlertSystem ----------------------------
(***************************************************************************)
(* The alert path as a whole: the gate of Detector hands alerts to the     *)
(* delivery of AlertDelivery, in the same processes and with the same      *)
(* Redis.  A request that passes the gate is an alert on the queue, a      *)
(* direct alert, or both (an add that took place and was rejected).        *)
(*                                                                         *)
(* Every step of the gate and of delivery is one here; steps they share    *)
(* are taken together: a request that decides on a direct alert starts its *)
(* dispatch, an add that Redis executes is a job, a process dies as a      *)
(* whole, and without Redis no job moves.                                  *)
(***************************************************************************)
EXTENDS Detector

CONSTANTS
    Webhook,         \* of AlertDelivery, as are the following
    MaxAttempts,
    MaxStalls,
    MaxMishaps,
    DeliveryFaults   \* bound of the model: AlertDelivery's Faults

VARIABLES stage, via, owner, attempts, stalls, rows, failures,
          received, accepted, unheard, mishaps

OnQueue(r)  == <<r, "queue">>
Directly(r) == <<r, "direct">>

Alerts == Requests \X {"queue", "direct"}

Delivery == INSTANCE AlertDelivery WITH Workers <- Instances, Faults <- DeliveryFaults

ASSUME SystemAssumption ==
    /\ MaxAttempts \in Nat \ {0}
    /\ MaxStalls \in Nat
    /\ MaxMishaps \in Nat
    /\ Webhook \in BOOLEAN

deliveryVars == <<stage, via, owner, attempts, stalls, rows, failures,
                  received, accepted, unheard, mishaps>>
systemVars   == <<vars, deliveryVars>>

SystemInit ==
    /\ Init
    /\ Delivery!Init
    /\ \A r \in Requests : owner[OnQueue(r)] = InstanceOf[r] /\ owner[Directly(r)] = InstanceOf[r]

-----------------------------------------------------------------------------
(* What gate and delivery do together.                                     *)

(* Variation: the memory cooldown is taken, but nothing is sent.           *)
DirectStaysIn(r) == UNCHANGED deliveryVars

(* A handler that decides for a direct alert calls dispatchDirect.         *)
DirectGoesOut(r) ==
    IF out'[r] = "direct"
    THEN Delivery!DispatchDirect(Directly(r), InstanceOf[r])
    ELSE UNCHANGED deliveryVars

Answers(r) == Settle(r) /\ DirectGoesOut(r)

AddRejected(r) == EnqueueRejects(r) /\ DirectGoesOut(r)

AddExecuted(r) == ExecuteAdd(r) /\ Delivery!Enqueue(OnQueue(r))

ProcessDies(i, up, S) == Restart(i, up) /\ Delivery!Stop(i, S)

(* A process that an unhandled rejection of onFailed ends dies as well.    *)
RecordEndsProcess(a, up, S) == Restart(owner[a], up) /\ Delivery!QueueRecordFails(a, S)

-----------------------------------------------------------------------------
(* What one of them does alone.                                            *)

GateAlone ==
    /\ \/ \E r \in Requests :
             SaveFails(r) \/ StartCheck(r) \/ EnqueueResolves(r) \/ ExecuteSet(r)
       \/ RedisDown
       \/ RedisBack({})
       \/ \E i \in Instances : FlagFalls(i) \/ FlagRises(i)
       \/ Tick
    /\ UNCHANGED deliveryVars

(* Steps of a job that are commands to Redis.                              *)
NeedsRedis(a) == stage[a] \in {"waiting", "acking", "failing"}

Runs(a) ==
    /\ NeedsRedis(a) => redisUp
    /\ Delivery!Run(a) \/ \E w \in Instances : Delivery!Take(a, w)
    /\ UNCHANGED vars

JobComesBack(a) == redisUp /\ Delivery!MoveFails(a) /\ UNCHANGED vars

SystemNext ==
    \/ \E r \in Requests : Answers(r) \/ AddRejected(r) \/ AddExecuted(r)
    \/ GateAlone
    \/ \E i \in Instances, up \in BOOLEAN :
          \E S \in SUBSET Delivery!InFlight(i) : ProcessDies(i, up, S)
    \/ \E a \in Alerts, up \in BOOLEAN :
          \E S \in SUBSET Delivery!InFlight(owner[a]) : RecordEndsProcess(a, up, S)
    \/ \E a \in Alerts : Runs(a) \/ JobComesBack(a)

SystemSpec == SystemInit /\ [][SystemNext]_systemVars

(* Handlers and dispatches go on (Detector, AlertDelivery).  An add is     *)
(* executed or rejected in the end: ioredis gives a command up after       *)
(* twenty failed reconnects.                                               *)
SystemFairSpec ==
    /\ SystemSpec
    /\ \A r \in Requests :
          /\ WF_systemVars(Answers(r))
          /\ WF_systemVars(AddRejected(r) \/ AddExecuted(r))
    /\ \A a \in Alerts : WF_systemVars(Runs(a))

-----------------------------------------------------------------------------
(* Properties.                                                             *)

(* The alerts of p itself.                                                 *)
Own(p) == {OnQueue(p), Directly(p)}

(* Who stands behind a request: itself, the one that silenced it, or the   *)
(* one that silenced that one.                                             *)
Behind(r) ==
    {r} \union {p \in Requests :
        \/ HeldLocallyBy(r, p)
        \/ HeldInRedisBy(r, p)
        \/ \E q \in Requests : HeldInRedisBy(r, q) /\ HeldLocallyBy(q, p)}

Over(r) == out[r] \in {"heldRedis", "heldLocal", "queued", "direct"}

(* One of those requests is still at work, its alert has been handed to    *)
(* delivery, or its process died.                                          *)
Pending(p) ==
    \/ pc[p] # "done"
    \/ out[p] = "lost"
    \/ \E a \in Own(p) : stage[a] # "new"

(* An error above the threshold never vanishes between the gate and        *)
(* delivery: if its own alert was not handed over, that of the request     *)
(* whose cooldown silenced it was, or is about to be                       *)
(* (detector.service.ts:62-92, alerts.service.ts:31-85).                   *)
NoneVanishes == \A r \in Requests : Over(r) => \E p \in Behind(r) : Pending(p)

(* ... and in the end one of those alerts is an entry of `alerts` or of    *)
(* `alert_failures`, if Redis is back for good and no process died and no  *)
(* record failed (README.md:94-104, fail-open).                            *)
EveryIncidentIsEntered ==
    <>[]redisUp =>
        \A r \in Requests :
            Over(r) ~> \/ \E p \in Behind(r) : \E a \in Own(p) : rows[a] + failures[a] > 0
                       \/ mishaps > 0

(* docs/plans/2026-09-30-redis-resilience-and-benchmark.md:358 gives the    *)
(* reason why a rejected add is not followed by a direct alert while the   *)
(* memory cooldown is held: "an alert has already gone out within the last *)
(* cooldown".  So the alert that took it has not failed by then.           *)
HeldMeansSent ==
    [][\A r \in Requests :
          pc[r] = "enqueue" /\ out'[r] = "heldLocal" =>
              \E p \in Requests :
                  HeldLocallyBy(r, p)' /\ failures[Directly(p)] = 0]_systemVars
=============================================================================
