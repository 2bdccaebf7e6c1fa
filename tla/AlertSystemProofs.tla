------------------------- MODULE AlertSystemProofs -------------------------
(* Theorems about AlertSystem, for every set of processes, services and    *)
(* requests and every bound of delivery.                                   *)
EXTENDS AlertSystem, DetectorProofs

(* Alerts are somewhere, in the hands of some process.                     *)
PlacesOK ==
    /\ stage \in [Alerts -> Delivery!Stages]
    /\ owner \in [Alerts -> Instances]

(* What the gate has decided is what delivery has been handed.             *)
Handed(r) ==
    /\ out[r] = "direct" <=> stage[Directly(r)] # "new"
    /\ addCmd[r] = "added" <=> stage[OnQueue(r)] # "new"
    /\ out[r] = "queued" => addCmd[r] = "added"
    /\ pc[r] \notin {"enqueue", "done"} => addCmd[r] = "none"

HandedOver == \A r \in Requests : Handed(r)

(* No alert that delivery has is new again, none is taken from nowhere.    *)
SameNew == \A a \in Alerts : stage'[a] = "new" <=> stage[a] = "new"

-----------------------------------------------------------------------------
(* Delivery's own steps.                                                   *)
LEMMA WorkStep ==
    ASSUME PlacesOK, NEW a \in Alerts,
           \/ Delivery!Run(a)
           \/ \E w \in Instances : Delivery!Take(a, w)
           \/ Delivery!MoveFails(a)
    PROVE  PlacesOK' /\ SameNew
<1> USE DEF PlacesOK, SameNew, Delivery!Stages, Delivery!GoTo
<1>1. CASE Delivery!PostAccepted(a)
  BY <1>1 DEF Delivery!PostAccepted
<1>2. ASSUME NEW got \in BOOLEAN, Delivery!PostFails(a, got)
      PROVE  PlacesOK' /\ SameNew
  BY <1>2 DEF Delivery!PostFails, Delivery!Rejected
<1>3. CASE Delivery!InsertOk(a)
  BY <1>3 DEF Delivery!InsertOk
<1>4. ASSUME NEW happened \in BOOLEAN, Delivery!InsertFails(a, happened)
      PROVE  PlacesOK' /\ SameNew
  BY <1>4 DEF Delivery!InsertFails, Delivery!Rejected
<1>5. CASE Delivery!Ack(a)
  BY <1>5 DEF Delivery!Ack
<1>6. CASE Delivery!JobFails(a)
  BY <1>6 DEF Delivery!JobFails
<1>7. CASE Delivery!RecordOk(a)
  BY <1>7 DEF Delivery!RecordOk
<1>8. ASSUME NEW happened \in BOOLEAN, Delivery!DirectRecordFails(a, happened)
      PROVE  PlacesOK' /\ SameNew
  BY <1>8 DEF Delivery!DirectRecordFails
<1>9. ASSUME NEW w \in Instances, Delivery!Take(a, w) PROVE PlacesOK' /\ SameNew
  BY <1>9 DEF Delivery!Take, Delivery!Dispatching
<1>10. CASE Delivery!MoveFails(a)
  BY <1>10 DEF Delivery!MoveFails
<1>11. QED
  BY <1>1, <1>2, <1>3, <1>4, <1>5, <1>6, <1>7, <1>8, <1>9, <1>10 DEF Delivery!Run

LEMMA DeathStep ==
    ASSUME PlacesOK, NEW i \in Instances, NEW S, Delivery!Die(i, S)
    PROVE  PlacesOK' /\ SameNew
  BY DEF PlacesOK, SameNew, Delivery!Stages, Delivery!Die, Delivery!InFlight, Delivery!Busy

(* What is handed over is handed over once.                                *)
LEMMA HandOverStep ==
    ASSUME PlacesOK, NEW r \in Requests, NEW i \in Instances,
           \/ Delivery!DispatchDirect(Directly(r), i)
           \/ Delivery!Enqueue(OnQueue(r))
    PROVE  PlacesOK'
  BY DEF PlacesOK, Delivery!Stages, Delivery!DispatchDirect, Delivery!Enqueue,
         Delivery!GoTo, Delivery!Dispatching, Alerts, Directly, OnQueue

LEMMA PlacesStep == PlacesOK /\ [SystemNext]_systemVars => PlacesOK'
<1> SUFFICES ASSUME PlacesOK, [SystemNext]_systemVars PROVE PlacesOK'
  OBVIOUS
<1> USE DetectorAssumption DEF DetectorAssumption
<1>0. ASSUME UNCHANGED deliveryVars PROVE PlacesOK'
  BY <1>0 DEF deliveryVars, PlacesOK
<1>1. ASSUME NEW r \in Requests, Answers(r) \/ AddRejected(r) \/ AddExecuted(r)
      PROVE  PlacesOK'
  BY <1>0, <1>1, HandOverStep DEF Answers, AddRejected, AddExecuted, DirectGoesOut
<1>2. CASE GateAlone
  BY <1>0, <1>2 DEF GateAlone
<1>3. ASSUME NEW i \in Instances, NEW up \in BOOLEAN,
             NEW S \in SUBSET Delivery!InFlight(i), ProcessDies(i, up, S)
      PROVE  PlacesOK'
  BY <1>3, DeathStep DEF ProcessDies, Delivery!Stop
<1>4. ASSUME NEW a \in Alerts, NEW up \in BOOLEAN,
             NEW S \in SUBSET Delivery!InFlight(owner[a]), RecordEndsProcess(a, up, S)
      PROVE  PlacesOK'
  <2>1. owner[a] \in Instances
    BY DEF PlacesOK
  <2>2. QED
    BY <1>4, <2>1, DeathStep DEF RecordEndsProcess, Delivery!QueueRecordFails
<1>5. ASSUME NEW a \in Alerts, Runs(a) \/ JobComesBack(a) PROVE PlacesOK'
  BY <1>5, WorkStep DEF Runs, JobComesBack
<1>6. CASE UNCHANGED systemVars
  BY <1>0, <1>6 DEF systemVars
<1>7. QED
  BY <1>1, <1>2, <1>3, <1>4, <1>5, <1>6 DEF SystemNext

LEMMA Places == SystemSpec => []PlacesOK
<1>1. SystemInit => PlacesOK
  BY DEF SystemInit, Delivery!Init, PlacesOK, Delivery!Stages
<1>2. QED
  BY <1>1, PlacesStep, PTL DEF SystemSpec

-----------------------------------------------------------------------------
(* The whole implements the gate and delivery.                             *)
LEMMA GateStep == PlacesOK /\ [SystemNext]_systemVars => [Next]_vars
<1> SUFFICES ASSUME PlacesOK, [SystemNext]_systemVars PROVE [Next]_vars
  OBVIOUS
<1>1. ASSUME NEW r \in Requests, Answers(r) \/ AddRejected(r) \/ AddExecuted(r)
      PROVE Next
  BY <1>1 DEF Answers, AddRejected, AddExecuted, Next
<1>2. CASE GateAlone
  <2>1. {} \in SUBSET Services
    OBVIOUS
  <2>2. QED
    BY <1>2, <2>1 DEF GateAlone, Next
<1>3. ASSUME NEW i \in Instances, NEW up \in BOOLEAN,
             NEW S \in SUBSET Delivery!InFlight(i), ProcessDies(i, up, S)
      PROVE Next
  BY <1>3 DEF ProcessDies, Next
<1>4. ASSUME NEW a \in Alerts, NEW up \in BOOLEAN,
             NEW S \in SUBSET Delivery!InFlight(owner[a]), RecordEndsProcess(a, up, S)
      PROVE Next
  <2>1. owner[a] \in Instances
    BY DEF PlacesOK
  <2>2. QED
    BY <1>4, <2>1 DEF RecordEndsProcess, Next
<1>5. ASSUME NEW a \in Alerts, Runs(a) \/ JobComesBack(a) PROVE UNCHANGED vars
  BY <1>5 DEF Runs, JobComesBack
<1>6. CASE UNCHANGED systemVars
  BY <1>6 DEF systemVars
<1>7. QED
  BY <1>1, <1>2, <1>3, <1>4, <1>5, <1>6 DEF SystemNext

LEMMA DeliveryStep ==
    PlacesOK /\ [SystemNext]_systemVars => [Delivery!Next]_(Delivery!vars)
<1> SUFFICES ASSUME PlacesOK, [SystemNext]_systemVars
             PROVE  [Delivery!Next]_(Delivery!vars)
  OBVIOUS
<1> USE DetectorAssumption DEF DetectorAssumption
<1>0. ASSUME UNCHANGED deliveryVars PROVE UNCHANGED Delivery!vars
  BY <1>0 DEF deliveryVars, Delivery!vars, Delivery!tables, Delivery!history
<1>1. ASSUME NEW r \in Requests, Answers(r) \/ AddRejected(r) \/ AddExecuted(r)
      PROVE  [Delivery!Next]_(Delivery!vars)
  <2>1. Directly(r) \in Alerts /\ OnQueue(r) \in Alerts /\ InstanceOf[r] \in Instances
    BY DEF Alerts, Directly, OnQueue
  <2>2. QED
    BY <1>0, <1>1, <2>1
    DEF Answers, AddRejected, AddExecuted, DirectGoesOut, Delivery!Next
<1>2. CASE GateAlone
  BY <1>0, <1>2 DEF GateAlone
<1>3. ASSUME NEW i \in Instances, NEW up \in BOOLEAN,
             NEW S \in SUBSET Delivery!InFlight(i), ProcessDies(i, up, S)
      PROVE  Delivery!Next
  BY <1>3 DEF ProcessDies, Delivery!Next
<1>4. ASSUME NEW a \in Alerts, NEW up \in BOOLEAN,
             NEW S \in SUBSET Delivery!InFlight(owner[a]), RecordEndsProcess(a, up, S)
      PROVE  Delivery!Next
  BY <1>4 DEF RecordEndsProcess, Delivery!Next
<1>5. ASSUME NEW a \in Alerts, Runs(a) \/ JobComesBack(a) PROVE Delivery!Next
  BY <1>5 DEF Runs, JobComesBack, Delivery!Next
<1>6. CASE UNCHANGED systemVars
  BY <1>0, <1>6 DEF systemVars
<1>7. QED
  BY <1>1, <1>2, <1>3, <1>4, <1>5, <1>6 DEF SystemNext

(* Joined to delivery, the gate is still the one Detector describes.       *)
THEOREM ImplementsGate == SystemSpec => Spec
<1>1. SystemInit => Init
  BY DEF SystemInit
<1>2. QED
  BY <1>1, Places, GateStep, PTL DEF SystemSpec, Spec

(* Joined to the gate, delivery is still the one AlertDelivery describes.  *)
THEOREM ImplementsDelivery == SystemSpec => Delivery!Spec
<1>1. SystemInit => Delivery!Init
  BY DEF SystemInit
<1>2. QED
  BY <1>1, Places, DeliveryStep, PTL DEF SystemSpec, Delivery!Spec

(* So whoever the whole system silences is silenced for an alert.          *)
COROLLARY SystemSilence == SystemSpec => []SilenceTracesToAlert
  BY ImplementsGate, SilenceTracing, PTL

-----------------------------------------------------------------------------
(* What the gate has decided stays what delivery has been handed.          *)

(* Nothing that HandedOver speaks of is decided, for a request.            *)
Undecided(r) ==
    /\ out'[r] = "direct" <=> out[r] = "direct"
    /\ out'[r] = "queued" => out[r] = "queued" \/ addCmd[r] = "added"
    /\ pc'[r] \notin {"enqueue", "done"}
          => pc[r] \notin {"enqueue", "done"} /\ addCmd'[r] = addCmd[r]
    /\ addCmd'[r] = "added" <=> addCmd[r] = "added"

LEMMA KeepsHandedOver ==
    ASSUME HandedOver, SameNew, \A r \in Requests : Undecided(r)
    PROVE  HandedOver'
<1>1. \A r \in Requests : OnQueue(r) \in Alerts /\ Directly(r) \in Alerts
  BY DEF Alerts, OnQueue, Directly
<1>2. ASSUME NEW r \in Requests PROVE Handed(r)'
  BY <1>1 DEF HandedOver, Handed, SameNew, Undecided
<1> QED BY <1>2 DEF HandedOver

(* A request that settles an await, or whose add is rejected.              *)
LEMMA HandlerEffect ==
    ASSUME NEW r \in Requests, TypeOK, Progress, HandedOver,
           Settle(r) \/ EnqueueRejects(r)
    PROVE  /\ out[r] = "none" /\ out'[r] # "queued"
           /\ pc'[r] \notin {"enqueue", "done"}
                 => pc[r] \notin {"enqueue", "done"} /\ addCmd'[r] = addCmd[r]
           /\ addCmd'[r] = "added" <=> addCmd[r] = "added"
           /\ \A q \in Requests \ {r} :
                 pc'[q] = pc[q] /\ out'[q] = out[q] /\ addCmd'[q] = addCmd[q]
<1> USE DEF TypeOK, GoTo, Finish, shared, handler, command
<1>0. pc[r] # "done" => out[r] = "none"
  BY DEF Progress
<1>1. ASSUME NEW over \in BOOLEAN, Judge(r, over), out[r] = "none"
      PROVE  /\ out'[r] # "queued"
             /\ \A q \in Requests \ {r} : pc'[q] = pc[q] /\ out'[q] = out[q]
  <2>1. CASE over /\ ~sawUp[r]
    <3>1. Degraded(r, now[r])
      BY <1>1, <2>1 DEF Judge
    <3> QED BY <3>1, DegradedFinishes
  <2>2. CASE ~(over /\ ~sawUp[r])
    BY <1>1, <2>2 DEF Judge
  <2> QED BY <2>1, <2>2
<1>2. ASSUME NEW over \in BOOLEAN, RedisCounts(r, over) \/ DbCounts(r, over)
      PROVE  pc[r] \in {"count", "countDb"} /\ Judge(r, over) /\ addCmd' = addCmd
  BY <1>2 DEF RedisCounts, DbCounts
<1>3. CASE \E over \in BOOLEAN : RedisCounts(r, over) \/ DbCounts(r, over)
  BY <1>0, <1>1, <1>2, <1>3
<1>4. CASE RedisCountFails(r) \/ DbCountFails(r)
  BY <1>0, <1>4 DEF RedisCountFails, DbCountFails
<1>5. CASE CooldownGranted(r) \/ CooldownDenied(r)
  BY <1>0, <1>5 DEF CooldownGranted, CooldownDenied, HandedOver, Handed
<1>6. CASE CooldownFails(r)
  <2>1. Degraded(r, now[r]) /\ pc[r] = "cooldown" /\ addCmd' = addCmd
    BY <1>6 DEF CooldownFails
  <2> QED BY <1>0, <2>1, DegradedFinishes
<1>7. CASE EnqueueRejects(r)
  <2>1. /\ Degraded(r, clock) /\ pc[r] = "enqueue"
        /\ addCmd' = [addCmd EXCEPT ![r] = IF @ = "sent" THEN "dropped" ELSE @]
    BY <1>7 DEF EnqueueRejects
  <2> QED BY <1>0, <2>1, DegradedFinishes
<1> QED BY <1>3, <1>4, <1>5, <1>6, <1>7 DEF Settle

LEMMA HandedOverStep ==
    ASSUME PlacesOK, IInv, IInv', HandedOver, [SystemNext]_systemVars
    PROVE  HandedOver'
<1> USE DetectorAssumption DEF DetectorAssumption, IInv
<1>0. ASSUME UNCHANGED deliveryVars PROVE SameNew
  BY <1>0 DEF deliveryVars, SameNew
<1>1. ASSUME NEW r \in Requests, Settle(r) \/ EnqueueRejects(r), DirectGoesOut(r)
      PROVE  HandedOver'
  <2>1. \A q \in Requests \ {r} : Undecided(q)
    BY <1>1, HandlerEffect DEF Undecided
  <2>2. CASE out'[r] # "direct"
    <3>1. Undecided(r)
      BY <1>1, <2>2, HandlerEffect DEF Undecided
    <3>2. SameNew
      BY <1>0, <1>1, <2>2 DEF DirectGoesOut
    <3> QED BY <2>1, <3>1, <3>2, KeepsHandedOver
  <2>3. CASE out'[r] = "direct"
    <3>1. stage' = [stage EXCEPT ![Directly(r)] = Delivery!Dispatching]
      BY <1>1, <2>3 DEF DirectGoesOut, Delivery!DispatchDirect, Delivery!GoTo
    <3>2. Delivery!Dispatching # "new"
      BY DEF Delivery!Dispatching
    <3>3. pc'[r] = "done"
      BY <2>3 DEF Progress
    <3>4. \A q \in Requests : stage'[OnQueue(q)] = stage[OnQueue(q)]
      BY <3>1 DEF PlacesOK, Alerts, OnQueue, Directly
    <3>5. /\ stage'[Directly(r)] # "new"
          /\ \A q \in Requests \ {r} : stage'[Directly(q)] = stage[Directly(q)]
      BY <3>1, <3>2 DEF PlacesOK, Alerts, Directly
    <3>6. addCmd'[r] = "added" <=> addCmd[r] = "added"
      BY <1>1, HandlerEffect
    <3>7. Handed(r)'
      BY <2>3, <3>3, <3>4, <3>5, <3>6 DEF HandedOver, Handed
    <3>8. ASSUME NEW q \in Requests \ {r} PROVE Handed(q)'
      BY <2>1, <3>4, <3>5 DEF HandedOver, Handed, Undecided
    <3> QED BY <3>7, <3>8 DEF HandedOver
  <2> QED BY <2>2, <2>3
<1>2. ASSUME NEW r \in Requests, AddExecuted(r) PROVE HandedOver'
  <2>1. /\ addCmd[r] = "sent" /\ addCmd' = [addCmd EXCEPT ![r] = "added"]
        /\ pc' = pc /\ out' = out
        /\ stage' = [stage EXCEPT ![OnQueue(r)] = "waiting"]
    BY <1>2 DEF AddExecuted, ExecuteAdd, handler, Delivery!Enqueue, Delivery!GoTo
  <2>2. pc[r] \in {"enqueue", "done"}
    BY <2>1 DEF HandedOver, Handed
  <2>3. \A q \in Requests : stage'[Directly(q)] = stage[Directly(q)]
    BY <2>1 DEF PlacesOK, Alerts, OnQueue, Directly
  <2>4. /\ stage'[OnQueue(r)] = "waiting"
        /\ \A q \in Requests \ {r} : stage'[OnQueue(q)] = stage[OnQueue(q)]
    BY <2>1 DEF PlacesOK, Alerts, OnQueue
  <2>5. /\ addCmd'[r] = "added"
        /\ \A q \in Requests \ {r} : addCmd'[q] = addCmd[q]
    BY <2>1 DEF TypeOK
  <2>6. ASSUME NEW q \in Requests PROVE Handed(q)'
    BY <2>1, <2>2, <2>3, <2>4, <2>5 DEF HandedOver, Handed
  <2> QED BY <2>6 DEF HandedOver
<1>3. CASE GateAlone
  <2>1. SameNew
    BY <1>0, <1>3 DEF GateAlone
  <2>2. ASSUME NEW q \in Requests PROVE Undecided(q)
    <3> USE DEF TypeOK, Undecided, GoTo, Finish, shared, handler, command
    <3>0. \A r \in Requests : pc[r] # "done" => out[r] = "none"
      BY DEF Progress
    <3>1. ASSUME NEW r \in Requests,
                 SaveFails(r) \/ StartCheck(r) \/ EnqueueResolves(r) \/ ExecuteSet(r)
          PROVE  Undecided(q)
      BY <3>0, <3>1 DEF SaveFails, StartCheck, EnqueueResolves, ExecuteSet
    <3>2. CASE RedisDown \/ RedisBack({})
      BY <3>2 DEF RedisDown, RedisBack
    <3>3. ASSUME NEW i \in Instances, FlagFalls(i) \/ FlagRises(i) PROVE Undecided(q)
      BY <3>3 DEF FlagFalls, FlagRises
    <3>4. CASE Tick
      BY <3>4 DEF Tick
    <3> QED BY <1>3, <3>1, <3>2, <3>3, <3>4 DEF GateAlone
  <2> QED BY <2>1, <2>2, KeepsHandedOver
<1>4. ASSUME NEW i \in Instances, NEW up \in BOOLEAN, NEW S,
             Restart(i, up), Delivery!Die(i, S)
      PROVE  HandedOver'
  <2>1. SameNew
    BY <1>4, DeathStep
  <2>2. ASSUME NEW q \in Requests PROVE Undecided(q)
    <3>1. pc[q] # "done" => out[q] = "none"
      BY DEF Progress
    <3> QED BY <1>4, <3>1 DEF TypeOK, Undecided, Restart, command
  <2> QED BY <2>1, <2>2, KeepsHandedOver
<1>5. ASSUME NEW i \in Instances, NEW up \in BOOLEAN,
             NEW S \in SUBSET Delivery!InFlight(i), ProcessDies(i, up, S)
      PROVE  HandedOver'
  BY <1>4, <1>5 DEF ProcessDies, Delivery!Stop
<1>6. ASSUME NEW a \in Alerts, NEW up \in BOOLEAN,
             NEW S \in SUBSET Delivery!InFlight(owner[a]), RecordEndsProcess(a, up, S)
      PROVE  HandedOver'
  <2>1. owner[a] \in Instances
    BY DEF PlacesOK
  <2> QED BY <1>4, <1>6, <2>1 DEF RecordEndsProcess, Delivery!QueueRecordFails
<1>7. CASE UNCHANGED vars /\ SameNew
  <2>1. ASSUME NEW q \in Requests PROVE Undecided(q)
    BY <1>7 DEF Undecided, vars, handler, command
  <2> QED BY <1>7, <2>1, KeepsHandedOver
<1>8. ASSUME NEW a \in Alerts, Runs(a) \/ JobComesBack(a) PROVE HandedOver'
  BY <1>7, <1>8, WorkStep DEF Runs, JobComesBack
<1>9. CASE UNCHANGED systemVars
  BY <1>0, <1>7, <1>9 DEF systemVars
<1>10. ASSUME NEW r \in Requests, Answers(r) \/ AddRejected(r) PROVE HandedOver'
  BY <1>1, <1>10 DEF Answers, AddRejected
<1> QED BY <1>2, <1>3, <1>5, <1>6, <1>8, <1>9, <1>10 DEF SystemNext

LEMMA HandedOverAlways == SystemSpec => []HandedOver
<1>1. ASSUME SystemInit PROVE HandedOver
  <2>1. \A a \in Alerts : stage[a] = "new"
    BY <1>1 DEF SystemInit, Delivery!Init
  <2>2. \A r \in Requests : OnQueue(r) \in Alerts /\ Directly(r) \in Alerts
    BY DEF Alerts, OnQueue, Directly
  <2> QED BY <1>1, <2>1, <2>2 DEF SystemInit, Init, HandedOver, Handed
<1>2. SystemSpec => []IInv
  BY ImplementsGate, Invariant, PTL
<1> QED BY <1>1, <1>2, Places, HandedOverStep, PTL DEF SystemSpec

(* An error above the threshold never vanishes between gate and delivery.  *)
THEOREM NothingVanishes == SystemSpec => []NoneVanishes
<1>1. ASSUME HandedOver, SilenceTracesToAlert PROVE NoneVanishes
  <2>1. \A p \in Requests : out[p] \in {"direct", "queued"} => Pending(p)
    BY <1>1 DEF HandedOver, Handed, Pending, Own
  <2> SUFFICES ASSUME NEW r \in Requests, Over(r)
               PROVE  \E p \in Behind(r) : Pending(p)
    BY DEF NoneVanishes
  <2>2. CASE out[r] \in {"direct", "queued"}
    BY <2>1, <2>2 DEF Behind
  <2>3. CASE out[r] = "heldLocal"
    <3>1. PICK p \in Requests : HeldLocallyBy(r, p)
      BY <1>1, <2>3 DEF SilenceTracesToAlert
    <3> QED BY <2>1, <3>1 DEF Behind, HeldLocallyBy
  <2>4. CASE out[r] = "heldRedis"
    <3>1. PICK q \in Requests : HeldInRedisBy(r, q) /\ AnswersFor(q)
      BY <1>1, <2>4 DEF SilenceTracesToAlert
    <3>2. CASE out[q] = "heldLocal" /\ \E p \in Requests : HeldLocallyBy(q, p)
      <4>1. PICK p \in Requests : HeldLocallyBy(q, p)
        BY <3>2
      <4>2. p \in Behind(r) /\ out[p] = "direct"
        BY <3>1, <4>1 DEF Behind, HeldLocallyBy
      <4> QED BY <2>1, <4>2
    <3>3. CASE pc[q] # "done" \/ out[q] \in {"queued", "direct", "lost"}
      <4>1. q \in Behind(r)
        BY <3>1 DEF Behind
      <4> QED BY <2>1, <3>3, <4>1 DEF Pending
    <3> QED BY <3>1, <3>2, <3>3 DEF AnswersFor
  <2> QED BY <2>2, <2>3, <2>4 DEF Over
<1> QED BY <1>1, HandedOverAlways, SystemSilence, PTL

-----------------------------------------------------------------------------
(* What is proved of the gate and of delivery holds of the whole.          *)

DP == INSTANCE DeliveryProofs WITH Workers <- Instances, Faults <- DeliveryFaults

LEMMA SameDelivery == Delivery!Spec => DP!Spec
<1> USE DEF Delivery!tables, Delivery!history, Delivery!GoTo, Delivery!AddIf,
            Delivery!GoesWrong, Delivery!MayHaveHappened, Delivery!Rejected,
            Delivery!Dispatching, Delivery!Busy, Delivery!InFlight,
            DP!tables, DP!history, DP!GoTo, DP!AddIf,
            DP!GoesWrong, DP!MayHaveHappened, DP!Rejected,
            DP!Dispatching, DP!Busy, DP!InFlight
<1>1. Delivery!Init => DP!Init
  BY DEF Delivery!Init, DP!Init
<1>2. \A a : Delivery!Run(a) => DP!Run(a)
  BY DEF Delivery!Run, Delivery!PostAccepted, Delivery!PostFails, Delivery!InsertOk,
         Delivery!InsertFails, Delivery!Ack, Delivery!JobFails, Delivery!Retried,
         Delivery!Records, Delivery!RecordOk, Delivery!DirectRecordFails,
         DP!Run, DP!PostAccepted, DP!PostFails, DP!InsertOk,
         DP!InsertFails, DP!Ack, DP!JobFails, DP!Retried,
         DP!Records, DP!RecordOk, DP!DirectRecordFails
<1>3. \A a, w : /\ Delivery!Enqueue(a) => DP!Enqueue(a)
                /\ Delivery!DispatchDirect(a, w) => DP!DispatchDirect(a, w)
                /\ Delivery!Take(a, w) => DP!Take(a, w)
                /\ Delivery!MoveFails(a) => DP!MoveFails(a)
  BY DEF Delivery!Enqueue, Delivery!DispatchDirect, Delivery!Take, Delivery!MoveFails,
         DP!Enqueue, DP!DispatchDirect, DP!Take, DP!MoveFails
<1>4. \A w, S : Delivery!Die(w, S) => DP!Die(w, S)
  BY DEF Delivery!Die, Delivery!Survives, Delivery!Count, DP!Die, DP!Survives, DP!Count
<1>5. \A a, S : Delivery!QueueRecordFails(a, S) => DP!QueueRecordFails(a, S)
  BY <1>4 DEF Delivery!QueueRecordFails, DP!QueueRecordFails
<1>6. \A w, S : Delivery!Stop(w, S) => DP!Stop(w, S)
  BY <1>4 DEF Delivery!Stop, DP!Stop
<1>7. Delivery!Next => DP!Next
  BY <1>2, <1>3, <1>5, <1>6 DEF Delivery!Next, DP!Next
<1>8. UNCHANGED Delivery!vars => UNCHANGED DP!vars
  BY DEF Delivery!vars, DP!vars
<1> QED BY <1>1, <1>7, <1>8, PTL DEF Delivery!Spec, DP!Spec

(* What AlertDelivery promises of every alert: its entries are accounted   *)
(* for, the webhook receives it a bounded number of times, a row has its   *)
(* receipt and a queued alert outlives processes.                          *)
Accounted ==
    /\ Delivery!OneEntry
    /\ Delivery!DeliveriesBounded
    /\ Delivery!RowsHaveReceipts
    /\ Delivery!QueueSurvivesStops

(* The gate keeps its cooldowns and delivery its promises when processes   *)
(* die with both, and Redis goes down for both.                            *)
THEOREM SystemKeepsPromises ==
    SystemSpec => [](DirectAlertsSpaced /\ QueuedAlertsSpaced /\ Accounted)
<1>1. DP!DeliveryAssumption
  BY SystemAssumption DEF SystemAssumption, DP!DeliveryAssumption
<1>2. DP!OneEntry /\ DP!DeliveriesBounded /\ DP!RowsHaveReceipts /\ DP!QueueSurvivesStops
         => Accounted
  BY DEF Accounted, DP!OneEntry, DP!DeliveriesBounded, DP!RowsHaveReceipts,
         DP!QueueSurvivesStops, Delivery!OneEntry, Delivery!DeliveriesBounded,
         Delivery!RowsHaveReceipts, Delivery!QueueSurvivesStops
<1>3. DP!Spec => [](DP!OneEntry /\ DP!DeliveriesBounded
                       /\ DP!RowsHaveReceipts /\ DP!QueueSurvivesStops)
  BY <1>1, DP!AtMostOneEntry, DP!BoundedDeliveries, DP!ReceiptsForRows, DP!QueueSurvival, PTL
<1> QED BY <1>2, <1>3, SameDelivery, ImplementsGate, ImplementsDelivery,
           DirectAlertsSpacing, QueuedAlertsSpacing, PTL

(* Nor does an alert the gate handed over leave the ledger.                *)
THEOREM SystemKeepsLedger == SystemSpec => DP!Ledger!SafeSpec
<1>1. DP!DeliveryAssumption
  BY SystemAssumption DEF SystemAssumption, DP!DeliveryAssumption
<1>2. DP!Spec => DP!Ledger!SafeSpec
  BY <1>1, DP!LedgerRefinement
<1> QED BY <1>2, SameDelivery, ImplementsDelivery

-----------------------------------------------------------------------------
(* How many alerts one incident can cause, over both paths.                *)

(* When the gate decided on an alert.                                      *)
DecidedAt(a) == IF a[2] = "direct" THEN probe[a[1]] ELSE setAt[a[1]]

(* The alerts for service s that delivery has been handed and that were    *)
(* decided in the cooldown that begins at t; not the direct ones of an     *)
(* earlier life of their process, which has forgotten its cooldowns.       *)
AlertsIn(s, t) ==
    {a \in Alerts :
        /\ ServiceOf[a[1]] = s
        /\ stage[a] # "new"
        /\ a[2] = "direct" => a[1] \notin past
        /\ t <= DecidedAt(a) /\ DecidedAt(a) < t + Cooldown}

(* They are no more than the processes, and one more: the two cooldowns do *)
(* not know of each other (README.md:108-110).                             *)
IncidentBounded ==
    \A s \in Services, t \in Nat :
        /\ IsFiniteSet(AlertsIn(s, t))
        /\ Cardinality(AlertsIn(s, t)) <= Cardinality(Instances) + 1

(* In the system, Redis keeps its locks.                                   *)
LocksKept == wiped = {}

LEMMA NothingWiped == SystemSpec => []LocksKept
<1>1. SystemInit => LocksKept
  BY DEF SystemInit, Init, LocksKept
<1>2. ASSUME PlacesOK, LocksKept, [SystemNext]_systemVars PROVE LocksKept'
  <2> USE <1>2 DEF history, LocksKept
  <2>1. ASSUME NEW r \in Requests, Settle(r) \/ EnqueueRejects(r) \/ ExecuteAdd(r)
        PROVE  wiped' = wiped
    BY <2>1 DEF Settle, RedisCounts, RedisCountFails, DbCounts, DbCountFails,
                CooldownGranted, CooldownDenied, CooldownFails, EnqueueRejects, ExecuteAdd
  <2>2. CASE GateAlone
    BY <2>2 DEF GateAlone, SaveFails, StartCheck, EnqueueResolves, ExecuteSet, RedisDown,
                RedisBack, FlagFalls, FlagRises, Tick
  <2>3. \A i, up : Restart(i, up) => wiped' = wiped
    BY DEF Restart
  <2>4. UNCHANGED vars => wiped' = wiped
    BY DEF vars
  <2>5. ASSUME NEW r \in Requests, Answers(r) \/ AddRejected(r) \/ AddExecuted(r)
        PROVE  wiped' = wiped
    BY <2>1, <2>5 DEF Answers, AddRejected, AddExecuted
  <2>6. ASSUME NEW i \in Instances, NEW up \in BOOLEAN,
               NEW S \in SUBSET Delivery!InFlight(i), ProcessDies(i, up, S)
        PROVE  wiped' = wiped
    BY <2>3, <2>6 DEF ProcessDies
  <2>7. ASSUME NEW a \in Alerts, NEW up \in BOOLEAN,
               NEW S \in SUBSET Delivery!InFlight(owner[a]), RecordEndsProcess(a, up, S)
        PROVE  wiped' = wiped
    BY <2>3, <2>7 DEF RecordEndsProcess
  <2>8. ASSUME NEW a \in Alerts, Runs(a) \/ JobComesBack(a) PROVE wiped' = wiped
    BY <2>4, <2>8 DEF Runs, JobComesBack
  <2>9. UNCHANGED systemVars => wiped' = wiped
    BY <2>4 DEF systemVars
  <2> QED BY <2>2, <2>5, <2>6, <2>7, <2>8, <2>9 DEF SystemNext
<1> QED BY <1>1, <1>2, Places, PTL DEF SystemSpec

(* Alerts of one way in are as many as their requests.                     *)
LEMMA AsManyAsRequests ==
    ASSUME NEW A \in SUBSET Alerts, NEW way, \A a \in A : a[2] = way,
           NEW R, IsFiniteSet(R), \A a \in A : a[1] \in R
    PROVE  IsFiniteSet(A) /\ Cardinality(A) <= Cardinality(R)
<1> DEFINE f == [a \in A |-> a[1]]
<1>1. f \in Injection(A, R)
  BY DEF Alerts, Injection, IsInjective
<1> QED BY <1>1, FS_Injection

THEOREM AlertsPerIncident ==
    ASSUME IsFiniteSet(Instances)
    PROVE  SystemSpec => []IncidentBounded
<1>1. ASSUME TypeOK, HandedOver, LocksKept, OnePerProcess
      PROVE  IncidentBounded
  <2> SUFFICES ASSUME NEW s \in Services, NEW t \in Nat
               PROVE  /\ IsFiniteSet(AlertsIn(s, t))
                      /\ Cardinality(AlertsIn(s, t)) <= Cardinality(Instances) + 1
    BY DEF IncidentBounded
  <2> DEFINE D == {a \in AlertsIn(s, t) : a[2] = "direct"}
             Q == {a \in AlertsIn(s, t) : a[2] = "queue"}
  <2>1. AlertsIn(s, t) = D \union Q
    BY DEF AlertsIn, Alerts
  <2>2. ASSUME NEW a \in D PROVE a[1] \in DirectIn(s, t)
    <3>1. a[1] \in Requests /\ a = Directly(a[1])
      BY DEF AlertsIn, Alerts, Directly
    <3>2. out[a[1]] = "direct"
      BY <1>1, <3>1 DEF AlertsIn, HandedOver, Handed
    <3> QED BY <3>1, <3>2 DEF AlertsIn, DecidedAt, DirectIn
  <2>3. ASSUME NEW a \in Q PROVE a[1] \in QueuedIn(s, t)
    <3>1. a[1] \in Requests /\ a = OnQueue(a[1])
      BY DEF AlertsIn, Alerts, OnQueue
    <3>2. addCmd[a[1]] = "added"
      BY <1>1, <3>1 DEF AlertsIn, HandedOver, Handed
    <3> QED BY <1>1, <3>1, <3>2 DEF AlertsIn, DecidedAt, QueuedIn, LocksKept
  <2>4. D \in SUBSET Alerts /\ Q \in SUBSET Alerts
    BY DEF AlertsIn
  <2>5. /\ IsFiniteSet(DirectIn(s, t)) /\ IsFiniteSet(QueuedIn(s, t))
        /\ Cardinality(DirectIn(s, t)) <= Cardinality(Instances)
        /\ Cardinality(QueuedIn(s, t)) <= 1
    BY <1>1 DEF OnePerProcess
  <2>6. IsFiniteSet(D) /\ Cardinality(D) <= Cardinality(DirectIn(s, t))
    BY <2>2, <2>4, <2>5, AsManyAsRequests
  <2>7. IsFiniteSet(Q) /\ Cardinality(Q) <= Cardinality(QueuedIn(s, t))
    BY <2>3, <2>4, <2>5, AsManyAsRequests
  <2> HIDE DEF D, Q
  <2>8. /\ IsFiniteSet(D \union Q)
        /\ Cardinality(D \union Q) = Cardinality(D) + Cardinality(Q) - Cardinality(D \cap Q)
    BY <2>6, <2>7, FS_Union
  <2>9. IsFiniteSet(D \cap Q)
    BY <2>6, FS_Intersection
  <2>10. /\ Cardinality(D) \in Nat /\ Cardinality(Q) \in Nat /\ Cardinality(D \cap Q) \in Nat
         /\ Cardinality(DirectIn(s, t)) \in Nat /\ Cardinality(QueuedIn(s, t)) \in Nat
         /\ Cardinality(Instances) \in Nat
    BY <2>5, <2>6, <2>7, <2>9, FS_CardinalityType
  <2> QED BY <2>1, <2>5, <2>6, <2>7, <2>8, <2>10
<1>2. Spec => []OnePerProcess
  BY AlertsPerCooldown
<1> QED BY <1>1, <1>2, HandedOverAlways, NothingWiped, ImplementsGate, TypeCorrect, PTL
=============================================================================
