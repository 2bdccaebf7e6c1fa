--------------------------- MODULE DetectorProofs ---------------------------
(* Theorems about Detector, for every set of processes, services and       *)
(* requests, every assignment of requests to them and every cooldown.      *)
EXTENDS Detector, FiniteSetTheorems, TLAPS

-----------------------------------------------------------------------------
(* Each variable keeps its type in every step of the detector.             *)
LEMMA TypeStep == ASSUME TypeOK, [Next]_vars PROVE TypeOK'
<1> USE DetectorAssumption DEF DetectorAssumption
<1> USE DEF TypeOK, Awaits, Outcomes, vars, shared, handler, command, history,
            GoTo, Finish
<1>1. ASSUME NEW r \in Requests, SaveFails(r) PROVE TypeOK'
  BY <1>1 DEF SaveFails
<1>2. ASSUME NEW r \in Requests, StartCheck(r) PROVE TypeOK'
  BY <1>2 DEF StartCheck
<1>3. ASSUME NEW r \in Requests, NEW at \in Nat, Degraded(r, at)
      PROVE  /\ pc' \in [Requests -> Awaits]
             /\ out' \in [Requests -> Outcomes]
             /\ probe' \in [Requests -> Nat]
             /\ local' \in [Instances -> [Services -> Nat]]
  <2>1. InstanceOf[r] \in Instances /\ ServiceOf[r] \in Services /\ at + Cooldown \in Nat
    OBVIOUS
  <2>2. /\ probe' = [probe EXCEPT ![r] = at]
        /\ pc' = [pc EXCEPT ![r] = "done"]
        /\ \/ local' = local /\ out' = [out EXCEPT ![r] = "heldLocal"]
           \/ /\ local' = [local EXCEPT ![InstanceOf[r]][ServiceOf[r]] = at + Cooldown]
              /\ out' = [out EXCEPT ![r] = "direct"]
    BY <1>3 DEF Degraded, LocalUntil
  <2>3. CASE local' = local /\ out' = [out EXCEPT ![r] = "heldLocal"]
    BY <2>2, <2>3
  <2>4. CASE /\ local' = [local EXCEPT ![InstanceOf[r]][ServiceOf[r]] = at + Cooldown]
             /\ out' = [out EXCEPT ![r] = "direct"]
    <3>1. local' \in [Instances -> [Services -> Nat]]
      BY <2>1, <2>4
    <3> QED BY <2>2, <2>4, <3>1
  <2> QED BY <2>2, <2>3, <2>4
<1>4. ASSUME NEW r \in Requests, NEW over \in BOOLEAN, Judge(r, over)
      PROVE  /\ pc' \in [Requests -> Awaits]
             /\ out' \in [Requests -> Outcomes]
             /\ probe' \in [Requests -> Nat]
             /\ local' \in [Instances -> [Services -> Nat]]
             /\ setCmd' \in [Requests -> {"none", "sent", "ok", "nil", "dropped"}]
  <2>1. CASE over /\ ~sawUp[r]
    BY <1>3, <1>4, <2>1 DEF Judge
  <2>2. CASE ~(over /\ ~sawUp[r])
    BY <1>4, <2>2 DEF Judge
  <2> QED BY <2>1, <2>2
<1>5. ASSUME NEW r \in Requests, Settle(r) PROVE TypeOK'
  <2>1. ASSUME NEW over \in BOOLEAN, RedisCounts(r, over) PROVE TypeOK'
    BY <1>4, <2>1 DEF RedisCounts
  <2>2. CASE RedisCountFails(r)
    BY <2>2 DEF RedisCountFails
  <2>3. ASSUME NEW over \in BOOLEAN, DbCounts(r, over) PROVE TypeOK'
    BY <1>4, <2>3 DEF DbCounts
  <2>4. CASE DbCountFails(r)
    BY <2>4 DEF DbCountFails
  <2>5. CASE CooldownGranted(r)
    BY <2>5 DEF CooldownGranted
  <2>6. CASE CooldownDenied(r)
    BY <2>6 DEF CooldownDenied
  <2>7. CASE CooldownFails(r)
    <3>1. now[r] \in Nat OBVIOUS
    <3> QED BY <1>3, <2>7, <3>1 DEF CooldownFails
  <2> QED BY <1>5, <2>1, <2>2, <2>3, <2>4, <2>5, <2>6, <2>7 DEF Settle
<1>6. ASSUME NEW r \in Requests, EnqueueResolves(r) PROVE TypeOK'
  BY <1>6 DEF EnqueueResolves
<1>7. ASSUME NEW r \in Requests, EnqueueRejects(r) PROVE TypeOK'
  BY <1>3, <1>7 DEF EnqueueRejects
<1>8. ASSUME NEW r \in Requests, ExecuteSet(r) PROVE TypeOK'
  <2>1. ServiceOf[r] \in Services /\ clock + Cooldown \in Nat
    OBVIOUS
  <2> QED BY SMTT(30), <1>8, <2>1 DEF ExecuteSet
<1>9. ASSUME NEW r \in Requests, ExecuteAdd(r) PROVE TypeOK'
  BY <1>9 DEF ExecuteAdd
<1>10. CASE RedisDown
  BY <1>10 DEF RedisDown
<1>11. ASSUME NEW S \in SUBSET Services, RedisBack(S) PROVE TypeOK'
  BY <1>11 DEF RedisBack
<1>12. ASSUME NEW i \in Instances, FlagFalls(i) \/ FlagRises(i) PROVE TypeOK'
  BY <1>12 DEF FlagFalls, FlagRises
<1>13. ASSUME NEW i \in Instances, NEW up \in BOOLEAN, Restart(i, up) PROVE TypeOK'
  BY <1>13 DEF Restart
<1>14. CASE Tick
  BY <1>14 DEF Tick
<1>15. CASE UNCHANGED vars
  BY <1>15
<1> QED
  BY <1>1, <1>2, <1>5, <1>6, <1>7, <1>8, <1>9, <1>10, <1>11, <1>12, <1>13, <1>14, <1>15
  DEF Next

(* Every state of the detector is well typed.                              *)
THEOREM TypeCorrect == Spec => []TypeOK
<1>1. Init => TypeOK
  BY DetectorAssumption DEF DetectorAssumption, Init, TypeOK, Awaits, Outcomes
<1> QED BY <1>1, TypeStep, PTL DEF Spec

-----------------------------------------------------------------------------
(* The inductive invariant, in three parts.                                *)

(* Where a handler is says which commands it has issued and what can have  *)
(* become of it.                                                           *)
Progress ==
    \A r \in Requests :
        /\ pc[r] # "done" => out[r] = "none" /\ r \notin past
        /\ pc[r] \in {"idle", "count", "countDb"} => setCmd[r] = "none"
        /\ addCmd[r] # "none" => setCmd[r] = "ok"
        /\ setCmd[r] \in {"sent", "ok"} /\ pc[r] = "done"
              => out[r] \in {"queued", "direct", "lost", "heldLocal"}
        /\ out[r] = "heldRedis" => setCmd[r] = "nil"

(* The memory cooldown is that of the last direct alert.                   *)
LocalBook ==
    /\ \A r \in Requests :
          out[r] = "direct" /\ r \notin past
              => probe[r] + Cooldown <= local[InstanceOf[r]][ServiceOf[r]]
    /\ \A i \in Instances, s \in Services :
          local[i][s] # 0
              => \E p \in Requests :
                    /\ InstanceOf[p] = i /\ ServiceOf[p] = s
                    /\ out[p] = "direct"
                    /\ local[i][s] = probe[p] + Cooldown
    /\ \A r \in Requests :
          out[r] = "heldLocal" => \E p \in Requests : HeldLocallyBy(r, p)
    /\ DirectAlertsSpaced

(* The Redis lock is that of the last SET NX the server granted.           *)
LockBook ==
    /\ \A r \in Requests : setCmd[r] \in {"ok", "nil"} => setAt[r] <= clock
    /\ \A r \in Requests :
          setCmd[r] = "ok" /\ r \notin wiped
              => setAt[r] + Cooldown <= lock[ServiceOf[r]]
    /\ \A s \in Services :
          lock[s] # 0
              => \E q \in Requests :
                    /\ ServiceOf[q] = s
                    /\ setCmd[q] = "ok"
                    /\ lock[s] = setAt[q] + Cooldown
    /\ \A r \in Requests :
          setCmd[r] = "nil" => \E q \in Requests : HeldInRedisBy(r, q)
    /\ \A q, r \in Requests :
          /\ q # r /\ ServiceOf[q] = ServiceOf[r]
          /\ q \notin wiped /\ r \notin wiped
          /\ setCmd[q] = "ok" /\ setCmd[r] = "ok"
          => Apart(setAt[q], setAt[r])

IInv == TypeOK /\ Progress /\ LocalBook /\ LockBook

LEMMA InitIInv == Init => IInv
<1> SUFFICES ASSUME Init PROVE IInv
  OBVIOUS
<1>1. TypeOK
  BY DetectorAssumption DEF DetectorAssumption, Init, TypeOK, Awaits, Outcomes
<1>2. Progress
  BY DEF Init, Progress
<1>3. LocalBook
  BY DEF Init, LocalBook, DirectAlertsSpaced
<1>4. LockBook
  BY DetectorAssumption DEF DetectorAssumption, Init, LockBook
<1> QED BY <1>1, <1>2, <1>3, <1>4 DEF IInv

(* What a step through the threshold, or a failed Redis call, does to a    *)
(* request that takes the path without Redis.                              *)
LEMMA DegradedFinishes ==
    ASSUME NEW r \in Requests, NEW at \in Nat, TypeOK, Degraded(r, at)
    PROVE  /\ pc' = [pc EXCEPT ![r] = "done"]
           /\ \E o \in {"heldLocal", "direct"} : out' = [out EXCEPT ![r] = o]
  BY DEF Degraded, Finish, GoTo

LEMMA DegradedKeepsProgress ==
    ASSUME TypeOK, Progress, NEW r \in Requests, NEW at \in Nat, Degraded(r, at),
           pc[r] # "idle", setCmd' = setCmd, past' = past, out[r] # "heldRedis",
           pc[r] # "done" \/ r \notin past,
           \A q \in Requests : addCmd'[q] # "none" => addCmd[q] # "none"
    PROVE  Progress'
<1>1. PICK o \in {"heldLocal", "direct"} :
          pc' = [pc EXCEPT ![r] = "done"] /\ out' = [out EXCEPT ![r] = o]
  BY DegradedFinishes
<1>2. pc'[r] = "done" /\ out'[r] = o
  BY <1>1 DEF TypeOK
<1>3. \A q \in Requests : q # r => pc'[q] = pc[q] /\ out'[q] = out[q]
  BY <1>1 DEF TypeOK
<1> QED BY <1>2, <1>3 DEF Progress

LEMMA ProgressStep == ASSUME TypeOK, Progress, [Next]_vars PROVE Progress'
<1> USE DEF TypeOK, Progress, vars, shared, handler, command, history, GoTo, Finish
<1>1. ASSUME NEW r \in Requests, SaveFails(r) \/ StartCheck(r) PROVE Progress'
  BY <1>1 DEF SaveFails, StartCheck
<1>2. ASSUME NEW r \in Requests, NEW over \in BOOLEAN, Judge(r, over),
             pc[r] \in {"count", "countDb"}, UNCHANGED <<addCmd, history>>
      PROVE  Progress'
  <2>1. CASE over /\ ~sawUp[r]
    <3>1. Degraded(r, now[r]) /\ setCmd' = setCmd
      BY <1>2, <2>1 DEF Judge
    <3>2. now[r] \in Nat /\ out[r] # "heldRedis" /\ past' = past /\ addCmd' = addCmd
      BY <1>2
    <3> QED BY <1>2, <3>1, <3>2, DegradedKeepsProgress
  <2>2. CASE ~(over /\ ~sawUp[r])
    BY <1>2, <2>2 DEF Judge
  <2> QED BY <2>1, <2>2
<1>3. ASSUME NEW r \in Requests, Settle(r) PROVE Progress'
  <2>1. ASSUME NEW over \in BOOLEAN, RedisCounts(r, over) PROVE Progress'
    BY <1>2, <2>1 DEF RedisCounts
  <2>2. ASSUME NEW over \in BOOLEAN, DbCounts(r, over) PROVE Progress'
    BY <1>2, <2>2 DEF DbCounts
  <2>3. CASE RedisCountFails(r) \/ DbCountFails(r)
    BY <2>3 DEF RedisCountFails, DbCountFails
  <2>4. CASE CooldownGranted(r) \/ CooldownDenied(r)
    BY <2>4 DEF CooldownGranted, CooldownDenied
  <2>5. CASE CooldownFails(r)
    <3>1. /\ Degraded(r, now[r]) /\ pc[r] = "cooldown"
          /\ setCmd' = setCmd /\ addCmd' = addCmd /\ past' = past
      BY <2>5 DEF CooldownFails
    <3>2. now[r] \in Nat /\ out[r] # "heldRedis"
      BY <3>1
    <3> QED BY <3>1, <3>2, DegradedKeepsProgress
  <2> QED BY <1>3, <2>1, <2>2, <2>3, <2>4, <2>5 DEF Settle
<1>4. ASSUME NEW r \in Requests, EnqueueResolves(r) PROVE Progress'
  BY <1>4 DEF EnqueueResolves
<1>5. ASSUME NEW r \in Requests, EnqueueRejects(r) PROVE Progress'
  <2>1. /\ Degraded(r, clock) /\ pc[r] = "enqueue"
        /\ setCmd' = setCmd /\ past' = past
    BY <1>5 DEF EnqueueRejects
  <2>2. \A q \in Requests : addCmd'[q] # "none" => addCmd[q] # "none"
    BY <1>5 DEF EnqueueRejects
  <2>3. clock \in Nat /\ out[r] # "heldRedis"
    BY <2>1
  <2> QED BY <2>1, <2>2, <2>3, DegradedKeepsProgress
<1>6. ASSUME NEW r \in Requests, ExecuteSet(r) PROVE Progress'
  BY <1>6 DEF ExecuteSet
<1>7. ASSUME NEW r \in Requests, ExecuteAdd(r) PROVE Progress'
  BY <1>7 DEF ExecuteAdd
<1>8. CASE RedisDown
  BY <1>8 DEF RedisDown
<1>9. ASSUME NEW S \in SUBSET Services, RedisBack(S) PROVE Progress'
  BY <1>9 DEF RedisBack
<1>10. ASSUME NEW i \in Instances, FlagFalls(i) \/ FlagRises(i) PROVE Progress'
  BY <1>10 DEF FlagFalls, FlagRises
<1>11. ASSUME NEW i \in Instances, NEW up \in BOOLEAN, Restart(i, up) PROVE Progress'
  BY <1>11 DEF Restart
<1>12. CASE Tick \/ UNCHANGED vars
  BY <1>12 DEF Tick
<1> QED
  BY <1>1, <1>3, <1>4, <1>5, <1>6, <1>7, <1>8, <1>9, <1>10, <1>11, <1>12 DEF Next

-----------------------------------------------------------------------------
(* The three ways a step can touch the memory cooldowns and their alerts.  *)

(* A handler moves on or ends without looking at the memory cooldown.      *)
LocalIdle ==
    /\ UNCHANGED <<local, probe, past>>
    /\ \/ out' = out
       \/ \E r \in Requests, o \in Outcomes \ {"direct", "heldLocal"} :
             pc[r] # "done" /\ out' = [out EXCEPT ![r] = o]

(* A handler looks at it.                                                  *)
LocalAsked ==
    \E r \in Requests, at \in Nat :
        pc[r] # "done" /\ Degraded(r, at) /\ past' = past

LEMMA LocalEffect ==
    ASSUME TypeOK, [Next]_vars
    PROVE  \/ LocalIdle
           \/ LocalAsked
           \/ \E i \in Instances, up \in BOOLEAN : Restart(i, up)
<1> USE DEF TypeOK, vars, shared, handler, command, history, GoTo, Finish, Outcomes
<1>1. ASSUME NEW r \in Requests, SaveFails(r) \/ StartCheck(r) PROVE LocalIdle
  BY <1>1 DEF SaveFails, StartCheck, LocalIdle
<1>2. ASSUME NEW r \in Requests, NEW over \in BOOLEAN, Judge(r, over),
             pc[r] \in {"count", "countDb"}, UNCHANGED history
      PROVE  LocalIdle \/ LocalAsked
  <2>1. CASE over /\ ~sawUp[r]
    <3>1. Degraded(r, now[r])
      BY <1>2, <2>1 DEF Judge
    <3> QED BY <1>2, <3>1 DEF LocalAsked
  <2>2. CASE ~(over /\ ~sawUp[r])
    BY <1>2, <2>2 DEF Judge, LocalIdle
  <2> QED BY <2>1, <2>2
<1>3. ASSUME NEW r \in Requests, Settle(r) PROVE LocalIdle \/ LocalAsked
  <2>1. ASSUME NEW over \in BOOLEAN, RedisCounts(r, over) PROVE LocalIdle \/ LocalAsked
    BY <1>2, <2>1 DEF RedisCounts
  <2>2. ASSUME NEW over \in BOOLEAN, DbCounts(r, over) PROVE LocalIdle \/ LocalAsked
    BY <1>2, <2>2 DEF DbCounts
  <2>3. CASE RedisCountFails(r) \/ DbCountFails(r)
    BY <2>3 DEF RedisCountFails, DbCountFails, LocalIdle
  <2>4. CASE CooldownGranted(r) \/ CooldownDenied(r)
    BY <2>4 DEF CooldownGranted, CooldownDenied, LocalIdle
  <2>5. CASE CooldownFails(r)
    BY <2>5 DEF CooldownFails, LocalAsked
  <2> QED BY <1>3, <2>1, <2>2, <2>3, <2>4, <2>5 DEF Settle
<1>4. ASSUME NEW r \in Requests, EnqueueResolves(r) PROVE LocalIdle
  BY <1>4 DEF EnqueueResolves, LocalIdle
<1>5. ASSUME NEW r \in Requests, EnqueueRejects(r) PROVE LocalAsked
  BY <1>5 DEF EnqueueRejects, LocalAsked
<1>6. ASSUME NEW r \in Requests, ExecuteSet(r) \/ ExecuteAdd(r) PROVE LocalIdle
  BY <1>6 DEF ExecuteSet, ExecuteAdd, LocalIdle
<1>7. CASE RedisDown \/ (\E S \in SUBSET Services : RedisBack(S))
  BY <1>7 DEF RedisDown, RedisBack, LocalIdle
<1>8. ASSUME NEW i \in Instances, FlagFalls(i) \/ FlagRises(i) PROVE LocalIdle
  BY <1>8 DEF FlagFalls, FlagRises, LocalIdle
<1>9. CASE Tick \/ UNCHANGED vars
  BY <1>9 DEF Tick, LocalIdle
<1> QED
  BY <1>1, <1>3, <1>4, <1>5, <1>6, <1>7, <1>8, <1>9 DEF Next

(* The three ways a step can touch the Redis locks and who took them.      *)

(* Time passes, commands are sent or dropped, none is executed.            *)
LockIdle ==
    /\ UNCHANGED <<lock, setAt, wiped>>
    /\ clock <= clock'
    /\ \A r \in Requests :
          setCmd'[r] # setCmd[r] => setCmd[r] \in {"none", "sent"} /\ setCmd'[r] \in {"sent", "dropped"}

LEMMA LockEffect ==
    ASSUME TypeOK, Progress, [Next]_vars
    PROVE  \/ LockIdle
           \/ \E r \in Requests : ExecuteSet(r)
           \/ \E S \in SUBSET Services : RedisBack(S)
<1> USE DEF TypeOK, vars, shared, handler, command, history, LockIdle
<1>1. ASSUME NEW r \in Requests, SaveFails(r) \/ StartCheck(r) PROVE LockIdle
  BY <1>1 DEF SaveFails, StartCheck
<1>2. ASSUME NEW r \in Requests, NEW over \in BOOLEAN, Judge(r, over),
             pc[r] \in {"count", "countDb"}, UNCHANGED <<clock, lock, setAt, wiped>>
      PROVE  LockIdle
  <2>1. setCmd[r] = "none"
    BY <1>2 DEF Progress
  <2> QED BY <1>2, <2>1 DEF Judge
<1>3. ASSUME NEW r \in Requests, Settle(r) PROVE LockIdle
  <2>1. ASSUME NEW over \in BOOLEAN, RedisCounts(r, over) PROVE LockIdle
    BY <1>2, <2>1 DEF RedisCounts
  <2>2. ASSUME NEW over \in BOOLEAN, DbCounts(r, over) PROVE LockIdle
    BY <1>2, <2>2 DEF DbCounts
  <2>3. CASE RedisCountFails(r) \/ DbCountFails(r)
    BY <2>3 DEF RedisCountFails, DbCountFails
  <2>4. CASE CooldownGranted(r) \/ CooldownDenied(r) \/ CooldownFails(r)
    BY <2>4 DEF CooldownGranted, CooldownDenied, CooldownFails
  <2> QED BY <1>3, <2>1, <2>2, <2>3, <2>4 DEF Settle
<1>4. ASSUME NEW r \in Requests, EnqueueResolves(r) \/ EnqueueRejects(r) PROVE LockIdle
  BY <1>4 DEF EnqueueResolves, EnqueueRejects
<1>5. ASSUME NEW r \in Requests, ExecuteAdd(r) PROVE LockIdle
  BY <1>5 DEF ExecuteAdd
<1>6. CASE RedisDown
  BY <1>6 DEF RedisDown
<1>7. ASSUME NEW i \in Instances, FlagFalls(i) \/ FlagRises(i) PROVE LockIdle
  BY <1>7 DEF FlagFalls, FlagRises
<1>8. ASSUME NEW i \in Instances, NEW up \in BOOLEAN, Restart(i, up) PROVE LockIdle
  BY <1>8 DEF Restart
<1>9. CASE Tick \/ UNCHANGED vars
  BY <1>9 DEF Tick
<1> QED
  BY <1>1, <1>3, <1>4, <1>5, <1>6, <1>7, <1>8, <1>9 DEF Next

-----------------------------------------------------------------------------
LEMMA LocalBookStep ==
    ASSUME TypeOK, Progress, LocalBook, [Next]_vars
    PROVE  LocalBook'
<1> USE DetectorAssumption DEF DetectorAssumption
<1> USE DEF TypeOK, SameProcess, HeldLocallyBy
<1>1. CASE LocalIdle
  <2>1. /\ UNCHANGED <<local, probe, past>>
        /\ \A r \in Requests :
              /\ out'[r] = "direct" <=> out[r] = "direct"
              /\ out'[r] = "heldLocal" <=> out[r] = "heldLocal"
    BY <1>1 DEF LocalIdle, Progress, Outcomes
  <2> QED BY <2>1 DEF LocalBook, DirectAlertsSpaced
<1>2. ASSUME NEW r \in Requests, NEW at \in Nat,
             pc[r] # "done", Degraded(r, at), past' = past
      PROVE  LocalBook'
  <2> DEFINE i == InstanceOf[r]
             s == ServiceOf[r]
  <2>0. /\ i \in Instances /\ s \in Services
        /\ out[r] = "none" /\ r \notin past
        /\ probe' = [probe EXCEPT ![r] = at]
    BY <1>2 DEF Progress, Degraded
  <2>1. CASE LocalHeld(i, s, at) /\ Finish(r, "heldLocal") /\ UNCHANGED local
    <3>1. /\ out' = [out EXCEPT ![r] = "heldLocal"]
          /\ local' = local /\ local[i][s] > at
      BY <2>1 DEF LocalHeld, Finish
    <3>2. PICK p \in Requests : /\ InstanceOf[p] = i /\ ServiceOf[p] = s
                                /\ out[p] = "direct"
                                /\ local[i][s] = probe[p] + Cooldown
      BY SMTT(30), <2>0, <3>1 DEF LocalBook
    <3>3. HeldLocallyBy(r, p)'
      BY <2>0, <3>1, <3>2
    <3>4. \A q, p1 \in Requests : q # r /\ HeldLocallyBy(q, p1) => HeldLocallyBy(q, p1)'
      BY <2>0, <3>1
    <3>5. \A q \in Requests :
             out'[q] = "heldLocal" => \E p1 \in Requests : HeldLocallyBy(q, p1)'
      BY <2>0, <3>1, <3>3, <3>4 DEF LocalBook
    <3>6. \A q \in Requests :
             out'[q] = "direct" => out[q] = "direct" /\ probe'[q] = probe[q]
      BY <2>0, <3>1
    <3>7. \A q \in Requests :
             out[q] = "direct" => out'[q] = "direct" /\ probe'[q] = probe[q]
      BY <2>0, <3>1
    <3>8. DirectAlertsSpaced'
      BY <1>2, <3>6 DEF LocalBook, DirectAlertsSpaced
    <3>9. \A q \in Requests :
             out'[q] = "direct" /\ q \notin past'
                 => probe'[q] + Cooldown <= local'[InstanceOf[q]][ServiceOf[q]]
      BY <1>2, <3>1, <3>6 DEF LocalBook
    <3>10. \A j \in Instances, t \in Services :
             local'[j][t] # 0
                 => \E p1 \in Requests :
                       /\ InstanceOf[p1] = j /\ ServiceOf[p1] = t
                       /\ out'[p1] = "direct"
                       /\ local'[j][t] = probe'[p1] + Cooldown
      <4> TAKE j \in Instances, t \in Services
      <4> HAVE local'[j][t] # 0
      <4>1. PICK p1 \in Requests : /\ InstanceOf[p1] = j /\ ServiceOf[p1] = t
                                   /\ out[p1] = "direct"
                                   /\ local[j][t] = probe[p1] + Cooldown
        BY <3>1 DEF LocalBook
      <4>2. out'[p1] = "direct" /\ local'[j][t] = probe'[p1] + Cooldown
        BY <3>1, <3>7, <4>1
      <4> QED BY <4>1, <4>2
    <3> QED BY <3>5, <3>8, <3>9, <3>10 DEF LocalBook
  <2>2. CASE /\ ~LocalHeld(i, s, at)
             /\ local' = [local EXCEPT ![i][s] = LocalUntil(at)]
             /\ Finish(r, "direct")
    <3>1. /\ out' = [out EXCEPT ![r] = "direct"]
          /\ local' = [local EXCEPT ![i][s] = at + Cooldown]
          /\ local[i][s] <= at
      BY <2>0, <2>2 DEF LocalHeld, LocalUntil, Finish
    <3>2. \A j \in Instances, t \in Services :
             local'[j][t] = IF j = i /\ t = s THEN at + Cooldown ELSE local[j][t]
      BY <2>0, <3>1
    <3>3. \A q \in Requests :
             /\ q # r => out'[q] = out[q] /\ probe'[q] = probe[q]
             /\ out'[r] = "direct" /\ probe'[r] = at
      BY <2>0, <3>1
    <3>4. \A q \in Requests :
             out'[q] = "direct" /\ q \notin past'
                 => probe'[q] + Cooldown <= local'[InstanceOf[q]][ServiceOf[q]]
      <4> TAKE q \in Requests
      <4>1. InstanceOf[q] \in Instances /\ ServiceOf[q] \in Services
        OBVIOUS
      <4>2. CASE q = r
        BY <3>2, <3>3, <4>1, <4>2
      <4>3. CASE q # r
        BY <1>2, <3>1, <3>2, <3>3, <4>1, <4>3 DEF LocalBook
      <4> QED BY <4>2, <4>3
    <3>5. \A j \in Instances, t \in Services :
             local'[j][t] # 0
                 => \E p \in Requests :
                       /\ InstanceOf[p] = j /\ ServiceOf[p] = t
                       /\ out'[p] = "direct"
                       /\ local'[j][t] = probe'[p] + Cooldown
      <4> TAKE j \in Instances, t \in Services
      <4>1. CASE j = i /\ t = s
        <5>1. local'[j][t] = at + Cooldown
          BY <2>0, <3>2, <4>1
        <5>2. out'[r] = "direct" /\ local'[j][t] = probe'[r] + Cooldown
          BY <3>3, <5>1
        <5> QED BY <4>1, <5>2
      <4>2. CASE ~(j = i /\ t = s)
        <5>1. local'[j][t] = local[j][t]
          BY <3>2, <4>2
        <5> HAVE local'[j][t] # 0
        <5>2. PICK p \in Requests : /\ InstanceOf[p] = j /\ ServiceOf[p] = t
                                    /\ out[p] = "direct"
                                    /\ local[j][t] = probe[p] + Cooldown
          BY <5>1 DEF LocalBook
        <5>3. p # r
          BY <2>0, <5>2
        <5>4. out'[p] = "direct" /\ local'[j][t] = probe'[p] + Cooldown
          BY <3>3, <5>1, <5>2, <5>3
        <5> QED BY <5>2, <5>4
      <4> QED BY <4>1, <4>2
    <3>6. \A q \in Requests :
             out'[q] = "heldLocal" => \E p \in Requests : HeldLocallyBy(q, p)'
      <4>1. \A q, p \in Requests : q # r /\ HeldLocallyBy(q, p) => HeldLocallyBy(q, p)'
        BY <2>0, <3>3
      <4> QED BY <2>0, <3>3, <4>1 DEF LocalBook
    <3>7. ASSUME NEW q \in Requests, q # r, SameProcess(q, r), q \notin past, out[q] = "direct"
          PROVE  probe[q] + Cooldown <= at
      <4>1. probe[q] + Cooldown <= local[InstanceOf[q]][ServiceOf[q]]
        BY <3>7 DEF LocalBook
      <4>2. local[InstanceOf[q]][ServiceOf[q]] <= at /\ local[InstanceOf[q]][ServiceOf[q]] \in Nat
        BY <2>0, <3>1, <3>7
      <4> QED BY <4>1, <4>2
    <3>8. DirectAlertsSpaced'
      <4> SUFFICES ASSUME NEW q \in Requests, NEW p \in Requests,
                          q # p, SameProcess(q, p), q \notin past, p \notin past,
                          out'[q] = "direct", out'[p] = "direct"
                   PROVE  Apart(probe'[q], probe'[p])
        BY <1>2 DEF DirectAlertsSpaced, Apart
      <4>1. CASE q = r
        <5>1. probe[p] + Cooldown <= at
          BY <3>3, <3>7, <4>1
        <5> QED BY <3>3, <4>1, <5>1 DEF Apart
      <4>2. CASE p = r
        <5>1. probe[q] + Cooldown <= at
          BY <3>3, <3>7, <4>2
        <5> QED BY <3>3, <4>2, <5>1 DEF Apart
      <4>3. CASE q # r /\ p # r
        <5>1. /\ probe'[q] = probe[q] /\ probe'[p] = probe[p]
              /\ out[q] = "direct" /\ out[p] = "direct"
          BY <3>3, <4>3
        <5>2. Apart(probe[q], probe[p])
          BY <5>1 DEF LocalBook, DirectAlertsSpaced
        <5> QED BY <5>1, <5>2
      <4> QED BY <4>1, <4>2, <4>3
    <3> QED BY <3>4, <3>5, <3>6, <3>8 DEF LocalBook
  <2> QED BY <1>2, <2>1, <2>2 DEF Degraded
<1>3. ASSUME NEW i \in Instances, NEW up \in BOOLEAN, Restart(i, up)
      PROVE  LocalBook'
  <2>1. /\ probe' = probe
        /\ past' = past \union {r \in Requests : InstanceOf[r] = i /\ pc[r] # "idle"}
        /\ local' = [local EXCEPT ![i] = [s \in Services |-> 0]]
    BY <1>3 DEF Restart, handler
  <2>2. \A r \in Requests :
           /\ out'[r] = "direct" <=> out[r] = "direct"
           /\ out'[r] = "heldLocal" <=> out[r] = "heldLocal"
    BY <1>3 DEF Restart, Progress
  <2>3. \A j \in Instances, s \in Services :
           local'[j][s] = IF j = i THEN 0 ELSE local[j][s]
    BY <2>1
  <2>4. \A r \in Requests :
           out'[r] = "direct" /\ r \notin past'
               => out[r] = "direct" /\ r \notin past /\ InstanceOf[r] # i
    BY <2>1, <2>2 DEF Progress
  <2>5. \A r \in Requests :
           out'[r] = "direct" /\ r \notin past'
               => probe'[r] + Cooldown <= local'[InstanceOf[r]][ServiceOf[r]]
    BY <2>1, <2>3, <2>4 DEF LocalBook
  <2>6. DirectAlertsSpaced'
    BY <2>1, <2>4 DEF LocalBook, DirectAlertsSpaced
  <2>7. \A j \in Instances, s \in Services :
           local'[j][s] # 0
               => \E p \in Requests :
                     /\ InstanceOf[p] = j /\ ServiceOf[p] = s
                     /\ out'[p] = "direct"
                     /\ local'[j][s] = probe'[p] + Cooldown
    BY <2>1, <2>2, <2>3 DEF LocalBook
  <2>8. \A r \in Requests :
           out'[r] = "heldLocal" => \E p \in Requests : HeldLocallyBy(r, p)'
    BY <2>1, <2>2 DEF LocalBook
  <2> QED BY <2>5, <2>6, <2>7, <2>8 DEF LocalBook
<1> QED BY <1>1, <1>2, <1>3, LocalEffect DEF LocalAsked

LEMMA LockBookStep ==
    ASSUME TypeOK, Progress, LockBook, [Next]_vars
    PROVE  LockBook'
<1> USE DetectorAssumption DEF DetectorAssumption
<1> USE DEF TypeOK, HeldInRedisBy, Apart
<1>1. CASE LockIdle
  <2>1. \A r \in Requests :
           /\ setCmd'[r] = "ok" <=> setCmd[r] = "ok"
           /\ setCmd'[r] = "nil" <=> setCmd[r] = "nil"
    BY <1>1 DEF LockIdle
  <2>2. clock \in Nat /\ clock' \in Nat /\ clock <= clock' /\ UNCHANGED <<lock, setAt, wiped>>
    BY <1>1, TypeStep DEF LockIdle
  <2> QED BY <2>1, <2>2 DEF LockBook
<1>2. ASSUME NEW r \in Requests, ExecuteSet(r) PROVE LockBook'
  <2> DEFINE s == ServiceOf[r]
  <2>0. /\ s \in Services /\ setCmd[r] = "sent"
        /\ setAt' = [setAt EXCEPT ![r] = clock]
        /\ clock' = clock /\ wiped' = wiped
    BY <1>2 DEF ExecuteSet, history
  <2>1. CASE LockHeld(s) /\ setCmd' = [setCmd EXCEPT ![r] = "nil"] /\ UNCHANGED lock
    <3>1. PICK q \in Requests : /\ ServiceOf[q] = s
                                /\ setCmd[q] = "ok"
                                /\ lock[s] = setAt[q] + Cooldown
      BY SMTT(30), <2>0, <2>1 DEF LockBook, LockHeld
    <3>2. \A p \in Requests :
             /\ setCmd[p] = "ok" <=> setCmd'[p] = "ok"
             /\ p # r => setCmd'[p] = setCmd[p] /\ setAt'[p] = setAt[p]
             /\ setCmd'[p] = "ok" => setAt'[p] = setAt[p]
      BY <2>0, <2>1
    <3>3. HeldInRedisBy(r, q)'
      BY <2>0, <2>1, <3>1, <3>2 DEF LockBook, LockHeld
    <3>4. \A p, q1 \in Requests : p # r /\ HeldInRedisBy(p, q1) => HeldInRedisBy(p, q1)'
      BY <3>2
    <3>5. \A p \in Requests :
             setCmd'[p] = "nil" => \E q1 \in Requests : HeldInRedisBy(p, q1)'
      BY <3>2, <3>3, <3>4 DEF LockBook
    <3>6. \A p \in Requests : setCmd'[p] \in {"ok", "nil"} => setAt'[p] <= clock'
      BY <2>0, <3>2 DEF LockBook
    <3> QED BY <2>0, <2>1, <3>2, <3>5, <3>6 DEF LockBook
  <2>2. CASE /\ ~LockHeld(s)
             /\ setCmd' = [setCmd EXCEPT ![r] = "ok"]
             /\ lock' = [lock EXCEPT ![s] = clock + Cooldown]
    <3>1. /\ lock[s] <= clock
          /\ \A t \in Services : lock'[t] = IF t = s THEN clock + Cooldown ELSE lock[t]
      BY <2>0, <2>2 DEF LockHeld
    <3>2. /\ setCmd'[r] = "ok" /\ setAt'[r] = clock
          /\ \A p \in Requests :
                p # r => setCmd'[p] = setCmd[p] /\ setAt'[p] = setAt[p]
      BY <2>0, <2>2
    <3>3. \A p \in Requests : setCmd'[p] \in {"ok", "nil"} => setAt'[p] <= clock'
      BY <2>0, <3>2 DEF LockBook
    <3>4. \A p \in Requests :
             setCmd'[p] = "ok" /\ p \notin wiped'
                 => setAt'[p] + Cooldown <= lock'[ServiceOf[p]]
      <4> TAKE p \in Requests
      <4>1. ServiceOf[p] \in Services
        OBVIOUS
      <4>2. CASE p = r
        BY <2>0, <3>1, <3>2, <4>2
      <4>3. CASE p # r
        <5>1. setCmd[p] = "ok" /\ p \notin wiped => setAt[p] + Cooldown <= lock[ServiceOf[p]]
          BY DEF LockBook
        <5>2. lock'[ServiceOf[p]] = IF ServiceOf[p] = s THEN clock + Cooldown
                                                         ELSE lock[ServiceOf[p]]
          BY <3>1, <4>1
        <5>3. lock'[ServiceOf[p]] \in Nat /\ lock[ServiceOf[p]] <= lock'[ServiceOf[p]]
          <6>1. clock + Cooldown \in Nat /\ clock <= clock + Cooldown /\ lock[ServiceOf[p]] \in Nat
            BY <4>1
          <6>2. CASE ServiceOf[p] = s
            BY <3>1, <5>2, <6>1, <6>2
          <6>3. CASE ServiceOf[p] # s
            BY <5>2, <6>1, <6>3
          <6> QED BY <6>2, <6>3
        <5> QED BY <2>0, <3>2, <4>1, <4>3, <5>1, <5>2, <5>3
      <4> QED BY <4>2, <4>3
    <3>5. \A t \in Services :
             lock'[t] # 0
                 => \E q \in Requests :
                       /\ ServiceOf[q] = t
                       /\ setCmd'[q] = "ok"
                       /\ lock'[t] = setAt'[q] + Cooldown
      <4> TAKE t \in Services
      <4>1. CASE t = s
        <5>1. lock'[t] = clock + Cooldown
          BY <2>0, <3>1, <4>1
        <5>2. setCmd'[r] = "ok" /\ lock'[t] = setAt'[r] + Cooldown
          BY <3>2, <5>1
        <5> QED BY <4>1, <5>2
      <4>2. CASE t # s
        <5>1. lock'[t] = lock[t]
          BY <3>1, <4>2
        <5> HAVE lock'[t] # 0
        <5>2. PICK q \in Requests : /\ ServiceOf[q] = t
                                    /\ setCmd[q] = "ok"
                                    /\ lock[t] = setAt[q] + Cooldown
          BY <5>1 DEF LockBook
        <5>3. q # r
          BY <2>0, <5>2
        <5>4. setCmd'[q] = "ok" /\ lock'[t] = setAt'[q] + Cooldown
          BY <3>2, <5>1, <5>2, <5>3
        <5> QED BY <5>2, <5>4
      <4> QED BY <4>1, <4>2
    <3>6. \A p \in Requests :
             setCmd'[p] = "nil" => \E q \in Requests : HeldInRedisBy(p, q)'
      <4>1. \A p, q \in Requests :
               setCmd[p] = "nil" /\ HeldInRedisBy(p, q) => HeldInRedisBy(p, q)'
        <5> TAKE p, q \in Requests
        <5> HAVE setCmd[p] = "nil" /\ HeldInRedisBy(p, q)
        <5>1. p # r /\ q # r
          BY <2>0
        <5>2. setCmd'[q] = setCmd[q] /\ setAt'[q] = setAt[q] /\ setAt'[p] = setAt[p]
          BY <3>2, <5>1
        <5> QED BY <5>2
      <4> TAKE p \in Requests
      <4> HAVE setCmd'[p] = "nil"
      <4>2. setCmd[p] = "nil"
        BY <3>2
      <4>3. PICK q \in Requests : HeldInRedisBy(p, q)
        BY <4>2 DEF LockBook
      <4> QED BY <4>1, <4>2, <4>3
    <3>7. ASSUME NEW q \in Requests, q # r, ServiceOf[q] = s, q \notin wiped, setCmd[q] = "ok"
          PROVE  setAt[q] + Cooldown <= clock
      BY <3>1, <3>7, <2>0 DEF LockBook
    <3>8. \A q, p \in Requests :
             /\ q # p /\ ServiceOf[q] = ServiceOf[p]
             /\ q \notin wiped' /\ p \notin wiped'
             /\ setCmd'[q] = "ok" /\ setCmd'[p] = "ok"
             => Apart(setAt'[q], setAt'[p])
      BY <2>0, <3>2, <3>7 DEF LockBook
    <3> QED BY <3>3, <3>4, <3>5, <3>6, <3>8 DEF LockBook
  <2> QED BY <1>2, <2>1, <2>2 DEF ExecuteSet
<1>3. ASSUME NEW S \in SUBSET Services, RedisBack(S) PROVE LockBook'
  <2>1. /\ clock' = clock /\ setCmd' = setCmd /\ setAt' = setAt
        /\ \A s \in Services : lock'[s] = IF s \in S THEN 0 ELSE lock[s]
        /\ wiped \subseteq wiped'
        /\ \A r \in Requests : setCmd[r] = "ok" /\ ServiceOf[r] \in S => r \in wiped'
    BY <1>3 DEF RedisBack, command
  <2>2. \A r \in Requests :
           setCmd'[r] = "ok" /\ r \notin wiped'
               => setAt'[r] + Cooldown <= lock'[ServiceOf[r]]
    <3> TAKE r \in Requests
    <3>1. ServiceOf[r] \in Services
      OBVIOUS
    <3> QED BY <2>1, <3>1 DEF LockBook
  <2> QED BY <2>1, <2>2 DEF LockBook
<1> QED BY <1>1, <1>2, <1>3, LockEffect

(* Together they survive every step of the detector.                       *)
LEMMA IInvStep == IInv /\ [Next]_vars => IInv'
  BY TypeStep, ProgressStep, LocalBookStep, LockBookStep DEF IInv

LEMMA Invariant == Spec => []IInv
  BY InitIInv, IInvStep, PTL DEF Spec

-----------------------------------------------------------------------------
(* While a process lives, its direct alerts for a service are at least a   *)
(* cooldown apart, whatever stale times its requests present.              *)
THEOREM DirectAlertsSpacing == Spec => []DirectAlertsSpaced
<1>1. IInv => DirectAlertsSpaced
  BY DEF IInv, LocalBook
<1> QED BY <1>1, Invariant, PTL

(* Over all processes, the alerts of a service given to the queue were     *)
(* granted at least a cooldown apart unless Redis lost the lock.           *)
THEOREM QueuedAlertsSpacing == Spec => []QueuedAlertsSpaced
<1>1. IInv => QueuedAlertsSpaced
  BY DEF IInv, Progress, LockBook, QueuedAlertsSpaced
<1> QED BY <1>1, Invariant, PTL

(* Every silenced request traces to an alert.                              *)
THEOREM SilenceTracing == Spec => []SilenceTracesToAlert
<1>1. ASSUME IInv PROVE SilenceTracesToAlert
  <2>1. \A q \in Requests : setCmd[q] = "ok" => AnswersFor(q)
    BY <1>1 DEF IInv, Progress, LocalBook, AnswersFor
  <2>2. \A q, r \in Requests : HeldInRedisBy(r, q) => setCmd[q] = "ok"
    BY DEF HeldInRedisBy
  <2> QED BY <1>1, <2>1, <2>2 DEF IInv, Progress, LocalBook, LockBook, SilenceTracesToAlert
<1> QED BY <1>1, Invariant, PTL

(* The end of a memory cooldown never moves back while its process lives.  *)
THEOREM LocalMonotone == Spec => LocalNeverShrinks
<1> DEFINE Grows == \A i \in Instances, s \in Services :
                       local'[i][s] >= local[i][s] \/ local'[i][s] = 0
<1>1. ASSUME IInv, [Next]_vars PROVE Grows
  <2> USE <1>1, DetectorAssumption DEF DetectorAssumption, IInv, TypeOK
  <2>1. CASE LocalIdle
    BY <2>1 DEF LocalIdle
  <2>2. ASSUME NEW r \in Requests, NEW at \in Nat, Degraded(r, at) PROVE Grows
    <3>1. \/ local' = local
          \/ /\ local[InstanceOf[r]][ServiceOf[r]] <= at
             /\ local' = [local EXCEPT ![InstanceOf[r]][ServiceOf[r]] = at + Cooldown]
      BY <2>2 DEF Degraded, LocalHeld, LocalUntil
    <3>2. at + Cooldown >= at /\ InstanceOf[r] \in Instances /\ ServiceOf[r] \in Services
      OBVIOUS
    <3>3. CASE local' = local
      BY <3>3
    <3>4. CASE local' = [local EXCEPT ![InstanceOf[r]][ServiceOf[r]] = at + Cooldown]
      <4> SUFFICES ASSUME NEW i \in Instances, NEW s \in Services
                   PROVE  local'[i][s] >= local[i][s]
        OBVIOUS
      <4>1. local'[i][s] = IF i = InstanceOf[r] /\ s = ServiceOf[r]
                             THEN at + Cooldown ELSE local[i][s]
        BY <3>2, <3>4
      <4>2. local[i][s] \in Nat /\ at + Cooldown \in Nat
        OBVIOUS
      <4>3. CASE i = InstanceOf[r] /\ s = ServiceOf[r]
        BY <2>2, <4>1, <4>2, <4>3 DEF Degraded, LocalHeld
      <4>4. CASE ~(i = InstanceOf[r] /\ s = ServiceOf[r])
        BY <4>1, <4>2, <4>4
      <4> QED BY <4>3, <4>4
    <3> QED BY <3>1, <3>3, <3>4
  <2>3. ASSUME NEW i \in Instances, NEW up \in BOOLEAN, Restart(i, up) PROVE Grows
    BY <2>3 DEF Restart
  <2> QED BY <2>1, <2>2, <2>3, LocalEffect DEF LocalAsked
<1>2. IInv /\ [Next]_vars => [Grows]_vars
  BY <1>1
<1> QED BY <1>2, Invariant, PTL DEF Spec, LocalNeverShrinks

-----------------------------------------------------------------------------
(* How many alerts one incident can cause (README.md:108-110).             *)

(* The direct alerts for service s that were decided in the cooldown that  *)
(* begins at t, by processes that still live.                              *)
DirectIn(s, t) ==
    {r \in Requests :
        /\ ServiceOf[r] = s
        /\ out[r] = "direct" /\ r \notin past
        /\ t <= probe[r] /\ probe[r] < t + Cooldown}

(* The alerts for s that were given to the queue with a lock of that time. *)
QueuedIn(s, t) ==
    {r \in Requests :
        /\ ServiceOf[r] = s
        /\ addCmd[r] # "none" /\ r \notin wiped
        /\ t <= setAt[r] /\ setAt[r] < t + Cooldown}

(* Of a set that maps into `Instances` one to one there are no more.       *)
LEMMA OneForEach ==
    ASSUME NEW R \in SUBSET Requests, IsFiniteSet(Instances),
           \A q, r \in R : InstanceOf[q] = InstanceOf[r] => q = r
    PROVE  IsFiniteSet(R) /\ Cardinality(R) <= Cardinality(Instances)
<1> DEFINE f == [r \in R |-> InstanceOf[r]]
<1>1. f \in Injection(R, Instances)
  BY DetectorAssumption DEF DetectorAssumption, Injection, IsInjective
<1> QED BY <1>1, FS_Injection

LEMMA OneAtMost ==
    ASSUME NEW R, \A q, r \in R : q = r
    PROVE  IsFiniteSet(R) /\ Cardinality(R) <= 1
<1>1. CASE R = {}
  BY <1>1, FS_EmptySet
<1>2. CASE R # {}
  <2>1. PICK r : r \in R
    BY <1>2
  <2>2. R = {r}
    BY <2>1
  <2>3. IsFiniteSet({r}) /\ Cardinality({r}) = 1
    BY FS_Singleton
  <2> QED BY <2>2, <2>3
<1> QED BY <1>1, <1>2

(* Within any stretch of a cooldown, one service's errors cause at most    *)
(* one direct alert per process and one alert on the queue, direct alerts  *)
(* of an earlier process life and queued ones whose lock Redis lost aside. *)
OnePerProcess ==
    \A s \in Services, t \in Nat :
        /\ IsFiniteSet(DirectIn(s, t)) /\ IsFiniteSet(QueuedIn(s, t))
        /\ Cardinality(DirectIn(s, t)) <= Cardinality(Instances)
        /\ Cardinality(QueuedIn(s, t)) <= 1

THEOREM AlertsPerCooldown ==
    ASSUME IsFiniteSet(Instances)
    PROVE  Spec => []OnePerProcess
<1>1. ASSUME TypeOK, DirectAlertsSpaced, QueuedAlertsSpaced PROVE OnePerProcess
  <2> SUFFICES ASSUME NEW s \in Services, NEW t \in Nat
               PROVE  /\ IsFiniteSet(DirectIn(s, t)) /\ IsFiniteSet(QueuedIn(s, t))
                      /\ Cardinality(DirectIn(s, t)) <= Cardinality(Instances)
                      /\ Cardinality(QueuedIn(s, t)) <= 1
    BY DEF OnePerProcess
  <2> USE <1>1, DetectorAssumption DEF DetectorAssumption, TypeOK
  <2>1. ASSUME NEW q \in DirectIn(s, t), NEW r \in DirectIn(s, t),
               InstanceOf[q] = InstanceOf[r]
        PROVE  q = r
    <3>1. ~Apart(probe[q], probe[r])
      BY DEF DirectIn, Apart
    <3> QED BY <2>1, <3>1 DEF DirectIn, DirectAlertsSpaced, SameProcess
  <2>2. ASSUME NEW q \in QueuedIn(s, t), NEW r \in QueuedIn(s, t) PROVE q = r
    <3>1. ~Apart(setAt[q], setAt[r])
      BY DEF QueuedIn, Apart
    <3> QED BY <3>1 DEF QueuedIn, QueuedAlertsSpaced
  <2>3. DirectIn(s, t) \in SUBSET Requests
    BY DEF DirectIn
  <2> QED BY <2>1, <2>2, <2>3, OneForEach, OneAtMost
<1> QED BY <1>1, TypeCorrect, DirectAlertsSpacing, QueuedAlertsSpacing, PTL

-----------------------------------------------------------------------------
(* No handler goes back to an await it has passed: the part of             *)
(* ResponseSent that needs no fairness.                                    *)

AwaitsLeft == [idle |-> 5, count |-> 4, countDb |-> 3, cooldown |-> 2, enqueue |-> 1, done |-> 0]

Ahead(r) == AwaitsLeft[pc[r]]

(* Whatever the queue, Redis, the flag and the processes do, a request     *)
(* never has more awaits before it than it had, and each await that        *)
(* settles, by an answer, an error or a timeout, leaves it fewer; so at    *)
(* most three settle before its response (detector.service.ts:42-92).      *)
NeverGoesBack ==
    [][\A r \in Requests :
          /\ Ahead(r)' <= Ahead(r)
          /\ Settle(r) => Ahead(r)' < Ahead(r)]_vars

(* q passes to an await nearer its end, or ends.                           *)
MovesOn(q) ==
    \E next \in Awaits :
        /\ pc' = [pc EXCEPT ![q] = next]
        /\ AwaitsLeft[next] < AwaitsLeft[pc[q]]

LEMMA SettleMovesOn ==
    ASSUME TypeOK, NEW q \in Requests, Settle(q)
    PROVE  MovesOn(q)
<1> USE DEF TypeOK, Awaits, MovesOn, AwaitsLeft, GoTo, Finish, handler
<1>1. ASSUME NEW at, Degraded(q, at) PROVE pc' = [pc EXCEPT ![q] = "done"]
  BY <1>1 DEF Degraded
<1>2. ASSUME NEW over \in BOOLEAN, RedisCounts(q, over) \/ DbCounts(q, over)
      PROVE  MovesOn(q)
  <2>1. Judge(q, over) /\ pc[q] \in {"count", "countDb"}
    BY <1>2 DEF RedisCounts, DbCounts
  <2>2. \/ pc' = [pc EXCEPT ![q] = "done"]
        \/ pc' = [pc EXCEPT ![q] = "cooldown"]
        \/ Degraded(q, now[q])
    BY <2>1 DEF Judge
  <2>3. \/ pc' = [pc EXCEPT ![q] = "done"]
        \/ pc' = [pc EXCEPT ![q] = "cooldown"]
    BY <1>1, <2>2
  <2> QED BY <2>1, <2>3
<1>3. CASE RedisCountFails(q) \/ DbCountFails(q)
  BY <1>3 DEF RedisCountFails, DbCountFails
<1>4. CASE CooldownGranted(q) \/ CooldownDenied(q)
  BY <1>4 DEF CooldownGranted, CooldownDenied
<1>5. CASE CooldownFails(q)
  BY <1>1, <1>5 DEF CooldownFails
<1> QED BY <1>2, <1>3, <1>4, <1>5 DEF Settle

LEMMA AwaitsStep ==
    ASSUME TypeOK, [Next]_vars, NEW r \in Requests
    PROVE  Ahead(r)' <= Ahead(r) /\ (Settle(r) => Ahead(r)' < Ahead(r))
<1>0. /\ \A x \in Awaits : AwaitsLeft[x] \in Nat
      /\ pc[r] \in Awaits
  BY DEF TypeOK, Awaits, AwaitsLeft
<1>1. ASSUME NEW q \in Requests, MovesOn(q)
      PROVE  Ahead(r)' <= Ahead(r) /\ (q = r => Ahead(r)' < Ahead(r))
  BY <1>0, <1>1 DEF TypeOK, MovesOn, Ahead
<1>2. CASE Settle(r)
  BY <1>0, <1>1, <1>2, SettleMovesOn DEF Ahead
<1>3. CASE ~Settle(r)
  <2> SUFFICES Ahead(r)' <= Ahead(r)
    BY <1>3
  <2>1. ASSUME pc'[r] = pc[r] PROVE Ahead(r)' <= Ahead(r)
    BY <1>0, <2>1 DEF Ahead
  <2>2. ASSUME NEW q \in Requests, Settle(q) PROVE Ahead(r)' <= Ahead(r)
    BY <1>1, <2>2, SettleMovesOn
  <2>3. ASSUME NEW q \in Requests, SaveFails(q) \/ StartCheck(q) \/ EnqueueResolves(q)
        PROVE  Ahead(r)' <= Ahead(r)
    <3>1. MovesOn(q)
      BY <2>3 DEF SaveFails, StartCheck, EnqueueResolves, MovesOn, Awaits, AwaitsLeft,
                  GoTo, Finish
    <3> QED BY <1>1, <3>1
  <2>4. ASSUME NEW q \in Requests, EnqueueRejects(q) PROVE Ahead(r)' <= Ahead(r)
    <3>1. MovesOn(q)
      BY <2>4 DEF EnqueueRejects, Degraded, MovesOn, Awaits, AwaitsLeft, GoTo, Finish
    <3> QED BY <1>1, <3>1
  <2>5. ASSUME NEW q \in Requests, ExecuteSet(q) \/ ExecuteAdd(q)
        PROVE  Ahead(r)' <= Ahead(r)
    BY <2>1, <2>5 DEF ExecuteSet, ExecuteAdd, handler
  <2>6. ASSUME RedisDown \/ (\E S \in SUBSET Services : RedisBack(S)) \/ Tick
        PROVE  Ahead(r)' <= Ahead(r)
    BY <2>1, <2>6 DEF RedisDown, RedisBack, Tick, handler
  <2>7. ASSUME NEW i \in Instances, FlagFalls(i) \/ FlagRises(i)
        PROVE  Ahead(r)' <= Ahead(r)
    BY <2>1, <2>7 DEF FlagFalls, FlagRises, handler
  <2>8. ASSUME NEW i \in Instances, NEW up \in BOOLEAN, Restart(i, up)
        PROVE  Ahead(r)' <= Ahead(r)
    <3>1. pc'[r] = pc[r] \/ pc'[r] = "done"
      BY <2>8 DEF Restart
    <3>2. CASE pc'[r] = "done"
      BY <1>0, <3>2 DEF Ahead, AwaitsLeft
    <3> QED BY <2>1, <3>1, <3>2
  <2>9. CASE UNCHANGED vars
    BY <2>1, <2>9 DEF vars, handler
  <2> QED BY <2>2, <2>3, <2>4, <2>5, <2>6, <2>7, <2>8, <2>9 DEF Next
<1> QED BY <1>2, <1>3

THEOREM HandlersMoveOn == Spec => NeverGoesBack
<1> DEFINE Forward == \A r \in Requests :
                         /\ Ahead(r)' <= Ahead(r)
                         /\ Settle(r) => Ahead(r)' < Ahead(r)
<1>1. TypeOK /\ [Next]_vars => [Forward]_vars
  BY AwaitsStep
<1> QED BY <1>1, TypeCorrect, PTL DEF Spec, NeverGoesBack
=============================================================================
