---------------------------- MODULE HealthProofs ----------------------------
(***************************************************************************)
(* Theorems about RedisHealth: for how long the flag may be wrong, for     *)
(* every interval, timeout and reconnect pause.                            *)
(***************************************************************************)
EXTENDS RedisHealth, TLAPS

(* Before the first check is over its PING is under way; later the         *)
(* interval and the PING it started run down together.                     *)
TimersOK ==
    /\ ~ready => ping # "none" /\ steady + pingLeft <= Timeout
    /\ ready /\ ping # "none" => timerLeft + Timeout = pingLeft + Interval
    /\ ping = "queued" => ~open

(* A flag that is up although Redis is not: the next PING ends it.         *)
DownOK ==
    ready /\ healthy /\ redis # "up" =>
        /\ ping = "none" => steady + timerLeft <= Interval
        /\ ping # "none" => steady + pingLeft <= DownNoticed

(* A Redis that is back is reconnected within Retry; a PING that was under *)
(* way when it came back ends at once.                                     *)
ReconnectOK ==
    redis = "up" =>
        /\ ~open => steady + retryLeft <= Retry
        /\ ping = "sent" /\ ~open => steady = 0
        /\ ping = "sent" /\ open => steady <= Retry \/ pingLeft = Timeout

(* A flag that is down although Redis is up: the next PING ends it.        *)
UpOK ==
    ready /\ ~healthy /\ redis = "up" =>
        /\ ping = "none" => steady + timerLeft <= UpNoticed
        /\ ping # "none" => steady <= UpNoticed

HInv == TypeOK /\ TimersOK /\ DownOK /\ ReconnectOK /\ UpOK

LEMMA InitHInv == Init => HInv
<1> SUFFICES ASSUME Init PROVE HInv
  OBVIOUS
<1> USE HealthAssumption DEF Init
<1>1. TypeOK
  <2>1. redis \in {"up", "down", "hung"} /\ open \in BOOLEAN /\ ready \in BOOLEAN
    OBVIOUS
  <2>2. ping \in {"none", "queued", "sent"} /\ healthy \in BOOLEAN
    OBVIOUS
  <2>3. /\ retryLeft \in 0..Retry /\ pingLeft \in 0..Timeout
        /\ timerLeft \in 0..Interval /\ steady \in 0..SteadyMax
    BY DEF SteadyMax
  <2>4. QED
    BY <2>1, <2>2, <2>3 DEF TypeOK
<1>2. TimersOK /\ DownOK /\ UpOK
  BY DEF TimersOK, DownOK, UpOK
<1>3. ReconnectOK
  BY DEF ReconnectOK
<1>4. QED
  BY <1>1, <1>2, <1>3 DEF HInv

LEMMA TypeStep == TypeOK /\ [Next]_vars => TypeOK'
<1> SUFFICES ASSUME TypeOK, [Next]_vars PROVE TypeOK'
  OBVIOUS
<1> USE HealthAssumption DEF TypeOK
<1>1. CASE TimerFires
  BY <1>1 DEF TimerFires
<1>2. CASE PingAnswered \/ PingFails
  <2>1. ping' = "none" /\ ready' = TRUE /\ healthy' \in BOOLEAN
    BY <1>2 DEF PingAnswered, PingFails, CheckOver
  <2>2. pingLeft' \in 0..Timeout /\ timerLeft' \in 0..Interval
    BY <1>2 DEF PingAnswered, PingFails, CheckOver
  <2>3. UNCHANGED <<redis, open, retryLeft, steady>>
    BY <1>2 DEF PingAnswered, PingFails
  <2>4. QED
    BY <2>1, <2>2, <2>3
<1>3. CASE ErrorEvent
  BY <1>3 DEF ErrorEvent
<1>4. CASE Connected
  BY <1>4 DEF Connected
<1>5. CASE ServerStops
  <2>1. redis' = "down" /\ open' = FALSE /\ retryLeft' \in 0..Retry
    BY <1>5 DEF ServerStops, Becomes
  <2>2. steady' \in 0..SteadyMax
    BY <1>5 DEF ServerStops, Becomes, SteadyMax
  <2>3. UNCHANGED <<ping, pingLeft, timerLeft, ready, healthy>>
    BY <1>5 DEF ServerStops
  <2>4. QED
    BY <2>1, <2>2, <2>3
<1>6. CASE ServerHangs \/ ServerRecovers
  BY <1>6 DEF ServerHangs, ServerRecovers, Becomes, SteadyMax
<1>7. CASE Tick
  BY <1>7 DEF Tick, Less, SteadyMax
<1>8. CASE UNCHANGED vars
  BY <1>8 DEF vars
<1>9. QED
  BY <1>1, <1>2, <1>3, <1>4, <1>5, <1>6, <1>7, <1>8 DEF Next

LEMMA HInvStep == HInv /\ [Next]_vars => HInv'
<1> SUFFICES ASSUME HInv, [Next]_vars PROVE HInv'
  OBVIOUS
<1> USE HealthAssumption
    DEF HInv, TypeOK, TimersOK, DownOK, ReconnectOK, UpOK, SteadyMax, UpNoticed, DownNoticed
<1>1. CASE TimerFires
  BY <1>1 DEF TimerFires
<1>2. CASE PingAnswered
  <2>1. TypeOK' /\ TimersOK'
    BY <1>2 DEF PingAnswered, CheckOver
  <2>2. DownOK' /\ ReconnectOK'
    BY <1>2 DEF PingAnswered, CheckOver
  <2>3. UpOK'
    BY <1>2 DEF PingAnswered
  <2>4. QED
    BY <2>1, <2>2, <2>3
<1>3. CASE PingFails
  <2>0. TypeOK'
    BY TypeStep
  <2>1. TimersOK'
    BY <1>3 DEF PingFails, CheckOver
  <2>2. DownOK' /\ ReconnectOK'
    BY <1>3 DEF PingFails, CheckOver
  <2>3. UpOK'
    BY <1>3 DEF PingFails, CheckOver
  <2>4. QED
    BY <2>0, <2>1, <2>2, <2>3
<1>4. CASE ErrorEvent
  BY <1>4 DEF ErrorEvent
<1>5. CASE Connected
  BY <1>5 DEF Connected
<1>6. CASE ServerStops \/ ServerHangs \/ ServerRecovers
  <2>1. CASE ServerStops
    <3>0. TypeOK'
      BY TypeStep
    <3>1. TimersOK'
      BY <2>1 DEF ServerStops, Becomes
    <3>2. DownOK' /\ ReconnectOK' /\ UpOK'
      BY <2>1 DEF ServerStops, Becomes
    <3>3. QED
      BY <3>0, <3>1, <3>2
  <2>2. CASE ServerHangs
    BY <2>2 DEF ServerHangs, Becomes
  <2>3. CASE ServerRecovers
    BY <2>3 DEF ServerRecovers, Becomes
  <2>4. QED
    BY <1>6, <2>1, <2>2, <2>3
<1>7. CASE Tick
  BY <1>7 DEF Tick, Less
<1>8. CASE UNCHANGED vars
  BY <1>8 DEF vars
<1>9. QED
  BY <1>1, <1>2, <1>3, <1>4, <1>5, <1>6, <1>7, <1>8 DEF Next

LEMMA Invariant == Spec => []HInv
  BY InitHInv, HInvStep, PTL DEF Spec

(* Every variable keeps its type; the timers stay within their ranges.     *)
THEOREM TypeCorrect == Spec => []TypeOK
<1>1. HInv => TypeOK
  BY DEF HInv
<1>2. QED
  BY <1>1, Invariant, PTL

(* A dead or silent Redis is not taken for healthy for longer than an      *)
(* interval and a timeout.                                                 *)
THEOREM DownNoticedInTime == Spec => []DownIsNoticed
<1>1. HInv => DownIsNoticed
  BY HealthAssumption DEF HInv, TypeOK, DownOK, DownNoticed, DownIsNoticed
<1>2. QED
  BY <1>1, Invariant, PTL

(* A Redis that is back is used again within an interval and the longer of *)
(* a timeout and a reconnect less a timeout.                               *)
THEOREM UpNoticedInTime == Spec => []UpIsNoticed
<1>1. HInv => UpIsNoticed
  BY HealthAssumption DEF HInv, TypeOK, UpOK, UpNoticed, UpIsNoticed
<1>2. QED
  BY <1>1, Invariant, PTL
=============================================================================
