---------------------------- MODULE WindowProofs ----------------------------
(***************************************************************************)
(* Theorems about SlidingWindow, for every set of requests, every window   *)
(* and every commandTimeout; those that rest on a commandTimeout not       *)
(* longer than the window say so.                                          *)
(***************************************************************************)
EXTENDS SlidingWindow, TLAPS

(* Why e is not in the set any more at time t, when the requests of L have *)
(* been executed: it was trimmed, or the key expired.                      *)
Gone(e, L, t) ==
    \/ \E f \in L : at[e] + Window <= at[f]
    \/ at[e] + 2 * Window <= t

(* Where a request is in its handler and on the server.                    *)
PlaceOK(r) ==
    /\ pc[r] \in {"idle", "saved"} => multi[r] = "none"
    /\ path[r] = "redis" => pc[r] = "done" /\ multi[r] = "run"
    /\ pc[r] \in {"idle", "saved", "redis", "db"} => path[r] = "none"
    /\ at[r] <= clock

(* The set holds what was executed and is not gone; whoever is executed    *)
(* puts the expiry two windows ahead.                                      *)
LogOK ==
    /\ zset \subseteq log
    /\ expiry <= clock + 2 * Window
    /\ \A e \in log :
          /\ multi[e] = "run"
          /\ at[e] + 2 * Window <= expiry
          /\ e \in zset \/ Gone(e, log, clock)

(* The same of the moment at which r was executed.                         *)
RunOK(r) ==
    multi[r] = "run" =>
        /\ r \in before[r]
        /\ at[r] <= ranAt[r] /\ ranAt[r] <= clock
        /\ \A e \in before[r] : multi[e] = "run"

(* The reply for which a client waits or has waited long enough.           *)
AnswerOK(r) ==
    multi[r] = "run" /\ (pc[r] = "redis" \/ path[r] = "redis") =>
        /\ \A e \in answer[r] : e \in before[r] /\ at[r] < at[e] + Window
        /\ \A e \in before[r] : e \in answer[r] \/ Gone(e, before[r], ranAt[r])
        /\ path[r] = "redis" => ranAt[r] <= at[r] + Patience

WInv ==
    /\ TypeOK
    /\ LogOK
    /\ \A r \in Requests : PlaceOK(r) /\ RunOK(r) /\ AnswerOK(r)

-----------------------------------------------------------------------------
LEMMA InitWInv == Init => WInv
  BY WindowAssumption
  DEF Init, WInv, TypeOK, LogOK, PlaceOK, RunOK, AnswerOK

LEMMA TypeStep == TypeOK /\ [Next]_vars => TypeOK'
<1> SUFFICES ASSUME TypeOK, [Next]_vars PROVE TypeOK'
  OBVIOUS
<1> USE WindowAssumption DEF TypeOK, shared, handler, history, GoTo
<1>1. ASSUME NEW r \in Requests, Save(r) PROVE TypeOK'
  BY <1>1 DEF Save
<1>2. ASSUME NEW r \in Requests, NEW h \in BOOLEAN, Start(r, h) PROVE TypeOK'
  BY <1>2 DEF Start
<1>3. ASSUME NEW r \in Requests, RedisAnswers(r) \/ RedisFails(r) PROVE TypeOK'
  BY <1>3 DEF RedisAnswers, RedisFails
<1>4. ASSUME NEW r \in Requests, DbAnswers(r) PROVE TypeOK'
  BY <1>4 DEF DbAnswers, RowsInWindow
<1>5. ASSUME NEW r \in Requests, Execute(r) PROVE TypeOK'
  BY <1>5 DEF Execute, Trimmed, Members, KeyLivesUntil
<1>6. CASE RedisDown
  BY <1>6 DEF RedisDown
<1>7. ASSUME NEW lost \in BOOLEAN, RedisBack(lost) PROVE TypeOK'
  BY <1>7 DEF RedisBack
<1>8. CASE Tick
  BY <1>8 DEF Tick
<1>9. CASE UNCHANGED vars
  BY <1>9 DEF vars
<1>10. QED
  BY <1>1, <1>2, <1>3, <1>4, <1>5, <1>6, <1>7, <1>8, <1>9 DEF Next

(* The step that matters: the MULTI of r.                                  *)
LEMMA ExecuteStep ==
  ASSUME WInv, TypeOK', NEW r \in Requests, Execute(r)
  PROVE  WInv'
<1> USE WindowAssumption
<1>1. /\ multi[r] = "sent" /\ multi' = [multi EXCEPT ![r] = "run"]
      /\ log' = log \union {r} /\ zset' = Trimmed(r)
      /\ expiry' = clock + 2 * Window
      /\ UNCHANGED <<clock, pc, at, path>>
  BY DEF Execute, KeyLivesUntil
<1>2. \A e \in Requests : at[e] <= clock /\ at[e] \in Nat
  BY DEF WInv, PlaceOK, TypeOK
<1>3. r \notin log /\ \A q \in Requests : multi[q] = "run" => r \notin before[q]
  BY <1>1 DEF WInv, LogOK, RunOK
<1>4. \A e \in log' : e \in zset' \/ Gone(e, log', clock)
  <2> SUFFICES ASSUME NEW e \in log', e \notin Trimmed(r)
               PROVE  Gone(e, log', clock)
    BY <1>1
  <2>1. CASE e = r
    BY <2>1, <1>2, WindowAssumption DEF Trimmed, InWindow
  <2>2. CASE e \in log /\ e \in Members
    <3>1. at[e] + Window <= at[r]
      BY <2>2, <1>2 DEF Trimmed, InWindow, WInv, TypeOK
    <3>2. QED
      BY <3>1, <1>1 DEF Gone
  <2>3. CASE e \in log /\ e \notin Members
    <3>1. CASE e \notin zset
      BY <2>3, <3>1, <1>1 DEF WInv, LogOK, Gone
    <3>2. CASE expiry <= clock
      BY <2>3, <3>2, <1>2 DEF WInv, LogOK, Gone, TypeOK
    <3>3. QED
      BY <2>3, <3>1, <3>2 DEF Members, WInv, TypeOK
  <2>4. QED
    BY <2>1, <2>2, <2>3, <1>1
<1>5. LogOK'
  <2>1. zset' \subseteq log'
    BY <1>1 DEF Trimmed, Members, WInv, LogOK
  <2>2. \A e \in log' : multi'[e] = "run" /\ at[e] + 2 * Window <= expiry'
    BY <1>1, <1>2 DEF WInv, LogOK, TypeOK
  <2>3. QED
    BY <1>1, <1>4, <2>1, <2>2 DEF LogOK, Gone, WInv, TypeOK
<1>6. ASSUME NEW q \in Requests PROVE PlaceOK(q)'
  BY <1>1 DEF WInv, TypeOK, PlaceOK
<1>7. ASSUME NEW q \in Requests PROVE RunOK(q)'
  <2>1. CASE q = r
    BY <2>1, <1>1, <1>2 DEF Execute, WInv, TypeOK, LogOK, RunOK
  <2>2. CASE q # r
    BY <2>2, <1>1 DEF Execute, WInv, TypeOK, RunOK
  <2>3. QED
    BY <2>1, <2>2
<1>8. ASSUME NEW q \in Requests PROVE AnswerOK(q)'
  <2>1. CASE q = r
    <3>1. path[r] # "redis"
      BY <1>1 DEF WInv, PlaceOK
    <3>2. CASE pc[r] = "redis"
      <4>1. /\ answer'[r] = zset' /\ before'[r] = log' /\ ranAt'[r] = clock
        BY <3>2, <1>1 DEF Execute, WInv, TypeOK
      <4>2. \A e \in zset' : at[r] < at[e] + Window
        BY <1>1 DEF Trimmed, InWindow
      <4>3. QED
        BY <2>1, <3>1, <4>1, <4>2, <1>1, <1>4, <1>5 DEF AnswerOK, Gone, LogOK
    <3>3. CASE pc[r] # "redis"
      BY <2>1, <3>1, <3>3, <1>1 DEF AnswerOK
    <3>4. QED
      BY <3>2, <3>3
  <2>2. CASE q # r
    BY <2>2, <1>1 DEF Execute, WInv, TypeOK, AnswerOK, Gone
  <2>3. QED
    BY <2>1, <2>2
<1>9. QED
  BY <1>5, <1>6, <1>7, <1>8 DEF WInv

(* Time only adds reasons for an element to be gone.                       *)
LEMMA TickStep ==
  ASSUME WInv, TypeOK', Tick
  PROVE  WInv'
<1> USE WindowAssumption DEF Tick, handler, history
<1>1. LogOK'
  BY DEF WInv, TypeOK, LogOK, Gone
<1>2. ASSUME NEW r \in Requests PROVE PlaceOK(r)' /\ RunOK(r)' /\ AnswerOK(r)'
  BY DEF WInv, TypeOK, PlaceOK, RunOK, AnswerOK, Gone
<1>3. QED
  BY <1>1, <1>2 DEF WInv

LEMMA StartStep ==
  ASSUME WInv, TypeOK', NEW r \in Requests, NEW h \in BOOLEAN, Start(r, h)
  PROVE  WInv'
<1> USE WindowAssumption DEF Start, GoTo, shared, history
<1>1. multi[r] = "none" /\ path[r] = "none"
  BY DEF WInv, PlaceOK
<1>2. r \notin log /\ \A q \in Requests : multi[q] = "run" => r \notin before[q]
  BY <1>1 DEF WInv, LogOK, RunOK
<1>3. \A e \in Requests \ {r} : at'[e] = at[e]
  BY DEF WInv, TypeOK
<1>4. \A e \in log : e \in Requests \ {r}
  BY <1>2 DEF WInv, TypeOK
<1>5. LogOK'
  BY <1>2, <1>3, <1>4 DEF WInv, TypeOK, LogOK, Gone
<1>6. ASSUME NEW q \in Requests PROVE PlaceOK(q)' /\ RunOK(q)'
  BY <1>1, <1>2 DEF WInv, TypeOK, PlaceOK, RunOK
<1>7. ASSUME NEW q \in Requests PROVE AnswerOK(q)'
  <2>1. CASE q = r
    BY <2>1, <1>1 DEF WInv, TypeOK, AnswerOK
  <2>2. CASE q # r /\ multi[q] = "run"
    <3>1. \A e \in before[q] : e \in Requests \ {r} /\ at'[e] = at[e]
      BY <1>2, <1>3, <2>2 DEF WInv, TypeOK
    <3>2. QED
      BY <2>2, <3>1, <1>3 DEF WInv, TypeOK, AnswerOK, Gone
  <2>3. CASE q # r /\ multi[q] # "run"
    BY <2>3 DEF WInv, TypeOK, AnswerOK
  <2>4. QED
    BY <2>1, <2>2, <2>3
<1>8. QED
  BY <1>5, <1>6, <1>7 DEF WInv

LEMMA WInvStep == WInv /\ [Next]_vars => WInv'
<1> SUFFICES ASSUME WInv, [Next]_vars PROVE WInv'
  OBVIOUS
<1>0. TypeOK'
  BY TypeStep DEF WInv
<1> USE DEF shared, handler, history, GoTo
<1>1. ASSUME NEW r \in Requests, Save(r) PROVE WInv'
  BY <1>0, <1>1 DEF Save, WInv, TypeOK, LogOK, PlaceOK, RunOK, AnswerOK, Gone
<1>2. ASSUME NEW r \in Requests, NEW h \in BOOLEAN, Start(r, h) PROVE WInv'
  BY <1>0, <1>2, StartStep
<1>3. ASSUME NEW r \in Requests, RedisAnswers(r) PROVE WInv'
  BY <1>0, <1>3, WindowAssumption
  DEF RedisAnswers, WInv, TypeOK, LogOK, PlaceOK, RunOK, AnswerOK, Gone
<1>4. ASSUME NEW r \in Requests, RedisFails(r) \/ DbAnswers(r) PROVE WInv'
  BY <1>0, <1>4
  DEF RedisFails, DbAnswers, WInv, TypeOK, LogOK, PlaceOK, RunOK, AnswerOK, Gone
<1>5. ASSUME NEW r \in Requests, Execute(r) PROVE WInv'
  BY <1>0, <1>5, ExecuteStep
<1>6. CASE RedisDown
  BY <1>0, <1>6 DEF RedisDown, WInv, TypeOK, LogOK, PlaceOK, RunOK, AnswerOK, Gone
<1>7. ASSUME NEW lost \in BOOLEAN, RedisBack(lost) PROVE WInv'
  BY <1>0, <1>7 DEF RedisBack, WInv, TypeOK, LogOK, PlaceOK, RunOK, AnswerOK, Gone
<1>8. CASE Tick
  BY <1>0, <1>8, TickStep
<1>9. CASE UNCHANGED vars
  BY <1>0, <1>9 DEF vars, WInv, LogOK, PlaceOK, RunOK, AnswerOK, Gone
<1>10. QED
  BY <1>1, <1>2, <1>3, <1>4, <1>5, <1>6, <1>7, <1>8, <1>9 DEF Next

LEMMA Invariant == Spec => []WInv
  BY InitWInv, WInvStep, PTL DEF Spec

-----------------------------------------------------------------------------
(* Every variable keeps its type.                                          *)
THEOREM TypeCorrect == Spec => []TypeOK
<1>1. WInv => TypeOK
  BY DEF WInv
<1>2. QED
  BY <1>1, Invariant, PTL

(* What a count from Redis is for any window and any commandTimeout: it    *)
(* counts nothing outside the window of its own time, and of the requests  *)
(* executed before it that are in the window of all of them it misses only *)
(* those the key may have expired with: those two windows, less a          *)
(* commandTimeout, before it (redis-sliding-window.counter.ts:27-37,       *)
(* env.schema.ts:13).                                                      *)
MissesOnlyExpired ==
    \A r \in Requests : path[r] = "redis" =>
        /\ \A e \in answer[r] : e \in before[r] /\ at[r] < at[e] + Window
        /\ \A e \in before[r] :
              /\ \A f \in before[r] : at[f] < at[e] + Window
              /\ at[r] + Patience < at[e] + 2 * Window
              => e \in answer[r]

(* Whatever the order of the MULTIs, whoever waits for them and whenever   *)
(* the key expires.                                                        *)
THEOREM WindowOrExpired == Spec => []MissesOnlyExpired
<1>1. WInv => MissesOnlyExpired
  <2> SUFFICES ASSUME WInv, NEW r \in Requests, path[r] = "redis"
               PROVE  /\ \A e \in answer[r] : e \in before[r] /\ at[r] < at[e] + Window
                      /\ \A e \in before[r] :
                            /\ \A f \in before[r] : at[f] < at[e] + Window
                            /\ at[r] + Patience < at[e] + 2 * Window
                            => e \in answer[r]
    BY DEF MissesOnlyExpired
  <2>1. multi[r] = "run" /\ AnswerOK(r)
    BY DEF WInv, PlaceOK
  <2>2. ASSUME NEW e \in before[r], \A f \in before[r] : at[f] < at[e] + Window,
               at[r] + Patience < at[e] + 2 * Window
        PROVE  e \in answer[r]
    <3>1. SUFFICES ASSUME Gone(e, before[r], ranAt[r]) PROVE FALSE
      BY <2>1 DEF AnswerOK
    <3>2. /\ \A f \in before[r] : at[f] \in Nat
          /\ at[r] \in Nat /\ ranAt[r] \in Nat
      BY DEF WInv, TypeOK
    <3>3. at[e] + 2 * Window <= ranAt[r]
      BY <3>1, <3>2, <2>2, WindowAssumption DEF Gone
    <3>4. ranAt[r] <= at[r] + Patience
      BY <2>1 DEF AnswerOK
    <3>5. QED
      BY <2>2, <3>2, <3>3, <3>4, WindowAssumption
  <2>3. QED
    BY <2>1, <2>2 DEF AnswerOK
<1>2. QED
  BY <1>1, Invariant, PTL

(* With a commandTimeout not longer than the window it misses none: a      *)
(* request that finds the key expired, two windows after the last one, is  *)
(* itself a window later.                                                  *)
THEOREM WindowCounted ==
    ASSUME Patience <= Window
    PROVE  Spec => []CountsTheWindow
<1>1. WInv /\ MissesOnlyExpired => CountsTheWindow
  <2> SUFFICES ASSUME WInv, MissesOnlyExpired, NEW r \in Requests, path[r] = "redis",
                      NEW e \in before[r], \A f \in before[r] : at[f] < at[e] + Window
               PROVE  e \in answer[r]
    BY DEF CountsTheWindow, MissesOnlyExpired
  <2>1. r \in before[r] /\ at[r] \in Nat /\ at[e] \in Nat
    BY DEF WInv, TypeOK, PlaceOK, RunOK
  <2>2. at[r] + Patience < at[e] + 2 * Window
    BY <2>1, WindowAssumption
  <2> QED BY <2>2 DEF MissesOnlyExpired
<1>2. QED
  BY <1>1, Invariant, WindowOrExpired, PTL

-----------------------------------------------------------------------------
(* The burst.  No request counted or being counted is a window later than  *)
(* one of B.                                                               *)
Spread(B) ==
    \A e \in B, f \in Requests : pc[f] # "idle" => at[f] < created[e] + Window

CountedInDb == {r \in Requests : path[r] = "db"}

(* A row is stored before its request takes the time.  Of any requests     *)
(* that Redis has executed one saw all the others; of a burst that the     *)
(* database counted one saw all the others too.                            *)
OneSawAll ==
    /\ 1 <= clock
    /\ \A r \in Requests :
          /\ pc[r] # "idle" => 1 <= created[r] /\ created[r] <= clock
          /\ pc[r] \notin {"idle", "saved"} => created[r] <= at[r]
    /\ \A B \in SUBSET log : B # {} => \E r \in B : B \subseteq before[r]
    /\ \A B \in SUBSET CountedInDb :
          B # {} /\ Spread(B) => \E r \in B : B \subseteq answer[r]

(* A request that is about to be counted by the database counts the burst  *)
(* it completes, and changes nothing of the others.                        *)
LEMMA DbSeesBurst ==
    ASSUME WInv, OneSawAll, NEW r \in Requests, DbAnswers(r),
           NEW B \in SUBSET (CountedInDb'), B # {}, Spread(B)'
    PROVE  \E q \in B : B \subseteq answer'[q]
<1> USE DEF DbAnswers, GoTo, WInv, TypeOK
<1>1. Spread(B)
  BY DEF Spread
<1>2. CASE r \in B
  <2>1. ASSUME NEW e \in B PROVE e \in RowsInWindow(r)
    <3>1. pc[e] # "idle" /\ e \in Requests
      BY DEF CountedInDb, PlaceOK
    <3>2. created[e] \in Nat /\ 1 <= created[e] /\ at[r] < created[e] + Window
      BY <1>1, <3>1 DEF OneSawAll, Spread
    <3>3. created[e] > 0
      BY <3>2
    <3>4. QED
      BY <3>1, <3>2, <3>3 DEF RowsInWindow, InWindow
  <2>2. answer'[r] = RowsInWindow(r)
    OBVIOUS
  <2>3. QED
    BY <1>2, <2>1, <2>2
<1>3. CASE r \notin B
  <2>1. B \in SUBSET CountedInDb
    BY <1>3 DEF CountedInDb
  <2>2. PICK q \in B : B \subseteq answer[q]
    BY <1>1, <2>1 DEF OneSawAll
  <2>3. answer'[q] = answer[q]
    BY <1>3, <2>1
  <2>4. QED
    BY <2>2, <2>3
<1>4. QED
  BY <1>2, <1>3

(* The request executed last saw all of the log.                           *)
LEMMA LastSawAll ==
    ASSUME WInv, OneSawAll, NEW r \in Requests, Execute(r),
           NEW B \in SUBSET (log'), B # {}
    PROVE  \E q \in B : B \subseteq before'[q]
<1> USE DEF Execute, WInv, TypeOK
<1>1. CASE r \in B
  BY <1>1
<1>2. CASE r \notin B
  <2>1. B \in SUBSET log
    BY <1>2
  <2>2. PICK q \in B : B \subseteq before[q]
    BY <2>1 DEF OneSawAll
  <2>3. before'[q] = before[q]
    BY <1>2, <2>1
  <2>4. QED
    BY <2>2, <2>3
<1>3. QED
  BY <1>1, <1>2

(* The steps that count nothing by the database.                           *)
LEMMA BurstKept ==
    ASSUME WInv, OneSawAll,
           CountedInDb' = CountedInDb,
           \A e \in CountedInDb : answer'[e] = answer[e],
           \A e \in Requests : pc[e] # "idle" =>
               pc'[e] # "idle" /\ created'[e] = created[e] /\ at[e] <= at'[e] /\ at'[e] \in Nat,
           NEW B \in SUBSET (CountedInDb'), B # {}, Spread(B)'
    PROVE  \E q \in B : B \subseteq answer'[q]
<1> USE DEF WInv, TypeOK
<1>1. Spread(B)
  <2>1. SUFFICES ASSUME NEW e \in B, NEW f \in Requests, pc[f] # "idle"
                 PROVE  at[f] < created[e] + Window
    BY DEF Spread
  <2>2. pc[e] # "idle" /\ e \in Requests
    BY DEF CountedInDb, PlaceOK
  <2>3. at'[f] < created[e] + Window
    BY <2>1, <2>2 DEF Spread
  <2>4. QED
    BY <2>1, <2>2, <2>3, WindowAssumption
<1>2. PICK q \in B : B \subseteq answer[q]
  BY <1>1 DEF OneSawAll
<1>3. QED
  BY <1>2

LEMMA OneSawAllStep == WInv /\ OneSawAll /\ [Next]_vars => OneSawAll'
<1> SUFFICES ASSUME WInv, OneSawAll, [Next]_vars PROVE OneSawAll'
  OBVIOUS
<1> USE DEF shared, handler, history, GoTo
<1>1. /\ 1 <= clock'
      /\ \A r \in Requests :
            /\ pc'[r] # "idle" => 1 <= created'[r] /\ created'[r] <= clock'
            /\ pc'[r] \notin {"idle", "saved"} => created'[r] <= at'[r]
  BY DEF OneSawAll, WInv, TypeOK, PlaceOK, Next, vars, Save, Start, RedisAnswers, RedisFails,
         DbAnswers, Execute, RedisDown, RedisBack, Tick
<1>2. ASSUME NEW B \in SUBSET (log'), B # {} PROVE \E r \in B : B \subseteq before'[r]
  <2>1. CASE \E r \in Requests : Execute(r)
    BY <1>2, <2>1, LastSawAll
  <2>2. CASE ~\E r \in Requests : Execute(r)
    <3>1. before' = before /\ log' \subseteq log
      BY <2>2 DEF Next, vars, Save, Start, RedisAnswers, RedisFails, DbAnswers, RedisDown,
                  RedisBack, Tick
    <3>2. QED
      BY <1>2, <3>1 DEF OneSawAll
  <2>3. QED
    BY <2>1, <2>2
<1>3. ASSUME NEW B \in SUBSET (CountedInDb'), B # {}, Spread(B)'
      PROVE  \E r \in B : B \subseteq answer'[r]
  <2>1. CASE \E r \in Requests : DbAnswers(r)
    BY <1>3, <2>1, DbSeesBurst
  <2>2. CASE ~\E r \in Requests : DbAnswers(r)
    <3>1. CountedInDb' = CountedInDb
      BY <2>2 DEF CountedInDb, WInv, TypeOK, PlaceOK, Next, vars, Save, Start, RedisAnswers,
                  RedisFails, Execute, RedisDown, RedisBack, Tick
    <3>2. \A e \in CountedInDb : answer'[e] = answer[e]
      BY <2>2 DEF CountedInDb, WInv, TypeOK, PlaceOK, Next, vars, Save, Start, RedisAnswers,
                  RedisFails, Execute, RedisDown, RedisBack, Tick
    <3>3. \A e \in Requests : pc[e] # "idle" =>
              pc'[e] # "idle" /\ created'[e] = created[e] /\ at[e] <= at'[e] /\ at'[e] \in Nat
      BY <2>2 DEF WInv, TypeOK, PlaceOK, Next, vars, Save, Start, RedisAnswers,
                  RedisFails, Execute, RedisDown, RedisBack, Tick
    <3>4. QED
      BY <1>3, <3>1, <3>2, <3>3, BurstKept
  <2>3. QED
    BY <2>1, <2>2
<1>4. QED
  BY <1>1, <1>2, <1>3 DEF OneSawAll

(* A burst that was counted on one path shows in full in one of its        *)
(* counts, in whatever order its requests were stored, counted and         *)
(* executed: somebody sees the threshold reached                           *)
(* (counter.selector.ts:23-32, detector.service.ts:46-49).                 *)
THEOREM BurstIsSeen ==
    ASSUME Patience <= Window
    PROVE  Spec => []BurstSeen
<1>1. Init => OneSawAll
  BY DEF Init, OneSawAll, CountedInDb
<1>2. WInv /\ OneSawAll => BurstSeen
  <2> SUFFICES ASSUME WInv, OneSawAll, NEW B \in SUBSET Requests, B # {}, Burst(B),
                      \/ \A e \in B : path[e] = "db"
                      \/ (\A e \in B : path[e] = "redis") /\ B \subseteq log
               PROVE  \E r \in B : B \subseteq answer[r]
    BY DEF BurstSeen
  <2>1. Spread(B)
    BY DEF Burst, Spread
  <2>2. CASE \A e \in B : path[e] = "db"
    BY <2>1, <2>2 DEF OneSawAll, CountedInDb
  <2>3. CASE (\A e \in B : path[e] = "redis") /\ B \subseteq log
    <3>1. PICK r \in B : B \subseteq before[r]
      BY <2>3 DEF OneSawAll
    <3>2. ASSUME NEW e \in B PROVE e \in answer[r]
      <4>1. AnswerOK(r) /\ multi[r] = "run" /\ path[r] = "redis" /\ e \in before[r]
        BY <2>3, <3>1 DEF WInv, PlaceOK
      <4>2. SUFFICES ASSUME Gone(e, before[r], ranAt[r]) PROVE FALSE
        BY <4>1 DEF AnswerOK
      <4>3. /\ created[e] <= at[e] /\ created[e] \in Nat /\ at[e] \in Nat
            /\ at[r] \in Nat /\ ranAt[r] \in Nat /\ pc[r] = "done"
        BY <2>3 DEF WInv, TypeOK, PlaceOK, OneSawAll
      <4>4. ASSUME NEW f \in before[r] PROVE at[f] < at[e] + Window
        <5>1. f \in Requests /\ at[f] \in Nat /\ pc[f] # "idle"
          BY <4>1 DEF WInv, TypeOK, RunOK, PlaceOK
        <5>2. at[f] < created[e] + Window
          BY <2>1, <5>1 DEF Spread
        <5>3. QED
          BY <4>3, <5>1, <5>2, WindowAssumption
      <4>5. at[e] + 2 * Window <= ranAt[r]
        <5>1. \A f \in before[r] : at[f] \in Nat
          BY DEF WInv, TypeOK
        <5>2. QED
          BY <4>2, <4>3, <4>4, <5>1, WindowAssumption DEF Gone
      <4>6. ranAt[r] <= at[r] + Patience
        BY <4>1 DEF AnswerOK
      <4>7. at[r] < created[e] + Window
        BY <2>1, <4>3 DEF Spread
      <4>8. QED
        BY <4>3, <4>5, <4>6, <4>7, WindowAssumption
    <3>3. QED
      BY <3>1, <3>2
  <2>4. QED
    BY <2>2, <2>3
<1>3. QED
  BY <1>1, <1>2, Invariant, OneSawAllStep, InitWInv, PTL DEF Spec
=============================================================================
