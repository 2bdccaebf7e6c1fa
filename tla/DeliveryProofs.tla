--------------------------- MODULE DeliveryProofs ---------------------------
(***************************************************************************)
(* Theorems about AlertDelivery, for every set of alerts and workers and   *)
(* every bound on attempts, stalls and mishaps.                            *)
(***************************************************************************)
EXTENDS AlertDelivery, TLAPS

(***************************************************************************)
(* The inductive invariant, for one alert at a time.                       *)
(***************************************************************************)

(* Which stages each way in leads to.                                      *)
RouteOK(a) ==
    /\ stage[a] = "new" <=> via[a] = "none"
    /\ via[a] = "direct" =>
          /\ stage[a] \in {"posting", "inserting", "recording", "done", "lost"}
          /\ attempts[a] = 0 /\ stalls[a] = 0
    /\ stage[a] = "new" =>
          attempts[a] = 0 /\ stalls[a] = 0 /\ received[a] = 0 /\ rows[a] = 0

(* Which jobs have attempts left, and which have been given up.            *)
AttemptsOK(a) ==
    /\ stage[a] \in Busy \union {"waiting"} => attempts[a] < MaxAttempts
    /\ via[a] = "queue" /\ stage[a] = "recording" => attempts[a] = MaxAttempts
    /\ via[a] = "queue" /\ stage[a] = "lost" =>
          attempts[a] = MaxAttempts \/ stalls[a] > MaxStalls

(* The entries of an alert: one more than the reasons for a further one    *)
(* only once a run has made the last of them.                              *)
EntriesOK(a) ==
    /\ failures[a] > 0 => stage[a] \in {"done", "lost"}
    /\ IF stage[a] \in {"acking", "done", "lost"}
       THEN rows[a] + failures[a] <= 1 + stalls[a] + unheard[a]
       ELSE rows[a] <= stalls[a] + unheard[a]

(* A row is inserted only after its own 2xx.                               *)
ReceiptsOK(a) ==
    Webhook =>
        /\ rows[a] <= accepted[a]
        /\ stage[a] = "inserting" => rows[a] < accepted[a]

(* Every call of the webhook belongs to an attempt that has failed, to a   *)
(* run that stalled, or to the run under way.                              *)
ReceivedOK(a) ==
    /\ via[a] = "direct" =>
          /\ received[a] <= 1
          /\ stage[a] = "posting" => received[a] = 0
    /\ via[a] = "queue" =>
          /\ stage[a] \in {"waiting", "posting", "recording", "lost"} =>
                received[a] <= attempts[a] + stalls[a]
          /\ stage[a] \in {"inserting", "acking", "failing"} =>
                received[a] <= attempts[a] + 1 + stalls[a]
          /\ stage[a] = "done" => received[a] <= MaxAttempts + stalls[a]

(* Jobs stall in mishaps only.                                             *)
MishapsOK(a) == stalls[a] > 0 => mishaps > 0

AlertOK(a) ==
    /\ RouteOK(a)
    /\ AttemptsOK(a)
    /\ EntriesOK(a)
    /\ ReceiptsOK(a)
    /\ ReceivedOK(a)
    /\ MishapsOK(a)

IInv == TypeOK /\ \A a \in Alerts : AlertOK(a)

-----------------------------------------------------------------------------
LEMMA InitIInv == Init => IInv
  BY DeliveryAssumption
  DEF Init, IInv, TypeOK, Stages, AlertOK, RouteOK, AttemptsOK, EntriesOK,
      ReceiptsOK, ReceivedOK, MishapsOK, Busy

LEMMA RunStep ==
  ASSUME IInv, NEW a \in Alerts, Run(a)
  PROVE  IInv'
<1> USE DeliveryAssumption DEF Stages, Busy, GoTo, AddIf, tables, history
<1> USE DEF IInv, TypeOK, AlertOK, RouteOK, AttemptsOK, EntriesOK, ReceiptsOK, ReceivedOK, MishapsOK
<1>1. CASE PostAccepted(a)
  BY <1>1 DEF PostAccepted
<1>2. ASSUME NEW got \in BOOLEAN, PostFails(a, got) PROVE IInv'
  BY <1>2 DEF PostFails, Rejected
<1>3. CASE InsertOk(a)
  BY <1>3 DEF InsertOk
<1>4. ASSUME NEW happened \in BOOLEAN, InsertFails(a, happened) PROVE IInv'
  BY <1>4 DEF InsertFails, Rejected
<1>5. CASE Ack(a)
  BY <1>5 DEF Ack
<1>6. CASE JobFails(a)
  BY <1>6 DEF JobFails, Retried, Records
<1>7. CASE RecordOk(a)
  BY <1>7 DEF RecordOk
<1>8. ASSUME NEW happened \in BOOLEAN, DirectRecordFails(a, happened) PROVE IInv'
  BY <1>8 DEF DirectRecordFails, GoesWrong
<1>9. QED
  BY <1>1, <1>2, <1>3, <1>4, <1>5, <1>6, <1>7, <1>8 DEF Run

LEMMA EntryStep ==
  ASSUME IInv, NEW a \in Alerts, NEW w \in Workers,
         Enqueue(a) \/ DispatchDirect(a, w) \/ Take(a, w) \/ MoveFails(a)
  PROVE  IInv'
<1> USE DeliveryAssumption DEF Stages, Busy, GoTo, Dispatching, tables, history
<1> USE DEF IInv, TypeOK, AlertOK, RouteOK, AttemptsOK, EntriesOK, ReceiptsOK, ReceivedOK, MishapsOK
<1>1. CASE Enqueue(a)
  BY <1>1 DEF Enqueue
<1>2. CASE DispatchDirect(a, w)
  BY <1>2 DEF DispatchDirect
<1>3. CASE Take(a, w)
  BY <1>3 DEF Take
<1>4. CASE MoveFails(a)
  BY <1>4 DEF MoveFails, GoesWrong
<1>5. QED
  BY <1>1, <1>2, <1>3, <1>4

LEMMA DieStep ==
  ASSUME IInv, NEW w \in Workers, NEW S \in SUBSET InFlight(w), Die(w, S)
  PROVE  IInv'
<1> USE DeliveryAssumption DEF Stages, Busy, InFlight, Count, Survives, GoesWrong, Die
<1>1. TypeOK'
  BY DEF IInv, TypeOK, AlertOK, EntriesOK
<1>2. ASSUME NEW a \in Alerts PROVE AlertOK(a)'
  BY SMTT(30) DEF IInv, TypeOK, AlertOK, RouteOK, AttemptsOK, EntriesOK, ReceiptsOK, ReceivedOK, MishapsOK
<1>3. QED
  BY <1>1, <1>2 DEF IInv

LEMMA IInvStep == IInv /\ [Next]_vars => IInv'
<1> SUFFICES ASSUME IInv, [Next]_vars PROVE IInv'
  OBVIOUS
<1>1. ASSUME NEW a \in Alerts,
             \/ Enqueue(a)
             \/ \E w \in Workers : DispatchDirect(a, w) \/ Take(a, w)
             \/ MoveFails(a)
      PROVE  IInv'
  <2>1. PICK w \in Workers : Enqueue(a) \/ DispatchDirect(a, w) \/ Take(a, w) \/ MoveFails(a)
    BY <1>1 DEF IInv, TypeOK
  <2>2. QED
    BY <2>1, EntryStep
<1>2. ASSUME NEW a \in Alerts, Run(a) PROVE IInv'
  BY <1>2, RunStep
<1>3. ASSUME NEW a \in Alerts, NEW S \in SUBSET InFlight(owner[a]), QueueRecordFails(a, S)
      PROVE  IInv'
  <2>1. owner[a] \in Workers
    BY DEF IInv, TypeOK
  <2>2. QED
    BY <1>3, <2>1, DieStep DEF QueueRecordFails
<1>4. ASSUME NEW w \in Workers, NEW S \in SUBSET InFlight(w), Stop(w, S) PROVE IInv'
  BY <1>4, DieStep DEF Stop
<1>5. CASE UNCHANGED vars
  BY <1>5 DEF vars, tables, history, IInv, TypeOK, AlertOK, RouteOK, AttemptsOK,
     EntriesOK, ReceiptsOK, ReceivedOK, MishapsOK
<1>6. QED
  BY <1>1, <1>2, <1>3, <1>4, <1>5 DEF Next

LEMMA Invariant == Spec => []IInv
  BY InitIInv, IInvStep, PTL DEF Spec

-----------------------------------------------------------------------------
(* Every variable keeps its type; in particular no job is tried more often *)
(* than MaxAttempts and no alert is recorded as failed twice.              *)
THEOREM TypeCorrect == Spec => []TypeOK
<1>1. IInv => TypeOK
  BY DEF IInv
<1>2. QED
  BY <1>1, Invariant, PTL

(* An alert has one entry in `alerts` and `alert_failures` together, each  *)
(* further one owed to a stalled run or to an INSERT wrongly taken for     *)
(* failed, for every number of attempts, stalls and workers.               *)
THEOREM AtMostOneEntry == Spec => []OneEntry
<1>1. IInv => OneEntry
  <2> SUFFICES ASSUME IInv, NEW a \in Alerts
               PROVE  rows[a] + failures[a] <= 1 + stalls[a] + unheard[a]
    BY DEF OneEntry
  <2>1. /\ EntriesOK(a)
        /\ rows[a] \in Nat /\ failures[a] \in 0..1
        /\ stalls[a] \in Nat /\ unheard[a] \in Nat
    BY DEF IInv, TypeOK, AlertOK
  <2>2. QED
    BY <2>1 DEF EntriesOK
<1>2. QED
  BY <1>1, Invariant, PTL

(* The webhook receives an alert at most once directly and at most         *)
(* MaxAttempts times plus once per stall from the queue.                   *)
THEOREM BoundedDeliveries == Spec => []DeliveriesBounded
<1>1. IInv => DeliveriesBounded
  <2> SUFFICES ASSUME IInv, NEW a \in Alerts, via[a] = "queue"
               PROVE  received[a] <= MaxAttempts + stalls[a]
    BY DEF IInv, AlertOK, ReceivedOK, DeliveriesBounded
  <2>1. stage[a] \in Stages \ {"new"} /\ attempts[a] <= MaxAttempts
    BY DEF IInv, TypeOK, AlertOK, RouteOK
  <2>2. QED
    BY <2>1, DeliveryAssumption
    DEF IInv, TypeOK, Stages, Busy, AlertOK, AttemptsOK, ReceivedOK
<1>2. QED
  BY <1>1, Invariant, PTL

(* No row of `alerts` without a 2xx of the webhook of its own.             *)
THEOREM ReceiptsForRows == Spec => []RowsHaveReceipts
<1>1. IInv => RowsHaveReceipts
  BY DEF IInv, AlertOK, ReceiptsOK, RowsHaveReceipts
<1>2. QED
  BY <1>1, Invariant, PTL

(* A queued alert is lost only with its attempts used up or by the stall   *)
(* limit.                                                                  *)
THEOREM QueueSurvival == Spec => []QueueSurvivesStops
<1>1. IInv => QueueSurvivesStops
  BY DEF IInv, AlertOK, AttemptsOK, QueueSurvivesStops
<1>2. QED
  BY <1>1, Invariant, PTL

-----------------------------------------------------------------------------
(* Delivery implements the ledger, as far as safety goes.                  *)

(* The status of an alert as its own variables say it.                     *)
StatusOf(a) ==
    IF rows[a] > 0 THEN "sent"
    ELSE IF failures[a] > 0 THEN "failed"
    ELSE IF stage[a] = "lost" THEN "dropped"
    ELSE IF stage[a] = "new" THEN "none"
    ELSE "open"

LEMMA InitLedger == Init => Ledger!Init
  BY DEF Init, Status, Calm, Ledger!Init

(* A step of one alert is a step of the ledger, or no step.                *)
LEMMA OneAlertMoves ==
  ASSUME NEW a \in Alerts, Calm' = Calm,
         \A b \in Alerts \ {a} : StatusOf(b)' = StatusOf(b),
         \/ StatusOf(a)' = StatusOf(a)
         \/ StatusOf(a) = "none" /\ StatusOf(a)' = "open"
         \/ StatusOf(a) = "open" /\ StatusOf(a)' \in {"sent", "failed"}
         \/ StatusOf(a) = "open" /\ StatusOf(a)' = "dropped" /\ ~Calm
  PROVE  [Ledger!Next]_(Ledger!vars)
<1>1. /\ Status = [b \in Alerts |-> StatusOf(b)]
      /\ Status' = [b \in Alerts |-> StatusOf(b)']
  BY DEF Status, StatusOf
<1>2. Status' = [Status EXCEPT ![a] = StatusOf(a)']
  BY <1>1
<1>3. CASE StatusOf(a)' = StatusOf(a)
  <2>1. Status' = Status
    BY <1>1, <1>2, <1>3
  <2>2. QED
    BY <2>1 DEF Ledger!vars
<1>4. CASE StatusOf(a) = "none" /\ StatusOf(a)' = "open"
  BY <1>1, <1>2, <1>4 DEF Ledger!Next, Ledger!Accept, Ledger!Become
<1>5. CASE StatusOf(a) = "open" /\ StatusOf(a)' \in {"sent", "failed"}
  BY <1>1, <1>2, <1>5
  DEF Ledger!Next, Ledger!Settle, Ledger!Send, Ledger!Fail, Ledger!Become
<1>6. CASE StatusOf(a) = "open" /\ StatusOf(a)' = "dropped" /\ ~Calm
  BY <1>1, <1>2, <1>6
  DEF Ledger!Next, Ledger!Settle, Ledger!Drop, Ledger!Become
<1>7. QED
  BY <1>3, <1>4, <1>5, <1>6

(* A mishap settles open alerts and leaves the others as they are.         *)
LEMMA MishapMoves ==
  ASSUME TypeOK, GoesWrong,
         \A a \in Alerts :
            \/ StatusOf(a)' = StatusOf(a)
            \/ StatusOf(a) = "open" /\ StatusOf(a)' \in {"sent", "failed", "dropped"}
  PROVE  Ledger!Next
<1>1. /\ Status = [a \in Alerts |-> StatusOf(a)]
      /\ Status' = [a \in Alerts |-> StatusOf(a)']
  BY DEF Status, StatusOf
<1>2. Calm' = FALSE
  BY DEF GoesWrong, TypeOK, Calm
<1>3. \A a \in Alerts : StatusOf(a)' \in {"sent", "failed", "dropped"} \union {"none", "open"}
  BY DEF StatusOf
<1>4. Status' \in [Alerts -> {"sent", "failed", "dropped"} \union {"none", "open"}]
  BY <1>1, <1>3
<1>5. \A a \in Alerts :
         \/ Status'[a] = Status[a]
         \/ Status[a] = "open" /\ Status'[a] \in {"sent", "failed", "dropped"}
  BY <1>1
<1>6. QED
  BY <1>2, <1>4, <1>5 DEF Ledger!Next, Ledger!Mishap, Ledger!Settled

LEMMA RunMoves ==
  ASSUME IInv, NEW a \in Alerts, Run(a)
  PROVE  [Ledger!Next]_(Ledger!vars)
<1> USE DEF StatusOf, GoTo, AddIf
<1> USE DEF IInv, TypeOK, AlertOK, RouteOK, EntriesOK
<1>1. CASE PostAccepted(a) \/ \E got \in BOOLEAN : PostFails(a, got)
  BY <1>1, OneAlertMoves DEF PostAccepted, PostFails, Rejected, tables, Calm
<1>2. CASE InsertOk(a) \/ \E happened \in BOOLEAN : InsertFails(a, happened)
  BY <1>2, OneAlertMoves DEF InsertOk, InsertFails, Rejected, tables, history, Calm
<1>3. CASE Ack(a)
  BY <1>3, OneAlertMoves DEF Ack, tables, history, Calm
<1>4. CASE JobFails(a)
  BY <1>4, OneAlertMoves, DeliveryAssumption
  DEF JobFails, Retried, Records, MishapsOK, tables, history, Calm
<1>5. CASE RecordOk(a)
  BY <1>5, OneAlertMoves DEF RecordOk, tables, history, Calm
<1>6. CASE \E happened \in BOOLEAN : DirectRecordFails(a, happened)
  BY <1>6, MishapMoves DEF DirectRecordFails
<1>7. QED
  BY <1>1, <1>2, <1>3, <1>4, <1>5, <1>6 DEF Run

LEMMA LedgerStep == IInv /\ [Next]_vars => [Ledger!Next]_(Ledger!vars)
<1> SUFFICES ASSUME IInv, [Next]_vars PROVE [Ledger!Next]_(Ledger!vars)
  OBVIOUS
<1> USE DEF StatusOf, GoTo
<1>1. ASSUME NEW a \in Alerts, Enqueue(a) PROVE [Ledger!Next]_(Ledger!vars)
  BY <1>1, OneAlertMoves
  DEF Enqueue, tables, history, Calm, IInv, TypeOK, AlertOK, RouteOK, EntriesOK
<1>2. ASSUME NEW a \in Alerts, NEW w \in Workers, DispatchDirect(a, w) \/ Take(a, w)
      PROVE  [Ledger!Next]_(Ledger!vars)
  BY <1>2, OneAlertMoves
  DEF DispatchDirect, Take, Dispatching, tables, history, Calm,
      IInv, TypeOK, AlertOK, RouteOK, EntriesOK
<1>3. ASSUME NEW a \in Alerts, Run(a) PROVE [Ledger!Next]_(Ledger!vars)
  BY <1>3, RunMoves
<1>4. ASSUME NEW a \in Alerts, MoveFails(a) PROVE [Ledger!Next]_(Ledger!vars)
  BY <1>4, MishapMoves DEF MoveFails, tables, IInv, TypeOK
<1>5. ASSUME NEW w, NEW S, Die(w, S) PROVE [Ledger!Next]_(Ledger!vars)
  BY <1>5, MishapMoves
  DEF Die, InFlight, Busy, Survives, Count, IInv, TypeOK, AlertOK, EntriesOK
<1>6. CASE UNCHANGED vars
  BY <1>6 DEF vars, tables, history, Ledger!vars, Status, Calm
<1>7. QED
  BY <1>1, <1>2, <1>3, <1>4, <1>5, <1>6 DEF Next, QueueRecordFails, Stop

(* Delivery, without its fairness, implements the ledger, without its      *)
(* fairness: an alert is settled once and for good, and dropped only in or *)
(* after a mishap, for all constants.                                      *)
THEOREM LedgerRefinement == Spec => Ledger!SafeSpec
  BY InitLedger, LedgerStep, Invariant, PTL DEF Spec, Ledger!SafeSpec

-----------------------------------------------------------------------------
(* Retries end: the part of the ledger's liveness that needs no fairness.  *)

Rank == [new |-> 6, waiting |-> 5, posting |-> 4, inserting |-> 3, acking |-> 2,
         failing |-> 2, recording |-> 1, done |-> 0, lost |-> 0]

(* What is left to do for an alert: the attempts it has not used, and the  *)
(* stages ahead of it in this one.                                         *)
Work(a) == 6 * (MaxAttempts - attempts[a]) + Rank[stage[a]]

OnlyLowers(a) ==
    /\ Work(a)' < Work(a)
    /\ \A b \in Alerts \ {a} : Work(b)' = Work(b)

(* Every step but a mishap brings exactly one alert closer to its end:     *)
(* from 6 * MaxAttempts + 6 on, so that neither retries nor the two ways   *)
(* in can go on forever (alerts.service.ts:30-38, 67-85).                  *)
WorkShrinks ==
    [][mishaps' = mishaps => \E a \in Alerts : OnlyLowers(a)]_vars

WorkBounded == \A a \in Alerts : Work(a) \in 0..(6 * MaxAttempts + 6)

LEMMA WorkIsBounded == IInv => WorkBounded
<1> SUFFICES ASSUME IInv, NEW a \in Alerts PROVE Work(a) \in 0..(6 * MaxAttempts + 6)
  BY DEF WorkBounded
<1>1. \A x \in Stages : Rank[x] \in 0..6
  BY DEF Stages, Rank
<1>2. attempts[a] \in 0..MaxAttempts /\ stage[a] \in Stages
  BY DEF IInv, TypeOK
<1> QED BY <1>1, <1>2, DeliveryAssumption DEF DeliveryAssumption, Work

(* One alert moves to a stage nearer its end, or uses up an attempt.       *)
LEMMA MoveLowers ==
    ASSUME IInv, NEW a \in Alerts, NEW next \in Stages, GoTo(a, next),
           \/ attempts' = attempts /\ Rank[next] < Rank[stage[a]]
           \/ /\ attempts' = [attempts EXCEPT ![a] = @ + 1]
              /\ Rank[next] < Rank[stage[a]] + 6
    PROVE  OnlyLowers(a)
<1> USE DeliveryAssumption DEF IInv, TypeOK, GoTo
<1>1. stage'[a] = next /\ \A b \in Alerts \ {a} : stage'[b] = stage[b]
  OBVIOUS
<1>2. \A b \in Alerts \ {a} : attempts'[b] = attempts[b]
  OBVIOUS
<1>3. attempts'[a] = attempts[a] \/ attempts'[a] = attempts[a] + 1
  OBVIOUS
<1>4. \A x \in Stages : Rank[x] \in Nat
  BY DEF Stages, Rank
<1>5. attempts[a] \in Nat /\ stage[a] \in Stages
  OBVIOUS
<1>6. Work(a)' < Work(a)
  <2>1. CASE attempts' = attempts /\ Rank[next] < Rank[stage[a]]
    BY <1>1, <1>4, <1>5, <2>1 DEF Work
  <2>2. CASE attempts' # attempts \/ ~(Rank[next] < Rank[stage[a]])
    <3>1. attempts'[a] = attempts[a] + 1 /\ Rank[next] < Rank[stage[a]] + 6
      BY <2>2
    <3> QED BY <1>1, <1>4, <1>5, <3>1 DEF Work
  <2> QED BY <2>1, <2>2
<1> QED BY <1>1, <1>2, <1>6 DEF OnlyLowers, Work

LEMMA WorkStep ==
    ASSUME IInv, Next, mishaps' = mishaps
    PROVE  \E a \in Alerts : OnlyLowers(a)
<1> USE DEF Stages, Rank, Busy, tables, history
<1>0. ASSUME GoesWrong PROVE FALSE
  BY <1>0 DEF GoesWrong, IInv, TypeOK
<1>1. ASSUME NEW a \in Alerts, NEW w \in Workers,
             DispatchDirect(a, w) \/ Take(a, w)
      PROVE  OnlyLowers(a)
  BY <1>1, MoveLowers DEF DispatchDirect, Take, Dispatching
<1>2. ASSUME NEW a \in Alerts, Run(a) PROVE OnlyLowers(a)
  <2>1. CASE PostAccepted(a)
    BY <2>1, MoveLowers DEF PostAccepted
  <2>2. ASSUME NEW got \in BOOLEAN, PostFails(a, got) PROVE OnlyLowers(a)
    BY <2>2, MoveLowers DEF PostFails, Rejected
  <2>3. CASE InsertOk(a)
    BY <2>3, MoveLowers DEF InsertOk
  <2>4. ASSUME NEW happened \in BOOLEAN, InsertFails(a, happened) PROVE OnlyLowers(a)
    BY <2>4, MoveLowers DEF InsertFails, Rejected
  <2>5. CASE Ack(a)
    BY <2>5, MoveLowers DEF Ack
  <2>6. CASE JobFails(a)
    <3>1. attempts' = [attempts EXCEPT ![a] = @ + 1]
      BY <2>6 DEF JobFails
    <3>2. PICK next \in {"waiting", "recording", "lost"} : GoTo(a, next)
      BY <2>6 DEF JobFails
    <3>3. Rank[next] < Rank[stage[a]] + 6
      BY <2>6, <3>2 DEF JobFails
    <3> QED BY <3>1, <3>2, <3>3, MoveLowers
  <2>7. CASE RecordOk(a)
    BY <2>7, MoveLowers DEF RecordOk
  <2>8. ASSUME NEW happened \in BOOLEAN, DirectRecordFails(a, happened) PROVE OnlyLowers(a)
    BY <1>0, <2>8 DEF DirectRecordFails
  <2> QED BY <1>2, <2>1, <2>2, <2>3, <2>4, <2>5, <2>6, <2>7, <2>8 DEF Run
<1>3. ASSUME NEW a \in Alerts, MoveFails(a) PROVE FALSE
  BY <1>0, <1>3 DEF MoveFails
<1>4. ASSUME NEW w, NEW S, Die(w, S) PROVE FALSE
  BY <1>0, <1>4 DEF Die
<1>5. ASSUME NEW a \in Alerts, NEW S, QueueRecordFails(a, S) PROVE FALSE
  BY <1>4, <1>5 DEF QueueRecordFails
<1>6. ASSUME NEW w \in Workers, NEW S, Stop(w, S) PROVE FALSE
  BY <1>4, <1>6 DEF Stop
<1>7. CASE \E a \in Alerts :
              \/ Enqueue(a)
              \/ \E w \in Workers : DispatchDirect(a, w) \/ Take(a, w)
              \/ Run(a)
  <2>1. ASSUME NEW a \in Alerts, Enqueue(a) PROVE OnlyLowers(a)
    BY <2>1, MoveLowers DEF Enqueue
  <2> QED BY <1>1, <1>2, <1>7, <2>1
<1> QED BY <1>3, <1>5, <1>6, <1>7 DEF Next

THEOREM RetriesEnd == Spec => []WorkBounded /\ WorkShrinks
<1>1. IInv /\ [Next]_vars
         => [mishaps' = mishaps => \E a \in Alerts : OnlyLowers(a)]_vars
  BY WorkStep
<1> QED BY <1>1, Invariant, WorkIsBounded, PTL DEF Spec, WorkShrinks
=============================================================================
