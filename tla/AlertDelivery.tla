--------------------------- MODULE AlertDelivery ---------------------------
(***************************************************************************)
(* What becomes of an alert after the detector has decided to send it:     *)
(* AlertsService.enqueue puts it on the BullMQ queue and AlertsProcessor   *)
(* runs dispatch until it resolves or MaxAttempts runs have failed;        *)
(* AlertsService.dispatchDirect runs dispatch once.  dispatch calls the    *)
(* webhook, then inserts the `alerts` row; an alert that failed for good   *)
(* becomes an `alert_failures` row.                                        *)
(*                                                                         *)
(* Each action is one outside effect (an HTTP call, an INSERT, a move of   *)
(* the job in Redis) with the code up to the next one.  BullMQ is not part *)
(* of the repository: jobs and their moves are modelled from its use.      *)
(***************************************************************************)
EXTENDS Naturals

CONSTANTS
    Alerts,       \* the alerts of a behaviour
    Workers,      \* the backend processes; each runs one BullMQ worker
    Webhook,      \* WEBHOOK_URL is set
    MaxAttempts,  \* the `attempts` option of the job (5)
    MaxStalls,    \* BullMQ's maxStalledCount (default 1)
    Faults,       \* bound of the model: what may go wrong besides the webhook:
                  \* "insert", "record", "redis", "lostReply", "stop"
    MaxMishaps    \* bound of the model: how many mishaps happen

ASSUME DeliveryAssumption ==
    /\ MaxAttempts \in Nat \ {0}
    /\ MaxStalls \in Nat
    /\ MaxMishaps \in Nat
    /\ Webhook \in BOOLEAN

VARIABLES
    stage,     \* per alert: where it is
    via,       \* per alert: "queue" or "direct"
    owner,     \* per alert: the process whose code runs it or ran it last
    attempts,  \* per alert: job.attemptsMade
    stalls,    \* per alert: how often its job was taken from a worker
    rows,      \* per alert: its rows in `alerts`
    failures,  \* per alert: its rows in `alert_failures`
    received,  \* history: how often the webhook received it
    accepted,  \* history: how often a 2xx of the webhook was seen
    unheard,   \* history: INSERTs that took place and were taken for failed
    mishaps    \* history: deaths, missed moves of a job, failed records

tables  == <<rows, failures>>
history == <<received, accepted, unheard, mishaps>>
vars    == <<stage, via, owner, attempts, stalls, tables, history>>

(***************************************************************************)
(* "posting" and "inserting" are the two awaits of dispatch; "acking" and  *)
(* "failing" the job's move in Redis after dispatch resolved or rejected;  *)
(* "recording" the INSERT of recordFailure.  "waiting" is a job in Redis,  *)
(* its backoff included; "done" and "lost" are final.                      *)
(***************************************************************************)
Stages == {"new", "waiting", "posting", "inserting", "acking", "failing",
           "recording", "done", "lost"}

(* A job in these stages occupies its worker: concurrency is 1.            *)
Busy == {"posting", "inserting", "acking", "failing"}

TypeOK ==
    /\ stage \in [Alerts -> Stages]
    /\ via \in [Alerts -> {"none", "queue", "direct"}]
    /\ owner \in [Alerts -> Workers]
    /\ attempts \in [Alerts -> 0..MaxAttempts]
    /\ stalls \in [Alerts -> Nat]
    /\ rows \in [Alerts -> Nat]
    /\ failures \in [Alerts -> 0..1]
    /\ received \in [Alerts -> Nat]
    /\ accepted \in [Alerts -> Nat]
    /\ unheard \in [Alerts -> Nat]
    /\ mishaps \in Nat

Init ==
    /\ stage = [a \in Alerts |-> "new"]
    /\ via = [a \in Alerts |-> "none"]
    /\ owner \in [Alerts -> Workers]
    /\ attempts = [a \in Alerts |-> 0]
    /\ stalls = [a \in Alerts |-> 0]
    /\ rows = [a \in Alerts |-> 0]
    /\ failures = [a \in Alerts |-> 0]
    /\ received = [a \in Alerts |-> 0]
    /\ accepted = [a \in Alerts |-> 0]
    /\ unheard = [a \in Alerts |-> 0]
    /\ mishaps = 0

-----------------------------------------------------------------------------
(* Helpers.                                                                *)

GoTo(a, next) == stage' = [stage EXCEPT ![a] = next]

AddIf(f, a, happened) == [f EXCEPT ![a] = IF happened THEN @ + 1 ELSE @]

(* dispatch begins with the webhook call, if there is a webhook.           *)
Dispatching == IF Webhook THEN "posting" ELSE "inserting"

(* Variation: a direct alert that is rejected is retried by the queue.     *)
RejectedToQueue(a) == "failing"

(* Where a rejected dispatch goes: to BullMQ, or to dispatchDirect's catch *)
(* handler, which records it at once.                                      *)
Rejected(a) == IF via[a] = "queue" THEN "failing" ELSE "recording"

GoesWrong == mishaps < MaxMishaps /\ mishaps' = mishaps + 1

(* An outside call whose effect may or may not have taken place: only if   *)
(* replies get lost does a call that took place look failed.               *)
MayHaveHappened(happened) == happened => "lostReply" \in Faults

-----------------------------------------------------------------------------
(* The two ways in.                                                        *)

Enqueue(a) ==
    /\ stage[a] = "new"
    /\ GoTo(a, "waiting")
    /\ via' = [via EXCEPT ![a] = "queue"]
    /\ UNCHANGED <<owner, attempts, stalls, tables, history>>

DispatchDirect(a, w) ==
    /\ stage[a] = "new"
    /\ GoTo(a, Dispatching)
    /\ via' = [via EXCEPT ![a] = "direct"]
    /\ owner' = [owner EXCEPT ![a] = w]
    /\ UNCHANGED <<attempts, stalls, tables, history>>

-----------------------------------------------------------------------------
(* dispatch.                                                               *)

(* A worker fetches a job.  BullMQ fails a job that stalled too often      *)
(* without running it.                                                     *)
Take(a, w) ==
    /\ stage[a] = "waiting"
    /\ \A b \in Alerts : owner[b] = w /\ via[b] = "queue" => stage[b] \notin Busy
    /\ owner' = [owner EXCEPT ![a] = w]
    /\ GoTo(a, IF stalls[a] > MaxStalls THEN "failing" ELSE Dispatching)
    /\ UNCHANGED <<via, attempts, stalls, tables, history>>

PostAccepted(a) ==
    /\ stage[a] = "posting"
    /\ received' = AddIf(received, a, TRUE)
    /\ accepted' = AddIf(accepted, a, TRUE)
    /\ GoTo(a, "inserting")
    /\ UNCHANGED <<via, owner, attempts, stalls, tables, unheard, mishaps>>

(* Variation: the row is inserted before the webhook is called.            *)
PostFailsRowFirst(a, got) ==
    /\ stage[a] = "posting"
    /\ received' = AddIf(received, a, got)
    /\ rows' = AddIf(rows, a, TRUE)
    /\ GoTo(a, Rejected(a))
    /\ UNCHANGED <<via, owner, attempts, stalls, failures, accepted, unheard, mishaps>>

(* Variation: res.ok is not looked at, any answer counts as delivered.     *)
PostFailsUnseen(a, got) ==
    /\ stage[a] = "posting"
    /\ received' = AddIf(received, a, got)
    /\ GoTo(a, IF got THEN "inserting" ELSE Rejected(a))
    /\ UNCHANGED <<via, owner, attempts, stalls, tables, accepted, unheard, mishaps>>

(* A refusal, a network error or the 5 s timeout: the receiver may or may  *)
(* not have got the alert.                                                 *)
PostFails(a, got) ==
    /\ stage[a] = "posting"
    /\ received' = AddIf(received, a, got)
    /\ GoTo(a, Rejected(a))
    /\ UNCHANGED <<via, owner, attempts, stalls, tables, accepted, unheard, mishaps>>

(* alerts.insert resolves: dispatch is over.                               *)
InsertOk(a) ==
    /\ stage[a] = "inserting"
    /\ rows' = AddIf(rows, a, TRUE)
    /\ GoTo(a, IF via[a] = "queue" THEN "acking" ELSE "done")
    /\ UNCHANGED <<via, owner, attempts, stalls, failures, history>>

(* alerts.insert rejects after the webhook took the alert.                 *)
InsertFails(a, happened) ==
    /\ stage[a] = "inserting"
    /\ "insert" \in Faults /\ MayHaveHappened(happened)
    /\ rows' = AddIf(rows, a, happened)
    /\ unheard' = AddIf(unheard, a, happened)
    /\ GoTo(a, Rejected(a))
    /\ UNCHANGED <<via, owner, attempts, stalls, failures, received, accepted, mishaps>>

-----------------------------------------------------------------------------
(* The job's end in Redis, and the record of a failure.                    *)

(* moveToCompleted, removeOnComplete.                                      *)
Ack(a) ==
    /\ stage[a] = "acking"
    /\ GoTo(a, "done")
    /\ UNCHANGED <<via, owner, attempts, stalls, tables, history>>

(* Variation: the guard of onFailed also returns after the last attempt.   *)
RecordsNever(a, made) == FALSE

(* onFailed goes on to recordFailure only after the last attempt.          *)
Records(a, made) == ~(made < MaxAttempts)

(* Variation: a job is tried once more than its option says.               *)
RetriedOnceMore(a, made) == made <= MaxAttempts /\ stalls[a] <= MaxStalls

(* Variation: `attempts` and `backoff` are missing from the job's options. *)
RetriedNever(a, made) == FALSE

(* BullMQ puts the job back unless its attempts are used up or it was      *)
(* failed for stalling.                                                    *)
Retried(a, made) == made < MaxAttempts /\ stalls[a] <= MaxStalls

(* moveToFailed: a further attempt, or the job is removed (removeOnFail)   *)
(* and the "failed" event runs onFailed.                                   *)
JobFails(a) ==
    LET made == attempts[a] + 1
    IN  /\ stage[a] = "failing"
        /\ attempts' = [attempts EXCEPT ![a] = made]
        /\ \/ /\ Retried(a, made)
              /\ GoTo(a, "waiting")
           \/ /\ ~Retried(a, made) /\ Records(a, made)
              /\ GoTo(a, "recording")
           \/ /\ ~Retried(a, made) /\ ~Records(a, made)
              /\ GoTo(a, "lost")
        /\ UNCHANGED <<via, owner, stalls, tables, history>>

RecordOk(a) ==
    /\ stage[a] = "recording"
    /\ failures' = AddIf(failures, a, TRUE)
    /\ GoTo(a, "done")
    /\ UNCHANGED <<via, owner, attempts, stalls, rows, history>>

(* dispatchDirect only logs that the record failed.                        *)
DirectRecordFails(a, happened) ==
    /\ stage[a] = "recording" /\ via[a] = "direct"
    /\ "record" \in Faults /\ MayHaveHappened(happened)
    /\ GoesWrong
    /\ failures' = AddIf(failures, a, happened)
    /\ GoTo(a, "lost")
    /\ UNCHANGED <<via, owner, attempts, stalls, rows, received, accepted, unheard>>

-----------------------------------------------------------------------------
(* Processes that die, moves that do not happen.                           *)

(* The move of a finished run does not reach Redis: the job's lock expires *)
(* and the job goes back to the queue.                                     *)
MoveFails(a) ==
    /\ "redis" \in Faults
    /\ stage[a] \in {"acking", "failing"}
    /\ GoesWrong
    /\ stalls' = [stalls EXCEPT ![a] = @ + 1]
    /\ GoTo(a, "waiting")
    /\ UNCHANGED <<via, owner, attempts, tables, received, accepted, unheard>>

(* A job stays in Redis until its run has ended there.                     *)
Survives(a) == via[a] = "queue" /\ stage[a] \in Busy

InFlight(w) ==
    {a \in Alerts : owner[a] = w /\ stage[a] \in Busy \union {"recording"}}

(* f, one higher for the alerts of S that are at the await `at`.           *)
Count(f, S, at) ==
    [a \in Alerts |-> IF a \in S /\ stage[a] = at THEN f[a] + 1 ELSE f[a]]

(* w dies; for the alerts of S the call that was under way took place.     *)
(* Jobs stall, the rest is gone.                                           *)
Die(w, S) ==
    /\ GoesWrong
    /\ stage' = [a \in Alerts |->
          IF a \notin InFlight(w) THEN stage[a]
          ELSE IF Survives(a) THEN "waiting" ELSE "lost"]
    /\ stalls' = [a \in Alerts |->
          IF a \in InFlight(w) /\ Survives(a) THEN stalls[a] + 1 ELSE stalls[a]]
    /\ received' = Count(received, S, "posting")
    /\ rows' = Count(rows, S, "inserting")
    /\ failures' = Count(failures, S, "recording")
    /\ UNCHANGED <<via, owner, attempts, accepted, unheard>>

Stop(w, S) ==
    /\ "stop" \in Faults
    /\ Die(w, S)

(* onFailed rejects: nobody handles the rejection and Node ends the        *)
(* process, with everything else it had under way.                         *)
QueueRecordFails(a, S) ==
    /\ stage[a] = "recording" /\ via[a] = "queue"
    /\ "record" \in Faults
    /\ Die(owner[a], S)

Run(a) ==
    \/ PostAccepted(a)
    \/ \E got \in BOOLEAN : PostFails(a, got)
    \/ InsertOk(a)
    \/ \E happened \in BOOLEAN : InsertFails(a, happened)
    \/ Ack(a)
    \/ JobFails(a)
    \/ RecordOk(a)
    \/ \E happened \in BOOLEAN : DirectRecordFails(a, happened)

Next ==
    \/ \E a \in Alerts :
          \/ Enqueue(a)
          \/ \E w \in Workers : DispatchDirect(a, w) \/ Take(a, w)
          \/ Run(a)
          \/ MoveFails(a)
          \/ \E S \in SUBSET InFlight(owner[a]) : QueueRecordFails(a, S)
    \/ \E w \in Workers : \E S \in SUBSET InFlight(w) : Stop(w, S)

Spec == Init /\ [][Next]_vars

(* Calls and moves end in one way or another, and a waiting job is fetched *)
(* when a worker is free.  Processes die finitely often (MaxMishaps).        *)
FairSpec ==
    /\ Spec
    /\ \A a \in Alerts :
          WF_vars(Run(a)) /\ WF_vars(\E w \in Workers : Take(a, w))

-----------------------------------------------------------------------------
(* Properties.                                                             *)

(* An alert has one entry in the two tables together; each further entry   *)
(* is owed to a run taken from its worker or to an INSERT wrongly taken    *)
(* for failed (alerts.service.ts:59, 71-85, alerts.processor.ts:16-25).    *)
OneEntry ==
    \A a \in Alerts : rows[a] + failures[a] <= 1 + stalls[a] + unheard[a]

(* The webhook receives an alert at most once directly, and at most        *)
(* MaxAttempts times plus once per stall from the queue, however attempts, *)
(* stalls and timeouts interleave (alerts.service.ts:30-38, 67-79).        *)
DeliveriesBounded ==
    \A a \in Alerts :
        /\ via[a] = "direct" => received[a] <= 1
        /\ via[a] = "queue" => received[a] <= MaxAttempts + stalls[a]

(* A row of `alerts` stands for an answer 2xx of the webhook: no more rows *)
(* than such answers (alerts.service.ts:43-65, alert.entity.ts:4 "alerts   *)
(* that were sent successfully").                                          *)
RowsHaveReceipts ==
    Webhook => \A a \in Alerts : rows[a] <= accepted[a]

(* A queued alert outlives the processes that work on it: it is lost only  *)
(* with its attempts used up or by BullMQ's stall limit, never to a        *)
(* process that dies in the middle of its retries (README.md:82-85).       *)
QueueSurvivesStops ==
    \A a \in Alerts :
        stage[a] = "lost" /\ via[a] = "queue"
            => attempts[a] = MaxAttempts \/ stalls[a] > MaxStalls

(* The status of an alert in the ledger.                                   *)
Status ==
    [a \in Alerts |->
        IF rows[a] > 0 THEN "sent"
        ELSE IF failures[a] > 0 THEN "failed"
        ELSE IF stage[a] = "lost" THEN "dropped"
        ELSE IF stage[a] = "new" THEN "none"
        ELSE "open"]

Calm == mishaps = 0

Ledger == INSTANCE AlertLedger WITH status <- Status, calm <- Calm

(* Delivery implements the ledger: an alert that was handed over is        *)
(* settled eventually and for good, and leaves no trace only in or after   *)
(* the death of a process, a failed record or a stalled job                *)
(* (alerts.service.ts:41-85, alerts.processor.ts:16-25).                   *)
ImplementsLedger == Ledger!Spec

(* alert-failure.entity.ts:4 says of the rows of `alert_failures`: "alerts *)
(* whose sending failed even after 5 retries": not ones the webhook took.  *)
FailureMeansUndelivered ==
    \A a \in Alerts : failures[a] > 0 => accepted[a] = 0

(* README.md:88-90 says that an alert whose 5 attempts all failed leaves a *)
(* record in `alert_failures`.                                             *)
ExhaustedIsRecorded ==
    \A a \in Alerts :
        stage[a] = "lost" /\ via[a] = "queue" /\ attempts[a] = MaxAttempts
            => failures[a] > 0
=============================================================================
