------------------------------ MODULE ReadModel ------------------------------
(***************************************************************************)
(* What GET /stats, /status and /alerts make of the tables and of Redis,   *)
(* and what the panels of the dashboard make of the answers.  Time is      *)
(* counted in milliseconds: rows of one millisecond differ by `n`, which   *)
(* stands for their microseconds.  A list is the set of its rows, its      *)
(* order an order on them.                                                 *)
(***************************************************************************)
EXTENDS Integers, FiniteSetsExt

CONSTANTS
    Bucket,  \* the bucket of /stats
    Limit,   \* the limit of /alerts
    Day,     \* the 24 hours of /status
    Sec,     \* one second
    None     \* null, undefined

ASSUME ReadAssumption ==
    /\ Bucket \in Nat \ {0} /\ Limit \in Nat \ {0} /\ Sec \in Nat \ {0} /\ Day \in Nat
    /\ None \notin Int

-----------------------------------------------------------------------------
(* GET /stats.                                                             *)

Floor(t) == (t \div Bucket) * Bucket

InRange(log, service, from) ==
    {r \in log : r.at >= from /\ service \in {None, r.service}}

CellOf(rows, r) ==
    [service |-> r.service, t |-> Floor(r.at),
     count   |-> Cardinality({x \in rows : x.service = r.service /\ Floor(x.at) = Floor(r.at)})]

(* One cell per service and bucket that has rows.                          *)
Cells(rows) == {CellOf(rows, r) : r \in rows}

(* Variation: `to` is new Date() unless it is given.                       *)
StatsToNow(log, service, from, clock) ==
    Cells({r \in InRange(log, service, from) : r.at < clock})

(* Without `to` nothing bounds the range from above.                       *)
Stats(log, service, from, clock) == Cells(InRange(log, service, from))

(* totalErrorsInRange, of the tile.                                        *)
TotalErrors(stats) == MapThenSumSet(LAMBDA c : c.count, stats)

(* pivotStats, of the chart: a row per time, in it a number per service.   *)
PivotStats(stats) ==
    LET At(t, s) == {c \in stats : c.t = t /\ c.service = s} IN
    [t \in {c.t : c \in stats} |->
        [s \in {c.service : c \in stats} |->
            IF At(t, s) = {} THEN 0 ELSE (CHOOSE c \in At(t, s) : TRUE).count]]

-----------------------------------------------------------------------------
(* GET /alerts.                                                            *)

Dispatched(rows) == {a \in rows : a.status = "dispatched"}
Failed(rows)     == {a \in rows : a.status = "failed"}

(* The order of Postgres within one table.                                 *)
Newer(a, b) == a.at > b.at \/ (a.at = b.at /\ a.n > b.n)

(* Variation: each find takes half of the limit.                           *)
FindHalf(rows) == {a \in rows : Cardinality({b \in rows : Newer(b, a)}) < (Limit + 1) \div 2}

(* find with take: at most the latest Limit rows.                          *)
Find(rows) == {a \in rows : Cardinality({b \in rows : Newer(b, a)}) < Limit}

(* The order of the merged list: sort is stable, dispatched alerts first.  *)
Above(a, b) ==
    \/ a.at > b.at
    \/ (a.at = b.at /\ a.status = "dispatched" /\ b.status = "failed")
    \/ (a.status = b.status /\ Newer(a, b))

Merge(rows) == {a \in rows : Cardinality({b \in rows : Above(b, a)}) < Limit}

(* The first of a list, if it has one.                                     *)
TopOf(list) ==
    IF list = {} THEN None ELSE CHOOSE a \in list : \A b \in list \ {a} : Above(a, b)

-----------------------------------------------------------------------------
(* GET /status, and the countdown.                                         *)

(* The services with an error in the last 24 hours.                        *)
Listed(log, clock) == {r.service : r \in {x \in log : x.at > clock - Day}}

(* TTL rounds to seconds; getTtl has null for 0.                           *)
GetTtl(left) ==
    LET ttl == (left + Sec \div 2) \div Sec IN IF ttl > 0 THEN ttl ELSE None

(* Variation: floor for ceil.                                              *)
RemainingFloor(ttl, fetchedAt, now) ==
    IF ttl = None THEN None
    ELSE LET seconds == (ttl * Sec - (now - fetchedAt)) \div Sec IN
         IF seconds > 0 THEN seconds ELSE 0

CooldownRemaining(ttl, fetchedAt, now) ==
    IF ttl = None THEN None
    ELSE LET seconds == -((now - fetchedAt - ttl * Sec) \div Sec) IN   \* ceil
         IF seconds > 0 THEN seconds ELSE 0

-----------------------------------------------------------------------------
(* GET /health, and what a panel draws.                                    *)

(* Variation: an answer that is still there has the say.                   *)
BannerOfAnswer(answer, isError, error) ==
    IF answer # None THEN (IF answer = "degraded" THEN "degraded" ELSE None)
    ELSE IF isError /\ error = "unavailable" THEN "db-down" ELSE None

HealthBanner(answer, isError, error) ==
    IF isError THEN (IF error = "unavailable" THEN "db-down" ELSE None)
    ELSE IF answer = "degraded" THEN "degraded" ELSE None

PanelState(isError, hasData, isEmpty) ==
    IF isError THEN "error"
    ELSE IF ~hasData THEN "loading"
    ELSE IF isEmpty THEN "empty" ELSE "ready"
=============================================================================
