------------------------------ MODULE Dashboard ------------------------------
(***************************************************************************)
(* One tab of the dashboard: its panels poll GET /stats, /status, /alerts  *)
(* and /health through TanStack Query and draw what the cache holds, while *)
(* errors, alerts and cooldown locks come and go, requests fail, the       *)
(* session ends and the user filters, logs out and logs in.                *)
(*                                                                         *)
(* The caching of TanStack Query is modelled from how hooks.ts, queries.ts *)
(* and providers.tsx use it: one fetch per key at a time, one retry, a     *)
(* fetch that nobody waits for is not retried, data stays when a refetch   *)
(* fails.  Its timers fire at any time.                                    *)
(***************************************************************************)
EXTENDS ReadModel

CONSTANTS
    Services,
    Selections,   \* what the user may look at: [service, range]
    Start,        \* ... and does first
    Cooldown,     \* ALERT_COOLDOWN_SEC, in milliseconds
    Pages,        \* bound of the model: the sets of panels that are open together
    MaxTime,      \* bound of the model, per panel: the clock stops here
    MaxRows,      \* bound of the model, per panel: the rows that come
    Reporters,    \* bound of the model, per panel: the services they are of
    MaxMishaps    \* bound of the model, per panel: see `mishaps`

ASSUME DashboardAssumption ==
    /\ Start \in Selections /\ Cooldown \in Nat
    /\ None \notin Services
    /\ \A open \in Pages : \A p \in open : Reporters[p] \subseteq Services

VARIABLES
    clock,      \* of the server and of the browser
    errorLog,   \* rows of error_logs
    alertRows,  \* rows of alerts and alert_failures, the status saying which
    lockUntil,  \* per service: when its cooldown lock expires; 0 is none
    session,    \* the cookie names a session
    mishaps,    \* bound of the model: requests that failed, sessions that ended, logouts

    panels,     \* the panels that are open
    page,       \* where the tab is
    selected,   \* useDashboardUi: service and range
    now,        \* CooldownPanel: the second it draws
    prevTop,    \* AlertsTable: the alert that was first
    announce,   \* AlertsTable: the alert that the screen reader is told of

    status,     \* per query: "pending", "error", "success"
    error,      \* per query: why it failed
    data,       \* per query: the last answer
    updatedAt,  \* dataUpdatedAt of status, the only one that is read
    fetch,      \* per query: "idle", "asking", "waiting" for its retry
    tried,      \* per query: this fetch failed once
    asked,      \* per query of /stats: when it was asked
    reply,      \* per query: the answer on its way

    dispatched, failed,  \* the finds of /alerts: their rows
    before,     \* history: the alerts there were when /alerts was asked
    verdict     \* history: what the last fetch of /health ended with

server  == <<errorLog, alertRows, lockUntil>>
screen  == <<panels, page, selected, now, prevTop, announce>>
query   == <<status, error, data, updatedAt, verdict>>
request == <<fetch, tried, asked, reply, dispatched, failed, before>>
vars    == <<clock, server, session, mishaps, screen, query, request>>

Keys == {[panel |-> "stats", selection |-> s] : s \in Selections}
            \union {[panel |-> p, selection |-> None] : p \in {"status", "alerts", "health"}}

KeyOf(panel, selection) ==
    [panel |-> panel, selection |-> IF panel = "stats" THEN selection ELSE None]

AlertsKey == KeyOf("alerts", None)
StatusKey == KeyOf("status", None)
HealthKey == KeyOf("health", None)

(* The queries that some component uses.                                   *)
Observed == {KeyOf(p, selected) : p \in panels}
Shown(k) == page = "dashboard" /\ k \in Observed

(* Every route but /health is behind SessionGuard.                         *)
Guarded(k) == k.panel # "health"

ErrorRow   == [n : Nat, service : Services, at : Int]
AlertRow   == [n : Nat, at : Int, status : {"dispatched"}]
FailureRow == [n : Nat, at : Int, status : {"failed"}]

(* undefined is no row.                                                    *)
ASSUME NoRowAssumption == None \notin AlertRow \union FailureRow

TypeOK ==
    /\ clock \in Nat
    /\ errorLog \in SUBSET ErrorRow /\ alertRows \in SUBSET (AlertRow \union FailureRow)
    /\ lockUntil \in [Services -> Nat]
    /\ session \in BOOLEAN /\ mishaps \in Nat
    /\ panels \in Pages /\ page \in {"dashboard", "login"}
    /\ selected \in Selections
    /\ now \in Nat /\ updatedAt \in Nat
    /\ {prevTop, announce} \subseteq AlertRow \union FailureRow \union {None}
    /\ status \in [Keys -> {"pending", "error", "success"}]
    /\ error \in [Keys -> {"failed", "unavailable", None}]
    /\ DOMAIN data = Keys /\ DOMAIN reply = Keys
    /\ fetch \in [Keys -> {"idle", "asking", "waiting"}]
    /\ tried \in [Keys -> BOOLEAN]
    /\ asked \in [Keys -> Nat]
    /\ \A rows \in {dispatched, failed} : rows = None \/ rows \subseteq alertRows
    /\ before \subseteq alertRows
    /\ verdict \in {None, "ok", "degraded", "unavailable", "failed"}

Mishap ==
    /\ \A p \in panels : mishaps < MaxMishaps[p]
    /\ mishaps' = mishaps + 1

(* Rows come that an open panel reads.                                     *)
More(rows, readers) ==
    \E p \in panels \intersect readers : Cardinality(rows) < MaxRows[p]

ForAllKeys(x) == [k \in Keys |-> x]

Init ==
    /\ clock = 0 /\ mishaps = 0
    /\ errorLog = {} /\ alertRows = {} /\ lockUntil = [s \in Services |-> 0]
    /\ session = FALSE /\ page = "login"
    /\ panels \in Pages /\ selected = Start
    /\ now = 0 /\ prevTop = None /\ announce = None
    /\ status = ForAllKeys("pending") /\ error = ForAllKeys(None)
    /\ data = ForAllKeys(None) /\ updatedAt = 0 /\ verdict = None
    /\ fetch = ForAllKeys("idle") /\ tried = ForAllKeys(FALSE)
    /\ asked = ForAllKeys(0) /\ reply = ForAllKeys(None)
    /\ dispatched = None /\ failed = None /\ before = {}

-----------------------------------------------------------------------------
(* Requests.                                                               *)

(* fetchState of the queries in ks, and their first attempt.               *)
Starts(ks) ==
    /\ fetch' = [k \in Keys |-> IF k \in ks THEN "asking" ELSE fetch[k]]
    /\ asked' = [k \in Keys |-> IF k \in ks /\ k.panel = "stats" THEN clock ELSE asked[k]]
    /\ status' = [k \in Keys |-> IF k \in ks /\ data[k] = None THEN "pending" ELSE status[k]]
    /\ before' = IF AlertsKey \in ks THEN alertRows ELSE before
    /\ UNCHANGED <<error, data, updatedAt, verdict, tried, reply, dispatched, failed>>

(* Variation: the interval ends with an error.                             *)
PollUnlessError(k) ==
    /\ Shown(k) /\ fetch[k] = "idle" /\ status[k] # "error"
    /\ Starts({k})
    /\ UNCHANGED <<clock, server, session, mishaps, screen>>

(* refetchInterval.                                                        *)
Poll(k) ==
    /\ Shown(k) /\ fetch[k] = "idle"
    /\ Starts({k})
    /\ UNCHANGED <<clock, server, session, mishaps, screen>>

(* Components that begin to use queries fetch what is stale; what was      *)
(* never fetched is.                                                       *)
Mounts(ks) ==
    LET idle == {k \in ks : fetch[k] = "idle"}
        new  == {k \in idle : data[k] = None} IN
    \E stale \in SUBSET (idle \ new) : Starts(new \union stale)

(* Nothing of the attempt is left.                                         *)
Ended(k, stage) ==
    /\ fetch' = [fetch EXCEPT ![k] = stage]
    /\ tried' = [tried EXCEPT ![k] = stage = "waiting"]
    /\ asked' = [asked EXCEPT ![k] = 0]
    /\ reply' = [reply EXCEPT ![k] = None]
    /\ dispatched' = IF k = AlertsKey THEN None ELSE dispatched
    /\ failed' = IF k = AlertsKey THEN None ELSE failed
    /\ before' = IF k = AlertsKey THEN {} ELSE before

(* The attempt failed: once more, if it is the first and awaited.          *)
Fails(k, why) ==
    IF ~tried[k] /\ Shown(k)
    THEN /\ Ended(k, "waiting")
         /\ UNCHANGED query
    ELSE /\ Ended(k, "idle")
         /\ status' = [status EXCEPT ![k] = "error"]
         /\ error' = [error EXCEPT ![k] = why]
         /\ verdict' = IF k = HealthKey THEN why ELSE verdict
         /\ UNCHANGED <<data, updatedAt>>

(* After the delay; queryFn runs again, unless nobody waits any more.      *)
Retry(k) ==
    /\ fetch[k] = "waiting"
    /\ IF Shown(k)
       THEN /\ fetch' = [fetch EXCEPT ![k] = "asking"]
            /\ asked' = [asked EXCEPT ![k] = IF k.panel = "stats" THEN clock ELSE @]
            /\ before' = IF k = AlertsKey THEN alertRows ELSE before
            /\ UNCHANGED <<tried, reply, dispatched, failed, query>>
       ELSE Fails(k, "failed")
    /\ UNCHANGED <<clock, server, session, mishaps, screen>>

(* No answer, an error status, a body that does not parse; 503 of /health. *)
RequestFails(k) ==
    /\ fetch[k] = "asking"
    /\ Mishap
    /\ \E why \in {"failed"} \union (IF k = HealthKey THEN {"unavailable"} ELSE {}) : Fails(k, why)
    /\ UNCHANGED <<clock, server, session, screen>>

-----------------------------------------------------------------------------
(* The server.                                                             *)

Unauthorized == [code |-> 401]

(* SessionGuard lets the request of k in.                                  *)
Serves(k) ==
    /\ fetch[k] = "asking" /\ reply[k] = None
    /\ session \/ ~Guarded(k)
    /\ UNCHANGED <<clock, server, session, mishaps, screen, query, fetch, tried, asked, before>>

Answers(k, answer) == reply' = [reply EXCEPT ![k] = answer]

Refuse(k) ==
    /\ fetch[k] = "asking" /\ reply[k] = None
    /\ Guarded(k) /\ ~session
    /\ Answers(k, Unauthorized)
    /\ UNCHANGED <<clock, server, session, mishaps, screen, query,
                   fetch, tried, asked, before, dispatched, failed>>

(* `seen` is history: the rows there were.                                 *)
ServeStats(k) ==
    /\ k.panel = "stats" /\ Serves(k)
    /\ LET from == asked[k] - k.selection.range IN
       Answers(k, [code |-> 200, asked |-> asked[k], seen |-> errorLog,
                   stats |-> Stats(errorLog, k.selection.service, from, clock)])
    /\ UNCHANGED <<dispatched, failed>>

FindDispatched ==
    /\ dispatched = None /\ Serves(AlertsKey)
    /\ dispatched' = Find(Dispatched(alertRows))
    /\ UNCHANGED <<reply, failed>>

FindFailed ==
    /\ failed = None /\ Serves(AlertsKey)
    /\ failed' = Find(Failed(alertRows))
    /\ UNCHANGED <<reply, dispatched>>

ServeAlerts ==
    /\ dispatched # None /\ failed # None /\ Serves(AlertsKey)
    /\ Answers(AlertsKey, [code |-> 200, list |-> Merge(dispatched \union failed)])
    /\ dispatched' = None /\ failed' = None

Left(s) == IF lockUntil[s] > clock THEN lockUntil[s] - clock ELSE 0

(* A TTL that fails is null.  `until` is history: the lock it was of, or   *)
(* None if it failed; `at`: when it was read.                              *)
ServeStatus ==
    /\ Serves(StatusKey)
    /\ LET listed == Listed(errorLog, clock) IN
       \E lost \in SUBSET listed :
          Answers(StatusKey,
              [code |-> 200, at |-> clock,
               ttl   |-> [s \in listed |-> IF s \in lost THEN None ELSE GetTtl(Left(s))],
               until |-> [s \in listed |-> IF s \in lost THEN None ELSE lockUntil[s]]])
    /\ UNCHANGED <<dispatched, failed>>

(* Variation: the status has a name the shared schema does not know.       *)
ServeHealthDown ==
    /\ Serves(HealthKey)
    /\ \E s \in {"ok", "down"} : Answers(HealthKey, [code |-> 200, status |-> s])
    /\ UNCHANGED <<dispatched, failed>>

ServeHealth ==
    /\ Serves(HealthKey)
    /\ \E s \in {"ok", "degraded"} : Answers(HealthKey, [code |-> 200, status |-> s])
    /\ UNCHANGED <<dispatched, failed>>

Server(k) ==
    \/ Refuse(k)
    \/ ServeStats(k)
    \/ k = AlertsKey /\ (FindDispatched \/ FindFailed \/ ServeAlerts)
    \/ k = StatusKey /\ ServeStatus
    \/ k = HealthKey /\ ServeHealth

-----------------------------------------------------------------------------
(* Answers.                                                                *)

(* Variation: the first load is announced, too.                            *)
EffectOfEveryTop(list) ==
    LET top == TopOf(list) IN
    /\ announce' = IF top # None /\ top # prevTop THEN top ELSE announce
    /\ prevTop' = top

(* The effect of AlertsTable once it draws the list.                       *)
Effect(list) ==
    LET top == TopOf(list) IN
    /\ announce' = IF top # None /\ prevTop # None /\ top # prevTop THEN top ELSE announce
    /\ prevTop' = top

(* Variation: the browser stays where it is.                               *)
StaysHere(k) ==
    /\ Fails(k, "failed")
    /\ UNCHANGED <<screen>>

(* window.location: the next page begins with nothing.                     *)
ToLogin(k) ==
    /\ page' = "login" /\ selected' = Start
    /\ prevTop' = None /\ announce' = None /\ now' = 0
    /\ status' = ForAllKeys("pending") /\ error' = ForAllKeys(None)
    /\ data' = ForAllKeys(None) /\ updatedAt' = 0 /\ verdict' = None
    /\ fetch' = ForAllKeys("idle") /\ tried' = ForAllKeys(FALSE)
    /\ asked' = ForAllKeys(0) /\ reply' = ForAllKeys(None)
    /\ dispatched' = None /\ failed' = None /\ before' = {}
    /\ UNCHANGED panels

Arrive(k) ==
    /\ fetch[k] = "asking" /\ reply[k] # None /\ reply[k] # Unauthorized
    /\ status' = [status EXCEPT ![k] = "success"]
    /\ error' = [error EXCEPT ![k] = None]
    /\ data' = [data EXCEPT ![k] = reply[k]]
    /\ updatedAt' = IF k = StatusKey THEN clock ELSE updatedAt
    /\ verdict' = IF k = HealthKey THEN reply[k].status ELSE verdict
    /\ Ended(k, "idle")
    /\ IF k = AlertsKey /\ Shown(k) THEN Effect(reply[k].list) ELSE UNCHANGED <<prevTop, announce>>
    /\ UNCHANGED <<clock, server, session, mishaps, panels, page, selected, now>>

ArriveUnauthorized(k) ==
    /\ fetch[k] = "asking" /\ reply[k] = Unauthorized
    /\ IF page = "dashboard" THEN ToLogin(k) ELSE Fails(k, "failed") /\ UNCHANGED screen
    /\ UNCHANGED <<clock, server, session, mishaps>>

-----------------------------------------------------------------------------
(* The user.                                                               *)

Select(s) ==
    /\ page = "dashboard" /\ "stats" \in panels /\ s # selected
    /\ selected' = s
    /\ Mounts({KeyOf("stats", s)})
    /\ UNCHANGED <<clock, server, session, mishaps, panels, page, now, prevTop, announce>>

(* POST /auth/login sets the cookie.                                       *)
LoggedIn == session' = TRUE

(* requireSession finds the session; the page is drawn.                    *)
Enters ==
    /\ page' = "dashboard"
    /\ Mounts(Observed)
    /\ now' = clock
    /\ prevTop' = IF data[AlertsKey] = None THEN None ELSE TopOf(data[AlertsKey].list)

(* The form of the login page, and router.push("/").                       *)
Login ==
    /\ page = "login"
    /\ LoggedIn /\ Enters
    /\ UNCHANGED <<clock, server, mishaps, panels, selected, announce>>

(* POST /auth/logout: it may fail, and so may its DEL.                     *)
LoggedOut == session' \in {session, FALSE}

(* Whatever became of it, router.push("/login"); the cache and the         *)
(* selection stay.                                                         *)
Logout ==
    /\ page = "dashboard"
    /\ LoggedOut
    /\ page' = "login"
    /\ prevTop' = None /\ announce' = None /\ now' = 0
    /\ Mishap
    /\ UNCHANGED <<clock, server, panels, selected, query, request>>

-----------------------------------------------------------------------------
(* What goes on meanwhile.                                                 *)

SessionEnds ==
    /\ session
    /\ session' = FALSE
    /\ Mishap
    /\ UNCHANGED <<clock, server, screen, query, request>>

(* The interval of CooldownPanel: every second, or later.                  *)
DrawAgain ==
    /\ page = "dashboard" /\ "status" \in panels
    /\ clock >= now + Sec
    /\ now' = clock
    /\ UNCHANGED <<clock, server, session, mishaps, panels, page, selected, prevTop, announce,
                   query, request>>

Tick ==
    /\ \A p \in panels : clock < MaxTime[p]
    /\ clock' = clock + 1
    /\ UNCHANGED <<server, session, mishaps, screen, query, request>>

(* The time of a row is when its transaction began.                        *)
Began == {clock - 1, clock}

NewError ==
    /\ More(errorLog, {"stats", "status"})
    /\ \E s \in UNION {Reporters[p] : p \in panels}, t \in Began :
          errorLog' = errorLog \union {[n |-> Cardinality(errorLog), service |-> s, at |-> t]}
    /\ UNCHANGED <<clock, alertRows, lockUntil, session, mishaps, screen, query, request>>

Comes(st) ==
    /\ More(alertRows, {"alerts"})
    /\ \E t \in Began :
          alertRows' = alertRows \union {[n |-> Cardinality(alertRows), at |-> t, status |-> st]}
    /\ UNCHANGED <<clock, errorLog, lockUntil, session, mishaps, screen, query, request>>

NewAlert   == Comes("dispatched")
NewFailure == Comes("failed")

(* tryAcquire, after an error of the service.                              *)
Lock(s) ==
    /\ "status" \in panels
    /\ s \in {r.service : r \in errorLog} /\ lockUntil[s] <= clock
    /\ lockUntil' = [lockUntil EXCEPT ![s] = clock + Cooldown]
    /\ UNCHANGED <<clock, errorLog, alertRows, session, mishaps, screen, query, request>>

-----------------------------------------------------------------------------
Goes(k) == Poll(k) \/ Retry(k) \/ Server(k) \/ Arrive(k) \/ ArriveUnauthorized(k)

Next ==
    \/ \E k \in Keys : Goes(k) \/ RequestFails(k)
    \/ \E s \in Selections : Select(s)
    \/ Login \/ Logout \/ SessionEnds
    \/ DrawAgain \/ Tick
    \/ NewError \/ NewAlert \/ NewFailure
    \/ \E s \in Services : Lock(s)

(* The timers of the tab fire and the server answers.                      *)
Fairness == \A k \in Keys : WF_vars(Goes(k))

Spec == Init /\ [][Next]_vars /\ Fairness

-----------------------------------------------------------------------------
(* What is drawn.                                                          *)

StatsShown == data[KeyOf("stats", selected)]

Tile  == TotalErrors(StatsShown.stats)
Chart == PivotStats(StatsShown.stats)

(* cooldownRows, for the panel.                                            *)
CooldownRows ==
    LET answer == data[StatusKey] IN
    [s \in DOMAIN answer.ttl |->
        LET remaining == CooldownRemaining(answer.ttl[s], updatedAt, now) IN
        [active    |-> remaining # None /\ remaining > 0,
         remaining |-> IF remaining = None THEN 0 ELSE remaining]]

Banner ==
    HealthBanner(IF data[HealthKey] = None THEN None ELSE data[HealthKey].status,
                 status[HealthKey] = "error", error[HealthKey])

IsEmpty(k) ==
    CASE k.panel = "stats"  -> data[k].stats = {}
      [] k.panel = "status" -> DOMAIN data[k].ttl = {}
      [] k.panel = "alerts" -> data[k].list = {}
      [] OTHER -> FALSE

Draws(k) ==
    PanelState(status[k] = "error", data[k] # None, data[k] # None /\ IsEmpty(k))

-----------------------------------------------------------------------------
(* Properties.                                                             *)

(* What the tile and the chart show are the errors of the service and of   *)
(* the range that are selected now, whatever was selected when the answer  *)
(* was asked for, every row once and the newest included                   *)
(* (queries.ts:20-25, dashboard.service.ts:40-65, chart.ts:13-31).         *)
ChartShowsTheLog ==
    StatsShown # None =>
        LET rows == {r \in StatsShown.seen : r.at >= StatsShown.asked - selected.range
                                             /\ selected.service \in {None, r.service}} IN
        /\ Tile = Cardinality(rows)
        /\ \A r \in rows : Floor(r.at) \in DOMAIN Chart
        /\ \A t \in DOMAIN Chart : \A s \in DOMAIN Chart[t] :
              Chart[t][s] = Cardinality({r \in rows : r.service = s /\ Floor(r.at) = t})

(* An alert that was there when the list was asked for is missing only if  *)
(* the list is full of alerts that are no older, though the two tables are *)
(* read one after the other, each with a limit of its own, and an alert    *)
(* may be committed after a newer one (dashboard.service.ts:113-150).      *)
LatestAlertsShown ==
    reply[AlertsKey] \notin {None, Unauthorized} =>
        LET list == reply[AlertsKey].list IN
        \A b \in before \ list :
            /\ Cardinality(list) = Limit
            /\ \A a \in list : a.at >= b.at

(* The screen reader is told of an alert when, and only when, it comes     *)
(* before all of a list that was shown (alerts-table.tsx:15-25).           *)
AnnouncesNews ==
    [][LET old == data[AlertsKey].list   new == data'[AlertsKey].list IN
       /\ announce' \notin {announce, None} =>
             /\ data[AlertsKey] # None /\ old # {}
             /\ TopOf(new) \notin old /\ announce' = TopOf(new)
       /\ Shown(AlertsKey) /\ page' = page /\ data[AlertsKey] # None =>
             (old # {} /\ TopOf(new) # TopOf(old) => announce' = TopOf(new))]_vars

(* The countdown of a lock that is still held ends at most half a second   *)
(* early, and that of a lock that is gone is late at most by that and by   *)
(* the time the answer travelled (cooldown.service.ts:38-41,               *)
(* derive.ts:7-15, cooldown-panel.tsx:19-26).                              *)
CountdownHolds ==
    data[StatusKey] # None =>
        LET answer == data[StatusKey]
            late   == Sec \div 2
            early  == Sec - late IN
        \A s \in DOMAIN answer.ttl : answer.until[s] # None =>
            /\ lockUntil[s] = answer.until[s] /\ Left(s) > 0 =>
                  CooldownRows[s].remaining * Sec + early > Left(s)
            /\ CooldownRows[s].active =>
                  now < answer.until[s] + late + (updatedAt - answer.at)

(* The banner tells what the last fetch of /health ended with, also when   *)
(* an older answer is still there; a tab that never got an answer draws    *)
(* none while it asks again (health.ts:7-23).                              *)
BannerFollowsHealth ==
    LET told == CASE verdict = "degraded"    -> "degraded"
                  [] verdict = "unavailable" -> "db-down"
                  [] OTHER -> None IN
    /\ Banner \in {None, told}
    /\ data[HealthKey] # None => Banner = told

(* A panel does not stay with an error or a skeleton once requests succeed *)
(* (panel-state.ts:5-7, providers.tsx:14-24).                              *)
PanelsHeal ==
    page = "dashboard" ~>
        (page = "login" \/ \A k \in Observed : Draws(k) \in {"ready", "empty"})

(* A tab whose session is gone goes to the login page (client.ts:38-48).   *)
NoSessionLeadsToLogin ==
    (page = "dashboard" /\ ~session /\ panels # {"health"}) ~> page = "login"
=============================================================================
