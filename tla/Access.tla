------------------------------- MODULE Access -------------------------------
(***************************************************************************)
(* Who may do what: API keys for POST /errors, accounts, and the sessions  *)
(* of express-session and connect-redis for everything else.               *)
(*                                                                         *)
(* A request is a slot that is used again once it is answered.  A command  *)
(* to Redis or Postgres may take effect and look failed.                   *)
(***************************************************************************)
EXTENDS Naturals, FiniteSets

CONSTANTS
    Requests,  \* bound of the model: the requests and commands under way at once
    Sids,      \* bound of the model: the session ids handed out
    Tokens,    \* API keys, identified with their key_hash
    Emails,
    Minute,    \* the 60 seconds of last_used_at, in clock ticks
    MaxTime,   \* bound of the model: the clock stops here
    None       \* null, undefined

VARIABLES
    clock,   \* now() of Postgres; from 1
    users,   \* rows of users
    store,   \* the session under the key sess:<sid> in Redis
    given,   \* the session ids some login was answered with
    keys,    \* rows of api_keys: "none", "valid" (revoked_at is null), "revoked"
    usedAt,  \* last_used_at; 0 is null
    kind,    \* per request: its route, or command
    pc,      \* per request: the await it is at
    cookie,  \* per request: the session id it came with
    about,   \* per request: its token or email
    sess,    \* per request: req.session
    now,     \* per request: now() of its UPDATE of last_used_at
    status,  \* per request: what it was answered
    late     \* history: it came when its key was revoked or its session gone

tables  == <<users, store, given, keys, usedAt>>
request == <<kind, pc, cookie, about, sess, now, status, late>>
vars    == <<clock, tables, request>>

Roles == {"admin", "viewer"}
KeyStates == {"none", "valid", "revoked"}
Session == [user : Nat, role : Roles]

(* Behind SessionGuard; of these, behind RolesGuard and @Roles("admin").   *)
Managing == {"issue", "revoke"}
Guarded  == {"read"} \union Managing
Kinds    == Guarded \union {"login", "logout", "post", "seedAdmin", "seedKey"}

ASSUME AccessAssumption ==
    /\ Minute \in Nat /\ MaxTime \in Nat
    /\ None \notin Sids \union Tokens \union Emails \union Kinds
    /\ None \notin Session

TypeOK ==
    /\ clock \in Nat
    /\ users \in SUBSET [id : Nat, email : Emails, role : Roles]
    /\ store \in [Sids -> Session \union {None}]
    /\ given \in SUBSET Sids
    /\ keys \in [Tokens -> KeyStates]
    /\ usedAt \in [Tokens -> Nat]
    /\ kind \in [Requests -> Kinds \union {None}]
    /\ pc \in [Requests -> {"loading", "verifying", "regenerating", "saving",
                            "destroying", "writing", "touching",
                            "looking", "stamping", "updating", "inserting", "done"}]
    /\ cookie \in [Requests -> Sids \union {None}]
    /\ about \in [Requests -> Tokens \union Emails \union {None}]
    /\ sess \in [Requests -> Session \union {None}]
    /\ now \in [Requests -> Nat]
    /\ status \in [Requests -> {"none", "ok", "refused", "error"}]
    /\ late \in [Requests -> BOOLEAN]

(* The accounts there are besides those that the seed command makes.       *)
Init ==
    /\ clock = 1
    /\ users \in {{}} \union {{[id |-> 0, email |-> e, role |-> "viewer"]} : e \in Emails}
    /\ store = [s \in Sids |-> None]
    /\ given = {}
    /\ keys = [t \in Tokens |-> "none"]
    /\ usedAt = [t \in Tokens |-> 0]
    /\ kind = [r \in Requests |-> None]
    /\ pc = [r \in Requests |-> "done"]
    /\ cookie = [r \in Requests |-> None]
    /\ about = [r \in Requests |-> None]
    /\ sess = [r \in Requests |-> None]
    /\ now = [r \in Requests |-> 0]
    /\ status = [r \in Requests |-> "none"]
    /\ late = [r \in Requests |-> FALSE]

-----------------------------------------------------------------------------
(* Requests come and go.                                                   *)

GoTo(r, await) == pc' = [pc EXCEPT ![r] = await]

Answers(r, code, await) ==
    /\ status' = [status EXCEPT ![r] = code]
    /\ GoTo(r, await)

Begins(r, k, await, c, a, gone) ==
    /\ pc[r] = "done"
    /\ kind' = [kind EXCEPT ![r] = k]
    /\ Answers(r, "none", await)
    /\ cookie' = [cookie EXCEPT ![r] = c]
    /\ about' = [about EXCEPT ![r] = a]
    /\ late' = [late EXCEPT ![r] = gone]
    /\ sess' = [sess EXCEPT ![r] = None]
    /\ now' = [now EXCEPT ![r] = 0]
    /\ UNCHANGED <<clock, tables>>

(* Every route but POST /errors needs the session its cookie names.        *)
WebRequest(r) ==
    \E k \in Guarded \union {"login", "logout"}, c \in given \union {None},
       a \in Tokens \union Emails \union {None} :
        /\ a \in (IF k \in Managing THEN Tokens ELSE IF k = "login" THEN Emails ELSE {None})
        /\ Begins(r, k, "loading", c, a, IF c = None THEN TRUE ELSE store[c] = None)

PostErrors(r) ==
    \E t \in Tokens : Begins(r, "post", "looking", None, t, keys[t] = "revoked")

SeedAdmin(r) ==
    \E e \in Emails : Begins(r, "seedAdmin", "looking", None, e, FALSE)

SeedKey(r) ==
    \E t \in Tokens : Begins(r, "seedKey", "writing", None, t, FALSE)

-----------------------------------------------------------------------------
(* Sessions.                                                               *)

Loaded(r) == IF cookie[r] = None THEN None ELSE store[cookie[r]]

(* Variation: @Roles("admin") is missing.                                  *)
AnyRole(r) == Loaded(r) # None

HasRole(r) == Loaded(r) # None /\ Loaded(r).role = "admin"

(* The middleware gets the session; SessionGuard, then RolesGuard, decide. *)
Load(r) ==
    /\ pc[r] = "loading"
    /\ sess' = [sess EXCEPT ![r] = Loaded(r)]
    /\ CASE kind[r] = "login"  -> GoTo(r, "verifying") /\ UNCHANGED status
         [] kind[r] = "logout" -> GoTo(r, "destroying") /\ UNCHANGED status
         [] kind[r] \in Guarded /\ Loaded(r) = None -> Answers(r, "refused", "done")
         [] kind[r] = "read" /\ Loaded(r) # None ->
              \E code \in {"ok", "error"} : Answers(r, code, "touching")
         [] kind[r] \in Managing /\ Loaded(r) # None ->
              IF HasRole(r) THEN GoTo(r, "writing") /\ UNCHANGED status
                            ELSE Answers(r, "refused", "touching")
    /\ UNCHANGED <<clock, tables, kind, cookie, about, now, late>>

LoadFails(r) ==
    /\ pc[r] = "loading"
    /\ Answers(r, "error", "done")
    /\ UNCHANGED <<clock, tables, kind, cookie, about, sess, now, late>>

(* verifyLogin finds the account and the password is right; the session    *)
(* will hold what the row says now.                                        *)
Verified(r) ==
    /\ pc[r] = "verifying"
    /\ \E u \in users :
          /\ u.email = about[r]
          /\ sess' = [sess EXCEPT ![r] = [user |-> u.id, role |-> u.role]]
    /\ GoTo(r, "regenerating")
    /\ UNCHANGED <<clock, tables, kind, cookie, about, now, status, late>>

(* A wrong password, more than ten logins a minute, a failing query.       *)
NotVerified(r) ==
    /\ pc[r] = "verifying"
    /\ \E code \in {"refused", "error"} :
          Answers(r, code, IF sess[r] = None THEN "done" ELSE "touching")
    /\ UNCHANGED <<clock, tables, kind, cookie, about, sess, now, late>>

(* Variation: the session is emptied instead.                              *)
Emptied(r) ==
    store' = [s \in Sids |->
        IF s = cookie[r] THEN [user |-> None, role |-> None] ELSE store[s]]

(* DEL of the session the request came with.                               *)
Deleted(r) ==
    store' = [s \in Sids |-> IF s = cookie[r] THEN None ELSE store[s]]

Regenerate(r) ==
    /\ pc[r] = "regenerating"
    /\ \/ Deleted(r) /\ GoTo(r, "saving") /\ UNCHANGED status
       \/ Deleted(r) /\ Answers(r, "error", "done")
       \/ UNCHANGED store /\ Answers(r, "error", "done")
    /\ UNCHANGED <<clock, users, given, keys, usedAt, kind, cookie, about, sess, now, late>>

(* The new session under its new id.  The middleware answers whether or    *)
(* not the SET succeeds.                                                   *)
Save(r) ==
    /\ pc[r] = "saving"
    /\ \E s \in Sids \ given :
          /\ given' = given \union {s}
          /\ \/ store' = [store EXCEPT ![s] = sess[r]]
             \/ UNCHANGED store
    /\ Answers(r, "ok", "done")
    /\ UNCHANGED <<clock, users, keys, usedAt, kind, cookie, about, sess, now, late>>

(* Logout is answered 204 whatever became of the DEL.                      *)
Destroy(r) ==
    /\ pc[r] = "destroying"
    /\ Deleted(r) \/ UNCHANGED store
    /\ Answers(r, "ok", "done")
    /\ UNCHANGED <<clock, users, given, keys, usedAt, kind, cookie, about, sess, now, late>>

(* Variation: resave is true.                                              *)
TouchResaves(r) ==
    /\ pc[r] = "touching"
    /\ store' = [store EXCEPT ![cookie[r]] = sess[r]]
    /\ GoTo(r, "done")
    /\ UNCHANGED <<clock, users, given, keys, usedAt, kind, cookie, about, sess, now, status, late>>

(* The response ends with EXPIRE, which makes no session.                  *)
Touch(r) ==
    /\ pc[r] = "touching"
    /\ GoTo(r, "done")
    /\ UNCHANGED <<clock, tables, kind, cookie, about, sess, now, status, late>>

(* A week without a request.                                               *)
Expire(s) ==
    /\ store[s] # None
    /\ store' = [store EXCEPT ![s] = None]
    /\ UNCHANGED <<clock, users, given, keys, usedAt, request>>

-----------------------------------------------------------------------------
(* API keys.                                                               *)

(* A token of generateToken is in no row yet.                              *)
IsNew(t) == keys[t] = "none"

Issued(t) == IsNew(t) /\ keys' = [keys EXCEPT ![t] = "valid"]

(* An id that nobody has is revoked in silence.                            *)
Revoked(t) == keys' = [keys EXCEPT ![t] = IF IsNew(t) THEN @ ELSE "revoked"]

(* The controller, and the seed command.                                   *)
Written(r) ==
    \/ kind[r] \in {"issue", "seedKey"} /\ Issued(about[r])
    \/ kind[r] = "revoke" /\ Revoked(about[r])

Write(r) ==
    LET await == IF kind[r] = "seedKey" THEN "done" ELSE "touching" IN
    /\ pc[r] = "writing"
    /\ \/ Written(r) /\ Answers(r, "ok", await)
       \/ Written(r) /\ Answers(r, "error", await)
       \/ UNCHANGED keys /\ Answers(r, "error", await)
    /\ UNCHANGED <<clock, users, store, given, usedAt, kind, cookie, about, sess, now, late>>

(* Variation: the row is found by its hash alone.                          *)
LookupEvenRevoked(r) ==
    /\ pc[r] = "looking" /\ kind[r] = "post"
    /\ IF keys[about[r]] # "none" THEN GoTo(r, "stamping") /\ UNCHANGED status
                                  ELSE Answers(r, "refused", "done")
    /\ UNCHANGED <<clock, tables, kind, cookie, about, sess, now, late>>

(* validate: the row of the hash that is not revoked.                      *)
Lookup(r) ==
    /\ pc[r] = "looking" /\ kind[r] = "post"
    /\ IF keys[about[r]] = "valid" THEN GoTo(r, "stamping") /\ UNCHANGED status
                                   ELSE Answers(r, "refused", "done")
    /\ UNCHANGED <<clock, tables, kind, cookie, about, sess, now, late>>

(* The UPDATE of last_used_at begins: its now() is this moment.            *)
Stamp(r) ==
    /\ pc[r] = "stamping"
    /\ now' = [now EXCEPT ![r] = clock]
    /\ GoTo(r, "updating")
    /\ UNCHANGED <<clock, tables, kind, cookie, about, sess, status, late>>

(* Variation: every use is written.                                        *)
EveryUse(t, n) == TRUE

(* Its condition, on the row as it is once the UPDATE has the row's lock.  *)
Stale(t, n) == usedAt[t] = 0 \/ usedAt[t] + Minute < n

Stamped(r) ==
    /\ pc[r] = "updating" /\ kind[r] = "post"
    /\ LET t == about[r] IN
       usedAt' = IF Stale(t, now[r]) THEN [usedAt EXCEPT ![t] = now[r]] ELSE usedAt
    /\ \E code \in {"ok", "error"} : Answers(r, code, "done")
    /\ UNCHANGED <<clock, users, store, given, keys, kind, cookie, about, sess, now, late>>

ValidateFails(r) ==
    /\ pc[r] \in {"looking", "updating"} /\ kind[r] = "post"
    /\ Answers(r, "error", "done")
    /\ UNCHANGED <<clock, tables, kind, cookie, about, sess, now, late>>

-----------------------------------------------------------------------------
(* Accounts: UserService.create, from the seed command.                    *)

Rows(e) == {u \in users : u.email = e}

(* findOneBy; the row it finds is updated at once, or nothing is there.    *)
FindAccount(r) ==
    /\ pc[r] = "looking" /\ kind[r] = "seedAdmin"
    /\ GoTo(r, IF Rows(about[r]) = {} THEN "inserting" ELSE "updating")
    /\ UNCHANGED <<clock, tables, kind, cookie, about, sess, now, status, late>>

UpdateAccount(r) ==
    /\ pc[r] = "updating" /\ kind[r] = "seedAdmin"
    /\ users' = (users \ Rows(about[r])) \union {[u EXCEPT !.role = "admin"] : u \in Rows(about[r])}
    /\ Answers(r, "ok", "done")
    /\ UNCHANGED <<clock, store, given, keys, usedAt, kind, cookie, about, sess, now, late>>

(* Variation: the email column has no unique index.                        *)
AnyEmail(e) == TRUE

(* idx_users_email.                                                        *)
NewEmail(e) == Rows(e) = {}

InsertAccount(r) ==
    /\ pc[r] = "inserting"
    /\ IF NewEmail(about[r])
       THEN /\ users' = users \union
                  {[id |-> Cardinality(users) + 1, email |-> about[r], role |-> "admin"]}
            /\ Answers(r, "ok", "done")
       ELSE UNCHANGED users /\ Answers(r, "error", "done")
    /\ UNCHANGED <<clock, store, given, keys, usedAt, kind, cookie, about, sess, now, late>>

Tick ==
    /\ clock < MaxTime
    /\ clock' = clock + 1
    /\ UNCHANGED <<tables, request>>

Next ==
    \/ \E r \in Requests :
          \/ WebRequest(r) \/ PostErrors(r) \/ SeedAdmin(r) \/ SeedKey(r)
          \/ Load(r) \/ LoadFails(r)
          \/ Verified(r) \/ NotVerified(r) \/ Regenerate(r) \/ Save(r)
          \/ Destroy(r) \/ Touch(r)
          \/ Write(r)
          \/ Lookup(r) \/ Stamp(r) \/ Stamped(r) \/ ValidateFails(r)
          \/ FindAccount(r) \/ UpdateAccount(r) \/ InsertAccount(r)
    \/ \E s \in Sids : Expire(s)
    \/ Tick

Spec == Init /\ [][Next]_vars

-----------------------------------------------------------------------------
(* Properties.                                                             *)

(* Two seed commands at once leave one account (user.service.ts:22-31).    *)
OneAccount == \A u, v \in users : u.email = v.email => u = v

(* A session that was handed out never changes hands or role, and once it  *)
(* is gone no request that still has it brings it back                     *)
(* (auth.controller.ts:35-41, session.module.ts:40-42).                    *)
SessionsOnlyEnd == [][\A s \in given : store'[s] \in {store[s], None}]_<<store, given>>

(* A request that came when its key was revoked or its session gone is not *)
(* served, whatever else is under way (api-key.service.ts:42-46,           *)
(* session.guard.ts:14-16).                                                *)
GoneIsRefused ==
    \A r \in Requests : late[r] /\ kind[r] \in Guarded \union {"post"} =>
        /\ pc[r] \in {"loading", "looking", "done"}
        /\ status[r] # "ok"

(* Besides the seed command only an account that is an admin now touches   *)
(* keys, although the role is a copy from the login                        *)
(* (api-key.controller.ts:20-22, auth.controller.ts:39-41).                *)
ManagedByAdmins ==
    \A r \in Requests : pc[r] = "writing" /\ kind[r] \in Managing =>
        \E u \in users : u.id = sess[r].user /\ u.role = "admin"

(* last_used_at is written at most once a minute and never moves back, and *)
(* is never more than a minute behind a use, however the UPDATEs of        *)
(* concurrent requests overtake each other (api-key.service.ts:47-52).     *)
LastUsedTracks ==
    [][\A t \in Tokens :
          /\ usedAt'[t] # usedAt[t] => usedAt[t] = 0 \/ usedAt'[t] > usedAt[t] + Minute
          /\ \A r \in Requests :
                pc[r] = "updating" /\ kind[r] = "post" /\ about[r] = t /\ status'[r] = "ok" =>
                    usedAt'[t] + Minute >= now[r]]_vars
=============================================================================
