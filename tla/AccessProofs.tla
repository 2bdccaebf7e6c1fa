---------------------------- MODULE AccessProofs ----------------------------
(***************************************************************************)
(* Theorems about keys, accounts and sessions, for every number of         *)
(* requests at once, of sessions, keys and accounts.                       *)
(***************************************************************************)
EXTENDS Access, FiniteSetTheorems, TLAPS

IsAdmin(i) == \E u \in users : u.id = i /\ u.role = "admin"

(* The tables: an id that was not handed out names no session, and the     *)
(* role copied into a session is never more than the account's.            *)
TablesOK ==
    /\ IsFiniteSet(users)
    /\ OneAccount
    /\ \A s \in Sids : s \notin given => store[s] = None
    /\ \A s \in Sids : store[s] # None /\ store[s].role = "admin" => IsAdmin(store[s].user)

(* Which routes come to which await, and with what.                        *)
PathOK(q) ==
    /\ status[q] # "none" => pc[q] \in {"touching", "done"}
    /\ pc[q] = "loading" => kind[q] \in Guarded \union {"login", "logout"}
    /\ pc[q] \in {"verifying", "regenerating", "saving"} => kind[q] = "login"
    /\ pc[q] = "destroying" => kind[q] = "logout"
    /\ pc[q] = "writing" => kind[q] \in Managing \union {"seedKey"}
    /\ pc[q] = "stamping" => kind[q] = "post"
    /\ pc[q] \in {"looking", "updating"} => kind[q] \in {"post", "seedAdmin"}
    /\ pc[q] = "inserting" => kind[q] = "seedAdmin"
    /\ kind[q] \in Managing \union {"post", "seedKey"} => about[q] \in Tokens
    /\ kind[q] \in {"login", "seedAdmin"} => about[q] \in Emails
    /\ cookie[q] \in given \union {None}

RoleOK(q) ==
    /\ pc[q] = "writing" /\ kind[q] \in Managing => sess[q] # None /\ sess[q].role = "admin"
    /\ sess[q] # None /\ sess[q].role = "admin" => IsAdmin(sess[q].user)

(* What came too late finds nothing: a session that is gone stays away, a  *)
(* key that is revoked stays revoked.                                      *)
LateOK(q) ==
    /\ late[q] /\ kind[q] \in Guarded =>
          Loaded(q) = None /\ pc[q] \in {"loading", "done"} /\ status[q] # "ok"
    /\ late[q] /\ kind[q] = "post" =>
          keys[about[q]] = "revoked" /\ pc[q] \in {"looking", "done"} /\ status[q] # "ok"

RequestOK(q) == PathOK(q) /\ RoleOK(q) /\ LateOK(q)

AInv == TypeOK /\ TablesOK /\ \A q \in Requests : RequestOK(q)

-----------------------------------------------------------------------------
(* How the tables change, as far as the requests that wait can tell.       *)

Ages ==
    /\ given \subseteq given'
    /\ \A s \in given : store[s] = None => store'[s] = None
    /\ \A t \in Tokens : keys[t] = "revoked" => keys'[t] = "revoked"
    /\ \A i : IsAdmin(i) => IsAdmin(i)'

SameRequest(q) ==
    /\ kind'[q] = kind[q] /\ pc'[q] = pc[q] /\ cookie'[q] = cookie[q]
    /\ about'[q] = about[q] /\ sess'[q] = sess[q] /\ status'[q] = status[q]
    /\ late'[q] = late[q]

LEMMA WaitingIsSafe ==
    ASSUME NEW q \in Requests, TypeOK, RequestOK(q), Ages, SameRequest(q)
    PROVE  RequestOK(q)'
<1> USE DEF SameRequest, RequestOK
<1>1. PathOK(q)'
  BY DEF PathOK, Ages
<1>2. RoleOK(q)'
  BY DEF RoleOK, Ages
<1>3. LateOK(q)'
  <2>1. late[q] /\ kind[q] \in Guarded => Loaded(q)' = None
    BY AccessAssumption DEF LateOK, PathOK, Loaded, Ages, TypeOK
  <2>2. late[q] /\ kind[q] = "post" => keys'[about[q]] = "revoked"
    BY DEF LateOK, PathOK, Ages
  <2>3. QED
    BY <2>1, <2>2 DEF LateOK
<1>4. QED
  BY <1>1, <1>2, <1>3

LEMMA TablesAsTheyWere ==
    ASSUME UNCHANGED tables, TypeOK, TablesOK
    PROVE  Ages /\ TablesOK'
BY DEF tables, Ages, TablesOK, IsAdmin, OneAccount

LEMMA OneRequest ==
    ASSUME NEW r \in Requests, AInv, TypeOK', Ages, TablesOK', RequestOK(r)',
           \A q \in Requests : q # r => SameRequest(q)
    PROVE  AInv'
BY WaitingIsSafe DEF AInv

-----------------------------------------------------------------------------
(* The steps that change no table.                                         *)

LEMMA BeginsKeepsAInv ==
    ASSUME AInv, NEW r \in Requests,
           NEW k \in Kinds, NEW await \in {"loading", "looking", "writing"},
           NEW c \in given \union {None}, NEW a \in Tokens \union Emails \union {None},
           NEW gone \in BOOLEAN, Begins(r, k, await, c, a, gone),
           await = "loading" => k \in Guarded \union {"login", "logout"},
           await = "writing" => k = "seedKey",
           await = "looking" => k \in {"post", "seedAdmin"},
           k \in Managing \union {"post", "seedKey"} => a \in Tokens,
           k \in {"login", "seedAdmin"} => a \in Emails,
           gone /\ k \in Guarded => await = "loading" /\ (c = None \/ store[c] = None),
           gone /\ k = "post" => await = "looking" /\ keys[a] = "revoked"
    PROVE  AInv'
<1> USE DEF Begins, Answers, GoTo
<1>1. TypeOK'
  BY DEF AInv, TypeOK, tables
<1>2. Ages /\ TablesOK'
  BY TablesAsTheyWere DEF AInv
<1>3. \A q \in Requests : q # r => SameRequest(q)
  BY DEF AInv, TypeOK, SameRequest
<1>4. /\ kind'[r] = k /\ status'[r] = "none" /\ pc'[r] = await /\ cookie'[r] = c
      /\ about'[r] = a /\ late'[r] = gone /\ sess'[r] = None
  BY DEF AInv, TypeOK
<1>5. RequestOK(r)'
  <2>1. PathOK(r)'
    BY <1>4 DEF PathOK, tables, Guarded, Managing
  <2>2. RoleOK(r)'
    BY <1>4 DEF RoleOK, Managing
  <2>3. LateOK(r)'
    BY <1>4 DEF LateOK, Loaded, tables
  <2>4. QED
    BY <2>1, <2>2, <2>3 DEF RequestOK
<1>6. QED
  BY <1>1, <1>2, <1>3, <1>5, OneRequest

LEMMA RequestsComeSafely ==
    ASSUME AInv, NEW r \in Requests,
           WebRequest(r) \/ PostErrors(r) \/ SeedAdmin(r) \/ SeedKey(r)
    PROVE  AInv'
<1> USE DEF Kinds, Guarded, Managing
<1>1. CASE WebRequest(r)
  <2>1. PICK k \in Guarded \union {"login", "logout"}, c \in given \union {None},
             a \in Tokens \union Emails \union {None} :
          /\ a \in (IF k \in Managing THEN Tokens ELSE IF k = "login" THEN Emails ELSE {None})
          /\ Begins(r, k, "loading", c, a, IF c = None THEN TRUE ELSE store[c] = None)
    BY <1>1 DEF WebRequest
  <2> DEFINE gone == IF c = None THEN TRUE ELSE store[c] = None
  <2>2. gone \in BOOLEAN /\ (gone => c = None \/ store[c] = None)
    OBVIOUS
  <2>3. Begins(r, k, "loading", c, a, gone)
    BY <2>1
  <2>4. /\ k \in Managing => a \in Tokens
        /\ k = "login" => a \in Emails
    BY <2>1
  <2> HIDE DEF gone
  <2>5. QED
    BY <2>2, <2>3, <2>4, BeginsKeepsAInv
<1>2. CASE PostErrors(r)
  <2>1. PICK t \in Tokens : Begins(r, "post", "looking", None, t, keys[t] = "revoked")
    BY <1>2 DEF PostErrors
  <2> DEFINE gone == keys[t] = "revoked"
  <2>2. gone \in BOOLEAN /\ (gone => keys[t] = "revoked")
    OBVIOUS
  <2>3. Begins(r, "post", "looking", None, t, gone)
    BY <2>1
  <2> HIDE DEF gone
  <2>4. QED
    BY <2>2, <2>3, BeginsKeepsAInv
<1>3. CASE SeedAdmin(r)
  BY <1>3, BeginsKeepsAInv DEF SeedAdmin
<1>4. CASE SeedKey(r)
  BY <1>4, BeginsKeepsAInv DEF SeedKey
<1>5. QED
  BY <1>1, <1>2, <1>3, <1>4

(* The steps of a request that read the tables and go on.                  *)
ReadingStep(r) ==
    \/ Load(r) \/ LoadFails(r) \/ Verified(r) \/ NotVerified(r) \/ Touch(r)
    \/ Lookup(r) \/ Stamp(r) \/ ValidateFails(r) \/ FindAccount(r)

LEMMA ReadingLeavesTables ==
    ASSUME AInv, NEW r \in Requests, ReadingStep(r)
    PROVE  UNCHANGED <<clock, tables, kind, cookie, about, late>>
BY DEF ReadingStep, Load, LoadFails, Verified, NotVerified, Touch, Lookup, Stamp,
       ValidateFails, FindAccount

LEMMA LoadIsSafe ==
    ASSUME AInv, NEW r \in Requests, Load(r)
    PROVE  TypeOK' /\ RequestOK(r)' /\ \A q \in Requests : q # r => SameRequest(q)
<1> USE DEF AInv, Load, Answers, GoTo
<1>1. UNCHANGED <<clock, tables, kind, cookie, about, now, late>>
  OBVIOUS
<1>2. Loaded(r) \in Session \union {None}
  BY DEF Loaded, TypeOK, RequestOK, PathOK
<1>3. sess' = [sess EXCEPT ![r] = Loaded(r)]
  OBVIOUS
<1>4. /\ kind[r] \in Guarded \union {"login", "logout"} /\ status[r] = "none"
      /\ pc[r] = "loading"
  BY DEF RequestOK, PathOK
<1>5. \/ kind[r] = "login" /\ GoTo(r, "verifying") /\ UNCHANGED status
      \/ kind[r] = "logout" /\ GoTo(r, "destroying") /\ UNCHANGED status
      \/ kind[r] \in Guarded /\ Loaded(r) = None /\ Answers(r, "refused", "done")
      \/ kind[r] = "read" /\ Loaded(r) # None /\ Answers(r, "ok", "touching")
      \/ kind[r] = "read" /\ Loaded(r) # None /\ Answers(r, "error", "touching")
      \/ kind[r] \in Managing /\ HasRole(r) /\ GoTo(r, "writing") /\ UNCHANGED status
      \/ kind[r] \in Managing /\ Loaded(r) # None /\ Answers(r, "refused", "touching")
  BY <1>4 DEF Guarded, Managing
<1>6. TypeOK'
  BY <1>1, <1>2, <1>3, <1>5 DEF TypeOK, tables
<1>7. \A q \in Requests : q # r => SameRequest(q)
  BY <1>1, <1>3, <1>5 DEF TypeOK, SameRequest
<1>8. PathOK(r)'
  BY <1>1, <1>4, <1>5 DEF PathOK, RequestOK, TypeOK, tables, Guarded, Managing
<1>9. RoleOK(r)'
  <2>1. sess'[r] = Loaded(r)
    BY <1>3 DEF TypeOK
  <2>2. Loaded(r) # None /\ Loaded(r).role = "admin" => IsAdmin(Loaded(r).user)
    BY DEF Loaded, TablesOK, TypeOK, RequestOK, PathOK
  <2>3. pc'[r] = "writing" => HasRole(r)
    BY <1>5 DEF TypeOK
  <2>4. QED
    BY <1>1, <2>1, <2>2, <2>3 DEF RoleOK, IsAdmin, HasRole, tables
<1>10. LateOK(r)'
  BY <1>1, <1>4, <1>5 DEF LateOK, RequestOK, TypeOK, Loaded, tables, Guarded, Managing, HasRole
<1>11. QED
  BY <1>6, <1>7, <1>8, <1>9, <1>10 DEF RequestOK

LEMMA VerifiedIsSafe ==
    ASSUME AInv, NEW r \in Requests, Verified(r)
    PROVE  TypeOK' /\ RequestOK(r)' /\ \A q \in Requests : q # r => SameRequest(q)
<1> USE DEF AInv, Verified, GoTo
<1>1. PICK u \in users : sess' = [sess EXCEPT ![r] = [user |-> u.id, role |-> u.role]]
  OBVIOUS
<1> DEFINE s == [user |-> u.id, role |-> u.role]
<1>2. s \in Session /\ (s.role = "admin" => IsAdmin(s.user))
  BY DEF TypeOK, Session, IsAdmin
<1>3. sess' = [sess EXCEPT ![r] = s]
  BY <1>1
<1> HIDE DEF s
<1>4. TypeOK'
  BY <1>2, <1>3 DEF TypeOK, tables
<1>5. \A q \in Requests : q # r => SameRequest(q)
  BY <1>3 DEF TypeOK, SameRequest
<1>6. PathOK(r)' /\ LateOK(r)'
  BY DEF PathOK, LateOK, RequestOK, TypeOK, tables, Guarded, Managing, Loaded
<1>7. RoleOK(r)'
  BY <1>2, <1>3 DEF RoleOK, RequestOK, TypeOK, tables, IsAdmin
<1>8. QED
  BY <1>4, <1>5, <1>6, <1>7 DEF RequestOK

LEMMA ReadingIsSafe ==
    ASSUME AInv, NEW r \in Requests, ReadingStep(r)
    PROVE  AInv'
<1>1. UNCHANGED <<clock, tables, kind, cookie, about, late>>
  BY ReadingLeavesTables
<1>2. Ages /\ TablesOK'
  BY <1>1, TablesAsTheyWere DEF AInv
<1>3. TypeOK' /\ RequestOK(r)' /\ \A q \in Requests : q # r => SameRequest(q)
  <2>1. CASE Load(r)
    BY <2>1, LoadIsSafe
  <2>2. CASE Verified(r)
    BY <2>2, VerifiedIsSafe
  <2>3. ASSUME ReadingStep(r), ~Load(r), ~Verified(r)
        PROVE  TypeOK' /\ RequestOK(r)' /\ \A q \in Requests : q # r => SameRequest(q)
    <3> USE DEF AInv, ReadingStep, LoadFails, NotVerified, Touch, Lookup, Stamp,
                ValidateFails, FindAccount, Answers, GoTo
    <3>1. UNCHANGED sess
      BY <2>3
    <3>2. TypeOK'
      BY <2>3, <1>1, <3>1 DEF TypeOK, tables
    <3>3. \A q \in Requests : q # r => SameRequest(q)
      BY <2>3, <1>1, <3>1 DEF TypeOK, SameRequest
    <3>4. PathOK(r)'
      BY <2>3, <1>1 DEF PathOK, RequestOK, TypeOK, tables, Guarded, Managing
    <3>5. RoleOK(r)'
      BY <2>3, <1>1, <3>1 DEF RoleOK, RequestOK, TypeOK, tables, IsAdmin
    <3>6. LateOK(r)'
      BY <2>3, <1>1 DEF LateOK, PathOK, RequestOK, TypeOK, tables, Guarded, Managing, Loaded
    <3>7. QED
      BY <3>2, <3>3, <3>4, <3>5, <3>6 DEF RequestOK
  <2>4. QED
    BY <2>1, <2>2, <2>3
<1>4. QED
  BY <1>2, <1>3, OneRequest

-----------------------------------------------------------------------------
(* The steps that change a table.                                          *)

(* Sessions end; a session that is written is new, and what the account    *)
(* was at the login.                                                       *)
LEMMA SessionsAreSafe ==
    ASSUME AInv, NEW r \in Requests, Regenerate(r) \/ Save(r) \/ Destroy(r)
    PROVE  AInv'
<1> USE DEF AInv, Answers, GoTo
<1>1. /\ UNCHANGED <<clock, users, keys, usedAt, kind, cookie, about, sess, now, late>>
      /\ given \subseteq given'
  BY DEF Regenerate, Save, Destroy
<1>2. \A s \in given : store'[s] \in {store[s], None}
  BY DEF Regenerate, Save, Destroy, Deleted, TypeOK
<1>3. \A s \in Sids \ given : \/ store'[s] = None /\ (s \notin given' \/ store[s] = None)
                              \/ store'[s] = sess[r] /\ s \in given'
  BY DEF Regenerate, Save, Destroy, Deleted, TypeOK, TablesOK
<1>4. Ages
  BY <1>1, <1>2 DEF Ages, IsAdmin
<1>5. TypeOK'
  <2>1. store' \in [Sids -> Session \union {None}]
    BY DEF Regenerate, Save, Destroy, Deleted, TypeOK
  <2>2. given' \in SUBSET Sids
    BY DEF Regenerate, Save, Destroy, TypeOK
  <2>3. pc' \in [Requests -> {"loading", "verifying", "regenerating", "saving",
                              "destroying", "writing", "touching",
                              "looking", "stamping", "updating", "inserting", "done"}]
    BY DEF Regenerate, Save, Destroy, TypeOK
  <2>4. status' \in [Requests -> {"none", "ok", "refused", "error"}]
    BY DEF Regenerate, Save, Destroy, TypeOK
  <2>5. QED
    BY <1>1, <2>1, <2>2, <2>3, <2>4 DEF TypeOK
<1>6. TablesOK'
  <2>1. \A s \in Sids : s \notin given' => store'[s] = None
    BY <1>1, <1>3 DEF TypeOK
  <2>2. ASSUME NEW s \in Sids, store'[s] # None, store'[s].role = "admin"
        PROVE  IsAdmin(store'[s].user)
    <3>1. store'[s] \in {store[s], sess[r]}
      BY <1>2, <1>3, <2>2
    <3>2. QED
      BY <2>2, <3>1 DEF TablesOK, RequestOK, RoleOK
  <2>3. QED
    BY <1>1, <2>1, <2>2 DEF TablesOK, OneAccount, IsAdmin
<1>7. \A q \in Requests : q # r => SameRequest(q)
  BY <1>1 DEF Regenerate, Save, Destroy, TypeOK, SameRequest
<1>8. kind'[r] \in {"login", "logout"} /\ pc'[r] \in {"saving", "done"} /\
      (pc'[r] = "saving" => kind'[r] = "login" /\ status'[r] = "none")
  BY <1>1 DEF Regenerate, Save, Destroy, TypeOK, RequestOK, PathOK
<1>9. RequestOK(r)'
  <2>1. PathOK(r)'
    BY <1>1, <1>8 DEF PathOK, RequestOK, Managing, Guarded
  <2>2. RoleOK(r)'
    BY <1>1, <1>8 DEF RoleOK, RequestOK, Managing, IsAdmin
  <2>3. LateOK(r)'
    BY <1>8 DEF LateOK, Managing, Guarded
  <2>4. QED
    BY <2>1, <2>2, <2>3 DEF RequestOK
<1>10. QED
  BY <1>4, <1>5, <1>6, <1>7, <1>9, OneRequest DEF AInv

LEMMA ExpireIsSafe ==
    ASSUME AInv, NEW s \in Sids, Expire(s)
    PROVE  AInv'
<1> USE DEF AInv, Expire
<1>1. TypeOK'
  BY DEF TypeOK, request
<1>2. Ages
  BY DEF Ages, TypeOK, IsAdmin
<1>3. TablesOK'
  BY DEF TablesOK, TypeOK, OneAccount, IsAdmin
<1>4. \A q \in Requests : SameRequest(q)
  BY DEF SameRequest, request
<1>5. QED
  BY <1>1, <1>2, <1>3, <1>4, WaitingIsSafe

LEMMA WriteIsSafe ==
    ASSUME AInv, NEW r \in Requests, Write(r)
    PROVE  AInv'
<1> USE DEF AInv, Write, Written, Issued, Revoked, IsNew, Answers, GoTo
<1>1. kind[r] \in Managing \union {"seedKey"} /\ about[r] \in Tokens /\ ~(late[r] /\ kind[r] \in Guarded)
  BY DEF RequestOK, PathOK, LateOK, Managing
<1>2. UNCHANGED <<clock, users, store, given, usedAt, kind, cookie, about, sess, now, late>>
  OBVIOUS
<1>3. \/ UNCHANGED keys
      \/ keys[about[r]] = "none" /\ keys' = [keys EXCEPT ![about[r]] = "valid"]
      \/ keys' = [keys EXCEPT ![about[r]] = "revoked"]
  <2>1. CASE UNCHANGED keys
    BY <2>1
  <2>2. CASE Written(r)
    <3>1. CASE IsNew(about[r])
      BY <2>2, <3>1, <1>1 DEF TypeOK
    <3>2. CASE ~IsNew(about[r])
      BY <2>2, <3>2, <1>1 DEF TypeOK
    <3>3. QED
      BY <3>1, <3>2
  <2>3. QED
    BY <2>1, <2>2
<1>4. TypeOK'
  <2>1. keys' \in [Tokens -> KeyStates]
    BY <1>1, <1>3 DEF TypeOK, KeyStates
  <2>2. /\ pc' \in [Requests -> {"loading", "verifying", "regenerating", "saving",
                                 "destroying", "writing", "touching",
                                 "looking", "stamping", "updating", "inserting", "done"}]
        /\ status' \in [Requests -> {"none", "ok", "refused", "error"}]
    BY DEF TypeOK
  <2>3. QED
    BY <1>2, <2>1, <2>2 DEF TypeOK
<1>5. Ages
  <2>1. \A t \in Tokens : keys[t] = "revoked" => keys'[t] = "revoked"
    BY <1>1, <1>3 DEF TypeOK
  <2>2. QED
    BY <1>2, <2>1 DEF Ages, IsAdmin
<1>6. TablesOK'
  BY <1>2 DEF TablesOK, OneAccount, IsAdmin
<1>7. \A q \in Requests : q # r => SameRequest(q)
  BY <1>2 DEF TypeOK, SameRequest
<1>8. pc'[r] \in {"touching", "done"}
  BY DEF TypeOK
<1>9. RequestOK(r)'
  BY <1>1, <1>2, <1>8 DEF RequestOK, PathOK, RoleOK, LateOK, Managing, Guarded, IsAdmin
<1>10. QED
  BY <1>4, <1>5, <1>6, <1>7, <1>9, OneRequest

LEMMA StampedIsSafe ==
    ASSUME AInv, NEW r \in Requests, Stamped(r)
    PROVE  AInv'
<1> USE DEF AInv, Stamped, Answers, GoTo
<1>1. UNCHANGED <<clock, users, store, given, keys, kind, cookie, about, sess, now, late>>
  OBVIOUS
<1>2. TypeOK'
  <2>1. about[r] \in Tokens
    BY DEF RequestOK, PathOK
  <2>2. usedAt' \in [Tokens -> Nat]
    BY <2>1 DEF TypeOK
  <2>3. QED
    BY <1>1, <2>2 DEF TypeOK
<1>3. Ages /\ TablesOK'
  BY <1>1 DEF Ages, TablesOK, OneAccount, IsAdmin
<1>4. \A q \in Requests : q # r => SameRequest(q)
  BY <1>1 DEF TypeOK, SameRequest
<1>5. pc'[r] = "done" /\ ~late[r]
  BY DEF TypeOK, RequestOK, LateOK
<1>6. RequestOK(r)'
  BY <1>1, <1>5 DEF RequestOK, PathOK, RoleOK, LateOK, Managing, Guarded, IsAdmin
<1>7. QED
  BY <1>2, <1>3, <1>4, <1>6, OneRequest

(* No account is lost or twice there, and who is an admin stays one.       *)
AccountsGrow ==
    /\ users' \in SUBSET [id : Nat, email : Emails, role : Roles]
    /\ IsFiniteSet(users')
    /\ OneAccount'
    /\ \A i : IsAdmin(i) => IsAdmin(i)'

(* With one account per email the row that is updated is one.              *)
LEMMA AccountsAreSafe ==
    ASSUME AInv, NEW r \in Requests, UpdateAccount(r) \/ InsertAccount(r)
    PROVE  AInv'
<1> USE DEF AInv, UpdateAccount, InsertAccount, NewEmail, Answers, GoTo
<1> DEFINE e == about[r]
<1>1. UNCHANGED <<clock, store, given, keys, usedAt, kind, cookie, about, sess, now, late>>
  OBVIOUS
<1>2. kind[r] = "seedAdmin" /\ e \in Emails
  BY DEF RequestOK, PathOK
<1>3. \/ UNCHANGED users
      \/ \E u \in users : u.email = e /\ users' = (users \ {u}) \union {[u EXCEPT !.role = "admin"]}
      \/ \E i \in Nat : Rows(e) = {} /\ users' = users \union {[id |-> i, email |-> e, role |-> "admin"]}
  <2>1. CASE InsertAccount(r)
    <3>1. Cardinality(users) + 1 \in Nat
      BY FS_CardinalityType DEF TablesOK
    <3>2. QED
      BY <2>1, <3>1
  <2>2. CASE UpdateAccount(r)
    <3>1. CASE Rows(e) = {}
      BY <2>2, <3>1
    <3>2. CASE Rows(e) # {}
      <4>1. PICK u \in users : u \in Rows(e)
        BY <3>2 DEF Rows
      <4>2. Rows(e) = {u}
        BY <4>1 DEF Rows, TablesOK, OneAccount
      <4>3. users' = (users \ {u}) \union {[v EXCEPT !.role = "admin"] : v \in {u}}
        BY <2>2, <4>2
      <4>4. {[v EXCEPT !.role = "admin"] : v \in {u}} = {[u EXCEPT !.role = "admin"]}
        OBVIOUS
      <4>5. u.email = e
        BY <4>1 DEF Rows
      <4>6. QED
        BY <4>3, <4>4, <4>5
    <3>3. QED
      BY <3>1, <3>2
  <2>3. QED
    BY <2>1, <2>2
<1>4. AccountsGrow
  <2>1. CASE UNCHANGED users
    BY <2>1 DEF AccountsGrow, TypeOK, TablesOK, OneAccount, IsAdmin
  <2>2. ASSUME NEW u \in users, u.email = e,
               users' = (users \ {u}) \union {[u EXCEPT !.role = "admin"]}
        PROVE  AccountsGrow
    <3> DEFINE w == [u EXCEPT !.role = "admin"]
    <3>1. /\ w \in [id : Nat, email : Emails, role : Roles]
          /\ w.email = u.email /\ w.id = u.id /\ w.role = "admin"
      BY DEF TypeOK, Roles
    <3>2. users' = (users \ {u}) \union {w}
      BY <2>2
    <3> HIDE DEF w
    <3>3. IsFiniteSet(users')
      BY <3>2, FS_AddElement, FS_RemoveElement DEF TablesOK
    <3>4. OneAccount'
      BY <3>1, <3>2 DEF TablesOK, OneAccount
    <3>5. \A i : IsAdmin(i) => IsAdmin(i)'
      BY <3>1, <3>2 DEF IsAdmin
    <3>6. QED
      BY <3>1, <3>2, <3>3, <3>4, <3>5 DEF AccountsGrow, TypeOK
  <2>3. ASSUME NEW i \in Nat, Rows(e) = {},
               users' = users \union {[id |-> i, email |-> e, role |-> "admin"]}
        PROVE  AccountsGrow
    <3> DEFINE w == [id |-> i, email |-> e, role |-> "admin"]
    <3>1. w \in [id : Nat, email : Emails, role : Roles] /\ w.email = e
      BY <1>2 DEF Roles
    <3>2. users' = users \union {w}
      BY <2>3
    <3> HIDE DEF w
    <3>3. IsFiniteSet(users')
      BY <3>2, FS_AddElement DEF TablesOK
    <3>4. OneAccount'
      BY <2>3, <3>1, <3>2 DEF TablesOK, OneAccount, Rows
    <3>5. \A j : IsAdmin(j) => IsAdmin(j)'
      BY <3>2 DEF IsAdmin
    <3>6. QED
      BY <3>1, <3>2, <3>3, <3>4, <3>5 DEF AccountsGrow, TypeOK
  <2>4. QED
    BY <1>3, <2>1, <2>2, <2>3
<1>5. TypeOK'
  <2>1. /\ pc' \in [Requests -> {"loading", "verifying", "regenerating", "saving",
                                 "destroying", "writing", "touching",
                                 "looking", "stamping", "updating", "inserting", "done"}]
        /\ status' \in [Requests -> {"none", "ok", "refused", "error"}]
    BY DEF TypeOK
  <2>2. QED
    BY <1>1, <1>4, <2>1 DEF TypeOK, AccountsGrow
<1>6. Ages
  BY <1>1, <1>4 DEF Ages, AccountsGrow
<1>7. TablesOK'
  BY <1>1, <1>4, <1>6 DEF TablesOK, AccountsGrow, Ages
<1>8. \A q \in Requests : q # r => SameRequest(q)
  BY <1>1 DEF TypeOK, SameRequest
<1>9. RequestOK(r)'
  <2>1. pc'[r] = "done"
    BY DEF TypeOK
  <2>2. QED
    BY <1>1, <1>2, <1>6, <2>1 DEF RequestOK, PathOK, RoleOK, LateOK, Managing, Guarded, Ages
<1>10. QED
  BY <1>5, <1>6, <1>7, <1>8, <1>9, OneRequest

-----------------------------------------------------------------------------

LEMMA AInvInit == Init => AInv
<1> SUFFICES ASSUME Init PROVE AInv
  OBVIOUS
<1> USE DEF Init
<1>1. TypeOK
  BY DEF TypeOK, Roles, KeyStates
<1>2. TablesOK
  BY FS_EmptySet, FS_Singleton DEF TablesOK, OneAccount
<1>3. \A q \in Requests : RequestOK(q)
  BY AccessAssumption DEF RequestOK, PathOK, RoleOK, LateOK, Guarded, Managing, Kinds
<1>4. QED
  BY <1>1, <1>2, <1>3 DEF AInv

LEMMA AInvStep == AInv /\ [Next]_vars => AInv'
<1> SUFFICES ASSUME AInv, [Next]_vars PROVE AInv'
  OBVIOUS
<1>1. ASSUME NEW r \in Requests,
             WebRequest(r) \/ PostErrors(r) \/ SeedAdmin(r) \/ SeedKey(r)
      PROVE  AInv'
  BY <1>1, RequestsComeSafely
<1>2. ASSUME NEW r \in Requests, ReadingStep(r) PROVE AInv'
  BY <1>2, ReadingIsSafe
<1>3. ASSUME NEW r \in Requests, Regenerate(r) \/ Save(r) \/ Destroy(r) PROVE AInv'
  BY <1>3, SessionsAreSafe
<1>4. ASSUME NEW r \in Requests, Write(r) \/ Stamped(r) PROVE AInv'
  BY <1>4, WriteIsSafe, StampedIsSafe
<1>5. ASSUME NEW r \in Requests, UpdateAccount(r) \/ InsertAccount(r) PROVE AInv'
  BY <1>5, AccountsAreSafe
<1>6. ASSUME NEW s \in Sids, Expire(s) PROVE AInv'
  BY <1>6, ExpireIsSafe
<1>7. CASE Tick \/ UNCHANGED vars
  <2>1. UNCHANGED <<tables, request>> /\ clock' \in Nat
    BY <1>7 DEF Tick, vars, AInv, TypeOK
  <2>2. TypeOK' /\ \A q \in Requests : SameRequest(q)
    BY <2>1 DEF AInv, TypeOK, tables, request, SameRequest
  <2>3. QED
    BY <2>1, <2>2, TablesAsTheyWere, WaitingIsSafe DEF AInv
<1>8. QED
  BY <1>1, <1>2, <1>3, <1>4, <1>5, <1>6, <1>7 DEF Next, ReadingStep

LEMMA AlwaysAInv == Spec => []AInv
BY AInvInit, AInvStep, PTL DEF Spec

(* The types, for every number of requests: no session that was ended in   *)
(* part, no id that is not one of an account (auth.controller.ts:35-50).   *)
THEOREM AccessTypes == Spec => []TypeOK
BY AlwaysAInv, PTL DEF AInv

(* Seed commands at once leave one account per email, whichever of them    *)
(* find it and whichever insert it (user.service.ts:22-31).                *)
THEOREM AccountsAreOne == Spec => []OneAccount
<1>1. AInv => OneAccount
  BY DEF AInv, TablesOK
<1>2. QED
  BY <1>1, AlwaysAInv, PTL

(* A revoked key or a session that is gone lets no later request in        *)
(* (api-key.service.ts:42-46, session.guard.ts:14-16).                     *)
THEOREM GoneStaysRefused == Spec => []GoneIsRefused
<1>1. AInv => GoneIsRefused
  <2> SUFFICES ASSUME AInv, NEW r \in Requests, late[r], kind[r] \in Guarded \union {"post"}
               PROVE  pc[r] \in {"loading", "looking", "done"} /\ status[r] # "ok"
    BY DEF GoneIsRefused
  <2>1. QED
    BY DEF AInv, RequestOK, LateOK
<1>2. QED
  BY <1>1, AlwaysAInv, PTL

(* Only accounts that are admins now manage keys, by the copy of the role  *)
(* in the session: nothing takes the role away from an account             *)
(* (roles.guard.ts:24-28, user.service.ts:26-29).                          *)
THEOREM AdminsManage == Spec => []ManagedByAdmins
<1>1. AInv => ManagedByAdmins
  BY DEF AInv, RequestOK, RoleOK, ManagedByAdmins, IsAdmin
<1>2. QED
  BY <1>1, AlwaysAInv, PTL

(* No step changes a session that was handed out but by ending it: the     *)
(* touch of a request that overlaps a logout does not bring it back        *)
(* (session.module.ts:40-42).                                              *)
THEOREM SessionsAreNotRevived == Spec => SessionsOnlyEnd
<1>1. AInv /\ [Next]_vars => [\A s \in given : store'[s] \in {store[s], None}]_<<store, given>>
  <2> SUFFICES ASSUME AInv, Next, NEW s \in given PROVE store'[s] \in {store[s], None}
    BY DEF vars, tables
  <2>1. ASSUME NEW r \in Requests, Regenerate(r) \/ Save(r) \/ Destroy(r)
        PROVE  store'[s] \in {store[s], None}
    BY <2>1 DEF Regenerate, Save, Destroy, Deleted, AInv, TypeOK
  <2>2. ASSUME NEW i \in Sids, Expire(i) PROVE store'[s] \in {store[s], None}
    BY <2>2 DEF Expire, AInv, TypeOK
  <2>3. ASSUME NEW r \in Requests,
               WebRequest(r) \/ PostErrors(r) \/ SeedAdmin(r) \/ SeedKey(r) \/ ReadingStep(r)
        PROVE  UNCHANGED store
    BY <2>3, ReadingLeavesTables
       DEF WebRequest, PostErrors, SeedAdmin, SeedKey, Begins, tables
  <2>4. ASSUME NEW r \in Requests, Write(r) \/ Stamped(r) \/ UpdateAccount(r) \/ InsertAccount(r)
        PROVE  UNCHANGED store
    BY <2>4 DEF Write, Stamped, UpdateAccount, InsertAccount
  <2>5. CASE Tick
    BY <2>5 DEF Tick, tables
  <2>6. QED
    BY <2>1, <2>2, <2>3, <2>4, <2>5 DEF Next, ReadingStep
<1>2. QED
  BY <1>1, AlwaysAInv, PTL DEF Spec, SessionsOnlyEnd

(* Who waits for its UPDATE is answered "ok" by that UPDATE alone.         *)
LEMMA OnlyStampedServes ==
    ASSUME AInv, Next, NEW q \in Requests, pc[q] = "updating", kind[q] = "post",
           ~Stamped(q)
    PROVE  status'[q] # "ok"
<1> USE DEF AInv, TypeOK, Answers, GoTo
<1>1. status[q] # "ok"
  BY DEF RequestOK, PathOK
<1>2. ASSUME NEW r \in Requests,
             WebRequest(r) \/ PostErrors(r) \/ SeedAdmin(r) \/ SeedKey(r)
      PROVE  status'[q] # "ok"
  BY <1>1, <1>2 DEF WebRequest, PostErrors, SeedAdmin, SeedKey, Begins
<1>3. ASSUME NEW r \in Requests, Load(r) PROVE status'[q] # "ok"
  <2>1. q # r
    BY <1>3 DEF Load
  <2>2. QED
    BY <1>1, <1>3, <2>1, LoadIsSafe DEF SameRequest
<1>4. ASSUME NEW r \in Requests, ReadingStep(r), ~Load(r) PROVE status'[q] # "ok"
  BY <1>1, <1>4 DEF ReadingStep, LoadFails, Verified, NotVerified, Touch, Lookup, Stamp,
                    ValidateFails, FindAccount
<1>5. ASSUME NEW r \in Requests, Regenerate(r) \/ Save(r) \/ Destroy(r) \/ Write(r)
      PROVE  status'[q] # "ok"
  BY <1>1, <1>5 DEF Regenerate, Save, Destroy, Write
<1>6. ASSUME NEW r \in Requests, Stamped(r) \/ UpdateAccount(r) \/ InsertAccount(r)
      PROVE  status'[q] # "ok"
  BY <1>1, <1>6 DEF Stamped, UpdateAccount, InsertAccount
<1>7. CASE Tick \/ \E s \in Sids : Expire(s)
  BY <1>1, <1>7 DEF Tick, Expire, request
<1>8. QED
  BY <1>2, <1>3, <1>4, <1>5, <1>6, <1>7 DEF Next, ReadingStep

(* last_used_at moves forward, a minute at least, and is a minute at most  *)
(* behind every use that was served, in whatever order the UPDATEs of      *)
(* concurrent requests get the row (api-key.service.ts:47-52).             *)
THEOREM LastUsedIsRight == Spec => LastUsedTracks
<1>1. ASSUME AInv, [Next]_vars
      PROVE  [\A t \in Tokens :
                  /\ usedAt'[t] # usedAt[t] => usedAt[t] = 0 \/ usedAt'[t] > usedAt[t] + Minute
                  /\ \A r \in Requests :
                        pc[r] = "updating" /\ kind[r] = "post" /\ about[r] = t /\ status'[r] = "ok" =>
                            usedAt'[t] + Minute >= now[r]]_vars
  <2> SUFFICES ASSUME Next
               PROVE  \A t \in Tokens :
                       /\ usedAt'[t] # usedAt[t] => usedAt[t] = 0 \/ usedAt'[t] > usedAt[t] + Minute
                       /\ \A r \in Requests :
                             pc[r] = "updating" /\ kind[r] = "post" /\ about[r] = t /\ status'[r] = "ok" =>
                                 usedAt'[t] + Minute >= now[r]
    BY <1>1
  <2> USE <1>1
  <2>1. ASSUME NEW r \in Requests, Stamped(r)
        PROVE  /\ \A t \in Tokens : usedAt'[t] # usedAt[t] =>
                      usedAt[t] = 0 \/ usedAt'[t] > usedAt[t] + Minute
               /\ usedAt'[about[r]] + Minute >= now[r]
    <3>1. about[r] \in Tokens /\ now[r] \in Nat /\ usedAt \in [Tokens -> Nat] /\ Minute \in Nat
      BY <2>1, AccessAssumption DEF Stamped, AInv, TypeOK, RequestOK, PathOK
    <3>2. CASE Stale(about[r], now[r])
      <4>1. usedAt' = [usedAt EXCEPT ![about[r]] = now[r]]
        BY <2>1, <3>2 DEF Stamped
      <4>2. QED
        BY <3>1, <3>2, <4>1 DEF Stale
    <3>3. CASE ~Stale(about[r], now[r])
      <4>1. usedAt' = usedAt
        BY <2>1, <3>3 DEF Stamped
      <4>2. QED
        BY <3>1, <3>3, <4>1 DEF Stale
    <3>4. QED
      BY <3>2, <3>3
  <2>2. (\A r \in Requests : ~Stamped(r)) => UNCHANGED usedAt
    BY ZenonT(60), ReadingLeavesTables
       DEF Next, ReadingStep, WebRequest, PostErrors, SeedAdmin, SeedKey, Begins, tables, Regenerate,
           Save, Destroy, Write, UpdateAccount, InsertAccount, Tick, Expire
  <2>3. \A t \in Tokens : usedAt'[t] # usedAt[t] =>
            usedAt[t] = 0 \/ usedAt'[t] > usedAt[t] + Minute
    BY <2>1, <2>2
  <2>4. ASSUME NEW q \in Requests, pc[q] = "updating", kind[q] = "post", status'[q] = "ok"
        PROVE  usedAt'[about[q]] + Minute >= now[q]
    BY <2>1, <2>4, OnlyStampedServes
  <2>5. QED
    BY <2>3, <2>4
<1>2. QED
  BY <1>1, AlwaysAInv, PTL DEF Spec, LastUsedTracks
=============================================================================
