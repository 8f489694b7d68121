-------------------------------- MODULE Api --------------------------------
(***************************************************************************)
(* The writing requests of the HTTP API: ingestion (ingestion/api.py) and  *)
(* feedback (api/routes/anomalies.py), each behind authentication          *)
(* (api/auth.py), ingestion behind the rate limiter too (api/ratelimit.py).*)
(*                                                                         *)
(* A request is a coroutine that yields at every await: a Redis command, a *)
(* connection of the pool, a statement, the commit.  The session that      *)
(* get_session yields holds its connection, and the row lock of an UPDATE, *)
(* until its commit or rollback; the audit row is written meanwhile, over  *)
(* a second connection of the same pool.  The batch of an ingest request   *)
(* is one unit: there is no unique constraint, so no row is rejected.      *)
(***************************************************************************)
EXTENDS Integers, FiniteSets, Sequences

Kinds == {"ingest", "feedback"}

CONSTANTS
  Requests,
  NoRequest,
  Sent,          \* Sent[r]: what request r asks for, the mixes that clients may send
  Keys,          \* what X-API-Key may hold, NoKey (the header is missing) included
  Tenants,
  KeyTenant,     \* settings.key_tenant_map: from some keys to their tenants
  DefaultTenant,
  Alerts,
  AlertTenant,   \* AlertTenant[a]: the tenant column of alert a
  RateLimit,     \* rate_limit_per_minute, 0 when off
  Minute,        \* length of a window and of a counter's expiry (60 in the code)
  PoolSize,      \* connections of the pool, overflow included
  MaxTime        \* bound: the clock

ASSUME KeyAssumption ==
  /\ DOMAIN KeyTenant \subseteq Keys /\ KeyTenant \in [DOMAIN KeyTenant -> Tenants]
  /\ DefaultTenant \in Tenants /\ AlertTenant \in [Alerts -> Tenants]
  /\ NoRequest \notin Requests
  /\ Sent \subseteq [Requests -> [kind : Kinds, key : Keys, alert : Alerts]]
ASSUME NumberAssumption ==
  /\ IsFiniteSet(Requests)
  /\ RateLimit \in Nat /\ Minute \in Nat \ {0} /\ PoolSize \in Nat \ {0} /\ MaxTime \in Nat

VARIABLES
  now,      \* the clock of the API and of Redis
  req,      \* the requests: what was sent, and where the handler is
  counter,  \* Redis: counter[<<key, window>>], "exp" 0 when it has no expiry
  points,   \* ingest requests whose rows are in the metrics table
  counted,  \* ingest requests whose points INGEST_POINTS has counted
  labelBy,  \* labelBy[a]: the request whose label alert a carries
  audit     \* rows of audit_log, in the order of insertion

vars == <<now, req, counter, points, counted, labelBy, audit>>

(***************************************************************************)
(* "limiting": about to INCR; "expiring": about to EXPIRE; "handling": the *)
(* route runs, its session has no connection yet; "connected": it has one; *)
(* "written": its statement was executed; "finishing": about to commit.    *)
(* Ends: committed (202/200, or unseen: no property is about what the      *)
(* client is told), 401, 429, 404; "failed": ended without a commit.       *)
(***************************************************************************)
Working == {"limiting", "expiring", "handling", "connected", "written", "finishing"}
Ends == {"ok", "denied", "limited", "missing", "failed"}
Windows == 0..(MaxTime \div Minute)

\* "passed" is history: how the limiter let the request pass, by its count, by a
\* count that came after the window's end, or because Redis failed.
Request ==
  [st : {"new"} \union Working \union Ends, kind : Kinds, key : Keys, alert : Alerts,
   window : Windows, passed : {"no", "counted", "late", "open"}]

TypeOK ==
  /\ now \in 0..MaxTime
  /\ req \in [Requests -> Request]
  /\ counter \in [Keys \X Windows -> [n : 0..Cardinality(Requests), exp : 0..(MaxTime + Minute)]]
  /\ points \subseteq Requests /\ counted \subseteq Requests
  /\ labelBy \in [Alerts -> Requests \union {NoRequest}]
  /\ audit \in Seq(Requests) /\ Len(audit) <= Cardinality(Requests)

Init ==
  /\ now = 0
  /\ \E sent \in Sent :
       req = [r \in Requests |->
                [st |-> "new", kind |-> sent[r].kind, key |-> sent[r].key,
                 alert |-> sent[r].alert, window |-> 0, passed |-> "no"]]
  /\ counter = [s \in Keys \X Windows |-> [n |-> 0, exp |-> 0]]
  /\ points = {} /\ counted = {} /\ audit = <<>>
  /\ labelBy = [a \in Alerts |-> NoRequest]
-----------------------------------------------------------------------------
\* require_api_key: without any key configured, everybody is the default tenant.
Valid(k) == DOMAIN KeyTenant = {} \/ k \in DOMAIN KeyTenant
TenantOf(k) == IF DOMAIN KeyTenant = {} THEN DefaultTenant ELSE KeyTenant[k]

Goto(r, st) == req' = [req EXCEPT ![r].st = st]

\* The session's connections; an audit insert borrows one for a moment.
InSession(r) == req[r].st \in {"connected", "written", "finishing"}
PoolFull == Cardinality({r \in Requests : InSession(r)}) >= PoolSize

\* record_audit_async: best effort.  When the pool is full it times out and is dropped.
RecordAudit(r) == audit' \in {audit} \union (IF PoolFull THEN {} ELSE {Append(audit, r)})

Deny(r) ==
  /\ req[r].st = "new" /\ ~Valid(req[r].key)
  /\ Goto(r, "denied") /\ RecordAudit(r)
  /\ UNCHANGED <<now, counter, points, counted, labelBy>>

\* Authentication, and the limiter up to its first command.
Admit(r) ==
  /\ req[r].st = "new" /\ Valid(req[r].key)
  /\ IF req[r].kind = "ingest" /\ RateLimit > 0
       THEN req' = [req EXCEPT ![r].st = "limiting", ![r].window = now \div Minute]
       ELSE Goto(r, "handling")
  /\ UNCHANGED <<now, counter, points, counted, labelBy, audit>>

\* The Redis key: prefix, identifier, window.
Slot(r) == <<req[r].key, req[r].window>>

\* INCR: an expired counter starts again, without expiry.
Incremented(c) == IF c.exp # 0 /\ c.exp <= now THEN [n |-> 1, exp |-> 0]
                  ELSE [c EXCEPT !.n = @ + 1]

\* A request that is granted its place after its window has ended is "late".
Passing(r) == IF now >= (req[r].window + 1) * Minute THEN "late" ELSE "counted"

\* Mutant: the limit is off by one.
CountLax(r) ==
  /\ req[r].st = "limiting"
  /\ LET c == Incremented(counter[Slot(r)])
         over == c.n # 1 /\ c.n > RateLimit + 1
     IN /\ counter' = [counter EXCEPT ![Slot(r)] = c]
        /\ req' = [req EXCEPT
             ![r].st = IF c.n = 1 THEN "expiring" ELSE IF over THEN "limited" ELSE "handling",
             ![r].passed = IF over THEN "no" ELSE Passing(r)]
  /\ UNCHANGED <<now, points, counted, labelBy, audit>>

\* INCR; who finds 1 sets the expiry next, who finds more than the limit gets a 429.
\* A client that sends an INCR again after a lost reply, and so counts a request
\* twice, is left out.
Count(r) ==
  /\ req[r].st = "limiting"
  /\ LET c == Incremented(counter[Slot(r)])
         over == c.n # 1 /\ c.n > RateLimit
     IN /\ counter' = [counter EXCEPT ![Slot(r)] = c]
        /\ req' = [req EXCEPT
             ![r].st = IF c.n = 1 THEN "expiring" ELSE IF over THEN "limited" ELSE "handling",
             ![r].passed = IF over THEN "no" ELSE Passing(r)]
  /\ UNCHANGED <<now, points, counted, labelBy, audit>>

\* EXPIRE, in a command of its own.
SetExpiry(r) ==
  /\ req[r].st = "expiring"
  /\ counter' = [counter EXCEPT ![Slot(r)].exp = now + Minute]
  /\ Goto(r, "handling")
  /\ UNCHANGED <<now, points, counted, labelBy, audit>>

\* Fail open.  The command may have been executed although its reply is lost.
RedisFails(r) ==
  /\ req[r].st \in {"limiting", "expiring"}
  /\ counter' \in {counter} \union
       IF req[r].st = "limiting"
         THEN {[counter EXCEPT ![Slot(r)] = Incremented(@)]}
         ELSE {[counter EXCEPT ![Slot(r)].exp = now + Minute]}
  /\ req' = [req EXCEPT ![r].st = "handling", ![r].passed = "open"]
  /\ UNCHANGED <<now, points, counted, labelBy, audit>>
-----------------------------------------------------------------------------
\* The session's first statement checks a connection out, or times out waiting.
Checkout(r) ==
  /\ req[r].st = "handling"
  /\ Goto(r, IF PoolFull THEN "failed" ELSE "connected")
  /\ UNCHANGED <<now, counter, points, counted, labelBy, audit>>

\* bulk_insert.
Insert(r) ==
  /\ req[r].st = "connected" /\ req[r].kind = "ingest"
  /\ Goto(r, "written")
  /\ UNCHANGED <<now, counter, points, counted, labelBy, audit>>

\* Whether a transaction that is still open has updated r's alert.
Locked(r) ==
  \E q \in Requests \ {r} : /\ req[q].kind = "feedback" /\ req[q].alert = req[r].alert
                            /\ req[q].st \in {"written", "finishing"}

\* Mutant: UPDATE alerts without its tenant.
UpdateAnyTenant(r) ==
  /\ req[r].st = "connected" /\ req[r].kind = "feedback"
  /\ ~Locked(r)
  /\ Goto(r, "written")
  /\ UNCHANGED <<now, counter, points, counted, labelBy, audit>>

\* set_alert_label: UPDATE ... WHERE id AND tenant; waits for the row lock, or
\* finds no row (404).
Update(r) ==
  /\ req[r].st = "connected" /\ req[r].kind = "feedback"
  /\ IF TenantOf(req[r].key) = AlertTenant[req[r].alert]
       THEN ~Locked(r) /\ Goto(r, "written")
       ELSE Goto(r, "missing")
  /\ UNCHANGED <<now, counter, points, counted, labelBy, audit>>

\* The counters are incremented, or the audit row is written; then the route returns.
CountPoints(r) ==
  /\ req[r].st = "written" /\ req[r].kind = "ingest"
  /\ counted' = counted \union {r}
  /\ Goto(r, "finishing")
  /\ UNCHANGED <<now, counter, points, labelBy, audit>>

\* Mutant: the audit insert waits for a connection without a timeout.
AuditFeedbackPatiently(r) ==
  /\ req[r].st = "written" /\ req[r].kind = "feedback" /\ ~PoolFull
  /\ RecordAudit(r)
  /\ Goto(r, "finishing")
  /\ UNCHANGED <<now, counter, points, counted, labelBy>>

\* Mutant: the feedback is audited before the UPDATE has its row lock.
AuditFeedbackFirst(r) ==
  /\ req[r].kind = "feedback"
  /\ \/ /\ req[r].st = "connected" /\ r \notin {audit[i] : i \in DOMAIN audit}
        /\ audit' = Append(audit, r) /\ UNCHANGED req
     \/ req[r].st = "written" /\ Goto(r, "finishing") /\ UNCHANGED audit
  /\ UNCHANGED <<now, counter, points, counted, labelBy>>

\* Mutant: the audit insert is tried again although it was committed.
AuditFeedbackTwice(r) ==
  /\ req[r].st = "written" /\ req[r].kind = "feedback"
  /\ RecordAudit(r)
  /\ \E st \in {"written", "finishing"} : Goto(r, st)
  /\ UNCHANGED <<now, counter, points, counted, labelBy>>

AuditFeedback(r) ==
  /\ req[r].st = "written" /\ req[r].kind = "feedback"
  /\ RecordAudit(r)
  /\ Goto(r, "finishing")
  /\ UNCHANGED <<now, counter, points, counted, labelBy>>

\* Mutant: the statement commits by itself.
CommitEarly(r) ==
  /\ req[r].st \in {"written", "finishing"}
  /\ IF req[r].kind = "ingest"
       THEN points' = points \union {r} /\ UNCHANGED labelBy
       ELSE labelBy' = [labelBy EXCEPT ![req[r].alert] = r] /\ UNCHANGED points
  /\ Goto(r, "ok")
  /\ UNCHANGED <<now, counter, counted, audit>>

\* get_session after the yield.  Its reply may be lost (the session then raises): what
\* is committed is committed all the same.
Commit(r) ==
  /\ req[r].st = "finishing"
  /\ IF req[r].kind = "ingest"
       THEN points' = points \union {r} /\ UNCHANGED labelBy
       ELSE labelBy' = [labelBy EXCEPT ![req[r].alert] = r] /\ UNCHANGED points
  /\ Goto(r, "ok")
  /\ UNCHANGED <<now, counter, counted, audit>>

\* A statement or the commit raises without effect, the client disconnects or the
\* process dies: nothing was committed, and it is rolled back.
Rollback(r) ==
  /\ req[r].st \in Working
  /\ Goto(r, "failed")
  /\ UNCHANGED <<now, counter, points, counted, labelBy, audit>>

Tick == now < MaxTime /\ now' = now + 1 /\ UNCHANGED <<req, counter, points, counted, labelBy, audit>>
-----------------------------------------------------------------------------
Step(r) ==
  \/ Deny(r) \/ Admit(r) \/ Count(r) \/ SetExpiry(r) \/ RedisFails(r)
  \/ Checkout(r) \/ Insert(r) \/ Update(r)
  \/ CountPoints(r) \/ AuditFeedback(r) \/ Commit(r)

\* Every request has ended: not a deadlock.
Quiescent == now = MaxTime /\ (\A r \in Requests : req[r].st \in Ends) /\ UNCHANGED vars

Next == (\E r \in Requests : Step(r) \/ Rollback(r)) \/ Tick \/ Quiescent

Spec == Init /\ [][Next]_vars

\* The event loop runs every coroutine that can run, and what it awaits (a command,
\* a connection, a statement) is answered or times out.
FairSpec == Spec /\ \A r \in Requests : WF_vars(Step(r))
-----------------------------------------------------------------------------
(***************************************************************************)
(* config.py: "Max ingest requests per minute per client".  Of one client  *)
(* and window no more requests pass than the limit, but for those that     *)
(* Redis failed and those whose INCR came after the window had ended, when *)
(* the counter had expired and counts from one again.  And nobody is       *)
(* refused for what others send, or for what was sent in another minute:   *)
(* behind a 429 there are more requests of this very client and window     *)
(* than the limit, none of them one that authentication denied.            *)
(***************************************************************************)
Passed(k, w) ==
  {r \in Requests : req[r].key = k /\ req[r].window = w /\ req[r].passed = "counted"}

\* Requests of one client and window that authentication let through to the limiter.
Sending(k, w) ==
  {r \in Requests : /\ req[r].kind = "ingest" /\ req[r].key = k /\ req[r].window = w
                    /\ req[r].st \notin {"new", "denied"}}

LimitExact ==
  /\ RateLimit > 0 =>
       \A k \in {key \in Keys : Valid(key)}, w \in Windows : Cardinality(Passed(k, w)) <= RateLimit
  /\ \A r \in Requests : req[r].st = "limited" =>
       Cardinality(Sending(req[r].key, req[r].window)) > RateLimit

(***************************************************************************)
(* NFR-SEC4: what a request has written belongs to the tenant of its key:  *)
(* a label is set only by its alert's tenant, and no row comes from a key  *)
(* that maps to no tenant.                                                 *)
(***************************************************************************)
TenantIsolation ==
  /\ \A r \in points : Valid(req[r].key)
  /\ \A a \in Alerts : labelBy[a] # NoRequest =>
       LET k == req[labelBy[a]].key IN Valid(k) /\ TenantOf(k) = AlertTenant[a]

(***************************************************************************)
(* The ingest counter against the table: no row goes uncounted, and the    *)
(* counter runs ahead only by requests in flight or that have failed.      *)
(***************************************************************************)
CounterCoversRows ==
  /\ points \subseteq counted
  /\ \A r \in counted \ points : req[r].st \in {"finishing", "failed"}

(***************************************************************************)
(* MM-9.5: the audit trail tells who set the label.  The audit row is      *)
(* committed before the label is, but under the label's row lock: of two   *)
(* audited feedbacks on one alert that were both committed, the alert does *)
(* not carry the one that the trail shows as the earlier.                  *)
(***************************************************************************)
LabelFollowsAudit ==
  \A i, j \in DOMAIN audit :
    /\ i < j
    /\ req[audit[i]].kind = "feedback" /\ req[audit[j]].kind = "feedback"
    /\ req[audit[i]].alert = req[audit[j]].alert
    /\ req[audit[i]].st = "ok" /\ req[audit[j]].st = "ok"
    => labelBy[req[audit[i]].alert] # audit[i]

(***************************************************************************)
(* A feedback holds a connection and a row lock while it waits for a       *)
(* second connection; others hold connections while they wait for the      *)
(* lock.  Every request ends all the same.                                 *)
(***************************************************************************)
RequestEnds == \A r \in Requests : req[r].st = "new" ~> req[r].st \in Ends
=============================================================================
