----------------------------- MODULE ApiProofs -----------------------------
(***************************************************************************)
(* Theorems about Api, for every set of requests, keys, tenants and        *)
(* alerts, every limit, window length and pool.                            *)
(***************************************************************************)
EXTENDS Api, FiniteSetTheorems, TLAPS

\* Only ingestion is limited, what is past authentication has a valid key, and a label
\* that is being written is for an alert of the key's tenant.
Lifecycle ==
  \A r \in Requests :
    /\ req[r].st \in {"limiting", "expiring", "limited"} => req[r].kind = "ingest" /\ RateLimit > 0
    /\ req[r].st \notin {"new", "denied"} => Valid(req[r].key)
    /\ req[r].st \in {"new", "limiting"} => req[r].passed = "no"
    /\ req[r].kind = "feedback" /\ req[r].st \in {"written", "finishing", "ok"} =>
         TenantOf(req[r].key) = AlertTenant[req[r].alert]

\* Points are counted before they are committed, and committed by the answer.
PointsInv ==
  /\ \A r \in points : req[r].kind = "ingest" /\ req[r].st = "ok"
  /\ \A r \in counted : req[r].kind = "ingest" /\ req[r].st \in {"finishing", "ok", "failed"}
  /\ \A r \in Requests : req[r].kind = "ingest" =>
       /\ req[r].st \in {"finishing", "ok"} => r \in counted
       /\ req[r].st = "ok" => r \in points

\* A label is that of a feedback on this very alert which was answered with success.
LabelOwner ==
  \A a \in Alerts : labelBy[a] # NoRequest =>
    LET r == labelBy[a] IN req[r].kind = "feedback" /\ req[r].st = "ok" /\ req[r].alert = a

\* UPDATE's row lock: one open transaction at a time has updated an alert.
RowLock ==
  \A q, r \in Requests :
    /\ q # r /\ req[q].kind = "feedback" /\ req[r].kind = "feedback"
    /\ req[q].alert = req[r].alert /\ req[q].st \in {"written", "finishing"}
    => req[r].st \notin {"written", "finishing"}

\* Only requests that were denied, or have reached their commit, are in the trail.
AuditedStages ==
  \A i \in DOMAIN audit : req[audit[i]].st \in {"denied", "finishing", "ok", "failed"}

(***************************************************************************)
(* The row lock orders the trail: a feedback that was audited earlier has  *)
(* ended when the later one is audited, and once the later one has         *)
(* committed the alert does not carry the earlier.                         *)
(***************************************************************************)
AuditOrder ==
  \A i, j \in DOMAIN audit :
    /\ i < j
    /\ req[audit[i]].kind = "feedback" /\ req[audit[j]].kind = "feedback"
    /\ req[audit[i]].alert = req[audit[j]].alert /\ req[audit[j]].st # "denied"
    => /\ req[audit[i]].st \in {"denied", "ok", "failed"}
       /\ req[audit[j]].st = "ok" => labelBy[req[audit[i]].alert] # audit[i]

TrailInv == LabelOwner /\ RowLock /\ AuditedStages /\ AuditOrder

\* Requests that may have a row in the trail; each has one at most.
Auditable == {r \in Requests : \/ req[r].st = "denied"
                               \/ /\ req[r].kind = "feedback"
                                  /\ req[r].st \in {"finishing", "ok", "failed"}}

TrailLength == Len(audit) <= Cardinality(Auditable)

\* Requests whose INCR on the counter of key k and window w may have been executed.
Incrementing(k, w) ==
  {r \in Requests : /\ req[r].kind = "ingest" /\ req[r].key = k /\ req[r].window = w
                    /\ req[r].st \notin {"new", "denied", "limiting"}}

(***************************************************************************)
(* The limiter: a counter counts requests that were sent, expires after    *)
(* its window's end, and until then accounts for everybody who passed.     *)
(***************************************************************************)
WindowBegun ==
  \A r \in Requests : req[r].st \in {"limiting", "expiring"} => req[r].window * Minute <= now

CounterInv ==
  \A k \in Keys, w \in Windows :
    /\ counter[<<k, w>>].n <= Cardinality(Incrementing(k, w))
    /\ counter[<<k, w>>].exp # 0 => counter[<<k, w>>].exp >= w * Minute + Minute
    /\ now < w * Minute + Minute => Cardinality(Passed(k, w)) <= counter[<<k, w>>].n

LimitInv ==
  \A k \in Keys, w \in Windows : RateLimit > 0 => Cardinality(Passed(k, w)) <= RateLimit

RefusalInv ==
  \A r \in Requests : req[r].st = "limited" =>
    Cardinality(Sending(req[r].key, req[r].window)) > RateLimit

\* The types, but for the bounds that the counts above imply.
Counter == [n : Nat, exp : 0..(MaxTime + Minute)]

TypeInv ==
  /\ now \in 0..MaxTime
  /\ req \in [Requests -> Request]
  /\ counter \in [Keys \X Windows -> Counter]
  /\ points \subseteq Requests /\ counted \subseteq Requests
  /\ labelBy \in [Alerts -> Requests \union {NoRequest}]
  /\ audit \in Seq(Requests)

ApiInv ==
  /\ TypeInv /\ Lifecycle /\ PointsInv /\ TrailInv /\ TrailLength
  /\ WindowBegun /\ CounterInv /\ LimitInv /\ RefusalInv
-----------------------------------------------------------------------------
\* The window a time belongs to, its beginning and its end.
LEMMA WindowOf ==
  ASSUME NEW n \in Nat
  PROVE  n \div Minute \in Nat /\ (n \div Minute) * Minute <= n
         /\ n < (n \div Minute) * Minute + Minute
BY NumberAssumption, Z3

\* A window ends where the next one begins.
LEMMA WindowEnd ==
  ASSUME NEW w \in Windows
  PROVE  w \in Nat /\ w * Minute \in Nat /\ (w + 1) * Minute = w * Minute + Minute
<1>1. MaxTime \div Minute \in Nat
  BY WindowOf, NumberAssumption
<1>2. w \in Nat
  BY <1>1 DEF Windows
<1>. QED  BY <1>2, NumberAssumption

\* Every time of the clock lies in a window.
LEMMA WindowType ==
  ASSUME NEW n \in 0..MaxTime
  PROVE  n \div Minute \in Windows
<1> DEFINE v == n \div Minute
           w == MaxTime \div Minute
<1>1. /\ v \in Nat /\ w \in Nat /\ v * Minute <= n /\ MaxTime < w * Minute + Minute
  BY WindowOf, NumberAssumption
<1> HIDE DEF v, w
<1>2. v * Minute < (w + 1) * Minute
  BY <1>1, NumberAssumption
<1>3. v < w + 1
  BY <1>1, <1>2, NumberAssumption, Z3
<1>4. v \in 0..w
  BY <1>1, <1>3
<1>. QED  BY <1>4 DEF v, w, Windows

\* How the number of requests of a kind follows from which requests enter or leave it.
LEMMA RequestsCounted ==
  ASSUME NEW S \in SUBSET Requests, NEW T \in SUBSET Requests
  PROVE  /\ Cardinality(S) \in Nat /\ Cardinality(T) \in Nat
         /\ S \subseteq T => Cardinality(S) <= Cardinality(T)
         /\ \A r \in Requests :
              /\ r \notin S /\ S \union {r} \subseteq T => Cardinality(S) + 1 <= Cardinality(T)
              /\ T \subseteq S \union {r} => Cardinality(T) <= Cardinality(S) + 1
<1>1. \A R \in SUBSET Requests : IsFiniteSet(R) /\ Cardinality(R) \in Nat
  BY NumberAssumption, FS_Subset, FS_CardinalityType
<1>2. \A Q, R \in SUBSET Requests : Q \subseteq R => Cardinality(Q) <= Cardinality(R)
  BY <1>1, FS_Subset
<1>3. ASSUME NEW r \in Requests
      PROVE  /\ r \notin S /\ S \union {r} \subseteq T => Cardinality(S) + 1 <= Cardinality(T)
             /\ T \subseteq S \union {r} => Cardinality(T) <= Cardinality(S) + 1
  <2>1. S \union {r} \in SUBSET Requests
    OBVIOUS
  <2>2. IsFiniteSet(S)
    BY <1>1
  <2>3. Cardinality(S \union {r}) = IF r \in S THEN Cardinality(S) ELSE Cardinality(S) + 1
    BY <2>2, FS_AddElement
  <2>4. /\ Cardinality(S \union {r}) \in Nat /\ Cardinality(S) \in Nat /\ Cardinality(T) \in Nat
        /\ S \union {r} \subseteq T => Cardinality(S \union {r}) <= Cardinality(T)
        /\ T \subseteq S \union {r} => Cardinality(T) <= Cardinality(S \union {r})
    BY <1>1, <1>2, <2>1
  <2> DEFINE x == Cardinality(S \union {r})
  <2> HIDE DEF x
  <2>5. CASE r \in S
    BY <2>3, <2>4, <2>5
  <2>6. CASE r \notin S
    BY <2>3, <2>4, <2>6
  <2>. QED  BY <2>5, <2>6
<1>. QED  BY <1>1, <1>2, <1>3

\* The handler of r goes on to a stage, with this window and this way past the limiter;
\* what was asked for stays, and so do the other requests.
At(r, st, window, passed) ==
  /\ req' \in [Requests -> Request]
  /\ req'[r].st = st /\ req'[r].window = window /\ req'[r].passed = passed
  /\ req'[r].kind = req[r].kind /\ req'[r].key = req[r].key /\ req'[r].alert = req[r].alert
  /\ \A q \in Requests \ {r} : req'[q] = req[q]

Reaches(r, st) == At(r, st, req[r].window, req[r].passed)

\* Handlers that only move on keep their window and their way past the limiter.
LEMMA GotoReaches ==
  ASSUME TypeInv, NEW r \in Requests,
         NEW st \in {"new"} \union Working \union Ends, Goto(r, st)
  PROVE  Reaches(r, st)
<1>1. req \in [Requests -> Request] /\ req[r] \in Request
  BY DEF TypeInv
<1>2. req' = [req EXCEPT ![r].st = st]
  BY DEF Goto
<1>3. req' = [req EXCEPT ![r] = [req[r] EXCEPT !.st = st]]
  BY <1>2
<1>4. [req[r] EXCEPT !.st = st] \in Request
  BY <1>1 DEF Request
<1>5. req' \in [Requests -> Request]
  BY <1>1, <1>3, <1>4
<1>. QED  BY <1>1, <1>2, <1>5 DEF Reaches, At, Request

\* What the limiter's commands make of a request: admission fixes its window, INCR and a
\* failing Redis decide how it passes.
LEMMA LimiterMoves ==
  ASSUME TypeInv, NEW r \in Requests
  PROVE  /\ Admit(r) =>
              \/ /\ req[r].kind = "ingest" /\ RateLimit > 0
                 /\ At(r, "limiting", now \div Minute, req[r].passed)
              \/ Reaches(r, "handling")
         /\ Count(r) =>
              LET n == Incremented(counter[Slot(r)]).n
                  over == n # 1 /\ n > RateLimit
              IN  At(r, IF n = 1 THEN "expiring" ELSE IF over THEN "limited" ELSE "handling",
                     req[r].window, IF over THEN "no" ELSE Passing(r))
         /\ RedisFails(r) => At(r, "handling", req[r].window, "open")
<1>1. req \in [Requests -> Request] /\ req[r] \in Request
  BY DEF TypeInv
<1>2. ASSUME Admit(r)
      PROVE  \/ /\ req[r].kind = "ingest" /\ RateLimit > 0
                /\ At(r, "limiting", now \div Minute, req[r].passed)
             \/ Reaches(r, "handling")
  <2>1. CASE req[r].kind = "ingest" /\ RateLimit > 0
    <3> DEFINE w == now \div Minute
    <3>1. w \in Windows
      BY WindowType DEF TypeInv
    <3>2. req' = [req EXCEPT ![r].st = "limiting", ![r].window = w]
      BY <1>2, <2>1 DEF Admit
    <3> HIDE DEF w
    <3>3. [req[r] EXCEPT !.st = "limiting", !.window = w] \in Request
      BY <1>1, <3>1 DEF Request, Working
    <3>4. req' = [req EXCEPT ![r] = [req[r] EXCEPT !.st = "limiting", !.window = w]]
      BY <3>2
    <3>5. req' \in [Requests -> Request]
      BY <1>1, <3>3, <3>4
    <3>6. At(r, "limiting", w, req[r].passed)
      BY <1>1, <3>2, <3>5 DEF At, Request
    <3>. QED  BY <2>1, <3>6 DEF w
  <2>2. CASE ~(req[r].kind = "ingest" /\ RateLimit > 0)
    BY <1>2, <2>2, GotoReaches DEF Admit, Working
  <2>. QED  BY <2>1, <2>2
<1>3. ASSUME NEW st \in {"new"} \union Working \union Ends,
             NEW p \in {"no", "counted", "late", "open"},
             req' = [req EXCEPT ![r].st = st, ![r].passed = p]
      PROVE  At(r, st, req[r].window, p)
  <2>1. [req[r] EXCEPT !.st = st, !.passed = p] \in Request
    BY <1>1 DEF Request
  <2>2. req' = [req EXCEPT ![r] = [req[r] EXCEPT !.st = st, !.passed = p]]
    BY <1>3
  <2>3. req' \in [Requests -> Request]
    BY <1>1, <2>1, <2>2
  <2>. QED  BY <1>1, <1>3, <2>3 DEF At, Request
<1>4. ASSUME Count(r)
      PROVE  LET n == Incremented(counter[Slot(r)]).n
                 over == n # 1 /\ n > RateLimit
             IN  At(r, IF n = 1 THEN "expiring" ELSE IF over THEN "limited" ELSE "handling",
                    req[r].window, IF over THEN "no" ELSE Passing(r))
  <2> DEFINE n == Incremented(counter[Slot(r)]).n
             over == n # 1 /\ n > RateLimit
             st == IF n = 1 THEN "expiring" ELSE IF over THEN "limited" ELSE "handling"
             p == IF over THEN "no" ELSE Passing(r)
  <2>1. req' = [req EXCEPT ![r].st = st, ![r].passed = p]
    BY <1>4 DEF Count
  <2>2. st \in {"new"} \union Working \union Ends /\ p \in {"no", "counted", "late", "open"}
    BY DEF Working, Ends, Passing
  <2> HIDE DEF n, over, st, p
  <2>3. At(r, st, req[r].window, p)
    BY <1>3, <2>1, <2>2
  <2>. QED  BY <2>3 DEF n, over, st, p
<1>5. RedisFails(r) => At(r, "handling", req[r].window, "open")
  BY <1>3 DEF RedisFails, Working
<1>. QED  BY <1>2, <1>4, <1>5

\* What the other steps make of a request.
LEMMA HandlerMoves ==
  ASSUME TypeInv, NEW r \in Requests
  PROVE  /\ Deny(r) => Reaches(r, "denied")
         /\ SetExpiry(r) => Reaches(r, "handling")
         /\ Checkout(r) => Reaches(r, "failed") \/ Reaches(r, "connected")
         /\ Insert(r) => Reaches(r, "written")
         /\ Update(r) =>
              \/ /\ TenantOf(req[r].key) = AlertTenant[req[r].alert] /\ ~Locked(r)
                 /\ Reaches(r, "written")
              \/ Reaches(r, "missing")
         /\ CountPoints(r) \/ AuditFeedback(r) => Reaches(r, "finishing")
         /\ Commit(r) => Reaches(r, "ok")
         /\ Rollback(r) => Reaches(r, "failed")
<1>1. \A st \in {"new"} \union Working \union Ends : Goto(r, st) => Reaches(r, st)
  BY GotoReaches
<1>2. /\ Deny(r) => Goto(r, "denied")
      /\ SetExpiry(r) => Goto(r, "handling")
      /\ Checkout(r) => Goto(r, "failed") \/ Goto(r, "connected")
      /\ Insert(r) => Goto(r, "written")
      /\ Update(r) => \/ /\ TenantOf(req[r].key) = AlertTenant[req[r].alert] /\ ~Locked(r)
                         /\ Goto(r, "written")
                      \/ Goto(r, "missing")
      /\ CountPoints(r) \/ AuditFeedback(r) => Goto(r, "finishing")
      /\ Commit(r) => Goto(r, "ok")
      /\ Rollback(r) => Goto(r, "failed")
  BY DEF Deny, SetExpiry, Checkout, Insert, Update, CountPoints, AuditFeedback, Commit, Rollback
<1>3. {"denied", "handling", "failed", "connected", "written", "missing", "finishing", "ok"}
        \subseteq {"new"} \union Working \union Ends
  BY DEF Working, Ends
<1>. QED  BY <1>1, <1>2, <1>3

\* A step of one request leaves the other requests alone.
LEMMA OthersUnmoved ==
  ASSUME TypeInv, NEW r \in Requests, Step(r) \/ Rollback(r), NEW q \in Requests, q # r
  PROVE  req'[q] = req[q]
<1>1. CASE Deny(r) \/ SetExpiry(r) \/ Checkout(r) \/ Insert(r) \/ Update(r)
  BY <1>1, HandlerMoves DEF Reaches, At
<1>2. CASE CountPoints(r) \/ AuditFeedback(r) \/ Commit(r) \/ Rollback(r)
  BY <1>2, HandlerMoves DEF Reaches, At
<1>3. CASE Admit(r) \/ RedisFails(r)
  BY <1>3, LimiterMoves DEF Reaches, At
<1>4. CASE Count(r)
  BY <1>4, LimiterMoves DEF At
<1>. QED  BY <1>1, <1>2, <1>3, <1>4 DEF Step

\* INCR adds one, or starts again from one without an expiry.
LEMMA IncrementedType ==
  ASSUME NEW c \in Counter
  PROVE  /\ Incremented(c) \in Counter
         /\ Incremented(c).n = IF c.exp # 0 /\ c.exp <= now THEN 1 ELSE c.n + 1
         /\ Incremented(c).exp = IF c.exp # 0 /\ c.exp <= now THEN 0 ELSE c.exp
<1>1. 0 \in 0..(MaxTime + Minute)
  BY NumberAssumption
<1>2. c.n \in Nat /\ c.exp \in 0..(MaxTime + Minute) /\ c = [n |-> c.n, exp |-> c.exp]
  BY DEF Counter
<1>3. [c EXCEPT !.n = @ + 1] = [n |-> c.n + 1, exp |-> c.exp]
  BY <1>2
<1>4. CASE c.exp # 0 /\ c.exp <= now
  BY <1>1, <1>4 DEF Incremented, Counter
<1>5. CASE ~(c.exp # 0 /\ c.exp <= now)
  BY <1>2, <1>3, <1>5 DEF Incremented, Counter
<1>. QED  BY <1>4, <1>5

\* The step gives the counter of slot s the content c and leaves the others alone.
OnlyCounter(s, c) ==
  /\ counter' \in [Keys \X Windows -> Counter]
  /\ \A u \in Keys \X Windows : counter'[u] = IF u = s THEN c ELSE counter[u]

\* The counter of a request's own slot, set to expire.
Expiring(c) == [n |-> c.n, exp |-> now + Minute]

\* The limiter's commands touch the counter of the request's own key and window only.
LEMMA CounterMoves ==
  ASSUME TypeInv, NEW r \in Requests
  PROVE  /\ Slot(r) \in Keys \X Windows /\ counter[Slot(r)] \in Counter
         /\ Count(r) => OnlyCounter(Slot(r), Incremented(counter[Slot(r)]))
         /\ SetExpiry(r) => OnlyCounter(Slot(r), Expiring(counter[Slot(r)]))
         /\ RedisFails(r) =>
              \/ UNCHANGED counter
              \/ req[r].st = "limiting" /\ OnlyCounter(Slot(r), Incremented(counter[Slot(r)]))
              \/ req[r].st = "expiring" /\ OnlyCounter(Slot(r), Expiring(counter[Slot(r)]))
<1> DEFINE c == counter[Slot(r)]
<1>1. Slot(r) \in Keys \X Windows
  BY DEF TypeInv, Request, Slot
<1>2. c \in Counter /\ counter \in [Keys \X Windows -> Counter]
  BY <1>1 DEF TypeInv
<1>3. Incremented(c) \in Counter
  BY <1>2, IncrementedType
<1>4. now + Minute \in 0..(MaxTime + Minute)
  BY NumberAssumption DEF TypeInv
<1>5. [c EXCEPT !.exp = now + Minute] = Expiring(c) /\ Expiring(c) \in Counter
  BY <1>2, <1>4 DEF Expiring, Counter
<1>6. ASSUME NEW d \in Counter, counter' = [counter EXCEPT ![Slot(r)] = d]
      PROVE  OnlyCounter(Slot(r), d)
  BY <1>1, <1>2, <1>6 DEF OnlyCounter
<1>7. [counter EXCEPT ![Slot(r)].exp = now + Minute]
        = [counter EXCEPT ![Slot(r)] = [c EXCEPT !.exp = now + Minute]]
  OBVIOUS
<1> HIDE DEF c
<1>8. Count(r) => counter' = [counter EXCEPT ![Slot(r)] = Incremented(c)]
  BY DEF Count, c
<1>9. SetExpiry(r) => counter' = [counter EXCEPT ![Slot(r)] = Expiring(c)]
  BY <1>5, <1>7 DEF SetExpiry
<1>10. RedisFails(r) =>
         \/ UNCHANGED counter
         \/ req[r].st = "limiting" /\ counter' = [counter EXCEPT ![Slot(r)] = Incremented(c)]
         \/ req[r].st = "expiring" /\ counter' = [counter EXCEPT ![Slot(r)] = Expiring(c)]
  BY <1>5, <1>7 DEF RedisFails, c
<1>. QED  BY <1>1, <1>2, <1>3, <1>5, <1>6, <1>8, <1>9, <1>10 DEF c
-----------------------------------------------------------------------------
\* Every step keeps the types.
LEMMA TypeStep ==
  ASSUME TypeInv, [Next]_vars
  PROVE  TypeInv'
<1>1. CASE UNCHANGED vars
  BY <1>1 DEF TypeInv, vars
<1>2. CASE Tick
  BY <1>2, NumberAssumption DEF Tick, TypeInv
<1>3. ASSUME NEW r \in Requests, Step(r) \/ Rollback(r)
      PROVE  TypeInv'
  <2>1. now' \in 0..MaxTime
    BY <1>3 DEF TypeInv, Step, Deny, Admit, Count, SetExpiry, RedisFails, Checkout, Insert, Update,
                CountPoints, AuditFeedback, Commit, Rollback
  <2>2. req' \in [Requests -> Request]
    <3>1. CASE Deny(r) \/ SetExpiry(r) \/ Checkout(r) \/ Insert(r) \/ Update(r)
      BY <3>1, HandlerMoves DEF Reaches, At
    <3>2. CASE CountPoints(r) \/ AuditFeedback(r) \/ Commit(r) \/ Rollback(r)
      BY <3>2, HandlerMoves DEF Reaches, At
    <3>3. CASE Admit(r) \/ RedisFails(r)
      BY <3>3, LimiterMoves DEF Reaches, At
    <3>4. CASE Count(r)
      BY <3>4, LimiterMoves DEF At
    <3>. QED  BY <1>3, <3>1, <3>2, <3>3, <3>4 DEF Step
  <2>3. counter' \in [Keys \X Windows -> Counter]
    <3>1. CASE Count(r) \/ SetExpiry(r) \/ RedisFails(r)
      BY <3>1, CounterMoves DEF OnlyCounter, TypeInv
    <3>2. CASE ~(Count(r) \/ SetExpiry(r) \/ RedisFails(r))
      BY <1>3, <3>2 DEF TypeInv, Step, Deny, Admit, Checkout, Insert, Update, CountPoints,
                        AuditFeedback, Commit, Rollback
    <3>. QED  BY <3>1, <3>2
  <2>4. points' \subseteq Requests /\ counted' \subseteq Requests
    BY <1>3 DEF TypeInv, Step, Deny, Admit, Count, SetExpiry, RedisFails, Checkout, Insert, Update,
                CountPoints, AuditFeedback, Commit, Rollback
  <2>5. labelBy' \in [Alerts -> Requests \union {NoRequest}]
    <3>1. labelBy \in [Alerts -> Requests \union {NoRequest}]
      BY DEF TypeInv
    <3>2. UNCHANGED labelBy \/ labelBy' = [labelBy EXCEPT ![req[r].alert] = r]
      BY <1>3 DEF Step, Deny, Admit, Count, SetExpiry, RedisFails, Checkout, Insert, Update,
                  CountPoints, AuditFeedback, Commit, Rollback
    <3>. QED  BY <3>1, <3>2
  <2>6. audit' \in Seq(Requests)
    <3>1. audit \in Seq(Requests)
      BY DEF TypeInv
    <3>2. RecordAudit(r) => audit' \in Seq(Requests)
      BY <3>1 DEF RecordAudit
    <3>3. UNCHANGED audit \/ RecordAudit(r)
      BY <1>3 DEF Step, Deny, Admit, Count, SetExpiry, RedisFails, Checkout, Insert, Update,
                  CountPoints, AuditFeedback, Commit, Rollback
    <3>. QED  BY <3>1, <3>2, <3>3
  <2>. QED  BY <2>1, <2>2, <2>3, <2>4, <2>5, <2>6 DEF TypeInv
<1>. QED  BY <1>1, <1>2, <1>3 DEF Next, Quiescent

\* A request is limited, authenticated and matched with its alert's tenant on its way.
LEMMA LifecycleStep ==
  ASSUME TypeInv, Lifecycle, [Next]_vars
  PROVE  Lifecycle'
<1> DEFINE Good(q) ==
      /\ req'[q].st \in {"limiting", "expiring", "limited"} =>
           req'[q].kind = "ingest" /\ RateLimit > 0
      /\ req'[q].st \notin {"new", "denied"} => Valid(req'[q].key)
      /\ req'[q].st \in {"new", "limiting"} => req'[q].passed = "no"
      /\ req'[q].kind = "feedback" /\ req'[q].st \in {"written", "finishing", "ok"} =>
           TenantOf(req'[q].key) = AlertTenant[req'[q].alert]
<1>. SUFFICES ASSUME NEW q \in Requests
     PROVE  Good(q)
  BY DEF Lifecycle, Valid, TenantOf
<1>1. /\ req[q].st \in {"limiting", "expiring", "limited"} =>
           req[q].kind = "ingest" /\ RateLimit > 0
      /\ req[q].st \notin {"new", "denied"} => Valid(req[q].key)
      /\ req[q].st \in {"new", "limiting"} => req[q].passed = "no"
      /\ req[q].kind = "feedback" /\ req[q].st \in {"written", "finishing", "ok"} =>
           TenantOf(req[q].key) = AlertTenant[req[q].alert]
  BY DEF Lifecycle
<1>2. CASE req'[q] = req[q]
  BY <1>1, <1>2
<1>3. CASE UNCHANGED req
  BY <1>2, <1>3
<1>4. ASSUME Step(q) \/ Rollback(q)
      PROVE  Good(q)
  <2>1. CASE Deny(q) \/ SetExpiry(q) \/ Checkout(q) \/ Insert(q)
    BY <1>1, <2>1, HandlerMoves DEF Reaches, At, Deny, SetExpiry, Checkout, Insert
  <2>2. CASE Update(q)
    BY <1>1, <2>2, HandlerMoves DEF Reaches, At, Update
  <2>3. CASE CountPoints(q) \/ AuditFeedback(q) \/ Commit(q) \/ Rollback(q)
    BY <1>1, <2>3, HandlerMoves
       DEF Reaches, At, CountPoints, AuditFeedback, Commit, Rollback, Working
  <2>4. CASE Admit(q)
    BY <1>1, <2>4, LimiterMoves DEF Reaches, At, Admit
  <2>5. CASE RedisFails(q)
    BY <1>1, <2>5, LimiterMoves DEF At, RedisFails
  <2>6. CASE Count(q)
    <3>1. \E st \in {"expiring", "limited", "handling"} : \E p : At(q, st, req[q].window, p)
      BY <2>6, LimiterMoves
    <3>. QED  BY <1>1, <2>6, <3>1 DEF At, Count
  <2> HIDE DEF Good
  <2>. QED  BY <1>4, <2>1, <2>2, <2>3, <2>4, <2>5, <2>6 DEF Step
<1>5. ASSUME NEW r \in Requests, r # q, Step(r) \/ Rollback(r)
      PROVE  Good(q)
  BY <1>2, <1>5, OthersUnmoved
<1> HIDE DEF Good
<1>. QED  BY <1>3, <1>4, <1>5 DEF Next, Tick, Quiescent, vars
-----------------------------------------------------------------------------
\* How a request may go on: what was asked for stays, an answered request stays answered,
\* and the stages after the statement are reached by their own step only.
LEMMA Onward ==
  ASSUME TypeInv, [Next]_vars, NEW q \in Requests
  PROVE  /\ req'[q].kind = req[q].kind /\ req'[q].key = req[q].key
         /\ req'[q].alert = req[q].alert
         /\ req[q].st \in Ends => req'[q] = req[q]
         /\ req[q].st = "finishing" => req'[q].st \in {"finishing", "ok", "failed"}
         /\ req'[q].st = "ok" /\ req[q].st # "ok" => Commit(q)
         /\ req'[q].st = "finishing" /\ req[q].st # "finishing" =>
              CountPoints(q) \/ AuditFeedback(q)
         /\ req'[q].st = "written" /\ req[q].st # "written" /\ req[q].kind = "feedback" =>
              Update(q) /\ ~Locked(q)
<1> DEFINE Goal ==
      /\ req'[q].kind = req[q].kind /\ req'[q].key = req[q].key
      /\ req'[q].alert = req[q].alert
      /\ req[q].st \in Ends => req'[q] = req[q]
      /\ req[q].st = "finishing" => req'[q].st \in {"finishing", "ok", "failed"}
      /\ req'[q].st = "ok" /\ req[q].st # "ok" => Commit(q)
      /\ req'[q].st = "finishing" /\ req[q].st # "finishing" =>
           CountPoints(q) \/ AuditFeedback(q)
      /\ req'[q].st = "written" /\ req[q].st # "written" /\ req[q].kind = "feedback" =>
           Update(q) /\ ~Locked(q)
<1>. SUFFICES Goal
  OBVIOUS
<1>1. ASSUME req'[q] = req[q]
      PROVE  Goal
  BY <1>1
<1>2. ASSUME Step(q) \/ Rollback(q)
      PROVE  Goal
  <2>1. CASE Deny(q) \/ SetExpiry(q) \/ Checkout(q) \/ Rollback(q)
    BY <2>1, HandlerMoves DEF Reaches, At, Deny, SetExpiry, Checkout, Rollback, Working, Ends
  <2>2. CASE Insert(q)
    BY <2>2, HandlerMoves DEF Reaches, At, Insert, Ends
  <2>3. CASE Update(q)
    <3>1. req[q].st = "connected"
      BY <2>3 DEF Update
    <3>2. CASE ~Locked(q) /\ Reaches(q, "written")
      BY <2>3, <3>1, <3>2 DEF Reaches, At, Ends
    <3>3. CASE Reaches(q, "missing")
      BY <3>1, <3>3 DEF Reaches, At, Ends
    <3>. QED  BY <2>3, <3>2, <3>3, HandlerMoves
  <2>4. CASE CountPoints(q) \/ AuditFeedback(q)
    <3>1. Reaches(q, "finishing") /\ req[q].st = "written"
      BY <2>4, HandlerMoves DEF CountPoints, AuditFeedback
    <3>. QED  BY <2>4, <3>1 DEF Reaches, At, Ends
  <2>5. CASE Commit(q)
    <3>1. Reaches(q, "ok") /\ req[q].st = "finishing"
      BY <2>5, HandlerMoves DEF Commit
    <3>. QED  BY <2>5, <3>1 DEF Reaches, At, Ends
  <2>6. CASE Admit(q)
    BY <2>6, LimiterMoves DEF Reaches, At, Admit, Ends
  <2>7. CASE RedisFails(q)
    BY <2>7, LimiterMoves DEF At, RedisFails, Ends
  <2>8. CASE Count(q)
    <3>1. \E st \in {"expiring", "limited", "handling"} : \E p : At(q, st, req[q].window, p)
      BY <2>8, LimiterMoves
    <3>. QED  BY <2>8, <3>1 DEF At, Count, Ends
  <2> HIDE DEF Goal
  <2>. QED  BY <1>2, <2>1, <2>2, <2>3, <2>4, <2>5, <2>6, <2>7, <2>8 DEF Step
<1>3. ASSUME NEW r \in Requests, r # q, Step(r) \/ Rollback(r)
      PROVE  Goal
  BY <1>1, <1>3, OthersUnmoved
<1> HIDE DEF Goal
<1>. QED  BY <1>1, <1>2, <1>3 DEF Next, Tick, Quiescent, vars

\* What a step records: rows and counts of points, labels and the trail.
LEMMA Recording ==
  ASSUME TypeInv, [Next]_vars
  PROVE  /\ \/ UNCHANGED points
            \/ \E r \in Requests : /\ Commit(r) /\ req[r].kind = "ingest"
                                   /\ points' = points \union {r}
         /\ \/ UNCHANGED counted
            \/ \E r \in Requests : CountPoints(r) /\ counted' = counted \union {r}
         /\ \/ UNCHANGED labelBy
            \/ \E r \in Requests : /\ Commit(r) /\ req[r].kind # "ingest"
                                   /\ labelBy' = [labelBy EXCEPT ![req[r].alert] = r]
         /\ \/ UNCHANGED audit
            \/ \E r \in Requests : /\ Deny(r) \/ AuditFeedback(r)
                                   /\ audit' = Append(audit, r)
<1>1. CASE Tick \/ Quiescent \/ UNCHANGED vars
  BY <1>1 DEF Tick, Quiescent, vars
<1>2. ASSUME NEW r \in Requests, Step(r) \/ Rollback(r)
      PROVE  /\ \/ UNCHANGED points
                \/ Commit(r) /\ req[r].kind = "ingest" /\ points' = points \union {r}
             /\ UNCHANGED counted \/ (CountPoints(r) /\ counted' = counted \union {r})
             /\ \/ UNCHANGED labelBy
                \/ /\ Commit(r) /\ req[r].kind # "ingest"
                   /\ labelBy' = [labelBy EXCEPT ![req[r].alert] = r]
             /\ \/ UNCHANGED audit
                \/ (Deny(r) \/ AuditFeedback(r)) /\ audit' = Append(audit, r)
  <2>1. CASE Commit(r)
    BY <2>1 DEF Commit
  <2>2. CASE CountPoints(r)
    BY <2>2 DEF CountPoints
  <2>3. CASE Deny(r) \/ AuditFeedback(r)
    BY <2>3 DEF Deny, AuditFeedback, RecordAudit
  <2>4. CASE ~(Commit(r) \/ CountPoints(r) \/ Deny(r) \/ AuditFeedback(r))
    BY <1>2, <2>4 DEF Step, Admit, Count, SetExpiry, RedisFails, Checkout, Insert, Update, Rollback
  <2>. QED  BY <2>1, <2>2, <2>3, <2>4
<1>. QED  BY <1>1, <1>2 DEF Next

\* Points are counted before they are committed and committed with the answer.
LEMMA PointsStep ==
  ASSUME TypeInv, PointsInv, [Next]_vars
  PROVE  PointsInv'
<1>1. ASSUME NEW q \in points'
      PROVE  req'[q].kind = "ingest" /\ req'[q].st = "ok"
  <2>1. CASE q \in points
    <3>1. q \in Requests /\ req[q].kind = "ingest" /\ req[q].st = "ok"
      BY <2>1 DEF PointsInv, TypeInv
    <3>. QED  BY <3>1, Onward DEF Ends
  <2>2. CASE q \notin points
    <3>1. q \in Requests /\ Commit(q) /\ req[q].kind = "ingest"
      BY <1>1, <2>2, Recording
    <3>2. Reaches(q, "ok")
      BY <3>1, HandlerMoves
    <3>. QED  BY <3>1, <3>2 DEF Reaches, At
  <2>. QED  BY <2>1, <2>2
<1>2. ASSUME NEW q \in counted'
      PROVE  req'[q].kind = "ingest" /\ req'[q].st \in {"finishing", "ok", "failed"}
  <2>1. CASE q \in counted
    <3>1. /\ q \in Requests /\ req[q].kind = "ingest"
          /\ req[q].st \in {"finishing", "ok", "failed"}
      BY <2>1 DEF PointsInv, TypeInv
    <3>. QED  BY <3>1, Onward DEF Ends
  <2>2. CASE q \notin counted
    <3>1. q \in Requests /\ CountPoints(q)
      BY <1>2, <2>2, Recording
    <3>2. Reaches(q, "finishing") /\ req[q].kind = "ingest"
      BY <3>1, HandlerMoves DEF CountPoints
    <3>. QED  BY <3>2 DEF Reaches, At
  <2>. QED  BY <2>1, <2>2
<1>3. points \subseteq points' /\ counted \subseteq counted'
  BY Recording
<1>4. ASSUME NEW q \in Requests, req'[q].kind = "ingest"
      PROVE  /\ req'[q].st \in {"finishing", "ok"} => q \in counted'
             /\ req'[q].st = "ok" => q \in points'
  <2>1. req[q].kind = "ingest"
    BY <1>4, Onward
  <2>2. /\ req[q].st \in {"finishing", "ok"} => q \in counted
        /\ req[q].st = "ok" => q \in points
    BY <2>1 DEF PointsInv
  <2>3. Commit(q) => q \in points' /\ req[q].st = "finishing"
    BY <2>1 DEF Commit
  <2>4. CountPoints(q) => q \in counted'
    BY DEF CountPoints
  <2>5. ~AuditFeedback(q)
    BY <2>1 DEF AuditFeedback
  <2>6. /\ req'[q].st = "ok" /\ req[q].st # "ok" => Commit(q)
        /\ req'[q].st = "finishing" /\ req[q].st # "finishing" =>
             CountPoints(q) \/ AuditFeedback(q)
    BY Onward
  <2>. QED  BY <1>3, <2>2, <2>3, <2>4, <2>5, <2>6
<1>. QED  BY <1>1, <1>2, <1>4 DEF PointsInv
-----------------------------------------------------------------------------
\* A label stays with an answered feedback on its alert.
LEMMA LabelOwnerStep ==
  ASSUME TypeInv, LabelOwner, [Next]_vars
  PROVE  LabelOwner'
<1>. SUFFICES ASSUME NEW a \in Alerts, labelBy'[a] # NoRequest
     PROVE  /\ req'[labelBy'[a]].kind = "feedback" /\ req'[labelBy'[a]].st = "ok"
            /\ req'[labelBy'[a]].alert = a
  BY DEF LabelOwner
<1>1. labelBy \in [Alerts -> Requests \union {NoRequest}]
  BY DEF TypeInv
<1>2. CASE labelBy'[a] = labelBy[a]
  <2> DEFINE q == labelBy[a]
  <2>1. q \in Requests /\ req[q].kind = "feedback" /\ req[q].st = "ok" /\ req[q].alert = a
    BY <1>1, <1>2 DEF LabelOwner
  <2> HIDE DEF q
  <2>2. req'[q] = req[q]
    BY <2>1, Onward DEF Ends
  <2>. QED  BY <1>2, <2>1, <2>2 DEF q
<1>3. CASE labelBy'[a] # labelBy[a]
  <2>1. PICK r \in Requests : /\ Commit(r) /\ req[r].kind # "ingest"
                              /\ labelBy' = [labelBy EXCEPT ![req[r].alert] = r]
    BY <1>3, Recording
  <2>2. a = req[r].alert /\ labelBy'[a] = r
    BY <1>1, <1>3, <2>1
  <2>3. req[r].kind = "feedback"
    BY <2>1 DEF TypeInv, Request, Kinds
  <2>4. Reaches(r, "ok")
    BY <2>1, HandlerMoves
  <2>. QED  BY <2>2, <2>3, <2>4 DEF Reaches, At
<1>. QED  BY <1>2, <1>3

\* UPDATE waits while another transaction that updated the alert is open.
LEMMA RowLockStep ==
  ASSUME TypeInv, RowLock, [Next]_vars
  PROVE  RowLock'
<1> DEFINE Open(st) == st \in {"written", "finishing"}
<1>1. ASSUME NEW q \in Requests, req[q].kind = "feedback", Open(req'[q].st)
      PROVE  Open(req[q].st) \/ (Update(q) /\ ~Locked(q) /\ req[q].st = "connected")
  <2>1. /\ req'[q].st = "finishing" /\ req[q].st # "finishing" =>
             CountPoints(q) \/ AuditFeedback(q)
        /\ req'[q].st = "written" /\ req[q].st # "written" => Update(q) /\ ~Locked(q)
    BY <1>1, Onward
  <2>2. CountPoints(q) \/ AuditFeedback(q) => req[q].st = "written"
    BY DEF CountPoints, AuditFeedback
  <2>3. Update(q) => req[q].st = "connected"
    BY DEF Update
  <2>. QED  BY <1>1, <2>1, <2>2, <2>3
<1>2. ASSUME NEW q \in Requests, NEW r \in Requests, q # r,
             req[q].kind = "feedback", req[r].kind = "feedback", req[q].alert = req[r].alert,
             Open(req'[q].st), Open(req[r].st)
      PROVE  Open(req[q].st)
  <2>1. Locked(q)
    BY <1>2 DEF Locked
  <2>. QED  BY <1>1, <1>2, <2>1
<1>3. ASSUME NEW q \in Requests, NEW r \in Requests, q # r,
             req[q].kind = "feedback", req[r].kind = "feedback", req[q].alert = req[r].alert,
             Open(req'[q].st), Open(req'[r].st)
      PROVE  Open(req[q].st) /\ Open(req[r].st)
  <2>1. CASE Open(req[q].st) \/ Open(req[r].st)
    BY <1>2, <1>3, <2>1
  <2>2. CASE ~Open(req[q].st) /\ ~Open(req[r].st)
    <3>1. Update(q) /\ Update(r) /\ req[q].st = "connected" /\ req[r].st = "connected"
      BY <1>1, <1>3, <2>2
    <3>2. req'[r] = req[r]
      BY <1>3, <3>1, OthersUnmoved DEF Step
    <3>. QED  BY <1>3, <3>1, <3>2
  <2>. QED  BY <2>1, <2>2
<1>4. ASSUME NEW q \in Requests, NEW r \in Requests, q # r,
             req'[q].kind = "feedback", req'[r].kind = "feedback", req'[q].alert = req'[r].alert,
             Open(req'[q].st), Open(req'[r].st)
      PROVE  FALSE
  <2>1. /\ req[q].kind = "feedback" /\ req[r].kind = "feedback"
        /\ req[q].alert = req[r].alert
    BY <1>4, Onward
  <2>2. Open(req[q].st) /\ Open(req[r].st)
    BY <1>3, <1>4, <2>1
  <2>. QED  BY <1>4, <2>1, <2>2 DEF RowLock
<1>. QED  BY <1>4 DEF RowLock

\* A row of the trail is appended by a denied request or by a feedback under its row lock.
LEMMA TrailGrows ==
  ASSUME TypeInv, [Next]_vars
  PROVE  \/ audit' = audit
         \/ \E r \in Requests :
              /\ Deny(r) \/ AuditFeedback(r)
              /\ Len(audit') = Len(audit) + 1 /\ audit'[Len(audit) + 1] = r
              /\ \A i \in DOMAIN audit : audit'[i] = audit[i]
              /\ DOMAIN audit' = DOMAIN audit \union {Len(audit) + 1}
<1>1. audit \in Seq(Requests)
  BY DEF TypeInv
<1>2. ASSUME NEW r \in Requests, audit' = Append(audit, r)
      PROVE  /\ Len(audit') = Len(audit) + 1 /\ audit'[Len(audit) + 1] = r
             /\ \A i \in DOMAIN audit : audit'[i] = audit[i]
             /\ DOMAIN audit' = DOMAIN audit \union {Len(audit) + 1}
  BY <1>1, <1>2
<1>. QED  BY <1>2, Recording

\* Who is in the trail was denied or has its statement executed, and stays there.
LEMMA AuditedStagesStep ==
  ASSUME TypeInv, AuditedStages, [Next]_vars
  PROVE  AuditedStages'
<1>. SUFFICES ASSUME NEW i \in DOMAIN audit'
     PROVE  req'[audit'[i]].st \in {"denied", "finishing", "ok", "failed"}
  BY DEF AuditedStages
<1>1. audit \in Seq(Requests)
  BY DEF TypeInv
<1>2. ASSUME i \in DOMAIN audit, audit'[i] = audit[i]
      PROVE  req'[audit'[i]].st \in {"denied", "finishing", "ok", "failed"}
  <2>1. audit[i] \in Requests /\ req[audit[i]].st \in {"denied", "finishing", "ok", "failed"}
    BY <1>1, <1>2 DEF AuditedStages
  <2> DEFINE q == audit[i]
  <2> HIDE DEF q
  <2>2. req'[q].st \in {"denied", "finishing", "ok", "failed"}
    BY <2>1, Onward DEF Ends, q
  <2>. QED  BY <1>2, <2>2 DEF q
<1>3. ASSUME NEW r \in Requests, Deny(r) \/ AuditFeedback(r), audit'[i] = r
      PROVE  req'[audit'[i]].st \in {"denied", "finishing", "ok", "failed"}
  <2>1. Reaches(r, "denied") \/ Reaches(r, "finishing")
    BY <1>3, HandlerMoves
  <2>. QED  BY <1>3, <2>1 DEF Reaches, At
<1>. QED  BY <1>2, <1>3, TrailGrows

\* The row lock orders the trail against the labels.
LEMMA AuditOrderStep ==
  ASSUME TypeInv, TrailInv, [Next]_vars
  PROVE  AuditOrder'
<1>. SUFFICES ASSUME NEW i \in DOMAIN audit', NEW j \in DOMAIN audit', i < j,
                     req'[audit'[i]].kind = "feedback", req'[audit'[j]].kind = "feedback",
                     req'[audit'[i]].alert = req'[audit'[j]].alert,
                     req'[audit'[j]].st # "denied"
     PROVE  /\ req'[audit'[i]].st \in {"denied", "ok", "failed"}
            /\ req'[audit'[j]].st = "ok" => labelBy'[req'[audit'[i]].alert] # audit'[i]
  BY DEF AuditOrder
<1>1. audit \in Seq(Requests) /\ audit' \in Seq(Requests)
  BY TypeStep DEF TypeInv
<1>2. PICK q \in Requests : q = audit'[i]
  BY <1>1
<1>3. PICK r \in Requests : r = audit'[j]
  BY <1>1
<1>4. /\ req'[q].kind = req[q].kind /\ req'[q].alert = req[q].alert
      /\ req'[r].kind = req[r].kind /\ req'[r].alert = req[r].alert
      /\ req[q].st \in Ends => req'[q] = req[q]
      /\ req[r].st \in Ends => req'[r] = req[r]
  BY Onward
<1>5. /\ req[q].kind = "feedback" /\ req[r].kind = "feedback" /\ req[q].alert = req[r].alert
      /\ req'[r].st # "denied"
  BY <1>2, <1>3, <1>4
<1>6. i \in DOMAIN audit /\ audit[i] = q
  BY <1>1, <1>2, TrailGrows
<1>7. req[q].st \in {"denied", "finishing", "ok", "failed"}
  BY <1>6 DEF TrailInv, AuditedStages
<1>8. CASE j \in DOMAIN audit /\ audit[j] = r
  <2>1. req[r].st \in {"denied", "finishing", "ok", "failed"}
    BY <1>8 DEF TrailInv, AuditedStages
  <2>2. req[r].st # "denied"
    BY <1>4, <1>5, <2>1 DEF Ends
  <2>3. /\ req[q].st \in {"denied", "ok", "failed"}
        /\ req[r].st = "ok" => labelBy[req[q].alert] # q
    BY <1>5, <1>6, <1>8, <2>2 DEF TrailInv, AuditOrder
  <2>4. req'[q] = req[q]
    BY <1>4, <2>3 DEF Ends
  <2>5. ASSUME req'[r].st = "ok"
        PROVE  labelBy'[req[q].alert] # q
    <3>1. labelBy \in [Alerts -> Requests \union {NoRequest}] /\ req[q].alert \in Alerts
      BY DEF TypeInv, Request
    <3>2. CASE UNCHANGED labelBy
      <4>1. CASE req[r].st = "ok"
        BY <2>3, <3>2, <4>1
      <4>2. CASE req[r].st # "ok"
        <5>1. Commit(r)
          BY <2>5, <4>2, Onward
        <5>2. labelBy' = [labelBy EXCEPT ![req[r].alert] = r]
          BY <1>5, <5>1 DEF Commit
        <5>3. q # r
          BY <2>3, <5>1 DEF Commit
        <5>. QED  BY <1>5, <3>1, <5>2, <5>3
      <4>. QED  BY <4>1, <4>2
    <3>3. ASSUME NEW p \in Requests, Commit(p), req[p].kind # "ingest",
                 labelBy' = [labelBy EXCEPT ![req[p].alert] = p]
          PROVE  labelBy'[req[q].alert] # q
      <4>1. p # q
        BY <2>3, <3>3 DEF Commit
      <4>2. CASE req[p].alert = req[q].alert
        BY <3>1, <3>3, <4>1, <4>2
      <4>3. CASE req[p].alert # req[q].alert
        <5>1. p # r
          BY <1>5, <4>3
        <5>2. req'[r] = req[r]
          BY <3>3, <5>1, OthersUnmoved DEF Step
        <5>3. labelBy'[req[q].alert] = labelBy[req[q].alert]
          BY <3>1, <3>3, <4>3
        <5>. QED  BY <2>3, <2>5, <5>2, <5>3
      <4>. QED  BY <4>2, <4>3
    <3>. QED  BY <3>2, <3>3, Recording
  <2>. QED  BY <1>2, <1>3, <1>4, <2>3, <2>4, <2>5
<1>9. CASE ~(j \in DOMAIN audit /\ audit[j] = r)
  <2>1. Deny(r) \/ AuditFeedback(r)
    BY <1>1, <1>3, <1>9, TrailGrows
  <2>2. AuditFeedback(r)
    <3>1. Deny(r) => req'[r].st = "denied"
      BY HandlerMoves DEF Reaches, At
    <3>. QED  BY <1>5, <2>1, <3>1
  <2>3. req[r].st = "written" /\ Reaches(r, "finishing")
    BY <2>2, HandlerMoves DEF AuditFeedback
  <2>4. q # r
    BY <1>7, <2>3
  <2>5. req[q].st \notin {"written", "finishing"}
    BY <1>5, <2>3, <2>4 DEF TrailInv, RowLock
  <2>6. req'[q] = req[q] /\ req'[r].st = "finishing"
    BY <1>4, <1>7, <2>3, <2>5 DEF Ends, Reaches, At
  <2>. QED  BY <1>2, <1>3, <1>7, <2>5, <2>6
<1>. QED  BY <1>8, <1>9

\* A row of the trail is a request's first and only one.
LEMMA TrailLengthStep ==
  ASSUME TypeInv, TrailLength, [Next]_vars
  PROVE  TrailLength'
<1> DEFINE A == Auditable
           B == Auditable'
<1>1. \A q \in Requests :
        /\ q \in A <=> \/ req[q].st = "denied"
                       \/ /\ req[q].kind = "feedback"
                          /\ req[q].st \in {"finishing", "ok", "failed"}
        /\ q \in B <=> \/ req'[q].st = "denied"
                       \/ /\ req'[q].kind = "feedback"
                          /\ req'[q].st \in {"finishing", "ok", "failed"}
  BY DEF Auditable
<1>2. A \in SUBSET Requests /\ B \in SUBSET Requests
  BY DEF Auditable
<1>3. /\ Cardinality(A) \in Nat /\ Cardinality(B) \in Nat
      /\ A \subseteq B => Cardinality(A) <= Cardinality(B)
      /\ \A r \in Requests :
           r \notin A /\ A \union {r} \subseteq B => Cardinality(A) + 1 <= Cardinality(B)
  BY <1>2, RequestsCounted
<1> HIDE DEF A, B
<1>4. A \subseteq B
  <2>1. SUFFICES ASSUME NEW q \in A
        PROVE  q \in B
    OBVIOUS
  <2>2. q \in Requests
    BY <1>2
  <2>. QED  BY <1>1, <2>1, <2>2, Onward DEF Ends
<1>5. Len(audit) \in Nat /\ Len(audit) <= Cardinality(A)
  BY DEF TrailLength, TypeInv, A
<1>6. CASE audit' = audit
  <2>1. Len(audit) <= Cardinality(B)
    BY <1>3, <1>4, <1>5
  <2>. QED  BY <1>6, <2>1 DEF TrailLength, B
<1>7. ASSUME NEW r \in Requests, Deny(r) \/ AuditFeedback(r), Len(audit') = Len(audit) + 1
      PROVE  TrailLength'
  <2>1. r \notin A
    BY <1>1, <1>7 DEF Deny, AuditFeedback
  <2>2. r \in B
    <3>1. CASE Deny(r)
      BY <1>1, <3>1, HandlerMoves DEF Reaches, At
    <3>2. CASE AuditFeedback(r)
      BY <1>1, <3>2, HandlerMoves DEF Reaches, At, AuditFeedback
    <3>. QED  BY <1>7, <3>1, <3>2
  <2>3. Len(audit') <= Cardinality(B)
    BY <1>3, <1>4, <1>5, <1>7, <2>1, <2>2
  <2>. QED  BY <2>3 DEF TrailLength, B
<1>. QED  BY <1>6, <1>7, TrailGrows
-----------------------------------------------------------------------------
\* How a request may go through the limiter: its window is fixed by its admission, and
\* INCR alone lets it pass by its count or refuses it.
LEMMA LimiterOnward ==
  ASSUME TypeInv, Lifecycle, [Next]_vars, NEW q \in Requests
  PROVE  /\ req[q].st \notin {"new", "denied"} =>
              req'[q].st \notin {"new", "denied"} /\ req'[q].window = req[q].window
         /\ req[q].st \notin {"new", "denied", "limiting"} => req'[q].st # "limiting"
         /\ req'[q].st = "limiting" /\ req[q].st # "limiting" =>
              req'[q].window = now \div Minute
         /\ req'[q].st = "expiring" /\ req[q].st # "expiring" =>
              req[q].st = "limiting" /\ req'[q].window = req[q].window
         /\ req'[q].passed = "counted" /\ ~Count(q) =>
              req[q].passed = "counted" /\ req'[q].window = req[q].window
         /\ req'[q].st = "limited" /\ req[q].st # "limited" => Count(q)
<1> DEFINE Goal ==
      /\ req[q].st \notin {"new", "denied"} =>
           req'[q].st \notin {"new", "denied"} /\ req'[q].window = req[q].window
      /\ req[q].st \notin {"new", "denied", "limiting"} => req'[q].st # "limiting"
      /\ req'[q].st = "limiting" /\ req[q].st # "limiting" => req'[q].window = now \div Minute
      /\ req'[q].st = "expiring" /\ req[q].st # "expiring" =>
           req[q].st = "limiting" /\ req'[q].window = req[q].window
      /\ req'[q].passed = "counted" /\ ~Count(q) =>
           req[q].passed = "counted" /\ req'[q].window = req[q].window
      /\ req'[q].st = "limited" /\ req[q].st # "limited" => Count(q)
<1>. SUFFICES Goal
  OBVIOUS
<1>1. ASSUME req'[q] = req[q]
      PROVE  Goal
  BY <1>1
<1>2. ASSUME Step(q) \/ Rollback(q)
      PROVE  Goal
  <2>1. CASE Deny(q) \/ SetExpiry(q) \/ Checkout(q) \/ Insert(q)
    BY <2>1, HandlerMoves DEF Reaches, At, Deny, SetExpiry, Checkout, Insert
  <2>2. CASE Update(q) \/ CountPoints(q) \/ AuditFeedback(q) \/ Commit(q)
    BY <2>2, HandlerMoves DEF Reaches, At, Update, CountPoints, AuditFeedback, Commit
  <2>3. CASE Rollback(q)
    BY <2>3, HandlerMoves DEF Reaches, At, Rollback, Working
  <2>4. CASE Admit(q)
    <3>1. req[q].st = "new" /\ req[q].passed = "no"
      BY <2>4 DEF Admit, Lifecycle
    <3>2. At(q, "limiting", now \div Minute, req[q].passed) \/ Reaches(q, "handling")
      BY <2>4, LimiterMoves
    <3>. QED  BY <3>1, <3>2 DEF Reaches, At
  <2>5. CASE RedisFails(q)
    BY <2>5, LimiterMoves DEF At, RedisFails
  <2>6. CASE Count(q)
    <3>1. \E st \in {"expiring", "limited", "handling"} : \E p : At(q, st, req[q].window, p)
      BY <2>6, LimiterMoves
    <3>. QED  BY <2>6, <3>1 DEF At, Count
  <2> HIDE DEF Goal
  <2>. QED  BY <1>2, <2>1, <2>2, <2>3, <2>4, <2>5, <2>6 DEF Step
<1>3. ASSUME NEW r \in Requests, r # q, Step(r) \/ Rollback(r)
      PROVE  Goal
  BY <1>1, <1>3, OthersUnmoved
<1> HIDE DEF Goal
<1>. QED  BY <1>1, <1>2, <1>3 DEF Next, Tick, Quiescent, vars

\* The clock does not go back.
LEMMA ClockAdvances ==
  ASSUME TypeInv, [Next]_vars
  PROVE  now \in Nat /\ now' \in Nat /\ now <= now'
<1>1. now \in Nat
  BY NumberAssumption DEF TypeInv
<1>2. now' = now \/ now' = now + 1
  BY DEF Next, Step, Deny, Admit, Count, SetExpiry, RedisFails, Checkout, Insert, Update,
         CountPoints, AuditFeedback, Commit, Rollback, Tick, Quiescent, vars
<1>. QED  BY <1>1, <1>2

\* A request in the limiter was admitted in its window or later.
LEMMA WindowBegunStep ==
  ASSUME TypeInv, Lifecycle, WindowBegun, [Next]_vars
  PROVE  WindowBegun'
<1>. SUFFICES ASSUME NEW q \in Requests, req'[q].st \in {"limiting", "expiring"}
     PROVE  req'[q].window * Minute <= now'
  BY DEF WindowBegun
<1>1. now \in Nat /\ now' \in Nat /\ now <= now'
  BY ClockAdvances
<1>2. CASE req[q].st \in {"limiting", "expiring"}
  <2>1. req'[q].window = req[q].window /\ req[q].window * Minute <= now
    BY <1>2, LimiterOnward DEF WindowBegun
  <2>2. req[q].window \in Windows
    BY DEF TypeInv, Request
  <2>3. req[q].window * Minute \in Nat
    BY <2>2, WindowEnd
  <2>. QED  BY <1>1, <2>1, <2>3
<1>3. CASE req[q].st \notin {"limiting", "expiring"}
  <2>1. req'[q].window = now \div Minute
    BY <1>3, LimiterOnward
  <2>2. (now \div Minute) * Minute <= now /\ now \div Minute \in Nat
    BY <1>1, WindowOf
  <2>3. (now \div Minute) * Minute \in Nat
    BY <2>2, NumberAssumption
  <2>. QED  BY <1>1, <2>1, <2>2, <2>3
<1>. QED  BY <1>2, <1>3

\* Who may have incremented a counter, and who was sent to it, stays so.
LEMMA SendersStay ==
  ASSUME TypeInv, Lifecycle, [Next]_vars, NEW k, NEW w
  PROVE  /\ Incrementing(k, w) \in SUBSET Requests /\ Incrementing(k, w)' \in SUBSET Requests
         /\ Sending(k, w) \in SUBSET Requests /\ Sending(k, w)' \in SUBSET Requests
         /\ Incrementing(k, w) \subseteq Incrementing(k, w)'
         /\ Sending(k, w) \subseteq Sending(k, w)'
         /\ Incrementing(k, w)' \subseteq Sending(k, w)'
<1>1. \A q \in Requests :
        /\ req'[q].kind = req[q].kind /\ req'[q].key = req[q].key
        /\ req[q].st \notin {"new", "denied"} =>
             req'[q].st \notin {"new", "denied"} /\ req'[q].window = req[q].window
        /\ req[q].st \notin {"new", "denied", "limiting"} => req'[q].st # "limiting"
  BY Onward, LimiterOnward
<1>. QED  BY <1>1 DEF Incrementing, Sending

\* What a step does to one counter: nothing, an INCR of a request of its own key and
\* window that leaves the limiter's queue with it, or an EXPIRE of one.
LEMMA SlotStep ==
  ASSUME TypeInv, Lifecycle, [Next]_vars, NEW k \in Keys, NEW w \in Windows
  PROVE  \/ counter'[<<k, w>>] = counter[<<k, w>>]
         \/ \E r \in Requests :
              /\ r \notin Incrementing(k, w) /\ r \in Incrementing(k, w)'
              /\ counter'[<<k, w>>] = Incremented(counter[<<k, w>>])
         \/ \E r \in Requests :
              /\ req[r].st = "expiring" /\ req[r].window = w
              /\ counter'[<<k, w>>] = Expiring(counter[<<k, w>>])
<1> DEFINE s == <<k, w>>
           Goal == \/ counter'[s] = counter[s]
                   \/ \E r \in Requests :
                        /\ r \notin Incrementing(k, w) /\ r \in Incrementing(k, w)'
                        /\ counter'[s] = Incremented(counter[s])
                   \/ \E r \in Requests :
                        /\ req[r].st = "expiring" /\ req[r].window = w
                        /\ counter'[s] = Expiring(counter[s])
<1>. SUFFICES Goal
  OBVIOUS
<1>1. s \in Keys \X Windows
  OBVIOUS
<1>2. CASE UNCHANGED counter
  BY <1>2
<1>3. ASSUME NEW r \in Requests, NEW c, OnlyCounter(Slot(r), c), Slot(r) # s
      PROVE  counter'[s] = counter[s]
  BY <1>1, <1>3 DEF OnlyCounter
<1>4. ASSUME NEW r \in Requests, NEW c, OnlyCounter(Slot(r), c), Slot(r) = s
      PROVE  counter'[s] = c
  BY <1>1, <1>4 DEF OnlyCounter
<1>5. ASSUME NEW r \in Requests, req[r].st = "limiting", Count(r) \/ RedisFails(r), Slot(r) = s
      PROVE  r \notin Incrementing(k, w) /\ r \in Incrementing(k, w)'
  <2>1. req[r].key = k /\ req[r].window = w
    BY <1>5 DEF Slot
  <2>2. req[r].kind = "ingest"
    BY <1>5 DEF Lifecycle
  <2>3. \E st \in {"expiring", "limited", "handling"} : \E p : At(r, st, req[r].window, p)
    BY <1>5, LimiterMoves
  <2>. QED  BY <1>5, <2>1, <2>2, <2>3 DEF At, Incrementing
<1>6. ASSUME NEW r \in Requests, req[r].st = "limiting", Count(r) \/ RedisFails(r),
             OnlyCounter(Slot(r), Incremented(counter[Slot(r)]))
      PROVE  Goal
  BY <1>3, <1>4, <1>5, <1>6
<1>7. ASSUME NEW r \in Requests, req[r].st = "expiring",
             OnlyCounter(Slot(r), Expiring(counter[Slot(r)]))
      PROVE  Goal
  <2>1. CASE Slot(r) = s
    <3>1. req[r].window = w
      BY <2>1 DEF Slot
    <3>. QED  BY <1>4, <1>7, <2>1, <3>1
  <2>. QED  BY <1>3, <1>7, <2>1
<1>8. ASSUME NEW r \in Requests, Step(r) \/ Rollback(r)
      PROVE  Goal
  <2>1. CASE Count(r)
    BY <1>6, <2>1, CounterMoves DEF Count
  <2>2. CASE SetExpiry(r)
    BY <1>7, <2>2, CounterMoves DEF SetExpiry
  <2>3. CASE RedisFails(r)
    <3>. HIDE DEF Goal
    <3>. QED  BY <1>2, <1>6, <1>7, <2>3, CounterMoves
  <2>4. CASE ~(Count(r) \/ SetExpiry(r) \/ RedisFails(r))
    BY <1>2, <1>8, <2>4 DEF Step, Deny, Admit, Checkout, Insert, Update, CountPoints,
                      AuditFeedback, Commit, Rollback
  <2> HIDE DEF Goal
  <2>. QED  BY <2>1, <2>2, <2>3, <2>4
<1>9. CASE Tick \/ Quiescent \/ UNCHANGED vars
  BY <1>2, <1>9 DEF Tick, Quiescent, vars
<1> HIDE DEF Goal
<1>. QED  BY <1>8, <1>9 DEF Next

\* A request joins those that passed by its INCR only, before its window has ended, and
\* within the limit.
LEMMA PassedBy ==
  ASSUME TypeInv, Lifecycle, [Next]_vars, NEW k \in Keys, NEW w \in Windows,
         NEW q \in Passed(k, w)', q \notin Passed(k, w)
  PROVE  /\ q \in Requests /\ Count(q) /\ req[q].st = "limiting"
         /\ counter'[<<k, w>>] = Incremented(counter[<<k, w>>])
         /\ Incremented(counter[<<k, w>>]).n = 1 \/ ~(Incremented(counter[<<k, w>>]).n > RateLimit)
         /\ now < w * Minute + Minute
         /\ Passed(k, w)' \subseteq Passed(k, w) \union {q}
<1>1. /\ q \in Requests /\ req'[q].key = k /\ req'[q].window = w /\ req'[q].passed = "counted"
      /\ ~(req[q].key = k /\ req[q].window = w /\ req[q].passed = "counted")
  BY DEF Passed
<1>2. Count(q)
  BY <1>1, Onward, LimiterOnward
<1>3. req[q].st = "limiting" /\ req[q].key = k /\ req[q].window = w
  BY <1>1, <1>2, Onward, LimiterOnward DEF Count
<1>4. Slot(q) = <<k, w>>
  BY <1>3 DEF Slot
<1>5. <<k, w>> \in Keys \X Windows
  OBVIOUS
<1>6. counter'[<<k, w>>] = Incremented(counter[<<k, w>>])
  BY <1>1, <1>2, <1>4, <1>5, CounterMoves DEF OnlyCounter
<1> DEFINE n == Incremented(counter[<<k, w>>]).n
           over == n # 1 /\ n > RateLimit
<1>7. req'[q].passed = IF over THEN "no" ELSE Passing(q)
  BY <1>1, <1>2, <1>4, LimiterMoves DEF At
<1>8. ~over /\ Passing(q) = "counted"
  BY <1>1, <1>7
<1>9. ~(now >= (w + 1) * Minute)
  BY <1>3, <1>8 DEF Passing
<1>10. now < w * Minute + Minute
  <2>1. w * Minute \in Nat /\ (w + 1) * Minute = w * Minute + Minute
    BY WindowEnd
  <2>2. now \in Nat
    BY ClockAdvances
  <2>. QED  BY <1>9, <2>1, <2>2, NumberAssumption
<1>11. Passed(k, w)' \subseteq Passed(k, w) \union {q}
  <2>1. \A p \in Requests \ {q} : req'[p] = req[p]
    BY <1>1, <1>2, OthersUnmoved DEF Step
  <2>. QED  BY <2>1 DEF Passed
<1>. QED  BY <1>1, <1>2, <1>3, <1>6, <1>8, <1>10, <1>11

\* The counters keep accounting for who was sent, and who passed, until they expire.
LEMMA CounterStep ==
  ASSUME TypeInv, Lifecycle, WindowBegun, CounterInv, [Next]_vars
  PROVE  CounterInv'
<1>. SUFFICES ASSUME NEW k \in Keys, NEW w \in Windows
     PROVE  /\ counter'[<<k, w>>].n <= Cardinality(Incrementing(k, w)')
            /\ counter'[<<k, w>>].exp # 0 => counter'[<<k, w>>].exp >= w * Minute + Minute
            /\ now' < w * Minute + Minute =>
                 Cardinality(Passed(k, w)') <= counter'[<<k, w>>].n
  BY DEF CounterInv
<1> DEFINE c == counter[<<k, w>>]
           d == counter'[<<k, w>>]
           end == w * Minute + Minute
           I == Incrementing(k, w)
           J == Incrementing(k, w)'
           P == Passed(k, w)
           Q == Passed(k, w)'
<1>1. /\ c.n <= Cardinality(I)
      /\ c.exp # 0 => c.exp >= end
      /\ now < end => Cardinality(P) <= c.n
  BY DEF CounterInv
<1>2. end \in Nat /\ now \in Nat /\ now' \in Nat /\ now <= now'
  BY WindowEnd, ClockAdvances, NumberAssumption
<1>3. <<k, w>> \in Keys \X Windows
  OBVIOUS
<1>4. c \in Counter /\ d \in Counter
  BY <1>3, TypeStep DEF TypeInv
<1>5. c.n \in Nat /\ d.n \in Nat /\ c.exp \in Nat /\ d.exp \in Nat
  BY <1>4, NumberAssumption DEF Counter
<1>6. /\ I \in SUBSET Requests /\ J \in SUBSET Requests /\ I \subseteq J
      /\ P \in SUBSET Requests /\ Q \in SUBSET Requests
  BY SendersStay DEF Passed
<1>7. /\ Cardinality(I) \in Nat /\ Cardinality(J) \in Nat /\ Cardinality(I) <= Cardinality(J)
      /\ \A r \in Requests : r \notin I /\ r \in J => Cardinality(I) + 1 <= Cardinality(J)
  BY <1>6, RequestsCounted
<1>8. /\ Cardinality(P) \in Nat /\ Cardinality(Q) \in Nat
      /\ Q \subseteq P => Cardinality(Q) <= Cardinality(P)
      /\ \A r \in Requests : Q \subseteq P \union {r} => Cardinality(Q) <= Cardinality(P) + 1
  BY <1>6, RequestsCounted
<1>9. \/ Q \subseteq P
      \/ /\ d = Incremented(c)
         /\ \E r \in Requests : Q \subseteq P \union {r}
  BY PassedBy
<1>10. /\ Incremented(c).n = IF c.exp # 0 /\ c.exp <= now THEN 1 ELSE c.n + 1
       /\ Incremented(c).exp = IF c.exp # 0 /\ c.exp <= now THEN 0 ELSE c.exp
  BY <1>4, IncrementedType
<1> HIDE DEF c, d, end, I, J, P, Q
<1> DEFINE Accounted == /\ d.n <= Cardinality(J)
                        /\ d.exp # 0 => d.exp >= end
                        /\ now < end => d.n >= c.n
<1>11. Accounted
  <2>1. CASE d = c
    BY <1>1, <1>5, <1>7, <2>1
  <2>2. ASSUME NEW r \in Requests, r \notin I, r \in J, d = Incremented(c)
        PROVE  Accounted
    <3>1. Cardinality(I) + 1 <= Cardinality(J)
      BY <1>7, <2>2
    <3>2. d.n <= c.n + 1
      BY <1>5, <1>10, <2>2
    <3>3. d.n <= Cardinality(J)
      BY <1>1, <1>5, <1>7, <3>1, <3>2
    <3>4. d.exp # 0 => d.exp >= end
      BY <1>1, <1>5, <1>10, <2>2
    <3>5. now < end => d.n >= c.n
      BY <1>1, <1>2, <1>5, <1>10, <2>2
    <3>. QED  BY <3>3, <3>4, <3>5
  <2>3. ASSUME NEW r \in Requests, req[r].st = "expiring", req[r].window = w, d = Expiring(c)
        PROVE  Accounted
    <3>1. w * Minute <= now
      BY <2>3 DEF WindowBegun
    <3>2. w * Minute \in Nat
      BY WindowEnd
    <3>3. d.n = c.n /\ d.exp = now + Minute
      BY <2>3 DEF Expiring
    <3>4. d.exp >= end
      BY <1>2, <3>1, <3>2, <3>3, NumberAssumption DEF end
    <3>5. d.n <= Cardinality(J) /\ d.n >= c.n
      BY <1>1, <1>5, <1>7, <3>3
    <3>. QED  BY <3>4, <3>5
  <2> HIDE DEF Accounted
  <2>. QED  BY <2>1, <2>2, <2>3, SlotStep DEF c, d, I, J
<1>12. now' < end => Cardinality(Q) <= d.n
  <2>1. SUFFICES ASSUME now' < end
        PROVE  Cardinality(Q) <= d.n
    OBVIOUS
  <2>2. now < end
    BY <1>2, <2>1
  <2>3. CASE Q \subseteq P
    BY <1>1, <1>5, <1>8, <1>11, <2>2, <2>3
  <2>4. ASSUME NEW r \in Requests, d = Incremented(c), Q \subseteq P \union {r}
        PROVE  Cardinality(Q) <= d.n
    <3>1. d.n = c.n + 1
      BY <1>1, <1>2, <1>5, <1>10, <2>2, <2>4
    <3>2. Cardinality(Q) <= Cardinality(P) + 1
      BY <1>8, <2>4
    <3>. QED  BY <1>1, <1>5, <1>8, <2>2, <3>1, <3>2
  <2>. QED  BY <1>9, <2>3, <2>4
<1>. QED  BY <1>11, <1>12 DEF d, end, J, Q

\* Nobody passes beyond the limit: an INCR in the window finds all who passed before.
LEMMA LimitStep ==
  ASSUME TypeInv, Lifecycle, CounterInv, LimitInv, [Next]_vars
  PROVE  LimitInv'
<1>. SUFFICES ASSUME NEW k \in Keys, NEW w \in Windows, RateLimit > 0
     PROVE  Cardinality(Passed(k, w)') <= RateLimit
  BY DEF LimitInv
<1> DEFINE c == counter[<<k, w>>]
           end == w * Minute + Minute
           P == Passed(k, w)
           Q == Passed(k, w)'
<1>1. <<k, w>> \in Keys \X Windows
  OBVIOUS
<1>2. c \in Counter
  BY <1>1 DEF TypeInv
<1>3. c.n \in Nat /\ c.exp \in Nat /\ end \in Nat /\ now \in Nat /\ RateLimit \in Nat
  BY <1>2, WindowEnd, ClockAdvances, NumberAssumption DEF Counter
<1>4. P \in SUBSET Requests /\ Q \in SUBSET Requests
  BY DEF Passed
<1>5. /\ Cardinality(P) \in Nat /\ Cardinality(Q) \in Nat
      /\ Q \subseteq P => Cardinality(Q) <= Cardinality(P)
      /\ \A r \in Requests : Q \subseteq P \union {r} => Cardinality(Q) <= Cardinality(P) + 1
  BY <1>4, RequestsCounted
<1>6. Cardinality(P) <= RateLimit
  BY DEF LimitInv
<1>7. (c.exp # 0 => c.exp >= end) /\ (now < end => Cardinality(P) <= c.n)
  BY DEF CounterInv
<1>8. Incremented(c).n = IF c.exp # 0 /\ c.exp <= now THEN 1 ELSE c.n + 1
  BY <1>2, IncrementedType
<1>9. ASSUME NEW q \in Q, q \notin P
      PROVE  /\ q \in Requests /\ now < end /\ Q \subseteq P \union {q}
             /\ Incremented(c).n = 1 \/ ~(Incremented(c).n > RateLimit)
  <2>1. q \in Requests /\ now < end /\ Q \subseteq P \union {q}
    BY <1>9, PassedBy, Zenon
  <2>2. Incremented(c).n = 1 \/ ~(Incremented(c).n > RateLimit)
    BY <1>9, PassedBy, Zenon
  <2>. QED  BY <2>1, <2>2
<1> HIDE DEF c, end, P, Q
<1>10. CASE Q \subseteq P
  BY <1>3, <1>5, <1>6, <1>10 DEF Q
<1>11. ASSUME NEW q \in Q, q \notin P
       PROVE  Cardinality(Q) <= RateLimit
  <2>1. Cardinality(Q) <= Cardinality(P) + 1
    BY <1>5, <1>9, <1>11
  <2>2. now < end /\ (Incremented(c).n = 1 \/ ~(Incremented(c).n > RateLimit))
    BY <1>9, <1>11
  <2>3. Incremented(c).n = c.n + 1 /\ Cardinality(P) <= c.n
    BY <1>3, <1>7, <1>8, <2>2
  <2>. QED  BY <1>3, <1>5, <2>1, <2>2, <2>3
<1>. QED  BY <1>10, <1>11 DEF Q

\* Behind a refusal there are more requests than the limit.
LEMMA RefusalStep ==
  ASSUME TypeInv, Lifecycle, CounterInv', RefusalInv, [Next]_vars
  PROVE  RefusalInv'
<1>. SUFFICES ASSUME NEW q \in Requests, NEW k \in Keys, NEW w \in Windows,
                     req'[q].st = "limited", req'[q].key = k, req'[q].window = w
     PROVE  Cardinality(Sending(k, w)') > RateLimit
  <2>1. \A q \in Requests : req'[q].key \in Keys /\ req'[q].window \in Windows
    BY TypeStep DEF TypeInv, Request
  <2>. QED  BY <2>1 DEF RefusalInv, Sending
<1>1. req[q].st = "limited" \/ Count(q)
  BY LimiterOnward
<1>2. req[q].st \notin {"new", "denied"}
  BY <1>1 DEF Count
<1>3. req[q].key = k /\ req[q].window = w
  BY <1>2, Onward, LimiterOnward
<1>4. /\ Incrementing(k, w)' \in SUBSET Requests
      /\ Sending(k, w) \in SUBSET Requests /\ Sending(k, w)' \in SUBSET Requests
      /\ Sending(k, w) \subseteq Sending(k, w)' /\ Incrementing(k, w)' \subseteq Sending(k, w)'
  BY SendersStay
<1>5. /\ Cardinality(Sending(k, w)) \in Nat /\ Cardinality(Sending(k, w)') \in Nat
      /\ Cardinality(Sending(k, w)) <= Cardinality(Sending(k, w)')
  BY <1>4, RequestsCounted
<1>6. /\ Cardinality(Incrementing(k, w)') \in Nat
      /\ Cardinality(Incrementing(k, w)') <= Cardinality(Sending(k, w)')
  BY <1>4, RequestsCounted
<1>7. CASE req[q].st = "limited"
  <2>1. Cardinality(Sending(k, w)) > RateLimit
    BY <1>3, <1>7 DEF RefusalInv
  <2>2. Cardinality(Sending(k, w)') > RateLimit
    BY <1>5, <2>1, NumberAssumption
  <2>. QED  BY <2>2
<1>8. CASE req[q].st # "limited"
  <2>1. Count(q)
    BY <1>1, <1>8
  <2> DEFINE n == Incremented(counter[Slot(q)]).n
             over == n # 1 /\ n > RateLimit
  <2>2. req'[q].st = IF n = 1 THEN "expiring" ELSE IF over THEN "limited" ELSE "handling"
    BY <2>1, LimiterMoves DEF At
  <2>3. n > RateLimit
    BY <2>2
  <2>4. counter'[Slot(q)] = Incremented(counter[Slot(q)])
    BY <2>1, CounterMoves DEF OnlyCounter
  <2>5. Slot(q) = <<k, w>>
    BY <1>3 DEF Slot
  <2>6. counter'[<<k, w>>].n <= Cardinality(Incrementing(k, w)')
    BY DEF CounterInv
  <2>7. n \in Nat
    <3>1. counter[Slot(q)] \in Counter
      BY CounterMoves
    <3>. QED  BY <3>1, IncrementedType DEF Counter
  <2>8. n <= Cardinality(Incrementing(k, w)')
    BY <2>4, <2>5, <2>6
  <2> HIDE DEF n
  <2>9. Cardinality(Sending(k, w)') > RateLimit
    BY <1>5, <1>6, <2>3, <2>7, <2>8, NumberAssumption
  <2>. QED  BY <2>9
<1>. QED  BY <1>7, <1>8
-----------------------------------------------------------------------------
\* No request has been sent and nothing is recorded.
LEMMA ApiInit ==
  ASSUME Init
  PROVE  ApiInv
<1>1. \A r \in Requests : req[r].st = "new" /\ req[r].passed = "no"
  BY DEF Init
<1>2. 0 \in Nat /\ 0 \in 0..MaxTime /\ 0 \in 0..(MaxTime + Minute)
  BY NumberAssumption
<1>3. 0 \in Windows
  <2>1. 0 \div Minute \in Windows
    BY <1>2, WindowType
  <2>2. 0 \in 0..(MaxTime \div Minute)
    BY <1>2, WindowOf, NumberAssumption
  <2>. QED  BY <2>2 DEF Windows
<1>4. req \in [Requests -> Request]
  <2>1. PICK sent \in Sent :
          req = [r \in Requests |->
                   [st |-> "new", kind |-> sent[r].kind, key |-> sent[r].key,
                    alert |-> sent[r].alert, window |-> 0, passed |-> "no"]]
    BY DEF Init
  <2>2. \A r \in Requests : /\ sent[r].kind \in Kinds /\ sent[r].key \in Keys
                            /\ sent[r].alert \in Alerts
    BY KeyAssumption
  <2>. QED  BY <1>3, <2>1, <2>2 DEF Request
<1>5. counter \in [Keys \X Windows -> Counter]
  BY <1>2 DEF Init, Counter
<1>6. labelBy \in [Alerts -> Requests \union {NoRequest}] /\ audit \in Seq(Requests)
  BY DEF Init
<1>7. TypeInv
  BY <1>2, <1>4, <1>5, <1>6 DEF Init, TypeInv
<1>8. Lifecycle /\ WindowBegun /\ RefusalInv
  BY <1>1 DEF Lifecycle, WindowBegun, RefusalInv
<1>9. PointsInv
  BY <1>1 DEF Init, PointsInv
<1>10. TrailInv
  BY <1>1 DEF Init, TrailInv, LabelOwner, RowLock, AuditedStages, AuditOrder
<1>11. \A S \in SUBSET Requests : Cardinality(S) \in Nat
  BY RequestsCounted
<1>12. TrailLength
  <2>1. Cardinality(Auditable) \in Nat
    BY <1>11 DEF Auditable
  <2>. QED  BY <2>1 DEF Init, TrailLength
<1>13. ASSUME NEW k \in Keys, NEW w \in Windows
       PROVE  /\ counter[<<k, w>>].n = 0 /\ counter[<<k, w>>].exp = 0
              /\ Passed(k, w) = {} /\ Cardinality(Incrementing(k, w)) \in Nat
  <2>1. Passed(k, w) = {}
    BY <1>1 DEF Passed
  <2>2. Cardinality(Incrementing(k, w)) \in Nat
    BY <1>11 DEF Incrementing
  <2>. QED  BY <2>1, <2>2 DEF Init
<1>14. Cardinality({}) = 0
  BY FS_EmptySet
<1>15. CounterInv
  <2>1. SUFFICES ASSUME NEW k \in Keys, NEW w \in Windows
        PROVE  /\ counter[<<k, w>>].n <= Cardinality(Incrementing(k, w))
               /\ ~(counter[<<k, w>>].exp # 0)
               /\ Cardinality(Passed(k, w)) <= counter[<<k, w>>].n
    BY Zenon DEF CounterInv
  <2>2. counter[<<k, w>>].n <= Cardinality(Incrementing(k, w))
    BY <1>13
  <2>3. counter[<<k, w>>].exp = 0
    BY <1>13
  <2>4. Cardinality(Passed(k, w)) = 0 /\ counter[<<k, w>>].n = 0
    BY <1>13, <1>14
  <2>5. Cardinality(Passed(k, w)) <= counter[<<k, w>>].n
    BY <2>4
  <2>. QED  BY <2>2, <2>3, <2>5
<1>16. LimitInv
  <2>1. SUFFICES ASSUME NEW k \in Keys, NEW w \in Windows, RateLimit > 0
                 PROVE  Cardinality(Passed(k, w)) <= RateLimit
    BY DEF LimitInv
  <2>2. Cardinality(Passed(k, w)) = 0
    BY <1>13, <1>14
  <2>. QED  BY <2>1, <2>2, NumberAssumption
<1>. QED  BY <1>7, <1>8, <1>9, <1>10, <1>12, <1>15, <1>16 DEF ApiInv

\* Every step of a request, Redis, the pool or the clock keeps the invariant.
LEMMA ApiStep ==
  ASSUME ApiInv, [Next]_vars
  PROVE  ApiInv'
<1>1. /\ TypeInv /\ Lifecycle /\ PointsInv /\ TrailInv /\ TrailLength
      /\ WindowBegun /\ CounterInv /\ LimitInv /\ RefusalInv
      /\ LabelOwner /\ RowLock /\ AuditedStages
  BY DEF ApiInv, TrailInv
<1>2. TypeInv' /\ Lifecycle' /\ PointsInv' /\ TrailLength'
  BY <1>1, TypeStep, LifecycleStep, PointsStep, TrailLengthStep
<1>3. TrailInv'
  BY <1>1, LabelOwnerStep, RowLockStep, AuditedStagesStep, AuditOrderStep DEF TrailInv
<1>4. WindowBegun' /\ CounterInv' /\ LimitInv'
  BY <1>1, WindowBegunStep, CounterStep, LimitStep
<1>5. RefusalInv'
  BY <1>1, <1>4, RefusalStep
<1>. QED  BY <1>2, <1>3, <1>4, <1>5 DEF ApiInv

\* So the invariant holds in every state the API can reach.
LEMMA ApiInvariant == Spec => []ApiInv
<1>1. Init => ApiInv
  BY ApiInit
<1>2. ApiInv /\ [Next]_vars => ApiInv'
  BY ApiStep
<1>. QED  BY <1>1, <1>2, PTL DEF Spec

\* The counters and the trail are as long as requests can make them, and all else keeps
\* its type.
THEOREM ApiTypes == Spec => []TypeOK
<1>1. ASSUME ApiInv
      PROVE  TypeOK
  <2>1. TypeInv /\ TrailLength /\ CounterInv
    BY <1>1 DEF ApiInv
  <2>2. /\ IsFiniteSet(Requests) /\ Cardinality(Requests) \in Nat
        /\ \A S \in SUBSET Requests : /\ Cardinality(S) \in Nat
                                      /\ Cardinality(S) <= Cardinality(Requests)
    BY NumberAssumption, FS_CardinalityType, FS_Subset
  <2>3. Len(audit) <= Cardinality(Requests)
    <3>1. Auditable \in SUBSET Requests
      BY DEF Auditable
    <3>2. Len(audit) \in Nat /\ Len(audit) <= Cardinality(Auditable)
      BY <2>1 DEF TypeInv, TrailLength
    <3>3. Cardinality(Auditable) \in Nat /\ Cardinality(Auditable) <= Cardinality(Requests)
      BY <2>2, <3>1
    <3>. QED  BY <2>2, <3>2, <3>3
  <2>4. ASSUME NEW k \in Keys, NEW w \in Windows
        PROVE  counter[<<k, w>>] \in [n : 0..Cardinality(Requests), exp : 0..(MaxTime + Minute)]
    <3>1. <<k, w>> \in Keys \X Windows
      OBVIOUS
    <3>2. counter[<<k, w>>] \in Counter
      BY <2>1, <3>1 DEF TypeInv
    <3>3. Incrementing(k, w) \in SUBSET Requests
      BY DEF Incrementing
    <3>4. /\ counter[<<k, w>>].n <= Cardinality(Incrementing(k, w))
          /\ Cardinality(Incrementing(k, w)) \in Nat
          /\ Cardinality(Incrementing(k, w)) <= Cardinality(Requests)
      BY <2>1, <2>2, <3>3 DEF CounterInv
    <3>5. counter[<<k, w>>].n \in 0..Cardinality(Requests)
      BY <2>2, <3>2, <3>4 DEF Counter
    <3>. QED  BY <3>2, <3>5 DEF Counter
  <2>5. counter \in [Keys \X Windows -> [n : 0..Cardinality(Requests), exp : 0..(MaxTime + Minute)]]
    <3>1. \A s \in Keys \X Windows : \E k \in Keys, w \in Windows : s = <<k, w>>
      OBVIOUS
    <3>2. counter = [s \in Keys \X Windows |-> counter[s]]
      BY <2>1 DEF TypeInv
    <3>. QED  BY <2>4, <3>1, <3>2
  <2>. QED  BY <2>1, <2>3, <2>5 DEF TypeInv, TypeOK
<1>. QED  BY <1>1, ApiInvariant, PTL

\* The limit is exact for who passes by the count in time, and nobody is refused for
\* what others send.
THEOREM LimitIsExact == Spec => []LimitExact
<1>1. ApiInv => LimitExact
  BY DEF ApiInv, LimitInv, RefusalInv, LimitExact
<1>. QED  BY <1>1, ApiInvariant, PTL

\* What a request writes belongs to the tenant of its key.
THEOREM TenantsAreIsolated == Spec => []TenantIsolation
<1>1. ASSUME ApiInv
      PROVE  TenantIsolation
  <2>1. ASSUME NEW r \in points
        PROVE  Valid(req[r].key)
    <3>1. r \in Requests /\ req[r].st = "ok"
      BY <1>1 DEF ApiInv, TypeInv, PointsInv
    <3>. QED  BY <1>1, <3>1 DEF ApiInv, Lifecycle
  <2>2. ASSUME NEW a \in Alerts, labelBy[a] # NoRequest
        PROVE  Valid(req[labelBy[a]].key) /\ TenantOf(req[labelBy[a]].key) = AlertTenant[a]
    <3>1. labelBy[a] \in Requests
      BY <1>1, <2>2 DEF ApiInv, TypeInv
    <3>2. /\ req[labelBy[a]].kind = "feedback" /\ req[labelBy[a]].st = "ok"
          /\ req[labelBy[a]].alert = a
      BY <1>1, <2>2 DEF ApiInv, TrailInv, LabelOwner
    <3>. QED  BY <1>1, <3>1, <3>2 DEF ApiInv, Lifecycle
  <2>. QED  BY <2>1, <2>2 DEF TenantIsolation
<1>. QED  BY <1>1, ApiInvariant, PTL

\* No row goes uncounted, and the ingest counter is ahead by unfinished or failed
\* requests only.
THEOREM CountsCoverRows == Spec => []CounterCoversRows
<1>1. ASSUME ApiInv
      PROVE  CounterCoversRows
  <2>1. PointsInv /\ points \subseteq Requests
    BY <1>1 DEF ApiInv, TypeInv
  <2>2. counted \subseteq Requests
    BY <1>1 DEF ApiInv, TypeInv
  <2>. QED  BY <2>1, <2>2 DEF PointsInv, CounterCoversRows
<1>. QED  BY <1>1, ApiInvariant, PTL

\* Of two committed feedbacks on an alert the label is not the one audited earlier.
THEOREM LabelsFollowTheTrail == Spec => []LabelFollowsAudit
<1>1. ApiInv => LabelFollowsAudit
  BY DEF ApiInv, TrailInv, AuditOrder, LabelFollowsAudit
<1>. QED  BY <1>1, ApiInvariant, PTL
=============================================================================
