--------------------------- MODULE AnswersProofs ---------------------------
(***************************************************************************)
(* What holds of routing, thresholds and the read routes for every list of *)
(* rules and entries, every table and every page size, and of the verdicts *)
(* of the detectors for series of every length.                            *)
(***************************************************************************)
EXTENDS MCAnswers, FiniteSetTheorems, FunctionTheorems, SequenceTheorems,
        WellFoundedInduction, TLAPS

-----------------------------------------------------------------------------
(* Minima and orders *)

\* A set of natural numbers that is not empty has a least member.
LEMMA LeastExists ==
  ASSUME NEW S \in SUBSET Nat, S # {}
  PROVE  \E i \in S : \A j \in S : i <= j
<1> DEFINE R == OpToRel(<, Nat)
<1>1. PICK i \in S : \A j \in S : <<j, i>> \notin R
  <2> HIDE DEF R
  <2>. QED  BY NatLessThanWellFounded, WFMin DEF R
<1>2. \A j, k \in Nat : <<j, k>> \in R <=> j < k
  BY DEF OpToRel
<1>3. ASSUME NEW j \in S PROVE i <= j
  <2> HIDE DEF R
  <2>1. i \in Nat /\ j \in Nat
    OBVIOUS
  <2>2. ~(j < i)
    BY <2>1, <1>1, <1>2
  <2>. QED  BY <2>1, <2>2
<1>. QED  BY <1>3

\* So Min is what its name says.
LEMMA MinIsLeast ==
  ASSUME NEW S \in SUBSET Nat, S # {}
  PROVE  Min(S) \in S /\ \A j \in S : Min(S) <= j
BY LeastExists DEF Min

\* A sequence without repetition that is as long as S is big has all of S.
LEMMA SeqIsOnto ==
  ASSUME NEW S, IsFiniteSet(S), NEW s \in SetToSeqs(S)
  PROVE  /\ Cardinality(S) \in Nat
         /\ s \in [1..Cardinality(S) -> S]
         /\ \A i, j \in 1..Cardinality(S) : i # j => s[i] # s[j]
         /\ \A v \in S : \E i \in 1..Cardinality(S) : s[i] = v
<1> DEFINE n == Cardinality(S)
<1>1. n \in Nat
  BY FS_CardinalityType
<1>2. s \in [1..n -> S] /\ \A i, j \in 1..n : i # j => s[i] # s[j]
  BY DEF SetToSeqs
<1>3. s \in Injection(1..n, S)
  BY <1>2, Fun_IsInj
<1>4. Cardinality(1..n) = n
  BY <1>1, FS_Interval
<1>5. s \in Surjection(1..n, S)
  BY <1>3, <1>4, FS_Injection
<1>. QED  BY <1>1, <1>2, <1>5, Fun_SurjectionProperties

\* Place the members of S by how many come before them: whatever strict total order B
\* is, some sequence of all of S is in that order.
LEMMA OrderedSeqExists ==
  ASSUME NEW S, IsFiniteSet(S), NEW B,
         \A u \in S : <<u, u>> \notin B,
         \A u, v, w \in S : <<u, v>> \in B /\ <<v, w>> \in B => <<u, w>> \in B,
         \A u, v \in S : u # v => <<u, v>> \in B \/ <<v, u>> \in B
  PROVE  \E s \in SetToSeqs(S) :
           \A i, j \in 1..Cardinality(S) : i < j => <<s[i], s[j]>> \in B
<1> DEFINE n == Cardinality(S)
           Before(v) == {u \in S : <<u, v>> \in B}
           r == [v \in S |-> Cardinality(Before(v)) + 1]
<1>1. n \in Nat
  BY FS_CardinalityType
<1>2. ASSUME NEW v \in S
      PROVE  /\ IsFiniteSet(Before(v))
             /\ Cardinality(Before(v)) \in Nat
             /\ Cardinality(Before(v)) < n
  <2>1. IsFiniteSet(S \ {v}) /\ Cardinality(S \ {v}) = n - 1
    BY <1>2, FS_RemoveElement
  <2>2. Before(v) \in SUBSET (S \ {v})
    BY <1>2
  <2>3. IsFiniteSet(Before(v)) /\ Cardinality(Before(v)) <= n - 1
    <3> HIDE DEF Before
    <3>. QED  BY <2>1, <2>2, FS_Subset
  <2>. QED  BY <1>1, <2>3, FS_CardinalityType
<1>3. r \in [S -> 1..n]
  BY <1>1, <1>2
<1>4. ASSUME NEW u \in S, NEW v \in S, <<u, v>> \in B
      PROVE  r[u] < r[v]
  <2>1. Before(u) \in SUBSET Before(v)
    BY <1>4
  <2>2. u \in Before(v) /\ u \notin Before(u)
    BY <1>4
  <2>3. Cardinality(Before(u)) < Cardinality(Before(v))
    <3>0. Before(u) # Before(v)
      BY <2>2
    <3> HIDE DEF Before
    <3>. QED  BY <3>0, <2>1, <1>2, FS_Subset
  <2>4. r[u] = Cardinality(Before(u)) + 1 /\ r[v] = Cardinality(Before(v)) + 1
    OBVIOUS
  <2> HIDE DEF r, Before
  <2>. QED  BY <2>3, <2>4, <1>2
<1> HIDE DEF r
<1>5. ASSUME NEW u \in S, NEW v \in S, r[u] = r[v]
      PROVE  u = v
  <2>1. ~(r[u] < r[v]) /\ ~(r[v] < r[u])
    BY <1>1, <1>3, <1>5
  <2>. QED  BY <2>1, <1>4
<1>6. r \in Injection(S, 1..n)
  BY <1>3, <1>5, Fun_IsInj
<1>7. IsFiniteSet(1..n) /\ Cardinality(1..n) = n
  BY <1>1, FS_Interval
<1>8. r \in Surjection(S, 1..n)
  BY <1>6, <1>7, FS_Injection
<1>9. \A p \in 1..n : \E v \in S : r[v] = p
  BY <1>8, Fun_SurjectionProperties
<1> DEFINE s == [p \in 1..n |-> CHOOSE v \in S : r[v] = p]
<1>10. \A p \in 1..n : s[p] \in S /\ r[s[p]] = p
  BY <1>9
<1>11. s \in SetToSeqs(S)
  <2>1. s \in [1..n -> S]
    BY <1>9
  <2>2. \A i, j \in 1..n : i # j => s[i] # s[j]
    BY <1>10
  <2> HIDE DEF s
  <2>. QED  BY <2>1, <2>2 DEF SetToSeqs
<1>12. ASSUME NEW i \in 1..n, NEW j \in 1..n, i < j
       PROVE  <<s[i], s[j]>> \in B
  <2>1. s[i] \in S /\ s[j] \in S /\ r[s[i]] = i /\ r[s[j]] = j
    BY <1>10
  <2> HIDE DEF s
  <2>2. CASE <<s[j], s[i]>> \in B
    BY <2>1, <2>2, <1>4, <1>12, <1>1
  <2>3. s[i] # s[j]
    BY <2>1, <1>12, <1>1
  <2>. QED  BY <2>1, <2>2, <2>3
<1>. QED  BY <1>11, <1>12

-----------------------------------------------------------------------------
(* Lists in which the first match decides *)

\* Where a rule matches there is a first one that does, and it decides.
LEMMA FirstMatchDecides ==
  ASSUME NEW list \in Seq(Rule(Metrics)), NEW m, Matching(list, m) # {}
  PROVE  /\ FirstMatch(list, m) \in Matching(list, m)
         /\ \A j \in Matching(list, m) : FirstMatch(list, m) <= j
         /\ SelectSinkNames(m, list) = list[FirstMatch(list, m)].sinks
<1>1. Matching(list, m) \in SUBSET Nat
  BY DEF Matching
<1>2. \E i \in Matching(list, m) : \A j \in Matching(list, m) : i <= j
  BY <1>1, LeastExists
<1>. QED  BY <1>2 DEF FirstMatch, SelectSinkNames

\* The lists are lists of their entries, whatever the topic.
ListTypes ==
  /\ rules \in Seq(Rule(Metrics))
  /\ entries \in Seq(Entry(Values))

\* So they stay, for they are only appended to.
LEMMA ListTypesStep == ListTypes /\ [MCNext]_answersVars => ListTypes'
<1> SUFFICES ASSUME ListTypes, [MCNext]_answersVars PROVE ListTypes'
  OBVIOUS
<1>1. CASE AppendRule
  BY <1>1, AppendProperties DEF AppendRule, ListTypes
<1>2. CASE AppendEntry
  BY <1>2, AppendProperties DEF AppendEntry, ListTypes
<1>3. CASE UNCHANGED <<rules, entries>>
  BY <1>3 DEF ListTypes
<1>4. CASE AppendMinute \/ List \/ ListLog \/ Report \/ Series
  BY <1>3, <1>4 DEF AppendMinute, List, ListLog, Report, Series
<1>5. CASE UNCHANGED answersVars
  BY <1>3, <1>5 DEF answersVars
<1>. QED  BY <1>1, <1>2, <1>4, <1>5 DEF MCNext

(***************************************************************************)
(* However the operator's rules are written, and whatever sinks are        *)
(* configured: a router has a sink, and only sinks that are registered.    *)
(***************************************************************************)
THEOREM RoutersAreNeverEmpty == MCSpec => []NeverDropped
<1>1. NeverDropped
  <2> SUFFICES ASSUME NEW m \in Metrics
               PROVE  /\ BuildDefaultRouter(m, rules, optIn) # {}
                      /\ BuildDefaultRouter(m, rules, optIn) \subseteq AvailableSinks(optIn)
    BY DEF NeverDropped
  <2> DEFINE chosen == SelectSinkNames(m, rules) \intersect AvailableSinks(optIn)
  <2>1. LogSink \in AvailableSinks(optIn)
    BY DEF AvailableSinks
  <2>2. BuildDefaultRouter(m, rules, optIn) =
          IF rules = <<>> THEN AvailableSinks(optIn) ELSE IF chosen = {} THEN {LogSink} ELSE chosen
    BY DEF BuildDefaultRouter
  <2>. QED  BY <2>1, <2>2
<1>. QED  BY <1>1, PTL

\* The least member of a set stays the least when a larger number joins.
LEMMA LeastStays ==
  ASSUME NEW S \in SUBSET Nat, NEW i \in S, NEW n \in Nat, \A j \in S : j <= n,
         NEW T, T = S \/ T = S \union {n + 1}
  PROVE  \A k : (k \in T /\ \A j \in T : k <= j) <=> (k \in S /\ \A j \in S : k <= j)
<1>1. i \in Nat /\ i <= n /\ S \subseteq T
  OBVIOUS
<1>2. ASSUME NEW k \in T, \A j \in T : k <= j PROVE k \in S /\ \A j \in S : k <= j
  <2>1. k <= i
    BY <1>1, <1>2
  <2>2. k # n + 1
    BY <1>1, <2>1
  <2>. QED  BY <1>1, <1>2, <2>2
<1>3. ASSUME NEW k \in S, \A j \in S : k <= j PROVE k \in T /\ \A j \in T : k <= j
  <2>1. k \in Nat /\ k <= n + 1
    OBVIOUS
  <2>. QED  BY <1>1, <1>3, <2>1
<1>. QED  BY <1>2, <1>3

\* A rule appended behind a rule that matches changes nothing.
LEMMA LaterRuleIrrelevant ==
  ASSUME NEW list \in Seq(Rule(Metrics)), NEW r \in Rule(Metrics), NEW m, Matching(list, m) # {}
  PROVE  BuildDefaultRouter(m, Append(list, r), optIn) = BuildDefaultRouter(m, list, optIn)
<1> DEFINE longer == Append(list, r)
           n == Len(list)
<1>1. n \in Nat /\ DOMAIN list = 1..n /\ DOMAIN longer = 1..(n + 1)
      /\ longer \in Seq(Rule(Metrics)) /\ longer # <<>>
      /\ \A i \in 1..n : longer[i] = list[i]
  BY AppendProperties
<1> HIDE DEF longer, n
<1>2. Matching(list, m) \in SUBSET Nat /\ \A j \in Matching(list, m) : j <= n
  BY <1>1 DEF Matching
<1>3. \/ Matching(longer, m) = Matching(list, m)
      \/ Matching(longer, m) = Matching(list, m) \union {n + 1}
  BY <1>1 DEF Matching
<1>4. \A k : (k \in Matching(longer, m) /\ \A j \in Matching(longer, m) : k <= j)
             <=> (k \in Matching(list, m) /\ \A j \in Matching(list, m) : k <= j)
  BY <1>1, <1>2, <1>3, LeastStays
<1>5. FirstMatch(longer, m) = FirstMatch(list, m)
  BY <1>4 DEF FirstMatch
<1>6. FirstMatch(list, m) \in 1..n
  BY <1>1, FirstMatchDecides DEF Matching
<1>7. SelectSinkNames(m, longer) = SelectSinkNames(m, list)
  BY <1>1, <1>3, <1>5, <1>6 DEF SelectSinkNames
<1>8. list # <<>>
  BY DEF Matching
<1>9. BuildDefaultRouter(m, longer, optIn) = BuildDefaultRouter(m, list, optIn)
  BY <1>1, <1>7, <1>8 DEF BuildDefaultRouter
<1>. QED  BY <1>9 DEF longer

\* An entry appended behind one that matches and names the key changes nothing.
LEMMA LaterEntryIrrelevant ==
  ASSUME NEW list \in Seq(Entry(Values)), NEW e \in Entry(Values), NEW m, NEW k, NEW default,
         Defining(list, m, k) # {}
  PROVE  ResolveThreshold(Append(list, e), m, k, default) = ResolveThreshold(list, m, k, default)
<1> DEFINE longer == Append(list, e)
           n == Len(list)
           first == CHOOSE i \in Defining(list, m, k) : \A j \in Defining(list, m, k) : i <= j
<1>1. n \in Nat /\ DOMAIN list = 1..n /\ DOMAIN longer = 1..(n + 1)
      /\ \A i \in 1..n : longer[i] = list[i]
  BY AppendProperties
<1> HIDE DEF longer, n
<1>2. Defining(list, m, k) \in SUBSET Nat /\ \A j \in Defining(list, m, k) : j <= n
  BY <1>1 DEF Defining, Parsed
<1>3. \/ Defining(longer, m, k) = Defining(list, m, k)
      \/ Defining(longer, m, k) = Defining(list, m, k) \union {n + 1}
  BY <1>1 DEF Defining, Parsed
<1>4. \A i : (i \in Defining(longer, m, k) /\ \A j \in Defining(longer, m, k) : i <= j)
             <=> (i \in Defining(list, m, k) /\ \A j \in Defining(list, m, k) : i <= j)
  BY <1>1, <1>2, <1>3, LeastStays
<1>5. first = CHOOSE i \in Defining(longer, m, k) : \A j \in Defining(longer, m, k) : i <= j
  BY <1>4
<1>6. first \in 1..n
  <2>1. \E i \in Defining(list, m, k) : \A j \in Defining(list, m, k) : i <= j
    BY <1>2, LeastExists
  <2>. QED  BY <2>1, <1>1 DEF Defining, Parsed
<1>7. Defining(longer, m, k) # {}
  BY <1>3
<1>8. ResolveThreshold(longer, m, k, default) = longer[first].value
  BY <1>5, <1>7 DEF ResolveThreshold
<1>9. ResolveThreshold(list, m, k, default) = list[first].value
  BY DEF ResolveThreshold
<1>10. longer[first] = list[first]
  BY <1>1, <1>6
<1>11. ResolveThreshold(longer, m, k, default) = ResolveThreshold(list, m, k, default)
  BY <1>8, <1>9, <1>10
<1>. QED  BY <1>11 DEF longer

\* The detail page, and the endpoint where a threshold is given, show what the task uses.
LEMMA OneThreshold ==
  ASSUME NEW list, NEW m, NEW k
  PROVE  /\ DetailThreshold(list, Settings, m, IF k \in {"zscore", "stl"} THEN Statistical ELSE k, k)
              = WorkerThreshold(list, Settings, m, k)
         /\ k \in DOMAIN Settings \/ Defining(list, m, k) # {} =>
              EndpointThreshold(list, Settings, m, k) = WorkerThreshold(list, Settings, m, k)
<1>1. ResolverKey(IF k \in {"zscore", "stl"} THEN Statistical ELSE k, k) = k
  BY DEF ResolverKey
<1>2. DetailThreshold(list, Settings, m, IF k \in {"zscore", "stl"} THEN Statistical ELSE k, k)
        = WorkerThreshold(list, Settings, m, k)
  BY <1>1, Zenon DEF DetailThreshold, WorkerThreshold
<1>3. ASSUME k \in DOMAIN Settings
      PROVE  EndpointThreshold(list, Settings, m, k) = WorkerThreshold(list, Settings, m, k)
  <2>1. Default(Settings, k, 8) = Default(Settings, k, Settings["zscore"])
    BY <1>3 DEF Default
  <2>. QED  BY <2>1, Zenon DEF EndpointThreshold, WorkerThreshold
<1>4. ASSUME Defining(list, m, k) # {}
      PROVE  EndpointThreshold(list, Settings, m, k) = WorkerThreshold(list, Settings, m, k)
  <2>1. \A u, v : ResolveThreshold(list, m, k, u) = ResolveThreshold(list, m, k, v)
    BY <1>4 DEF ResolveThreshold
  <2>. QED  BY <2>1 DEF EndpointThreshold, WorkerThreshold
<1>. QED  BY <1>2, <1>3, <1>4

(***************************************************************************)
(* For lists of every length: an entry behind one that decides changes     *)
(* neither where alerts go nor at which threshold a task flags, and a      *)
(* metric and detector have one threshold wherever it is looked up.        *)
(***************************************************************************)
THEOREM FirstMatchWins == MCSpec => LaterEntriesIrrelevant
<1> DEFINE RulesKeep ==
             \A m \in Metrics : Matching(rules, m) # {} =>
               BuildDefaultRouter(m, rules, optIn)' = BuildDefaultRouter(m, rules, optIn)
           EntriesKeep ==
             \A m \in Metric, k \in Key : Defining(entries, m, k) # {} =>
               WorkerThreshold(entries, Settings, m, k)' = WorkerThreshold(entries, Settings, m, k)
           Kept ==
             /\ \A m \in Metrics : Matching(rules, m) # {} =>
                  BuildDefaultRouter(m, rules, optIn)' = BuildDefaultRouter(m, rules, optIn)
             /\ \A m \in Metric, k \in Key :
                  LET flaggedAt == WorkerThreshold(entries, Settings, m, k)
                  IN  /\ Defining(entries, m, k) # {} => flaggedAt' = flaggedAt
                      /\ DetailThreshold(entries, Settings, m, IF k \in {"zscore", "stl"} THEN Statistical ELSE k, k)
                           = flaggedAt
                      /\ k \in DOMAIN Settings \/ Defining(entries, m, k) # {} =>
                           EndpointThreshold(entries, Settings, m, k) = flaggedAt
<1>1. MCInit => ListTypes
  BY DEF MCInit, ListTypes
<1>2. ListTypes /\ MCNext => RulesKeep
  <2> SUFFICES ASSUME ListTypes, MCNext, NEW m \in Metrics, Matching(rules, m) # {}
               PROVE  BuildDefaultRouter(m, rules', optIn') = BuildDefaultRouter(m, rules, optIn)
    BY DEF BuildDefaultRouter
  <2>1. CASE AppendRule
    BY <2>1, LaterRuleIrrelevant DEF AppendRule, ListTypes
  <2>2. CASE ~AppendRule
    <3>1. UNCHANGED <<rules, optIn>>
      BY <2>2 DEF MCNext, AppendEntry, AppendMinute, List, ListLog, Report, Series
    <3>. QED  BY <3>1
  <2>. QED  BY <2>1, <2>2
<1>3. ListTypes /\ MCNext => EntriesKeep
  <2> SUFFICES ASSUME ListTypes, MCNext, NEW m \in Metric, NEW k \in Key, Defining(entries, m, k) # {}
               PROVE  WorkerThreshold(entries', Settings, m, k) = WorkerThreshold(entries, Settings, m, k)
    BY DEF WorkerThreshold
  <2>1. CASE AppendEntry
    BY <2>1, LaterEntryIrrelevant DEF AppendEntry, ListTypes, WorkerThreshold
  <2>2. CASE ~AppendEntry
    <3>1. UNCHANGED entries
      BY <2>2 DEF MCNext, AppendRule, AppendMinute, List, ListLog, Report, Series
    <3>. QED  BY <3>1
  <2>. QED  BY <2>1, <2>2
<1>4. ListTypes /\ MCNext => Kept
  <2> SUFFICES ASSUME ListTypes, MCNext PROVE Kept
    OBVIOUS
  <2>1. RulesKeep /\ EntriesKeep
    BY <1>2, <1>3
  <2>. QED  BY <2>1, OneThreshold, ZenonT(60)
<1>5. ListTypes /\ [MCNext]_answersVars => [Kept]_answersVars
  BY <1>4
<1>. QED  BY <1>1, <1>5, ListTypesStep, PTL DEF MCSpec, LaterEntriesIrrelevant

-----------------------------------------------------------------------------
(* Paging *)

LogTable == {"dead_letters", "audit_log"}

\* The rows of every table are rows of its kind.
TableTypes ==
  /\ alerts \in Seq(AlertRow)
  /\ logs \in [dead_letters : Seq(LogRows), audit_log : Seq(LogRows)]

\* The rows of q that come before row i.
Ahead(q, i) == {j \in Found(q) : Newer(Table(q), j, i)}

\* What a client that pages has not seen yet of the rows that were there is behind its
\* offset: at least so many rows come before it.
PagingInv ==
  reader.st = "paging" =>
    /\ reader \in [st : {"paging"}, query : Queries, offset : Nat, seen : SUBSET Nat, before : SUBSET Nat]
    /\ reader.before \subseteq Found(reader.query)
    /\ \A i \in reader.before :
         i \in reader.seen \/ reader.offset <= Cardinality(Ahead(reader.query, i))

\* An order in which a query may return its rows puts exactly the newer ones before a row.
LEMMA PlaceInOrder ==
  ASSUME NEW rows, NEW ids \in SUBSET Nat, IsFiniteSet(ids), \A j \in ids : rows[j].at \in Int,
         NEW s \in Orders(rows, ids), NEW i \in ids
  PROVE  \E p \in DOMAIN s : s[p] = i /\ Cardinality({j \in ids : Newer(rows, j, i)}) = p - 1
<1> DEFINE n == Cardinality(ids)
           newer == {j \in ids : Newer(rows, j, i)}
<1>1. /\ n \in Nat /\ s \in [1..n -> ids]
      /\ \A j, k \in 1..n : j # k => s[j] # s[k]
      /\ \A v \in ids : \E k \in 1..n : s[k] = v
  BY SeqIsOnto DEF Orders
<1>2. \A j, k \in 1..n : j < k => ~Newer(rows, s[k], s[j])
  BY <1>1 DEF Orders
<1>3. ASSUME NEW j \in ids, NEW k \in ids
      PROVE  Newer(rows, j, k) \/ Newer(rows, k, j) \/ j = k
  <2>1. rows[j].at \in Int /\ rows[k].at \in Int /\ j \in Nat /\ k \in Nat
    OBVIOUS
  <2>. QED  BY <2>1 DEF Newer
<1>4. ~Newer(rows, i, i)
  <2>1. i \in Nat /\ rows[i].at \in Int
    OBVIOUS
  <2>2. ~(i > i) /\ ~(rows[i].at > rows[i].at)
    BY <2>1
  <2>. QED  BY <2>2 DEF Newer
<1>5. PICK p \in 1..n : s[p] = i
  BY <1>1
<1> DEFINE f == [k \in 1..(p - 1) |-> s[k]]
<1>6. p \in Nat /\ p >= 1 /\ p <= n
  BY <1>1
<1>7. ASSUME NEW k \in 1..(p - 1) PROVE f[k] = s[k] /\ k \in 1..n /\ f[k] \in newer
  <2>1. k \in 1..n /\ k < p
    BY <1>1, <1>6, <1>7
  <2>2. s[k] \in ids /\ s[k] # i
    BY <1>1, <1>5, <2>1
  <2>3. ~Newer(rows, i, s[k])
    BY <1>2, <1>5, <2>1
  <2>4. Newer(rows, s[k], i)
    BY <1>3, <2>2, <2>3
  <2>. QED  BY <2>1, <2>2, <2>4
<1>8. ASSUME NEW j \in newer PROVE \E k \in 1..(p - 1) : f[k] = j
  <2>1. PICK k \in 1..n : s[k] = j
    BY <1>1
  <2>2. Newer(rows, s[k], s[p])
    BY <1>5, <2>1
  <2>3. k # p
    BY <1>4, <1>5, <2>2
  <2>4. ~(p < k)
    BY <1>2, <2>2, <2>1
  <2>5. k \in 1..(p - 1)
    BY <1>6, <2>3, <2>4
  <2>. QED  BY <2>1, <2>5
<1>9. f \in [1..(p - 1) -> newer]
  BY <1>7
<1>10. \A j, k \in 1..(p - 1) : f[j] = f[k] => j = k
  BY <1>1, <1>7
<1> HIDE DEF f, newer
<1>11. f \in Bijection(1..(p - 1), newer)
  BY <1>8, <1>9, <1>10, Fun_IsBij
<1>12. IsFiniteSet(1..(p - 1)) /\ Cardinality(1..(p - 1)) = p - 1
  BY <1>6, FS_Interval
<1>13. Cardinality(newer) = p - 1
  <2>1. ExistsBijection(1..(p - 1), newer)
    BY <1>11 DEF ExistsBijection
  <2>. QED  BY <1>12, <2>1, FS_Bijection
<1>14. DOMAIN s = 1..n
  BY <1>1
<1>. QED  BY <1>5, <1>13, <1>14 DEF newer

\* What a query finds are rows of its table, which have a time.
FoundTypes ==
  \A q \in Queries : /\ Found(q) \in SUBSET Nat
                     /\ IsFiniteSet(Found(q))
                     /\ \A j \in Found(q) : Table(q)[j].at \in Int

\* It follows from the types of the tables.
LEMMA FoundAreRows == TableTypes => FoundTypes
<1> SUFFICES ASSUME TableTypes, NEW q \in Queries
             PROVE  /\ Found(q) \in SUBSET Nat
                    /\ IsFiniteSet(Found(q))
                    /\ \A j \in Found(q) : Table(q)[j].at \in Int
  BY DEF FoundTypes
<1>1. CASE q.table = "alerts"
  <2>1. Found(q) \subseteq DOMAIN alerts /\ Table(q) = alerts
    BY <1>1 DEF Found, Where, Ids, Table
  <2>2. Len(alerts) \in Nat /\ DOMAIN alerts = 1..Len(alerts) /\ \A j \in DOMAIN alerts : alerts[j] \in AlertRow
    BY DEF TableTypes
  <2>3. IsFiniteSet(Found(q))
    <3>1. IsFiniteSet(1..Len(alerts))
      BY <2>2, FS_Interval
    <3>. QED  BY <2>1, <2>2, <3>1, FS_Subset
  <2>. QED  BY <2>1, <2>2, <2>3 DEF AlertRow
<1>2. ASSUME NEW name \in LogTable, q.table = name
      PROVE  /\ Found(q) \in SUBSET Nat
             /\ IsFiniteSet(Found(q))
             /\ \A j \in Found(q) : Table(q)[j].at \in Int
  <2>1. Found(q) \subseteq DOMAIN logs[name] /\ Table(q) = logs[name]
    BY <1>2 DEF Found, WhereDeadLetter, WhereAudit, Table, LogTable
  <2>2. logs[name] \in Seq(LogRows)
    BY <1>2 DEF TableTypes, LogTable
  <2>3. Len(logs[name]) \in Nat /\ DOMAIN logs[name] = 1..Len(logs[name])
        /\ \A j \in DOMAIN logs[name] : logs[name][j] \in LogRows
    BY <2>2
  <2>4. IsFiniteSet(Found(q))
    <3>1. IsFiniteSet(1..Len(logs[name]))
      BY <2>3, FS_Interval
    <3>. QED  BY <2>1, <2>3, <3>1, FS_Subset
  <2>. QED  BY <2>1, <2>3, <2>4, RowsAssumption
<1>3. q.table = "alerts" \/ q.table \in LogTable
  BY DEF Queries, LogTable
<1>. QED  BY <1>1, <1>2, <1>3

\* Every row that q found is found after the step, at its time.
Kept(q) ==
  /\ Found(q) \subseteq Found(q)'
  /\ \A j \in Found(q) : Table(q)'[j].at = Table(q)[j].at

\* Rows that come or are labelled while a client pages only move what it has not seen
\* further back.
LEMMA TablesMayGrow ==
  ASSUME TableTypes, TableTypes', PagingInv, UNCHANGED reader, \A q \in Queries : Kept(q)
  PROVE  PagingInv'
<1> SUFFICES ASSUME reader.st = "paging", NEW q \in Queries, q = reader.query
             PROVE  /\ reader.before \subseteq Found(q)'
                    /\ \A i \in reader.before : i \in reader.seen
                         \/ reader.offset <= Cardinality(Ahead(q, i)')
  BY DEF PagingInv
<1>1. reader.offset \in Nat /\ reader.before \subseteq Found(q) /\ Found(q) \subseteq Found(q)'
      /\ \A i \in reader.before : i \in reader.seen \/ reader.offset <= Cardinality(Ahead(q, i))
  BY DEF PagingInv, Kept
<1>2. IsFiniteSet(Found(q)')
  <2>1. (TableTypes => FoundTypes)'
    BY FoundAreRows, PTL
  <2>. QED  BY <2>1 DEF FoundTypes, Queries
<1>3. ASSUME NEW i \in reader.before
      PROVE  Cardinality(Ahead(q, i)) <= Cardinality(Ahead(q, i)')
             /\ Cardinality(Ahead(q, i)) \in Nat /\ Cardinality(Ahead(q, i)') \in Nat
  <2>1. i \in Found(q) /\ \A j \in Found(q) : Table(q)'[j].at = Table(q)[j].at
    BY <1>1, <1>3 DEF Kept
  <2>2. Ahead(q, i) \in SUBSET (Ahead(q, i)')
    BY <1>1, <2>1 DEF Ahead, Newer
  <2>3. Ahead(q, i)' \in SUBSET (Found(q)')
    BY DEF Ahead
  <2>4. IsFiniteSet(Ahead(q, i)')
    BY <1>2, <2>3, FS_Subset
  <2>. QED  BY <2>2, <2>4, FS_Subset, FS_CardinalityType
<1>4. ASSUME NEW i \in reader.before, i \notin reader.seen
      PROVE  reader.offset <= Cardinality(Ahead(q, i)')
  BY <1>1, <1>3, <1>4
<1>. QED  BY <1>1, <1>4

\* An inserted row has an id of its own and hides no other.
LEMMA InsertKeeps ==
  ASSUME TableTypes, InsertAlert \/ InsertPoint \/ (\E table \in LogTable : InsertLog(table))
  PROVE  TableTypes' /\ \A q \in Queries : Kept(q)
<1>1. CASE InsertAlert
  <2>1. PICK r \in AlertRow : alerts' = Append(alerts, r)
    BY <1>1, RowsAssumption DEF InsertAlert
  <2>2. alerts \in Seq(AlertRow) /\ logs' = logs
    BY <1>1 DEF InsertAlert, TableTypes
  <2>3. /\ alerts' \in Seq(AlertRow)
        /\ \A i \in DOMAIN alerts : i \in DOMAIN alerts' /\ alerts'[i] = alerts[i]
    BY <2>1, <2>2, AppendProperties
  <2>4. TableTypes'
    BY <2>2, <2>3 DEF TableTypes
  <2>5. ASSUME NEW q \in Queries PROVE Kept(q)
    <3>1. CASE q.table = "alerts"
      BY <2>3, <3>1 DEF Kept, Found, Table, Where, Ids
    <3>2. CASE q.table # "alerts"
      BY <2>2, <3>2 DEF Kept, Queries, Found, Table, WhereDeadLetter, WhereAudit
    <3>. QED  BY <3>1, <3>2
  <2>. QED  BY <2>4, <2>5
<1>2. CASE InsertPoint
  <2>1. alerts' = alerts /\ logs' = logs
    BY <1>2 DEF InsertPoint
  <2>2. ASSUME NEW q \in Queries PROVE Kept(q)
    BY <2>1 DEF Kept, Queries, Found, Table, Where, Ids, WhereDeadLetter, WhereAudit
  <2>. QED  BY <2>1, <2>2 DEF TableTypes
<1>3. ASSUME NEW table \in LogTable, InsertLog(table)
      PROVE  TableTypes' /\ \A q \in Queries : Kept(q)
  <2>1. PICK r \in LogRows : logs' = [logs EXCEPT ![table] = Append(logs[table], r)]
    BY <1>3 DEF InsertLog
  <2>2. alerts' = alerts /\ logs \in [dead_letters : Seq(LogRows), audit_log : Seq(LogRows)]
    BY <1>3 DEF InsertLog, TableTypes
  <2>3. logs[table] \in Seq(LogRows)
    BY <2>2, <1>3 DEF LogTable
  <2>4. /\ Append(logs[table], r) \in Seq(LogRows)
        /\ \A i \in DOMAIN logs[table] : i \in DOMAIN Append(logs[table], r)
                                         /\ Append(logs[table], r)[i] = logs[table][i]
    BY <2>3, AppendProperties
  <2>5. logs' \in [dead_letters : Seq(LogRows), audit_log : Seq(LogRows)]
    BY <2>1, <2>2, <2>4, <1>3 DEF LogTable
  <2>6. ASSUME NEW name \in LogTable, NEW i \in DOMAIN logs[name]
        PROVE  i \in DOMAIN logs'[name] /\ logs'[name][i] = logs[name][i]
    <3>1. CASE name = table
      BY <2>1, <2>2, <2>4, <2>6, <1>3, <3>1 DEF LogTable
    <3>2. CASE name # table
      BY <2>1, <2>2, <2>6, <1>3, <3>2 DEF LogTable
    <3>. QED  BY <3>1, <3>2
  <2>7. ASSUME NEW q \in Queries PROVE Kept(q)
    <3>1. CASE q.table = "alerts"
      BY <2>2, <3>1 DEF Kept, Found, Table, Where, Ids
    <3>2. CASE q.table = "dead_letters"
      BY <2>6, <3>2 DEF Kept, Found, Table, WhereDeadLetter, LogTable
    <3>3. CASE q.table = "audit_log"
      BY <2>6, <3>3 DEF Kept, Found, Table, WhereAudit, LogTable
    <3>. QED  BY <3>1, <3>2, <3>3 DEF Queries
  <2>. QED  BY <2>2, <2>5, <2>7 DEF TableTypes
<1>. QED  BY <1>1, <1>2, <1>3

\* A label changes neither what is found nor its order.
LEMMA LabelKeeps ==
  ASSUME TableTypes, NEW t \in Tenants, SetLabel(t)
  PROVE  TableTypes' /\ \A q \in Queries : Kept(q)
<1>1. PICK i \in Ids(t), l \in {"true_positive", "false_positive"} :
        alerts' = [alerts EXCEPT ![i].label = l]
  BY DEF SetLabel
<1>2. alerts \in Seq(AlertRow) /\ logs' = logs /\ i \in DOMAIN alerts
  BY DEF SetLabel, TableTypes, Ids
<1>3. alerts[i] \in AlertRow /\ [alerts[i] EXCEPT !.label = l] \in AlertRow
  <2>1. alerts[i] \in AlertRow
    BY <1>2
  <2>2. l \in Labels
    BY DEF Labels
  <2>. QED  BY <2>1, <2>2 DEF AlertRow
<1>4. alerts' \in Seq(AlertRow) /\ DOMAIN alerts' = DOMAIN alerts
  BY <1>1, <1>2, <1>3
<1>5. ASSUME NEW j \in DOMAIN alerts
      PROVE  /\ alerts'[j].tenant = alerts[j].tenant /\ alerts'[j].metric = alerts[j].metric
             /\ alerts'[j].detector = alerts[j].detector /\ alerts'[j].at = alerts[j].at
             /\ alerts'[j].score = alerts[j].score
  <2>1. alerts[j] \in AlertRow
    BY <1>2, <1>5
  <2>2. alerts'[j] = IF j = i THEN [alerts[i] EXCEPT !.label = l] ELSE alerts[j]
    BY <1>1, <1>2, <1>5
  <2>. QED  BY <2>1, <2>2 DEF AlertRow
<1>6. ASSUME NEW q \in Queries PROVE Kept(q)
  <2>1. CASE q.table = "alerts"
    BY <1>4, <1>5, <2>1 DEF Kept, Found, Table, Where, Ids
  <2>2. CASE q.table # "alerts"
    BY <1>2, <2>2 DEF Kept, Queries, Found, Table, WhereDeadLetter, WhereAudit
  <2>. QED  BY <2>1, <2>2
<1>. QED  BY <1>2, <1>4, <1>6 DEF TableTypes

\* A page shows the next rows in order; when it is empty, no row is behind the offset.
LEMMA PageStep ==
  ASSUME TableTypes, PagingInv, FetchPage
  PROVE  PagingInv' /\ PagingMissesNothing'
<1>0. PICK q : q = reader.query
  OBVIOUS
<1> DEFINE R == [st : {"paging"}, query : Queries, offset : Nat, seen : SUBSET Nat, before : SUBSET Nat]
<1>1. PICK s \in Orders(Table(q), Found(q)) :
        reader' = [reader EXCEPT
          !.st = IF Page(s, reader.offset) = {} THEN "read" ELSE "paging",
          !.seen = reader.seen \union Page(s, reader.offset),
          !.offset = IF Page(s, reader.offset) = {} THEN reader.offset ELSE reader.offset + PageLimit]
  BY <1>0 DEF FetchPage
<1> DEFINE page == Page(s, reader.offset)
<1>2. /\ reader \in R /\ reader.before \subseteq Found(q)
      /\ \A i \in reader.before : i \in reader.seen \/ reader.offset <= Cardinality(Ahead(q, i))
  BY <1>0 DEF FetchPage, PagingInv
<1>3. q \in Queries /\ Found(q) \in SUBSET Nat /\ IsFiniteSet(Found(q))
      /\ \A j \in Found(q) : Table(q)[j].at \in Int
  BY <1>0, <1>2, FoundAreRows DEF FoundTypes
<1>4. page \subseteq Nat
  <2>1. s \in SetToSeqs(Found(q))
    BY DEF Orders
  <2>2. s \in [1..Cardinality(Found(q)) -> Found(q)]
    BY <1>3, <2>1, SeqIsOnto
  <2>. QED  BY <1>3, <2>2 DEF Page
<1>5. ASSUME NEW i \in reader.before, i \notin reader.seen, i \notin page
      PROVE  page # {} /\ reader.offset + PageLimit <= Cardinality(Ahead(q, i))
  <2>1. PICK p \in DOMAIN s : s[p] = i /\ Cardinality(Ahead(q, i)) = p - 1
    <3>1. i \in Found(q)
      BY <1>2
    <3>. QED  BY <1>3, <3>1, PlaceInOrder DEF Ahead
  <2>2. \E n \in Nat : DOMAIN s = 1..n
    BY <1>3, SeqIsOnto DEF Orders
  <2>3. p \in Nat /\ reader.offset \in Nat /\ PageLimit \in Nat /\ PageLimit > 0
    BY <1>2, <2>2, PageAssumption
  <2>4. reader.offset < p
    BY <1>2, <1>5, <2>1, <2>3
  <2>5. ~(p <= reader.offset + PageLimit)
    BY <1>5, <2>1, <2>4 DEF Page
  <2>6. reader.offset + 1 \in DOMAIN s
    BY <2>2, <2>3, <2>4
  <2>7. s[reader.offset + 1] \in page
    BY <2>3, <2>6 DEF Page
  <2>. QED  BY <2>1, <2>3, <2>5, <2>7
<1> HIDE DEF page
<1>6. UNCHANGED <<alerts, points, logs>>
  BY DEF FetchPage
<1>7. ASSUME NEW u \in Queries PROVE Found(u)' = Found(u) /\ \A i : Ahead(u, i)' = Ahead(u, i)
  BY <1>6 DEF Found, Ahead, Table, Where, Ids, WhereDeadLetter, WhereAudit
<1>8. CASE page = {}
  <2>1. reader.before \subseteq reader.seen
    BY <1>5, <1>8
  <2>2. reader'.st = "read" /\ reader'.seen = reader.seen /\ reader'.before = reader.before
    BY <1>1, <1>2, <1>8 DEF page
  <2>. QED  BY <2>1, <2>2 DEF PagingInv, PagingMissesNothing
<1>9. CASE page # {}
  <2>1. /\ reader'.st = "paging" /\ reader'.query = q /\ reader'.before = reader.before
        /\ reader'.seen = reader.seen \union page /\ reader'.offset = reader.offset + PageLimit
        /\ reader' \in R
    <3>1. reader.offset + PageLimit \in Nat /\ reader.seen \union page \in SUBSET Nat
      <4>1. reader.offset \in Nat /\ reader.seen \in SUBSET Nat /\ PageLimit \in Nat
        BY <1>2, PageAssumption
      <4>2. reader.offset + PageLimit \in Nat
        BY <4>1
      <4>3. reader.seen \union page \in SUBSET Nat
        BY <1>4, <4>1
      <4>. QED  BY <4>2, <4>3
    <3>. QED  BY <1>0, <1>1, <1>2, <1>9, <3>1 DEF page
  <2>2. \A i \in reader'.before : i \in reader'.seen \/ reader'.offset <= Cardinality(Ahead(q, i))
    BY <1>2, <1>5, <2>1
  <2>3. /\ reader'.before \subseteq Found(q)'
        /\ \A i \in reader'.before : i \in reader'.seen \/ reader'.offset <= Cardinality(Ahead(q, i)')
    BY <1>2, <1>3, <1>7, <2>1, <2>2
  <2>. QED  BY <2>1, <2>3 DEF PagingInv, PagingMissesNothing
<1>. QED  BY <1>8, <1>9

-----------------------------------------------------------------------------
(* The report *)

CountsTyped(counts) ==
  /\ DOMAIN counts \subseteq Metrics \X Range(Detectors)
  /\ \A p \in DOMAIN counts : counts[p].tp \in Nat /\ counts[p].fp \in Nat /\ counts[p].total \in Nat

RecallTyped(recall) ==
  \A p \in DOMAIN recall : /\ recall[p].covered \in Nat /\ recall[p].total \in Nat
                           /\ recall[p].covered <= recall[p].total

\* What a report holds was right when its statement ran, whatever was labelled since.
ReportInv ==
  /\ reader.st \in {"counted", "reported"} => CountsTyped(reader.counts)
  /\ reader.st = "reported" => RecallTyped(reader.recall)

\* A tenant has finitely many alerts.
LEMMA IdsAreFinite ==
  ASSUME TableTypes, NEW t, NEW ids \in SUBSET Ids(t)
  PROVE  IsFiniteSet(ids) /\ \A i \in ids : alerts[i] \in AlertRow
<1>1. alerts \in Seq(AlertRow)
  BY DEF TableTypes
<1>2. Len(alerts) \in Nat /\ DOMAIN alerts = 1..Len(alerts) /\ \A i \in DOMAIN alerts : alerts[i] \in AlertRow
  BY <1>1
<1>3. IsFiniteSet(1..Len(alerts))
  BY <1>2, FS_Interval
<1>. QED  BY <1>2, <1>3, FS_Subset DEF Ids

\* The first statement counts with natural numbers.
LEMMA CountsAreTyped == ASSUME TableTypes, NEW t PROVE CountsTyped(Counts(t))
<1>1. ASSUME NEW ids \in SUBSET Ids(t)
      PROVE  Count(ids).tp \in Nat /\ Count(ids).fp \in Nat /\ Count(ids).total \in Nat
  <2>1. \A l : IsFiniteSet({i \in ids : alerts[i].label = l}) /\ IsFiniteSet(ids)
    BY IdsAreFinite
  <2>. QED  BY <2>1, FS_CardinalityType DEF Count
<1>2. DOMAIN Counts(t) \subseteq Metrics \X Range(Detectors)
  BY DEF Counts
<1>3. ASSUME NEW p \in DOMAIN Counts(t)
      PROVE  Counts(t)[p] = Count({i \in Ids(t) : alerts[i].metric = p[1] /\ alerts[i].detector = p[2]})
  BY <1>3 DEF Counts
<1>. QED  BY <1>1, <1>2, <1>3 DEF CountsTyped

\* The second counts the events one detector covers among those of all.
LEMMA RecallIsTyped == ASSUME TableTypes, NEW t PROVE RecallTyped(Recall(t))
<1>1. ASSUME NEW ids \in SUBSET Ids(t) PROVE IsFiniteSet(Buckets(ids))
  <2> DEFINE f == [i \in ids |-> alerts[i].at \div BucketMinutes]
  <2>1. f \in Surjection(ids, Buckets(ids))
    <3>1. f \in [ids -> Buckets(ids)]
      BY DEF Buckets
    <3>2. \A b \in Buckets(ids) : \E i \in ids : f[i] = b
      BY DEF Buckets
    <3> HIDE DEF f
    <3>. QED  BY <3>1, <3>2, Fun_IsSurj
  <2>2. IsFiniteSet(ids)
    BY IdsAreFinite
  <2>. QED  BY <2>1, <2>2, FS_Surjection
<1>2. ASSUME NEW p \in DOMAIN Recall(t)
      PROVE  /\ Recall(t)[p].covered \in Nat /\ Recall(t)[p].total \in Nat
             /\ Recall(t)[p].covered <= Recall(t)[p].total
  <2> DEFINE all == Confirmed(t, p[1])
             own == {i \in all : alerts[i].detector = p[2]}
  <2>1. Recall(t)[p] = [covered |-> Cardinality(Buckets(own)), total |-> Cardinality(Buckets(all))]
    BY <1>2 DEF Recall
  <2>2. all \in SUBSET Ids(t) /\ own \in SUBSET Ids(t)
    BY DEF Confirmed
  <2>3. Buckets(own) \in SUBSET Buckets(all)
    BY DEF Buckets
  <2> HIDE DEF all, own
  <2>4. Cardinality(Buckets(own)) <= Cardinality(Buckets(all))
        /\ Cardinality(Buckets(own)) \in Nat /\ Cardinality(Buckets(all)) \in Nat
    BY <1>1, <2>2, <2>3, FS_Subset, FS_CardinalityType
  <2>. QED  BY <2>1, <2>4
<1>. QED  BY <1>2 DEF RecallTyped

\* A share, rounded to four places, is within half a ten-thousandth of it.
LEMMA ShareRounds ==
  \A a \in Nat, b \in Nat \ {0} :
    /\ Share(a, b) \in Nat
    /\ 2 * b * Share(a, b) <= 20000 * a + b
    /\ 20000 * a + b < 2 * b * Share(a, b) + 2 * b
<1> SUFFICES ASSUME NEW a \in Nat, NEW b \in Nat \ {0}
             PROVE  /\ Share(a, b) \in Nat
                    /\ 2 * b * Share(a, b) <= 20000 * a + b
                    /\ 20000 * a + b < 2 * b * Share(a, b) + 2 * b
  OBVIOUS
<1>1. ASSUME NEW n \in Nat, NEW d \in Nat, d > 0
      PROVE  n \div d \in Nat /\ d * (n \div d) <= n /\ n < d * (n \div d) + d
  BY <1>1, Z3
<1>2. 20000 * a + b \in Nat /\ 2 * b \in Nat /\ 2 * b > 0
  OBVIOUS
<1>3. Share(a, b) = (20000 * a + b) \div (2 * b)
  BY DEF Share
<1>. QED  BY <1>1, <1>2, <1>3

Keys4 == Int \X Int \X Int \X Int

\* What compares greater, field by field.
LEMMA AboveMeans ==
  ASSUME NEW u \in Keys4, NEW v \in Keys4
  PROVE  Above(u, v) <=>
           \/ u[1] > v[1]
           \/ u[2] > v[2] /\ u[1] = v[1]
           \/ u[3] > v[3] /\ u[1] = v[1] /\ u[2] = v[2]
           \/ u[4] > v[4] /\ u[1] = v[1] /\ u[2] = v[2] /\ u[3] = v[3]
<1>1. Above(u, v) <=> \E i \in 1..4 : u[i] > v[i] /\ \A j \in 1..(i - 1) : u[j] = v[j]
  BY DEF Above, Keys4
<1>2. \A i : i \in 1..4 <=> i = 1 \/ i = 2 \/ i = 3 \/ i = 4
  OBVIOUS
<1>3. /\ 1..(1 - 1) = {} /\ 1..(2 - 1) = {1} /\ 1..(3 - 1) = {1, 2} /\ 1..(4 - 1) = {1, 2, 3}
  OBVIOUS
<1>4. Above(u, v) <=> \/ u[1] > v[1] /\ \A j \in {} : u[j] = v[j]
                      \/ u[2] > v[2] /\ \A j \in {1} : u[j] = v[j]
                      \/ u[3] > v[3] /\ \A j \in {1, 2} : u[j] = v[j]
                      \/ u[4] > v[4] /\ \A j \in {1, 2, 3} : u[j] = v[j]
  BY <1>1, <1>2, <1>3
<1>. QED  BY <1>4

\* The greater of a number and 0.
LEMMA NotBelowZero ==
  ASSUME NEW u \in Int
  PROVE  Max({u, 0}) = IF u > 0 THEN u ELSE 0
BY DEF Max

\* A precision is missing where nothing is labelled.
LEMMA PrecisionMissing ==
  ASSUME NEW c, c.tp \in Nat, c.fp \in Nat
  PROVE  Precision(c) \in Nat \union {None} /\ (Precision(c) = None <=> c.tp + c.fp = 0)
<1>1. CASE c.tp + c.fp = 0
  BY <1>1 DEF Precision, Share, None
<1>2. CASE c.tp + c.fp > 0
  <2>1. PICK a, n : a = c.tp /\ n = c.tp + c.fp
    OBVIOUS
  <2>2. a \in Nat /\ n \in Nat \ {0} /\ Precision(c) = Share(a, n)
    BY <1>2, <2>1 DEF Precision
  <2>3. Share(a, n) \in Nat
    BY <2>2, ShareRounds
  <2>. QED  BY <1>2, <2>2, <2>3 DEF None
<1>. QED  BY <1>1, <1>2

\* It is rounded where something is.
LEMMA PrecisionRounds ==
  ASSUME NEW c, NEW a \in Nat, NEW n \in Nat \ {0}, c.tp = a, c.tp + c.fp = n
  PROVE  /\ Precision(c) \in Nat
         /\ 2 * n * Precision(c) <= 20000 * a + n
         /\ 20000 * a + n < 2 * n * Precision(c) + 2 * n
<1>1. Precision(c) = Share(a, n)
  BY DEF Precision
<1>2. /\ Share(a, n) \in Nat
      /\ 2 * n * Share(a, n) <= 20000 * a + n
      /\ 20000 * a + n < 2 * n * Share(a, n) + 2 * n
  BY ShareRounds
<1>. QED  BY <1>1, <1>2

\* A sort key is four numbers: labelled or not, precision, recall, number of alerts.
LEMMA KeyIsNumbers ==
  ASSUME NEW counts, NEW recall, CountsTyped(counts), RecallTyped(recall), NEW p \in DOMAIN counts
  PROVE  \E r, n \in Int :
           SortKey(counts, recall, p) =
             <<IF Precision(counts[p]) = None THEN 0 ELSE 1,
               IF Precision(counts[p]) > 0 THEN Precision(counts[p]) ELSE 0, r, n>>
<1>1. Precision(counts[p]) \in Int /\ counts[p].total \in Int
  BY PrecisionMissing DEF CountsTyped, None
<1>2. RecallOf(recall, p) \in Int
  <2>1. CASE p \in DOMAIN recall
    <3>1. recall[p].covered \in Nat /\ recall[p].total \in Nat
      BY <2>1 DEF RecallTyped
    <3>2. CASE recall[p].total = 0
      <4>1. RecallOf(recall, p) = Share(recall[p].covered, 0)
        BY <2>1, <3>2 DEF RecallOf
      <4>2. Share(recall[p].covered, 0) = -1
        BY DEF Share, None
      <4>. QED  BY <4>1, <4>2
    <3>3. CASE recall[p].total > 0
      <4>1. PICK a, n : a = recall[p].covered /\ n = recall[p].total
        OBVIOUS
      <4>2. a \in Nat /\ n \in Nat \ {0} /\ RecallOf(recall, p) = Share(a, n)
        BY <2>1, <3>1, <3>3, <4>1 DEF RecallOf
      <4>3. Share(a, n) \in Nat
        BY <4>2, ShareRounds
      <4>. QED  BY <4>2, <4>3
    <3>. QED  BY <3>1, <3>2, <3>3
  <2>2. CASE p \notin DOMAIN recall
    BY <2>2 DEF RecallOf
  <2>. QED  BY <2>1, <2>2
<1>3. Max({RecallOf(recall, p), 0}) \in Int
  BY <1>2, NotBelowZero
<1>4. SortKey(counts, recall, p) =
        <<IF Precision(counts[p]) = None THEN 0 ELSE 1,
          IF Precision(counts[p]) > 0 THEN Precision(counts[p]) ELSE 0,
          Max({RecallOf(recall, p), 0}), counts[p].total>>
  BY <1>1, NotBelowZero DEF SortKey
<1>. QED  BY <1>1, <1>3, <1>4

\* Keys are ordered.
LEMMA AboveOrders ==
  ASSUME NEW u \in Keys4, NEW v \in Keys4, NEW w \in Keys4
  PROVE  /\ ~Above(u, u)
         /\ Above(u, v) /\ Above(v, w) => Above(u, w)
         /\ Above(u, v) \/ Above(v, u) \/ u = v
<1>1. \A i \in 1..4 : u[i] \in Int /\ v[i] \in Int /\ w[i] \in Int
  BY DEF Keys4
<1>2. u[1] = v[1] /\ u[2] = v[2] /\ u[3] = v[3] /\ u[4] = v[4] => u = v
  BY DEF Keys4
<1>. QED  BY <1>1, <1>2, AboveMeans

\* The detectors of a metric that have alerts, by their places.
Present(counts, m) == {i \in DOMAIN Detectors : <<m, Detectors[i]>> \in DOMAIN counts}

KeyOf(counts, recall, m, i) == SortKey(counts, recall, <<m, Detectors[i]>>)

Precedes(counts, recall, m, i, j) ==
  \/ Above(KeyOf(counts, recall, m, i), KeyOf(counts, recall, m, j))
  \/ KeyOf(counts, recall, m, i) = KeyOf(counts, recall, m, j) /\ i < j

\* The ranking exists: it is all of them, each before those it precedes.
LEMMA RankedIsSorted ==
  ASSUME NEW counts, NEW recall, CountsTyped(counts), RecallTyped(recall), NEW m
  PROVE  /\ Present(counts, m) \in SUBSET Nat /\ IsFiniteSet(Present(counts, m))
         /\ Ranked(counts, recall, m) \in SetToSeqs(Present(counts, m))
         /\ \A i, j \in DOMAIN Ranked(counts, recall, m) : i < j =>
              Precedes(counts, recall, m, Ranked(counts, recall, m)[i], Ranked(counts, recall, m)[j])
<1> DEFINE S == Present(counts, m)
           k(i) == KeyOf(counts, recall, m, i)
           P(i, j) == Precedes(counts, recall, m, i, j)
           B == {p \in S \X S : P(p[1], p[2])}
<1>1. S \in SUBSET Nat /\ IsFiniteSet(S)
  <2>1. Len(Detectors) \in Nat /\ DOMAIN Detectors = 1..Len(Detectors)
    BY DetectorsAssumption
  <2>2. IsFiniteSet(1..Len(Detectors)) /\ S \in SUBSET (1..Len(Detectors))
    BY <2>1, FS_Interval DEF Present
  <2>. QED  BY <2>1, <2>2, FS_Subset
<1>2. ASSUME NEW i \in S PROVE k(i) \in Keys4
  <2>1. <<m, Detectors[i]>> \in DOMAIN counts
    BY <1>2 DEF Present
  <2>2. Precision(counts[<<m, Detectors[i]>>]) \in Int
    BY <2>1, PrecisionMissing DEF CountsTyped, None
  <2>. QED  BY <2>1, <2>2, KeyIsNumbers DEF KeyOf, Keys4
<1> HIDE DEF S
<1>3. ASSUME NEW i \in S, NEW j \in S, NEW l \in S
      PROVE  /\ ~P(i, i)
             /\ P(i, j) /\ P(j, l) => P(i, l)
             /\ i # j => P(i, j) \/ P(j, i)
  <2>1. i \in Nat /\ j \in Nat /\ l \in Nat
    BY <1>1
  <2>2. k(i) \in Keys4 /\ k(j) \in Keys4 /\ k(l) \in Keys4
    BY <1>2
  <2> HIDE DEF k
  <2>3. /\ P(i, i) <=> Above(k(i), k(i)) \/ (k(i) = k(i) /\ i < i)
        /\ P(i, j) <=> Above(k(i), k(j)) \/ (k(i) = k(j) /\ i < j)
        /\ P(j, i) <=> Above(k(j), k(i)) \/ (k(j) = k(i) /\ j < i)
        /\ P(j, l) <=> Above(k(j), k(l)) \/ (k(j) = k(l) /\ j < l)
        /\ P(i, l) <=> Above(k(i), k(l)) \/ (k(i) = k(l) /\ i < l)
    BY DEF Precedes, k
  <2>4. /\ ~Above(k(i), k(i))
        /\ Above(k(i), k(j)) /\ Above(k(j), k(l)) => Above(k(i), k(l))
        /\ Above(k(i), k(j)) \/ Above(k(j), k(i)) \/ k(i) = k(j)
    BY <2>2, AboveOrders
  <2> HIDE DEF P
  <2>. QED  BY <2>1, <2>3, <2>4
<1> HIDE DEF P, k
<1>4. \A i, j \in S : <<i, j>> \in B <=> P(i, j)
  OBVIOUS
<1> HIDE DEF B
<1>5. \E s \in SetToSeqs(S) : \A i, j \in 1..Cardinality(S) : i < j => <<s[i], s[j]>> \in B
  BY <1>1, <1>3, <1>4, OrderedSeqExists
<1>6. PICK s \in SetToSeqs(S) : \A i, j \in DOMAIN s : i < j => P(s[i], s[j])
  <2>1. PICK s \in SetToSeqs(S) : \A i, j \in 1..Cardinality(S) : i < j => <<s[i], s[j]>> \in B
    BY <1>5
  <2>2. s \in [1..Cardinality(S) -> S]
    BY <1>1, SeqIsOnto
  <2>. QED  BY <1>4, <2>1, <2>2
<1>7. Ranked(counts, recall, m) =
        CHOOSE r \in SetToSeqs(S) : \A i, j \in DOMAIN r : i < j => P(r[i], r[j])
  BY DEF Ranked, S, P, Present, Precedes, KeyOf
<1>8. /\ Ranked(counts, recall, m) \in SetToSeqs(S)
      /\ \A i, j \in DOMAIN Ranked(counts, recall, m) : i < j =>
           P(Ranked(counts, recall, m)[i], Ranked(counts, recall, m)[j])
  BY <1>6, <1>7
<1>. QED  BY <1>1, <1>8 DEF S, P

\* Rounding keeps order up to a ten-thousandth: when a share a/n does not round to more
\* than b/d does, it is larger by less than 1/10000.
LEMMA RoundedOrder ==
  ASSUME NEW a \in Nat, NEW n \in Nat \ {0}, NEW b \in Nat, NEW d \in Nat \ {0},
         NEW P \in Nat, NEW Q \in Nat, P <= Q,
         20000 * a + n < 2 * n * P + 2 * n,
         2 * d * Q <= 20000 * b + d
  PROVE  10000 * (a * d - b * n) < n * d
<1>0. \A u, v \in Int : u < v => u * d < v * d
  OBVIOUS
<1>1. (20000 * a + n) * d < (2 * n * P + 2 * n) * d
  <2>1. 20000 * a + n \in Int /\ 2 * n * P + 2 * n \in Int
    OBVIOUS
  <2>. QED  BY <1>0, <2>1
<1>2. (2 * d * Q) * n <= (20000 * b + d) * n
  <2>1. \A u, v \in Int : u <= v => u * n <= v * n
    OBVIOUS
  <2>2. 2 * d * Q \in Int /\ 20000 * b + d \in Int
    OBVIOUS
  <2>. QED  BY <2>1, <2>2
<1>3. (n * d) * P <= (n * d) * Q
  <2>1. \A u \in Nat : u * P <= u * Q
    OBVIOUS
  <2>2. n * d \in Nat
    OBVIOUS
  <2>. QED  BY <2>1, <2>2
<1>4. PICK ad, bn, nd, ndP, ndQ : ad = a * d /\ bn = b * n /\ nd = n * d /\ ndP = nd * P /\ ndQ = nd * Q
  OBVIOUS
<1>5. ad \in Int /\ bn \in Int /\ nd \in Int /\ ndP \in Int /\ ndQ \in Int
  BY <1>4
<1>6. 20000 * ad + nd < 2 * ndP + 2 * nd
  <2>1. (20000 * a + n) * d = 20000 * (a * d) + n * d
    OBVIOUS
  <2>2. (2 * n * P + 2 * n) * d = 2 * ((n * d) * P) + 2 * (n * d)
    OBVIOUS
  <2>. QED  BY <1>1, <1>4, <2>1, <2>2
<1>7. 2 * ndQ <= 20000 * bn + nd
  <2>1. (2 * d * Q) * n = 2 * ((n * d) * Q)
    OBVIOUS
  <2>2. (20000 * b + d) * n = 20000 * (b * n) + n * d
    OBVIOUS
  <2>. QED  BY <1>2, <1>4, <2>1, <2>2
<1>8. ndP <= ndQ
  BY <1>3, <1>4
<1>9. 10000 * (ad - bn) < nd
  BY <1>5, <1>6, <1>7, <1>8
<1>. QED  BY <1>4, <1>9

\* A precision rounds to more than nothing exactly when a detector shows one.
LEMMA ShowsPrecision ==
  ASSUME NEW c, c.tp \in Nat, c.fp \in Nat
  PROVE  Precision(c) > 0 <=> Shows(c)
<1>1. CASE c.tp + c.fp = 0
  BY <1>1, PrecisionMissing DEF Shows, None
<1>2. CASE c.tp + c.fp > 0
  <2>1. PICK a, n : a = c.tp /\ n = c.tp + c.fp
    OBVIOUS
  <2>2. a \in Nat /\ n \in Nat \ {0}
    BY <1>2, <2>1
  <2>3. /\ Precision(c) \in Nat
        /\ 2 * n * Precision(c) <= 20000 * a + n
        /\ 20000 * a + n < 2 * n * Precision(c) + 2 * n
    BY <2>1, <2>2, PrecisionRounds
  <2>4. ASSUME Precision(c) > 0 PROVE 20000 * a >= n
    <3>1. \A k \in Nat : k > 0 => 2 * n <= 2 * n * k
      BY <2>2
    <3>2. 2 * n <= 2 * n * Precision(c)
      BY <2>3, <2>4, <3>1
    <3>. QED  BY <2>2, <2>3, <3>2
  <2>5. ASSUME Precision(c) = 0 PROVE 20000 * a < n
    <3>1. 2 * n * Precision(c) = 0
      BY <2>2, <2>5
    <3>. QED  BY <2>2, <2>3, <3>1
  <2>6. Shows(c) <=> a > 0 /\ 20000 * a >= n
    BY <2>1 DEF Shows
  <2>7. Precision(c) > 0 \/ Precision(c) = 0
    BY <2>3
  <2>. QED  BY <2>2, <2>4, <2>5, <2>6, <2>7
<1>. QED  BY <1>1, <1>2

\* What precedes a detector with a precision has no smaller one.
LEMMA PrecisionDescends ==
  ASSUME NEW counts, NEW recall, CountsTyped(counts), RecallTyped(recall), NEW m,
         NEW i \in Present(counts, m), NEW j \in Present(counts, m),
         Precedes(counts, recall, m, i, j),
         Precision(counts[<<m, Detectors[j]>>]) > 0
  PROVE  Precision(counts[<<m, Detectors[i]>>]) >= Precision(counts[<<m, Detectors[j]>>])
<1> DEFINE pi == Precision(counts[<<m, Detectors[i]>>])
           pj == Precision(counts[<<m, Detectors[j]>>])
           u == KeyOf(counts, recall, m, i)
           v == KeyOf(counts, recall, m, j)
<1>1. <<m, Detectors[i]>> \in DOMAIN counts /\ <<m, Detectors[j]>> \in DOMAIN counts
  BY DEF Present
<1>2. pi \in Int /\ pj \in Int
  BY <1>1, PrecisionMissing DEF CountsTyped, None
<1>3. u \in Keys4 /\ u[1] = (IF pi = None THEN 0 ELSE 1) /\ u[2] = (IF pi > 0 THEN pi ELSE 0)
  BY <1>1, <1>2, KeyIsNumbers DEF KeyOf, Keys4
<1>4. v \in Keys4 /\ v[1] = (IF pj = None THEN 0 ELSE 1) /\ v[2] = (IF pj > 0 THEN pj ELSE 0)
  BY <1>1, <1>2, KeyIsNumbers DEF KeyOf, Keys4
<1>5. Above(u, v) \/ u = v
  BY DEF Precedes
<1>6. pj > 0
  OBVIOUS
<1> HIDE DEF pi, pj, u, v
<1>7. v[1] = 1 /\ v[2] = pj
  BY <1>2, <1>4, <1>6 DEF None
<1>8. u[1] > 1 \/ (u[1] = 1 /\ u[2] >= pj)
  <2>1. \A k \in 1..4 : u[k] \in Int /\ v[k] \in Int
    BY <1>3, <1>4 DEF Keys4
  <2>2. CASE u = v
    BY <1>2, <1>7, <2>2
  <2>3. CASE Above(u, v)
    <3>1. \/ u[1] > v[1]
          \/ u[2] > v[2] /\ u[1] = v[1]
          \/ u[2] = v[2] /\ u[1] = v[1]
      BY <1>3, <1>4, <2>3, AboveMeans
    <3>. QED  BY <1>2, <1>7, <2>1, <3>1
  <2>. QED  BY <1>5, <2>2, <2>3
<1>9. pi >= pj
  BY <1>2, <1>3, <1>6, <1>8
<1>. QED  BY <1>9 DEF pi, pj

\* The recommended detector is the first, and none that has confirmed alerts beats it.
LEMMA BestIsFirst ==
  ASSUME NEW counts, NEW recall, CountsTyped(counts), RecallTyped(recall), NEW m
  PROVE  LET best == Recommend(counts, recall, m)
             rivals == {p \in DOMAIN counts : p[1] = m}
         IN  /\ best # 0 <=> \E p \in rivals : Shows(counts[p])
             /\ best # 0 =>
                  /\ best = Ranked(counts, recall, m)[1]
                  /\ \A p \in rivals : counts[p].tp > 0 =>
                       ~MorePrecise(counts[p], counts[<<m, Detectors[best]>>])
<1> DEFINE S == Present(counts, m)
           n == Cardinality(S)
           ranked == Ranked(counts, recall, m)
           best == Recommend(counts, recall, m)
           rivals == {p \in DOMAIN counts : p[1] = m}
           c(i) == counts[<<m, Detectors[i]>>]
           pr(i) == Precision(c(i))
           able == {k \in DOMAIN ranked : pr(ranked[k]) > 0}
<1>1. /\ S \in SUBSET Nat /\ IsFiniteSet(S) /\ ranked \in SetToSeqs(S)
      /\ \A i, j \in DOMAIN ranked : i < j => Precedes(counts, recall, m, ranked[i], ranked[j])
  BY RankedIsSorted
<1>2. /\ n \in Nat /\ ranked \in [1..n -> S]
      /\ \A i \in S : \E k \in 1..n : ranked[k] = i
  <2> HIDE DEF S, ranked
  <2>. QED  BY <1>1, SeqIsOnto
<1>3. ASSUME NEW i \in S
      PROVE  /\ <<m, Detectors[i]>> \in rivals
             /\ c(i).tp \in Nat /\ c(i).fp \in Nat
             /\ pr(i) \in Int
             /\ (pr(i) > 0 <=> Shows(c(i)))
             /\ i \in DOMAIN Detectors
  <2>1. <<m, Detectors[i]>> \in DOMAIN counts /\ i \in DOMAIN Detectors
    BY <1>3 DEF Present
  <2>2. c(i).tp \in Nat /\ c(i).fp \in Nat
    BY <2>1 DEF CountsTyped
  <2>3. Precision(c(i)) \in Int /\ (Precision(c(i)) > 0 <=> Shows(c(i)))
    BY <2>2, PrecisionMissing, ShowsPrecision DEF None
  <2>. QED  BY <2>1, <2>2, <2>3
<1>4. ASSUME NEW p \in rivals PROVE \E i \in S : p = <<m, Detectors[i]>>
  <2>1. p \in Metrics \X Range(Detectors) /\ p[1] = m
    BY <1>4 DEF CountsTyped
  <2>2. PICK i \in DOMAIN Detectors : Detectors[i] = p[2]
    BY <2>1 DEF Range
  <2>3. p = <<m, Detectors[i]>>
    BY <2>1, <2>2
  <2>. QED  BY <1>4, <2>3 DEF Present
<1>5. ASSUME NEW k \in 1..n, pr(ranked[k]) > 0
      PROVE  1 \in 1..n /\ pr(ranked[1]) >= pr(ranked[k])
  <2>1. 1 \in 1..n
    BY <1>2
  <2>2. ranked[1] \in S /\ ranked[k] \in S
    BY <1>2, <2>1
  <2>3. CASE k = 1
    <3>1. pr(ranked[1]) \in Int
      BY <1>3, <2>2
    <3> HIDE DEF pr
    <3>. QED  BY <2>1, <2>3, <3>1
  <2>4. CASE k # 1
    <3>1. Precedes(counts, recall, m, ranked[1], ranked[k])
      BY <1>1, <1>2, <2>1, <2>4
    <3>. QED  BY <1>5, <2>1, <2>2, <3>1, PrecisionDescends
  <2>. QED  BY <2>3, <2>4
<1>6. able = {k \in 1..n : pr(ranked[k]) > 0}
  BY <1>2
<1>7. best = IF able = {} THEN 0 ELSE ranked[Min(able)]
  BY DEF Recommend
<1>8. ASSUME able # {}
      PROVE  /\ 1 \in 1..n /\ Min(able) = 1 /\ ranked[1] \in S
             /\ pr(ranked[1]) > 0
             /\ \A i \in S : pr(ranked[1]) >= pr(i)
  <2> HIDE DEF pr, able, c, S, ranked, rivals
  <2>1. PICK k \in 1..n : pr(ranked[k]) > 0
    BY <1>6, <1>8
  <2>2. 1 \in 1..n /\ pr(ranked[1]) >= pr(ranked[k])
    BY <1>5, <2>1
  <2>3. ranked[1] \in S /\ ranked[k] \in S
    BY <1>2, <2>2
  <2>4. pr(ranked[1]) \in Int /\ pr(ranked[k]) \in Int
    BY <1>3, <2>3
  <2>5. pr(ranked[1]) > 0
    BY <2>1, <2>2, <2>4
  <2>6. 1 \in able /\ able \in SUBSET Nat /\ \A j \in able : j >= 1
    BY <1>6, <2>2, <2>5
  <2>7. Min(able) = 1
    <3>1. Min(able) \in able /\ Min(able) <= 1
      BY <2>6, MinIsLeast
    <3>2. PICK l : l = Min(able)
      OBVIOUS
    <3>3. l \in Nat /\ l >= 1 /\ l <= 1
      BY <2>6, <3>1, <3>2
    <3>. QED  BY <3>2, <3>3
  <2>8. ASSUME NEW i \in S PROVE pr(ranked[1]) >= pr(i)
    <3>1. PICK l \in 1..n : ranked[l] = i
      BY <1>2
    <3>2. CASE pr(i) > 0
      BY <1>5, <3>1, <3>2
    <3>3. CASE ~(pr(i) > 0)
      <4>1. pr(i) \in Int
        BY <1>3
      <4>. QED  BY <2>4, <2>5, <3>3, <4>1
    <3>. QED  BY <3>2, <3>3
  <2>. QED  BY <2>2, <2>3, <2>5, <2>7, <2>8
<1>9. ASSUME NEW p \in rivals, Shows(counts[p]) PROVE able # {}
  <2>1. PICK i \in S : p = <<m, Detectors[i]>>
    BY <1>4
  <2>2. PICK k \in 1..n : ranked[k] = i
    BY <1>2
  <2>3. pr(ranked[k]) > 0
    BY <1>3, <1>9, <2>1, <2>2
  <2> HIDE DEF pr, able
  <2>. QED  BY <1>6, <2>3
<1>10. ASSUME able # {}
       PROVE  /\ best # 0 /\ best = ranked[1] /\ best \in S
              /\ \E p \in rivals : Shows(counts[p])
  <2> HIDE DEF pr, able, S, ranked, best, rivals
  <2>1. best = ranked[1] /\ best \in S /\ pr(best) > 0
    BY <1>7, <1>8, <1>10
  <2>2. <<m, Detectors[best]>> \in rivals /\ Shows(c(best)) /\ best \in DOMAIN Detectors
    BY <1>3, <2>1
  <2>3. best # 0
    BY <2>2, DetectorsAssumption
  <2>. QED  BY <2>1, <2>2, <2>3
<1>11. ASSUME best # 0, NEW p \in rivals, counts[p].tp > 0
       PROVE  ~MorePrecise(counts[p], counts[<<m, Detectors[best]>>])
  <2>1. able # {}
    <3> HIDE DEF able, best
    <3>. QED  BY <1>7, <1>11
  <2>2. PICK i \in S : p = <<m, Detectors[i]>>
    BY <1>4, <1>11
  <2>3. best \in S /\ pr(best) > 0 /\ pr(best) >= pr(i)
    <3> HIDE DEF pr, able, S, ranked, best, rivals
    <3>. QED  BY <1>8, <1>10, <2>1, <2>2
  <2>4. PICK u, v : u = c(i) /\ v = c(best)
    OBVIOUS
  <2>5. u.tp \in Nat /\ u.fp \in Nat /\ v.tp \in Nat /\ v.fp \in Nat /\ Shows(v) /\ u.tp > 0
    <3>1. c(i).tp \in Nat /\ c(i).fp \in Nat
      BY <1>3, <2>2
    <3>2. c(best).tp \in Nat /\ c(best).fp \in Nat /\ Shows(c(best))
      BY <1>3, <2>3
    <3>3. c(i).tp > 0
      BY <1>11, <2>2
    <3> HIDE DEF c, best
    <3>. QED  BY <2>4, <3>1, <3>2, <3>3
  <2>6. Precision(v) >= Precision(u)
    BY <2>3, <2>4
  <2>7. ~MorePrecise(u, v)
    <3>1. PICK a, an, b, bn : a = u.tp /\ an = u.tp + u.fp /\ b = v.tp /\ bn = v.tp + v.fp
      OBVIOUS
    <3>2. a \in Nat /\ b \in Nat /\ an \in Nat \ {0} /\ bn \in Nat \ {0}
      BY <2>5, <3>1 DEF Shows
    <3>3. Precision(u) \in Nat /\ 20000 * a + an < 2 * an * Precision(u) + 2 * an
      BY <3>1, <3>2, PrecisionRounds
    <3>4. Precision(v) \in Nat /\ 2 * bn * Precision(v) <= 20000 * b + bn
      BY <3>1, <3>2, PrecisionRounds
    <3>5. Precision(u) <= Precision(v)
      BY <2>6, <3>3, <3>4
    <3>6. 10000 * (a * bn - b * an) < an * bn
      BY <3>2, <3>3, <3>4, <3>5, RoundedOrder
    <3>7. MorePrecise(u, v) <=> 10000 * (a * bn - b * an) >= an * bn
      BY <3>1 DEF MorePrecise
    <3>8. an * bn \in Int /\ 10000 * (a * bn - b * an) \in Int
      BY <3>2
    <3>. QED  BY <3>6, <3>7, <3>8
  <2>8. counts[p] = u /\ counts[<<m, Detectors[best]>>] = v
    BY <2>2, <2>4
  <2> HIDE DEF best
  <2>. QED  BY <2>7, <2>8
<1>12. best # 0 <=> able # {}
  <2> HIDE DEF able, best, ranked
  <2>. QED  BY <1>7, <1>10
<1>13. /\ (best # 0 <=> \E p \in rivals : Shows(counts[p]))
       /\ (best # 0 =>
            /\ best = ranked[1]
            /\ \A p \in rivals : counts[p].tp > 0 =>
                 ~MorePrecise(counts[p], counts[<<m, Detectors[best]>>]))
  <2> HIDE DEF able, best, ranked, rivals
  <2>. QED  BY <1>9, <1>10, <1>11, <1>12
<1>. QED  BY <1>13
-----------------------------------------------------------------------------
(* The invariant of the read routes *)

ReadInv == TableTypes /\ PagingInv /\ PagingMissesNothing /\ ReportInv

\* Nothing is found in empty tables, and nobody asks.
LEMMA ReadInvInit == ReadInit => ReadInv
<1> SUFFICES ASSUME ReadInit PROVE ReadInv
  OBVIOUS
<1>1. reader.st = "idle"
  BY DEF ReadInit, Idle
<1>2. TableTypes
  BY DEF ReadInit, TableTypes
<1>. QED  BY <1>1, <1>2 DEF ReadInv, PagingInv, PagingMissesNothing, ReportInv

\* Every operation keeps it.
LEMMA ReadInvStep == ReadInv /\ [ReadNext]_readVars => ReadInv'
<1> SUFFICES ASSUME ReadInv, [ReadNext]_readVars PROVE ReadInv'
  OBVIOUS
<1> USE DEF ReadInv
<1>1. ASSUME UNCHANGED reader, TableTypes', \A q \in Queries : Kept(q) PROVE ReadInv'
  <2>1. PagingInv'
    BY <1>1, TablesMayGrow
  <2>2. PagingMissesNothing' /\ ReportInv'
    BY <1>1 DEF PagingMissesNothing, ReportInv
  <2>. QED  BY <1>1, <2>1, <2>2
<1>2. CASE InsertAlert \/ InsertPoint \/ (\E table \in LogTable : InsertLog(table))
  <2>1. UNCHANGED reader
    BY <1>2 DEF InsertAlert, InsertPoint, InsertLog
  <2>. QED  BY <1>1, <1>2, <2>1, InsertKeeps
<1>3. ASSUME NEW t \in Tenants, SetLabel(t) PROVE ReadInv'
  <2>1. UNCHANGED reader
    BY <1>3 DEF SetLabel
  <2>. QED  BY <1>1, <1>3, <2>1, LabelKeeps
<1>4. ASSUME UNCHANGED <<alerts, points, logs>> PROVE TableTypes'
  BY <1>4 DEF TableTypes
<1>5. ASSUME NEW q \in Queries, StartPaging(q) PROVE ReadInv'
  <2>1. /\ UNCHANGED <<alerts, points, logs>>
        /\ reader' = [st |-> "paging", query |-> q, offset |-> 0, seen |-> {}, before |-> Found(q)]
    BY <1>5 DEF StartPaging
  <2>2. Found(q) \in SUBSET Nat /\ IsFiniteSet(Found(q))
    BY FoundAreRows DEF FoundTypes
  <2>3. Found(q)' = Found(q) /\ \A i : Ahead(q, i)' = Ahead(q, i)
    BY <2>1 DEF Found, Ahead, Table, Where, Ids, WhereDeadLetter, WhereAudit
  <2>4. ASSUME NEW i PROVE 0 <= Cardinality(Ahead(q, i))
    <3>1. IsFiniteSet(Ahead(q, i))
      BY <2>2, FS_Subset DEF Ahead
    <3>2. Cardinality(Ahead(q, i)) \in Nat
      BY <3>1, FS_CardinalityType
    <3>. QED  BY <3>2
  <2>5. PagingInv'
    <3>1. reader'.query = q /\ reader'.offset = 0 /\ reader'.before = Found(q)
      BY <2>1
    <3>2. reader' \in [st : {"paging"}, query : Queries, offset : Nat, seen : SUBSET Nat, before : SUBSET Nat]
      BY <2>1, <2>2
    <3>3. reader'.before \subseteq Found(q)' /\ \A i : reader'.offset <= Cardinality(Ahead(q, i)')
      BY <2>3, <2>4, <3>1
    <3>. QED  BY <3>1, <3>2, <3>3 DEF PagingInv
  <2>6. PagingMissesNothing' /\ ReportInv'
    BY <2>1 DEF PagingMissesNothing, ReportInv
  <2>. QED  BY <1>4, <2>1, <2>5, <2>6
<1>6. CASE FetchPage
  <2>1. PagingInv' /\ PagingMissesNothing'
    BY <1>6, PageStep
  <2>2. reader'.st \in {"read", "paging"} /\ UNCHANGED <<alerts, points, logs>>
    <3>1. reader \in [st : {"paging"}, query : Queries, offset : Nat, seen : SUBSET Nat, before : SUBSET Nat]
      BY <1>6 DEF FetchPage, PagingInv
    <3>. QED  BY <1>6, <3>1 DEF FetchPage
  <2>. QED  BY <1>4, <2>1, <2>2 DEF ReportInv
<1>7. ASSUME NEW t \in Tenants, FetchCounts(t) PROVE ReadInv'
  <2>1. /\ UNCHANGED <<alerts, points, logs>>
        /\ reader' = [st |-> "counted", tenant |-> t, counts |-> Counts(t)]
    BY <1>7 DEF FetchCounts
  <2>2. CountsTyped(Counts(t))
    BY CountsAreTyped
  <2>. QED  BY <1>4, <2>1, <2>2 DEF PagingInv, PagingMissesNothing, ReportInv, CountsTyped
<1>8. CASE FetchRecall
  <2>1. /\ UNCHANGED <<alerts, points, logs>>
        /\ reader' = [st |-> "reported", counts |-> reader.counts, recall |-> Recall(reader.tenant)]
        /\ reader.st = "counted"
    BY <1>8 DEF FetchRecall
  <2>2. RecallTyped(Recall(reader.tenant)) /\ CountsTyped(reader.counts)
    BY <2>1, RecallIsTyped DEF ReportInv
  <2>3. reader'.st = "reported" /\ reader'.counts = reader.counts /\ reader'.recall = Recall(reader.tenant)
    BY <2>1
  <2>4. RecallTyped(reader'.recall) /\ CountsTyped(reader'.counts)
    BY <2>2, <2>3
  <2>5. ReportInv'
    BY <2>4 DEF ReportInv, RecallTyped, CountsTyped
  <2>. QED  BY <1>4, <2>1, <2>3, <2>5 DEF PagingInv, PagingMissesNothing
<1>9. CASE EndRequest
  <2>1. reader'.st = "idle" /\ UNCHANGED <<alerts, points, logs>>
    BY <1>9 DEF EndRequest, Idle
  <2>. QED  BY <1>4, <2>1 DEF PagingInv, PagingMissesNothing, ReportInv
<1>10. CASE UNCHANGED readVars
  <2>1. UNCHANGED <<alerts, points, logs, reader>>
    BY <1>10 DEF readVars
  <2>2. \A q \in Queries : Kept(q)
    BY <2>1 DEF Kept, Found, Table, Where, Ids, WhereDeadLetter, WhereAudit
  <2>. QED  BY <1>1, <1>4, <2>1, <2>2
<1>. QED  BY <1>2, <1>3, <1>5, <1>6, <1>7, <1>8, <1>9, <1>10 DEF ReadNext, LogTable

(***************************************************************************)
(* For tables and pages of every size: a client that pages through alerts, *)
(* dead letters or audit rows until a page is empty has seen every row     *)
(* that was there when it began, whatever is inserted or labelled between. *)
(***************************************************************************)
THEOREM PagingIsComplete == ReadSpec => []PagingMissesNothing
<1>1. ReadInv => PagingMissesNothing
  BY DEF ReadInv
<1>. QED  BY <1>1, ReadInvInit, ReadInvStep, PTL DEF ReadSpec

(***************************************************************************)
(* For every table, and labels set between the two statements of a report: *)
(* a detector is recommended exactly when one shows a precision, it is the *)
(* first of the ranking, and no other is more precise by a ten-thousandth. *)
(***************************************************************************)
THEOREM RecommendationIsBest == ReadSpec => []RecommendedIsBest
<1>1. ReadInv => RecommendedIsBest
  <2> SUFFICES ASSUME ReadInv, reader.st = "reported",
                      NEW m \in {p[1] : p \in DOMAIN reader.counts}
               PROVE  LET counts == reader.counts
                          best == Recommend(counts, reader.recall, m)
                          rivals == {p \in DOMAIN counts : p[1] = m}
                      IN  /\ best # 0 <=> \E p \in rivals : Shows(counts[p])
                          /\ best # 0 =>
                               /\ best = Ranked(counts, reader.recall, m)[1]
                               /\ \A p \in rivals : counts[p].tp > 0 =>
                                    ~MorePrecise(counts[p], counts[<<m, Detectors[best]>>])
                          /\ \A p \in rivals \intersect DOMAIN reader.recall :
                               reader.recall[p].covered <= reader.recall[p].total
    BY DEF RecommendedIsBest
  <2>1. CountsTyped(reader.counts) /\ RecallTyped(reader.recall)
    BY DEF ReadInv, ReportInv
  <2>2. \A p \in DOMAIN reader.recall : reader.recall[p].covered <= reader.recall[p].total
    BY <2>1 DEF RecallTyped
  <2>. QED  BY <2>1, <2>2, BestIsFirst
<1>. QED  BY <1>1, ReadInvInit, ReadInvStep, PTL DEF ReadSpec

(***************************************************************************)
(* Whatever the tables hold and whatever a step does to them: where the    *)
(* rows of a tenant stay as they are, so does everything it may read, the  *)
(* order of its lists, the numbers of its report and its series included.  *)
(***************************************************************************)
THEOREM TenantsReadTheirOwn == ReadSpec => OtherTenantsInvisible
<1>1. ASSUME NEW t \in Tenants, Own(t)' = Own(t)
      PROVE  Answers(t)' = Answers(t)
  <2> DEFINE pts == {k \in DOMAIN points : points[k].tenant = t}
  <2>1. /\ [i \in Ids(t) |-> alerts[i]]' = [i \in Ids(t) |-> alerts[i]]
        /\ [i \in pts |-> points[i]]' = [i \in pts |-> points[i]]
    BY <1>1 DEF Own
  <2>2. Ids(t)' = Ids(t) /\ \A i \in Ids(t) : alerts'[i] = alerts[i]
    <3>1. PICK u, v : u = [i \in Ids(t) |-> alerts[i]] /\ v = [i \in Ids(t)' |-> alerts'[i]]
      OBVIOUS
    <3>2. u = v
      BY <2>1, <3>1
    <3>3. DOMAIN u = Ids(t) /\ DOMAIN v = Ids(t)'
      BY <3>1
    <3>. QED  BY <3>1, <3>2, <3>3
  <2>3. pts' = pts /\ \A i \in pts : points'[i] = points[i]
    <3>1. PICK u, v : u = [i \in pts |-> points[i]] /\ v = [i \in pts' |-> points'[i]]
      OBVIOUS
    <3>2. u = v
      BY <2>1, <3>1
    <3>3. DOMAIN u = pts /\ DOMAIN v = pts'
      BY <3>1
    <3> HIDE DEF pts
    <3>. QED  BY <3>1, <3>2, <3>3
  <2>4. ASSUME NEW f \in Filters PROVE Orders(alerts, Where(t, f))' = Orders(alerts, Where(t, f))
    <3>1. Where(t, f)' = Where(t, f) /\ Where(t, f) \subseteq Ids(t)
      BY <2>2 DEF Where
    <3>2. PICK ids : ids = Where(t, f)
      OBVIOUS
    <3>3. ids \subseteq Ids(t) /\ ids = Where(t, f)'
      BY <3>1, <3>2
    <3>4. ASSUME NEW s \in SetToSeqs(ids), NEW i \in DOMAIN s, NEW j \in DOMAIN s
          PROVE  Newer(alerts', s[j], s[i]) <=> Newer(alerts, s[j], s[i])
      <4>1. s[i] \in ids /\ s[j] \in ids
        BY DEF SetToSeqs
      <4>2. alerts'[s[i]] = alerts[s[i]] /\ alerts'[s[j]] = alerts[s[j]]
        BY <2>2, <3>3, <4>1
      <4>. QED  BY <4>2 DEF Newer
    <3>5. Orders(alerts', ids) = Orders(alerts, ids)
      BY <3>4 DEF Orders
    <3>. QED  BY <3>2, <3>3, <3>5
  <2>5. ASSUME NEW i PROVE FetchAlertById(t, i)' = FetchAlertById(t, i)
    BY <2>2 DEF FetchAlertById
  <2>6. ASSUME NEW ids \in SUBSET Ids(t) PROVE Count(ids)' = Count(ids)
    <3>1. \A l : {i \in ids : alerts'[i].label = l} = {i \in ids : alerts[i].label = l}
      BY <2>2
    <3>. QED  BY <3>1 DEF Count
  <2>7. Counts(t)' = Counts(t)
    <3> DEFINE of(m, d) == {i \in Ids(t) : alerts[i].metric = m /\ alerts[i].detector = d}
               D == {q \in Metrics \X Range(Detectors) : of(q[1], q[2]) # {}}
    <3>1. \A m, d : of(m, d)' = of(m, d)
      BY <2>2
    <3>2. \A m, d : Count(of(m, d))' = Count(of(m, d))
      <4>1. ASSUME NEW m, NEW d PROVE Count(of(m, d))' = Count(of(m, d))
        <5>1. PICK ids : ids = of(m, d)
          OBVIOUS
        <5>2. ids \in SUBSET Ids(t) /\ ids = of(m, d)'
          BY <3>1, <5>1
        <5> HIDE DEF of
        <5>. QED  BY <2>6, <5>1, <5>2
      <4>. QED  BY <4>1
    <3>3. Counts(t) = [p \in D |-> Count(of(p[1], p[2]))]
      BY DEF Counts
    <3>4. Counts(t)' = [p \in D' |-> Count(of(p[1], p[2]))']
      BY DEF Counts, Count
    <3>5. D' = D
      BY <3>1
    <3> HIDE DEF of, D
    <3>. QED  BY <3>2, <3>3, <3>4, <3>5
  <2>8. Recall(t)' = Recall(t)
    <3> DEFINE of(m, d) == {i \in Confirmed(t, m) : alerts[i].detector = d}
               D == {q \in Metrics \X Range(Detectors) : of(q[1], q[2]) # {}}
    <3>1. ASSUME NEW m PROVE Confirmed(t, m)' = Confirmed(t, m) /\ Confirmed(t, m) \subseteq Ids(t)
      BY <2>2 DEF Confirmed
    <3>2. ASSUME NEW m, NEW d PROVE of(m, d)' = of(m, d) /\ of(m, d) \subseteq Ids(t)
      BY <2>2, <3>1
    <3>3. ASSUME NEW m, NEW d
          PROVE  /\ Buckets(of(m, d))' = Buckets(of(m, d))
                 /\ Buckets(Confirmed(t, m))' = Buckets(Confirmed(t, m))
      <4>1. PICK own, all : own = of(m, d) /\ all = Confirmed(t, m)
        OBVIOUS
      <4>2. own = of(m, d)' /\ all = Confirmed(t, m)' /\ own \subseteq Ids(t) /\ all \subseteq Ids(t)
        BY <3>1, <3>2, <4>1
      <4>3. Buckets(own)' = Buckets(own) /\ Buckets(all)' = Buckets(all)
        BY <2>2, <4>2 DEF Buckets
      <4>4. Buckets(of(m, d))' = Buckets(own)' /\ Buckets(Confirmed(t, m))' = Buckets(all)'
        BY <4>2 DEF Buckets
      <4> HIDE DEF of
      <4>. QED  BY <4>1, <4>3, <4>4
    <3>4. Recall(t) = [p \in D |-> [covered |-> Cardinality(Buckets(of(p[1], p[2]))),
                                    total |-> Cardinality(Buckets(Confirmed(t, p[1])))]]
      BY DEF Recall
    <3>5. Recall(t)' = [p \in D' |-> [covered |-> Cardinality(Buckets(of(p[1], p[2]))'),
                                      total |-> Cardinality(Buckets(Confirmed(t, p[1]))')]]
      BY DEF Recall, Buckets, Confirmed
    <3>6. D' = D
      <4>1. \A m, d : of(m, d)' = of(m, d)
        BY <3>2
      <4>. QED  BY <4>1 DEF Confirmed
    <3> HIDE DEF of, D
    <3>. QED  BY <3>3, <3>4, <3>5, <3>6
  <2>9. FeedbackStats(t)' = FeedbackStats(t)
    <3> DEFINE of(d) == {i \in Ids(t) : alerts[i].detector = d}
               D == {alerts[i].detector : i \in Ids(t)}
    <3>1. D' = D
      BY <2>2
    <3>2. ASSUME NEW d PROVE Count(of(d))' = Count(of(d))
      <4>1. PICK ids : ids = of(d)
        OBVIOUS
      <4>2. ids \in SUBSET Ids(t) /\ ids = of(d)'
        BY <2>2, <4>1
      <4>3. Count(of(d))' = Count(ids)'
        BY <4>2 DEF Count
      <4> HIDE DEF of
      <4>. QED  BY <2>6, <4>1, <4>2, <4>3
    <3>3. FeedbackStats(t) = [d \in D |-> Count(of(d))]
      BY DEF FeedbackStats
    <3>4. FeedbackStats(t)' = [d \in D' |-> Count(of(d))']
      BY DEF FeedbackStats, Count
    <3> HIDE DEF of, D
    <3>. QED  BY <3>1, <3>2, <3>3, <3>4
  <2>10. ListActiveMetrics(t)' = ListActiveMetrics(t)
    BY <2>3 DEF ListActiveMetrics
  <2>11. ASSUME NEW m \in Metrics
         PROVE  FetchSeries(t, m)' = FetchSeries(t, m) /\ FetchRaw(t, m)' = FetchRaw(t, m)
    <3>1. Of(t, m)' = Of(t, m) /\ Of(t, m) \subseteq pts
      BY <2>3 DEF Of
    <3>2. \A i \in Of(t, m) : Minute(i)' = Minute(i)
      BY <2>3, <3>1 DEF Minute
    <3>. QED  BY <3>1, <3>2 DEF FetchSeries, FetchRaw
  <2>12. {p \in ListActiveMetricsSync : p[1] = t}' = {p \in ListActiveMetricsSync : p[1] = t}
    BY <2>3 DEF ListActiveMetricsSync
  <2>. QED  BY <2>4, <2>5, <2>7, <2>8, <2>9, <2>10, <2>11, <2>12 DEF Answers
<1>2. [ReadNext]_readVars => [\A t \in Tenants : Own(t)' = Own(t) => Answers(t)' = Answers(t)]_readVars
  BY <1>1
<1>. QED  BY <1>2, PTL DEF ReadSpec, OtherTenantsInvisible

(***************************************************************************)
(* What TLC runs, topic by topic, are behaviours of all read routes        *)
(* together: the two theorems cover its instance.                          *)
(***************************************************************************)
THEOREM TopicsAreReads == MCSpec => ReadSpec
<1>1. MCInit => ReadInit
  BY DEF MCInit
<1>2. MCNext => [ReadNext]_readVars
  <2> SUFFICES ASSUME MCNext PROVE [ReadNext]_readVars
    OBVIOUS
  <2>1. CASE AppendRule \/ AppendEntry \/ AppendMinute
    BY <2>1 DEF AppendRule, AppendEntry, AppendMinute
  <2>2. CASE List
    <3>1. \A q \in [table : {"alerts"}, tenant : Tenants, filter : Filters] : q \in Queries
      BY DEF Queries
    <3>. QED  BY <2>2, <3>1 DEF List, ReadNext
  <2>3. CASE ListLog
    <3>1. topic \in {"dead_letters", "audit_log"}
      BY <2>3 DEF ListLog
    <3>2. \A q \in [table : {topic}, name : Names] : q \in Queries
      BY <3>1 DEF Queries
    <3>. QED  BY <2>3, <3>1, <3>2 DEF ListLog, ReadNext
  <2>4. CASE Report \/ Series
    BY <2>4, TenantAssumption DEF Report, Series, ReadNext
  <2>. QED  BY <2>1, <2>2, <2>3, <2>4 DEF MCNext
<1>3. UNCHANGED answersVars => UNCHANGED readVars
  BY DEF answersVars
<1>4. [MCNext]_answersVars => [ReadNext]_readVars
  BY <1>2, <1>3
<1>. QED  BY <1>1, <1>4, PTL DEF MCSpec, ReadSpec

-----------------------------------------------------------------------------
(* Sums over a window *)

\* The member a fold takes out first.
Picked(s) == CHOOSE i \in s : TRUE

\* One step of the fold: g sums f over the subsets of a set.
AddUp(f, g, s) == IF s = {} THEN 0 ELSE f[Picked(s)] + g[s \ {Picked(s)}]

\* The recursive function behind MapThenSumSet.
IsSum(f, g, S) == g = [s \in SUBSET S |-> AddUp(f, g, s)]

\* The function exists: were the subsets of at most k members the first without
\* one, that of the smaller subsets would extend to them.
LEMMA SumExists ==
  ASSUME NEW S, IsFiniteSet(S), NEW f
  PROVE  \E g : IsSum(f, g, S)
<1> DEFINE D(k) == {s \in SUBSET S : Cardinality(s) <= k}
           SumTo(k) == \E g : g = [s \in D(k) |-> AddUp(f, g, s)]
           bad == {k \in Nat : ~SumTo(k)}
<1>1. \A s \in SUBSET S : IsFiniteSet(s) /\ Cardinality(s) \in Nat
  BY FS_Subset, FS_CardinalityType
<1>2. \A s \in SUBSET S : s # {} =>
        /\ Picked(s) \in s /\ s \ {Picked(s)} \in SUBSET S
        /\ Cardinality(s \ {Picked(s)}) = Cardinality(s) - 1
  BY <1>1, FS_RemoveElement DEF Picked
<1>3. ASSUME NEW k \in bad, \A j \in bad : k <= j PROVE FALSE
  <2>1. CASE k = 0
    <3>1. D(0) = {{}}
      BY <1>1, FS_EmptySet
    <3> DEFINE g == [s \in D(0) |-> 0]
    <3>2. g = [s \in D(0) |-> AddUp(f, g, s)]
      BY <3>1 DEF AddUp
    <3> HIDE DEF g
    <3>. QED  BY <2>1, <3>2
  <2>2. CASE k > 0
    <3>0. k \in Nat
      BY <1>3
    <3>1. k - 1 \in Nat /\ k - 1 \notin bad
      <4>1. k - 1 \in Nat /\ ~(k <= k - 1)
        BY <2>2, <3>0
      <4> HIDE DEF bad
      <4>. QED  BY <1>3, <4>1
    <3>2. PICK g : g = [s \in D(k - 1) |-> AddUp(f, g, s)]
      BY <3>1
    <3> DEFINE h == [s \in D(k) |-> AddUp(f, g, s)]
    <3>3. ASSUME NEW s \in D(k) PROVE AddUp(f, h, s) = AddUp(f, g, s)
      <4>1. CASE s = {}
        BY <4>1 DEF AddUp
      <4>2. CASE s # {}
        <5>1. s \ {Picked(s)} \in D(k - 1) /\ s \ {Picked(s)} \in D(k)
          BY <1>1, <1>2, <4>2
        <5>2. h[s \ {Picked(s)}] = g[s \ {Picked(s)}]
          BY <3>2, <5>1
        <5>. QED  BY <4>2, <5>2 DEF AddUp
      <4>. QED  BY <4>1, <4>2
    <3>4. h = [s \in D(k) |-> AddUp(f, h, s)]
      BY <3>3
    <3> HIDE DEF h
    <3>. QED  BY <3>4
  <2>. QED  BY <2>1, <2>2
<1>4. bad = {}
  BY <1>3, LeastExists
<1>5. D(Cardinality(S)) = SUBSET S
  BY <1>1, FS_Subset
<1>6. SumTo(Cardinality(S))
  BY <1>1, <1>4
<1>. QED  BY <1>5, <1>6 DEF IsSum

\* Where f is 0 everywhere but at a and b, the sum is what it is at these two.
LEMMA SumOfTwo ==
  ASSUME NEW S, IsFiniteSet(S), NEW f, NEW g, IsSum(f, g, S), NEW a, NEW b, a # b,
         \A i \in S : f[i] \in Int /\ (i \notin {a, b} => f[i] = 0)
  PROVE  g[S] = (IF a \in S THEN f[a] ELSE 0) + (IF b \in S THEN f[b] ELSE 0)
<1> DEFINE Two(s) == (IF a \in s THEN f[a] ELSE 0) + (IF b \in s THEN f[b] ELSE 0)
           bad == {k \in Nat : \E s \in SUBSET S : Cardinality(s) = k /\ g[s] # Two(s)}
<1>1. \A s \in SUBSET S : IsFiniteSet(s) /\ Cardinality(s) \in Nat
  BY FS_Subset, FS_CardinalityType
<1>2. ASSUME NEW k \in bad, \A j \in bad : k <= j PROVE FALSE
  <2>1. PICK s \in SUBSET S : Cardinality(s) = k /\ g[s] # Two(s)
    OBVIOUS
  <2>2. g[s] = AddUp(f, g, s)
    BY DEF IsSum
  <2>3. CASE s = {}
    BY <2>1, <2>2, <2>3 DEF AddUp
  <2>4. CASE s # {}
    <3>1. PICK c : c = Picked(s)
      OBVIOUS
    <3>2. c \in s /\ Cardinality(s \ {c}) = k - 1 /\ s \ {c} \in SUBSET S /\ k - 1 \in Nat
      <4>1. c \in s /\ s \ {c} \in SUBSET S /\ Cardinality(s) = k
        BY <2>1, <2>4, <3>1 DEF Picked
      <4>2. Cardinality(s \ {c}) = k - 1 /\ k - 1 \in Nat
        <5> HIDE DEF bad, Two
        <5>1. IsFiniteSet(s) /\ IsFiniteSet(s \ {c})
          BY <1>1, <4>1
        <5>2. Cardinality(s \ {c}) = Cardinality(s) - 1
          BY <4>1, <5>1, FS_RemoveElement
        <5>3. Cardinality(s \ {c}) \in Nat
          BY <5>1, FS_CardinalityType
        <5>. QED  BY <4>1, <5>2, <5>3
      <4>. QED  BY <4>1, <4>2
    <3>3. g[s \ {c}] = Two(s \ {c})
      BY <1>2, <3>2
    <3>4. g[s] = f[c] + Two(s \ {c})
      BY <2>2, <2>4, <3>1, <3>3 DEF AddUp
    <3>. QED  BY <2>1, <3>2, <3>4
  <2>. QED  BY <2>3, <2>4
<1>3. bad = {}
  BY <1>2, LeastExists
<1>. QED  BY <1>1, <1>3

\* The two folds of a z-score.
SumOver(v, S) == MapThenSumSet(LAMBDA j : v[j], S)
SquaresOver(v, S) == MapThenSumSet(LAMBDA j : v[j] * v[j], S)

\* For the squares it is the same function, of the sequence of squares.
LEMMA SquaresUnfold ==
  ASSUME NEW S, NEW v
  PROVE  SquaresOver(v, S) = (CHOOSE g : IsSum([i \in S |-> v[i] * v[i]], g, S))[S]
<1> DEFINE q == [i \in S |-> v[i] * v[i]]
           Squares(g) == g = [s \in SUBSET S |-> IF s = {} THEN 0
                                                  ELSE v[Picked(s)] * v[Picked(s)] + g[s \ {Picked(s)}]]
<1>1. SquaresOver(v, S) = (CHOOSE g : Squares(g))[S]
  BY DEF SquaresOver, MapThenSumSet, MapThenFoldSet, Picked
<1>2. ASSUME NEW g PROVE Squares(g) <=> IsSum(q, g, S)
  <2>1. \A s \in SUBSET S : s # {} => q[Picked(s)] = v[Picked(s)] * v[Picked(s)]
    BY DEF Picked
  <2> HIDE DEF q
  <2>. QED  BY <2>1 DEF IsSum, AddUp
<1>3. (CHOOSE g : Squares(g)) = (CHOOSE g : IsSum(q, g, S))
  BY <1>2
<1>. QED  BY <1>1, <1>3

\* So it is with MapThenSumSet, for the values of a sequence and for their squares.
LEMMA WindowSums ==
  ASSUME NEW S, IsFiniteSet(S), NEW v, NEW a, NEW b, a # b,
         \A i \in S : v[i] \in Int /\ (i \notin {a, b} => v[i] = 0)
  PROVE  /\ SumOver(v, S) = (IF a \in S THEN v[a] ELSE 0) + (IF b \in S THEN v[b] ELSE 0)
         /\ SquaresOver(v, S)
              = (IF a \in S THEN v[a] * v[a] ELSE 0) + (IF b \in S THEN v[b] * v[b] ELSE 0)
<1>1. SumOver(v, S) = (CHOOSE g : IsSum(v, g, S))[S]
  BY DEF SumOver, MapThenSumSet, MapThenFoldSet, IsSum, AddUp, Picked
<1>2. IsSum(v, CHOOSE g : IsSum(v, g, S), S)
  BY SumExists
<1> DEFINE q == [i \in S |-> v[i] * v[i]]
<1>5. SquaresOver(v, S) = (CHOOSE g : IsSum(q, g, S))[S]
  BY SquaresUnfold
<1>6. IsSum(q, CHOOSE g : IsSum(q, g, S), S)
  BY SumExists
<1>7. \A i \in S : q[i] \in Int /\ (i \notin {a, b} => q[i] = 0)
  OBVIOUS
<1>8. (CHOOSE g : IsSum(q, g, S))[S] = (IF a \in S THEN q[a] ELSE 0) + (IF b \in S THEN q[b] ELSE 0)
  <2> HIDE DEF q
  <2>. QED  BY <1>6, <1>7, SumOfTwo
<1>9. (CHOOSE g : IsSum(v, g, S))[S] = (IF a \in S THEN v[a] ELSE 0) + (IF b \in S THEN v[b] ELSE 0)
  BY <1>2, SumOfTwo
<1>. QED  BY <1>1, <1>5, <1>8, <1>9

-----------------------------------------------------------------------------
(* What the detectors say of a spike *)

\* Max of two numbers is the larger one.
LEMMA MaxOfTwo ==
  ASSUME NEW a \in Int, NEW b \in Int
  PROVE  Max({a, b}) = IF a >= b THEN a ELSE b
BY DEF Max

\* Of fractions there is always one that none exceeds.
LEMMA LargestExists ==
  ASSUME NEW lo \in Nat, NEW hi \in Nat, lo <= hi,
         NEW z, \A i \in lo..hi : z[i].num \in Nat /\ z[i].den \in Nat \ {0}
  PROVE  \E k \in lo..hi : \A i \in lo..hi : ~Below(z[k], z[i])
<1> DEFINE Top(m) == \E k \in lo..m : \A i \in lo..m : ~Below(z[k], z[i])
           bad == {m \in Nat : m \in lo..hi /\ ~Top(m)}
<1>1. \A i \in lo..hi : ~Below(z[i], z[i])
  BY DEF Below
<1>2. ASSUME NEW m \in bad, \A j \in bad : m <= j PROVE FALSE
  <2>0. m \in Nat /\ m \in lo..hi /\ ~Top(m)
    OBVIOUS
  <2>1. CASE m = lo
    BY <1>1, <2>0, <2>1
  <2>2. CASE m > lo
    <3>1. m - 1 \in Nat /\ m - 1 \in lo..hi /\ ~(m <= m - 1)
      BY <2>0, <2>2
    <3>2. Top(m - 1)
      <4>1. m - 1 \notin bad
        <5> HIDE DEF bad
        <5>. QED  BY <1>2, <3>1
      <4>. QED  BY <3>1, <4>1
    <3>3. PICK k \in lo..(m - 1) : \A i \in lo..(m - 1) : ~Below(z[k], z[i])
      BY <3>2
    <3>4. \A i \in lo..m : i = m \/ i \in lo..(m - 1)
      BY <2>0
    <3>5. k \in lo..m /\ k \in lo..hi
      BY <2>0
    <3>6. CASE ~Below(z[k], z[m])
      BY <2>0, <3>3, <3>4, <3>5, <3>6
    <3>7. CASE Below(z[k], z[m])
      <4>1. ASSUME NEW i \in lo..(m - 1) PROVE ~Below(z[m], z[i])
        <5>1. i \in lo..hi /\ ~Below(z[k], z[i])
          BY <2>0, <3>3
        <5>2. PICK a, b, c, d, e, f : /\ a = z[k].num /\ b = z[k].den /\ c = z[m].num
                                      /\ d = z[m].den /\ e = z[i].num /\ f = z[i].den
          OBVIOUS
        <5>3. /\ a \in Nat /\ c \in Nat /\ e \in Nat
              /\ b \in Nat \ {0} /\ d \in Nat \ {0} /\ f \in Nat \ {0}
          BY <2>0, <3>5, <5>1, <5>2
        <5>4. a * d < c * b /\ ~(a * f < e * b)
          BY <3>7, <5>1, <5>2 DEF Below
        <5>5. ~(c * f < e * d)
          <6>1. (a * d) * f < (c * b) * f
            BY <5>3, <5>4, Z3
          <6>2. (e * b) * d <= (a * f) * d
            BY <5>3, <5>4, Z3
          <6>3. (e * d) * b < (c * f) * b
            BY <5>3, <6>1, <6>2, Z3
          <6>. QED  BY <5>3, <6>3, Z3
        <5>. QED  BY <5>2, <5>5 DEF Below
      <4>. QED  BY <1>1, <2>0, <3>4, <4>1
    <3>. QED  BY <3>6, <3>7
  <2>. QED  BY <2>0, <2>1, <2>2
<1>3. bad = {}
  BY <1>2, LeastExists
<1>4. Top(hi)
  <2>1. hi \in Nat /\ hi \in lo..hi
    OBVIOUS
  <2> HIDE DEF Top
  <2>. QED  BY <1>3, <2>1
<1>. QED  BY <1>4

\* The window of minute i, and what minute a puts into it.
Start(split, i) == IF split + 1 >= i - 59 THEN split + 1 ELSE i - 59
Size(split, i) == i - Start(split, i) + 1
In(v, split, i, a) == IF a \in Start(split, i)..i THEN v[a] ELSE 0

\* The score of a value c in a window of w minutes, of which two are out of line.
ScoreAmong(w, c, p, q) ==
  LET spread == w * (p * p + q * q) - (p + q) * (p + q)
  IN  IF w < 5 \/ spread = 0 THEN [num |-> 0, den |-> 1]
      ELSE [num |-> (w * c - (p + q)) * (w * c - (p + q)) * (w - 1), den |-> w * spread]

\* A series of small numbers with values other than 0 at two minutes at most: the
\* score of a minute says only which of the two its window has.
LEMMA WindowScore ==
  ASSUME NEW v \in Seq({0, 1, 2}), NEW split \in Nat, NEW i \in (split + 1)..Len(v),
         NEW a \in 1..Len(v), NEW b \in 1..Len(v), a # b,
         \A j \in 1..Len(v) : j \notin {a, b} => v[j] = 0
  PROVE  ZSquared(v, split, i) =
           ScoreAmong(Size(split, i), v[i], In(v, split, i, a), In(v, split, i, b))
<1>0. PICK from, w, p, q :
        /\ from = (IF split + 1 >= i - 59 THEN split + 1 ELSE i - 59) /\ from = Start(split, i)
        /\ w = i - from + 1 /\ w = Size(split, i)
        /\ p = (IF a \in from..i THEN v[a] ELSE 0) /\ p = In(v, split, i, a)
        /\ q = (IF b \in from..i THEN v[b] ELSE 0) /\ q = In(v, split, i, b)
  BY Zenon DEF Start, Size, In
<1>1. Max({split + 1, i - Window + 1}) = from
  <2>1. split + 1 \in Int /\ i - Window + 1 \in Int /\ i - Window + 1 = i - 59
    BY DEF Window
  <2>. QED  BY <1>0, <2>1, MaxOfTwo
<1>2. SumOver(v, from..i) = p + q /\ SquaresOver(v, from..i) = p * p + q * q
  <2>1. from \in Int /\ i \in Int /\ from >= 1
    BY <1>0
  <2>2. PICK S : S = from..i
    OBVIOUS
  <2>3. IsFiniteSet(S)
    BY <2>1, <2>2, FS_Interval
  <2>4. \A j \in S : v[j] \in Int /\ (j \notin {a, b} => v[j] = 0)
    <3>1. \A j \in S : j \in 1..Len(v)
      BY <2>1, <2>2
    <3>2. \A j \in 1..Len(v) : v[j] \in Int
      OBVIOUS
    <3>. QED  BY <3>1, <3>2
  <2>5. /\ SumOver(v, S) = (IF a \in S THEN v[a] ELSE 0) + (IF b \in S THEN v[b] ELSE 0)
        /\ SquaresOver(v, S)
             = (IF a \in S THEN v[a] * v[a] ELSE 0) + (IF b \in S THEN v[b] * v[b] ELSE 0)
    BY <2>3, <2>4, WindowSums
  <2>6. p = (IF a \in S THEN v[a] ELSE 0) /\ q = (IF b \in S THEN v[b] ELSE 0)
    BY <1>0, <2>2
  <2>. QED  BY <2>2, <2>5, <2>6
<1>3. /\ MapThenSumSet(LAMBDA j : v[j], from..i) = p + q
      /\ MapThenSumSet(LAMBDA j : v[j] * v[j], from..i) = p * p + q * q
  BY <1>2 DEF SumOver, SquaresOver
<1>4. ZSquared(v, split, i) = ScoreAmong(w, v[i], p, q)
  BY <1>0, <1>1, <1>3, Zenon DEF ZSquared, ScoreAmong
<1>. QED  BY <1>0, <1>4

\* A series of at least 21 minutes that ends in a spike: the last minute is the
\* furthest out, and of those before it at most one, e, is out of line at all.
Spike(v, e) ==
  /\ v \in Seq({0, 1, 2}) /\ Len(v) >= 21
  /\ e \in 1..(Len(v) - 1)
  /\ \A i \in 1..(Len(v) - 1) : v[i] < v[Len(v)] /\ (i # e => v[i] = 0)

\* The square of the spike's z-score, of which w minutes are in the window, c is the
\* value and p that of the earlier minute, if the window has it.
SpikeScore(w, c, p) ==
  [num |-> (w * c - (p + c)) * (w * c - (p + c)) * (w - 1),
   den |-> w * (w * (p * p + c * c) - (p + c) * (p + c))]

\* What the score of another minute can be, with at most w minutes in its window.
OtherScores(w) ==
  {[num |-> 0, den |-> 1]}
    \union {[num |-> (u - 1) * (u - 1) * (u - 1), den |-> u * (u - 1)] : u \in 5..w}
    \union {[num |-> u - 1, den |-> u * (u - 1)] : u \in 5..w}

\* Windows only grow, up to an hour.
LEMMA WindowSizes ==
  ASSUME NEW split \in Nat, NEW n \in Nat, NEW k \in Nat, split < k, k <= n
  PROVE  /\ Size(split, k) \in Nat /\ Size(split, k) <= Size(split, n)
         /\ split + 5 <= k => Size(split, k) \in 5..60
         /\ k \in Start(split, k)..k /\ (k < n => n \notin Start(split, k)..k)
BY DEF Size, Start

\* The scores of a series with a spike are those two kinds.
LEMMA SpikeScores ==
  ASSUME NEW v, NEW e, Spike(v, e), NEW split \in Nat, split <= Len(v) - 5
  PROVE  \E w \in 5..60, c \in {1, 2}, p \in {0, 1} :
           /\ p < c
           /\ ZSquared(v, split, Len(v)) = SpikeScore(w, c, p)
           /\ \A k \in (split + 1)..(Len(v) - 1) : ZSquared(v, split, k) \in OtherScores(w)
<1> DEFINE n == Len(v)
<1>1. /\ n \in Nat /\ n >= 21 /\ v \in Seq({0, 1, 2}) /\ e \in 1..(n - 1)
      /\ \A k \in 1..n : v[k] \in {0, 1, 2}
      /\ \A k \in 1..(n - 1) : v[k] < v[n] /\ (k # e => v[k] = 0)
  BY DEF Spike
<1>2. /\ v[n] \in {1, 2} /\ v[e] \in {0, 1} /\ v[e] < v[n] /\ e # n
      /\ \A k \in 1..n : k \notin {e, n} => v[k] = 0
  <2>1. n \in 1..n /\ e \in 1..n /\ \A k \in 1..n : k # n => k \in 1..(n - 1)
    BY <1>1
  <2>. QED  BY <1>1, <2>1
<1>3. PICK w, c, p : w = Size(split, n) /\ c = v[n] /\ p = In(v, split, n, e)
  OBVIOUS
<1>4. w \in 5..60 /\ c \in {1, 2} /\ p \in {0, 1} /\ p < c
  <2>1. w \in 5..60
    <3>1. PICK l : l = n
      OBVIOUS
    <3>2. l \in Nat /\ split < l /\ split + 5 <= l /\ l <= l
      BY <1>1, <3>1
    <3>3. Size(split, l) \in 5..60
      BY <3>2, WindowSizes
    <3>4. w = Size(split, l)
      BY <1>3, <3>1
    <3>. QED  BY <3>3, <3>4, Zenon
  <2>2. c = v[n] /\ (p = v[e] \/ p = 0)
    BY <1>3 DEF In
  <2> HIDE DEF n
  <2>. QED  BY <1>2, <2>1, <2>2
<1>5. ZSquared(v, split, n) = SpikeScore(w, c, p)
  <2>1. PICK spread : spread = w * (p * p + c * c) - (p + c) * (p + c)
    OBVIOUS
  <2>2. n \in (split + 1)..n /\ e \in 1..n /\ n \in 1..n
    BY <1>1
  <2>3. In(v, split, n, n) = c
    BY <1>1, <1>3 DEF In, Start
  <2>4. ZSquared(v, split, n) = ScoreAmong(w, c, p, c)
    BY <1>1, <1>2, <1>3, <2>2, <2>3, WindowScore
  <2>5. ~(w < 5) /\ spread > 0
    <3>1. spread = w * (p * p + c * c) - (p + c) * (p + c) /\ w \in Int /\ w >= 5
      BY <1>4, <2>1
    <3>. QED  BY <1>4, <3>1
  <2>6. ScoreAmong(w, c, p, c) =
          IF w < 5 \/ spread = 0 THEN [num |-> 0, den |-> 1]
          ELSE [num |-> (w * c - (p + c)) * (w * c - (p + c)) * (w - 1), den |-> w * spread]
    BY <2>1, Zenon DEF ScoreAmong
  <2>7. ScoreAmong(w, c, p, c) =
          [num |-> (w * c - (p + c)) * (w * c - (p + c)) * (w - 1), den |-> w * spread]
    BY <2>5, <2>6
  <2>. QED  BY <2>1, <2>4, <2>7, Zenon DEF SpikeScore
<1>6. ASSUME NEW k \in (split + 1)..(n - 1) PROVE ZSquared(v, split, k) \in OtherScores(w)
  <2>1. PICK u, q : u = Size(split, k) /\ q = In(v, split, k, e)
    OBVIOUS
  <2>2. k \in (split + 1)..n /\ k \in 1..n /\ e \in 1..n /\ n \in 1..n
    BY <1>1
  <2>3. u \in Nat /\ u <= w /\ k \in Start(split, k)..k /\ n \notin Start(split, k)..k
    <3>1. PICK l : l = n
      OBVIOUS
    <3>2. l \in Nat /\ k \in Nat /\ split < k /\ k <= l /\ k < l
      BY <1>1, <3>1
    <3>3. Size(split, k) \in Nat /\ Size(split, k) <= Size(split, l)
          /\ k \in Start(split, k)..k /\ l \notin Start(split, k)..k
      BY <3>2, WindowSizes
    <3>4. w = Size(split, l) /\ u = Size(split, k)
      BY <1>3, <2>1, <3>1
    <3>. QED  BY <3>1, <3>3, <3>4, Zenon
  <2>4. q \in {0, 1} /\ (v[k] # 0 => q = 1 /\ v[k] = 1)
    <3>1. v[k] # 0 => k = e
      BY <1>1
    <3>. QED  BY <1>2, <2>1, <2>3, <3>1 DEF In
  <2>5. v[k] \in {0, 1}
    BY <2>4
  <2>6. In(v, split, k, n) = 0
    BY <2>3 DEF In
  <2>7. ZSquared(v, split, k) = ScoreAmong(u, v[k], q, 0)
    BY <1>1, <1>2, <2>1, <2>2, <2>6, WindowScore
  <2>8. PICK spread : spread = u * (q * q + 0 * 0) - (q + 0) * (q + 0)
    OBVIOUS
  <2>9. ZSquared(v, split, k) =
          IF u < 5 \/ spread = 0 THEN [num |-> 0, den |-> 1]
          ELSE [num |-> (u * v[k] - (q + 0)) * (u * v[k] - (q + 0)) * (u - 1), den |-> u * spread]
    BY <2>7, <2>8, Zenon DEF ScoreAmong
  <2>10. CASE u < 5 \/ spread = 0
    BY <2>9, <2>10 DEF OtherScores
  <2>11. CASE ~(u < 5) /\ spread # 0
    <3>1. q = 1 /\ spread = u - 1
      BY <2>3, <2>4, <2>8, <2>11
    <3>2. u \in 5..w
      BY <1>4, <2>3, <2>11
    <3>3. CASE v[k] = 1
      <4>1. (u * v[k] - (q + 0)) * (u * v[k] - (q + 0)) * (u - 1) = (u - 1) * (u - 1) * (u - 1)
        BY <2>3, <3>1, <3>3
      <4>. QED  BY <2>9, <2>11, <3>1, <3>2, <4>1 DEF OtherScores
    <3>4. CASE v[k] = 0
      <4>1. (u * v[k] - (q + 0)) * (u * v[k] - (q + 0)) * (u - 1) = u - 1
        BY <2>3, <3>1, <3>4
      <4>. QED  BY <2>9, <2>11, <3>1, <3>2, <4>1 DEF OtherScores
    <3>. QED  BY <2>5, <3>3, <3>4
  <2>. QED  BY <2>10, <2>11
<1>. QED  BY <1>4, <1>5, <1>6

\* A score s that is not 0 and flagged beside r, whichever r is.
FlaggedBeside(s, r) ==
  /\ s.num \in Nat \ {0} /\ s.den \in Nat \ {0}
  /\ r.num \in Nat /\ r.den \in Nat \ {0}
  /\ 100 * s.num * r.den > 8 * 8 * r.num * s.den

\* The spike's z-score is more than four fifths of any other, and of its own.
LEMMA SpikeReaches ==
  ASSUME NEW w \in 5..60, NEW c \in {1, 2}, NEW p \in {0, 1}, p < c,
         NEW r \in OtherScores(w) \union {SpikeScore(w, c, p)}
  PROVE  FlaggedBeside(SpikeScore(w, c, p), r)
<1> USE DEF FlaggedBeside
<1>1. PICK num, den, d, s : /\ s = w * c - (p + c) /\ num = s * s * (w - 1)
                            /\ d = w * (p * p + c * c) - (p + c) * (p + c) /\ den = w * d
  OBVIOUS
<1>2. SpikeScore(w, c, p) = [num |-> num, den |-> den]
  BY <1>1, Zenon DEF SpikeScore
<1>3. w \in Int /\ w >= 5
  OBVIOUS
<1>4. /\ s \in Int /\ s >= 1 /\ d \in Int /\ d >= 1 /\ 100 * (s * s) > 64 * ((w - 1) * d)
  <2>1. CASE p = 0 /\ c = 1
    <3>1. s = w - 1 /\ d = w - 1
      BY <1>1, <1>3, <2>1
    <3>2. s * s >= 1
      BY <1>3, <3>1, Z3
    <3>. QED  BY <1>3, <3>1, <3>2
  <2>2. CASE p = 0 /\ c = 2
    <3>1. s = 2 * (w - 1) /\ d = 4 * (w - 1)
      BY <1>1, <1>3, <2>2
    <3>2. PICK t : t = w - 1
      OBVIOUS
    <3>3. t \in Int /\ t >= 4 /\ t * t >= 1
      BY <1>3, <3>2, Z3
    <3>. QED  BY <1>3, <3>1, <3>2, <3>3, Z3
  <2>3. CASE p = 1 /\ c = 2
    <3>1. s = 2 * w - 3 /\ d = 5 * w - 9
      BY <1>1, <1>3, <2>3
    <3>2. 100 * (s * s) - 64 * ((w - 1) * d) = 80 * (w * w) - 304 * w + 324
      BY <1>3, <3>1, Z3
    <3>3. w * w >= 5 * w
      BY <1>3, Z3
    <3>. QED  BY <1>3, <3>1, <3>2, <3>3, Z3
  <2>. QED  BY <2>1, <2>2, <2>3
<1>5. num \in Nat \ {0} /\ den \in Nat \ {0}
  <2>1. s * s >= 1
    BY <1>4, Z3
  <2>2. num >= 1 /\ den >= 1
    BY <1>1, <1>3, <1>4, <2>1, Z3
  <2>. QED  BY <1>1, <1>3, <1>4, <2>2
<1>6. CASE r = [num |-> num, den |-> den]
  <2>1. 100 * num * den > 8 * 8 * num * den
    BY <1>5, Z3
  <2>. QED  BY <1>2, <1>5, <1>6, <2>1
<1>7. CASE r = [num |-> 0, den |-> 1]
  BY <1>2, <1>5, <1>7
<1>8. ASSUME NEW u \in 5..w, NEW m, m = u - 1 \/ m = (u - 1) * (u - 1) * (u - 1),
             r = [num |-> m, den |-> u * (u - 1)]
      PROVE  r.num \in Nat /\ r.den \in Nat \ {0} /\ 100 * num * r.den > 8 * 8 * r.num * den
  <2>1. PICK b : b = u - 1
    OBVIOUS
  <2>2. b \in Int /\ b >= 4 /\ u = b + 1 /\ b <= w - 1
    BY <2>1
  <2>3. PICK a : a = w - 1
    OBVIOUS
  <2>4. a \in Int /\ a >= b /\ w = a + 1
    BY <2>2, <2>3
  <2>5. m \in Nat /\ m <= b * b * b
    <3>1. b * b >= 1
      BY <2>2, Z3
    <3>2. b * b * b >= b
      BY <2>2, <3>1, Z3
    <3>3. m = b \/ m = b * b * b
      BY <1>8, <2>1
    <3>. QED  BY <2>2, <3>2, <3>3
  <2>6. u * b \in Nat \ {0}
    BY <2>2, Z3
  <2>7. 100 * num * (u * b) > 64 * (b * b * b) * den
    <3>1. b * b * w <= a * a * u
      <4>1. a * a * u - b * b * w = (a - b) * (a * b + a + b)
        BY <2>2, <2>4, Z3
      <4>2. a * b >= 0
        BY <2>2, <2>4, Z3
      <4>3. (a - b) * (a * b + a + b) >= 0
        <5>1. PICK f, g : f = a - b /\ g = a * b + a + b
          OBVIOUS
        <5>2. f \in Nat /\ g \in Nat
          BY <2>2, <2>4, <4>2, <5>1
        <5>3. f * g >= 0
          BY <5>2, Z3
        <5>. QED  BY <5>1, <5>3
      <4>. QED  BY <2>2, <2>4, <4>1, <4>3
    <3>2. PICK i, j : i = s * s /\ j = a * d
      OBVIOUS
    <3>3. i \in Int /\ j \in Int /\ j >= 1 /\ 100 * i > 64 * j
      <4>1. a * d >= 1
        BY <1>4, <2>2, <2>4, Z3
      <4>. QED  BY <1>4, <2>3, <2>4, <3>2, <4>1
    <3>4. PICK h : h = a * u * b
      OBVIOUS
    <3>5. h \in Int /\ h >= 1
      <4>1. a * u \in Int /\ a * u >= 1
        BY <2>2, <2>4, Z3
      <4>. QED  BY <2>2, <3>4, <4>1, Z3
    <3>6. (100 * i) * h > (64 * j) * h
      BY <3>3, <3>5, Z3
    <3>7. 100 * num * (u * b) = (100 * i) * h
      BY <1>1, <1>3, <1>4, <2>2, <2>3, <2>4, <3>2, <3>4, Z3
    <3>8. (64 * j) * h = (a * a * u) * (64 * d * b)
      BY <1>4, <2>2, <2>4, <3>2, <3>4, Z3
    <3>9. 64 * (b * b * b) * den = (b * b * w) * (64 * d * b)
      BY <1>1, <1>3, <1>4, <2>2, Z3
    <3>10. (b * b * w) * (64 * d * b) <= (a * a * u) * (64 * d * b)
      <4>1. PICK f, g, l : f = b * b * w /\ g = a * a * u /\ l = 64 * d * b
        OBVIOUS
      <4>2. f \in Int /\ g \in Int /\ l \in Int /\ l >= 0
        <5>1. d * b >= 0
          BY <1>4, <2>2, Z3
        <5>. QED  BY <1>4, <2>2, <2>4, <4>1, <5>1
      <4>3. f * l <= g * l
        BY <3>1, <4>1, <4>2, Z3
      <4>. QED  BY <4>1, <4>3
    <3>11. /\ 100 * num * (u * b) \in Int /\ 64 * (b * b * b) * den \in Int
           /\ (a * a * u) * (64 * d * b) \in Int
      BY <1>4, <1>5, <2>2, <2>4
    <3>. QED  BY <3>6, <3>7, <3>8, <3>9, <3>10, <3>11
  <2>8. 64 * m * den <= 64 * (b * b * b) * den
    <3>1. PICK f : f = b * b * b
      OBVIOUS
    <3>2. f \in Int /\ m <= f
      BY <2>2, <2>5, <3>1
    <3>3. 64 * m * den <= 64 * f * den
      BY <1>5, <2>5, <3>2, Z3
    <3>. QED  BY <3>1, <3>3
  <2>9. 100 * num * (u * b) > 64 * m * den
    <3>1. b * b * b \in Int
      BY <2>2
    <3>. QED  BY <1>5, <2>5, <2>6, <2>7, <2>8, <3>1
  <2>. QED  BY <1>8, <2>1, <2>5, <2>6, <2>9
<1>9. CASE r \in OtherScores(w)
  <2>1. CASE r # [num |-> 0, den |-> 1]
    <3>1. \E u \in 5..w : \/ r = [num |-> u - 1, den |-> u * (u - 1)]
                        \/ r = [num |-> (u - 1) * (u - 1) * (u - 1), den |-> u * (u - 1)]
      BY <1>9, <2>1 DEF OtherScores
    <3>. QED  BY <1>2, <1>5, <1>8, <3>1
  <2>. QED  BY <1>7, <2>1
<1>. QED  BY <1>2, <1>6, <1>9

\* A spike is flagged by the z-score: the largest of the batch is not far above its own.
LEMMA ZScoreFlagsSpike ==
  ASSUME NEW v, NEW e, Spike(v, e), NEW split \in Nat, split <= Len(v) - 5
  PROVE  Len(v) \in ZScore(v, split, 8, "relative")
<1> DEFINE n == Len(v)
           z == [i \in (split + 1)..n |-> ZSquared(v, split, i)]
           largest == CHOOSE r \in {z[i] : i \in DOMAIN z} : \A i \in DOMAIN z : ~Below(r, z[i])
<1>1. n \in Nat /\ split + 1 \in Nat /\ split + 1 <= n /\ n \in (split + 1)..n
  BY DEF Spike
<1>2. PICK w \in 5..60, c \in {1, 2}, p \in {0, 1} :
        /\ p < c
        /\ ZSquared(v, split, n) = SpikeScore(w, c, p)
        /\ \A k \in (split + 1)..(n - 1) : ZSquared(v, split, k) \in OtherScores(w)
  BY SpikeScores
<1>3. \A k \in (split + 1)..n : z[k] \in OtherScores(w) \union {SpikeScore(w, c, p)}
  <2>1. \A k \in (split + 1)..n : k = n \/ k \in (split + 1)..(n - 1)
    BY <1>1
  <2>. QED  BY <1>2, <2>1
<1>4. z[n] = SpikeScore(w, c, p) /\ DOMAIN z = (split + 1)..n
  BY <1>1, <1>2
<1> HIDE DEF z
<1>5. \A k \in (split + 1)..n :
        /\ z[k].num \in Nat /\ z[k].den \in Nat \ {0}
        /\ 100 * z[n].num * z[k].den > 8 * 8 * z[k].num * z[n].den
  <2>1. \A r \in OtherScores(w) \union {SpikeScore(w, c, p)} : FlaggedBeside(SpikeScore(w, c, p), r)
    BY <1>2, SpikeReaches
  <2>2. \A k \in (split + 1)..n : FlaggedBeside(z[n], z[k])
    BY <1>3, <1>4, <2>1, Zenon
  <2>. QED  BY <2>2 DEF FlaggedBeside
<1>6. \E k \in (split + 1)..n : \A i \in (split + 1)..n : ~Below(z[k], z[i])
  BY <1>1, <1>5, LargestExists
<1>7. largest \in {z[i] : i \in DOMAIN z}
  BY <1>4, <1>6
<1>8. PICK k \in (split + 1)..n : largest = z[k]
  BY <1>4, <1>7
<1>9. ZScore(v, split, 8, "relative") =
        {i \in DOMAIN z :
           \/ 8 = 0
           \/ "relative" = "absolute" /\ 100 * z[i].num >= 8 * 8 * 36 * z[i].den
           \/ "relative" = "relative" /\ 100 * z[i].num * largest.den > 8 * 8 * largest.num * z[i].den}
  BY Zenon DEF ZScore, z
<1>10. 100 * z[n].num * largest.den > 8 * 8 * largest.num * z[n].den
  BY <1>5, <1>8
<1>. QED  BY <1>1, <1>4, <1>9, <1>10, Zenon

-----------------------------------------------------------------------------
(* Verdicts on arbitrary series *)

\* How many members of S are at most i.
UpTo(S, i) == Cardinality({j \in S : j <= i})

\* A finite set of integers that is not empty has a greatest and a least member.
LEMMA BoundsExist ==
  ASSUME NEW S \in SUBSET Int, IsFiniteSet(S), S # {}
  PROVE  /\ \E i \in S : \A j \in S : i >= j
         /\ \E i \in S : \A j \in S : i <= j
<1>1. ASSUME NEW i \in S
      PROVE  /\ IsFiniteSet({j \in S : j <= i})
             /\ UpTo(S, i) \in Nat /\ UpTo(S, i) <= Cardinality(S)
  BY FS_Subset, FS_CardinalityType DEF UpTo
<1>2. Cardinality(S) \in Nat
  BY FS_CardinalityType
<1>3. ASSUME NEW i \in S, NEW j \in S, i < j PROVE UpTo(S, i) < UpTo(S, j)
  <2>1. PICK I, J : I = {k \in S : k <= i} /\ J = {k \in S : k <= j}
    OBVIOUS
  <2>2. I \subseteq J /\ j \in J /\ j \notin I
    <3>1. i \in Int /\ j \in Int /\ j <= j /\ ~(j <= i)
      BY <1>3
    <3>2. \A k \in S : k <= i => k <= j
      <4>1. ASSUME NEW k \in S, k <= i PROVE k <= j
        <5>1. k \in Int
          OBVIOUS
        <5>. QED  BY <1>3, <3>1, <4>1, <5>1
      <4>. QED  BY <4>1
    <3>. QED  BY <2>1, <3>1, <3>2, Zenon
  <2>3. IsFiniteSet(J) /\ Cardinality(J) \in Nat /\ Cardinality(I) \in Nat
    BY <1>1, <2>1 DEF UpTo
  <2>4. Cardinality(I) < Cardinality(J)
    <3>1. Cardinality(I) <= Cardinality(J) /\ (Cardinality(I) = Cardinality(J) => I = J)
      BY <2>2, <2>3, FS_Subset, Zenon
    <3>2. I # J
      BY <2>2
    <3>3. PICK a, b : a = Cardinality(I) /\ b = Cardinality(J)
      OBVIOUS
    <3>4. a \in Nat /\ b \in Nat /\ a <= b /\ a # b
      BY <2>3, <3>1, <3>2, <3>3, Zenon
    <3>5. a < b
      BY <3>4
    <3>. QED  BY <3>3, <3>5, Zenon
  <2>. QED  BY <2>1, <2>4, Zenon DEF UpTo
<1>4. \E i \in S : \A j \in S : i <= j
  <2>1. PICK R : R = {UpTo(S, i) : i \in S}
    OBVIOUS
  <2>2. R \in SUBSET Nat /\ R # {}
    BY <1>1, <2>1
  <2>3. PICK r \in R : \A s \in R : r <= s
    BY <2>2, LeastExists
  <2>4. PICK i \in S : r = UpTo(S, i)
    BY <2>1
  <2>5. ASSUME NEW j \in S PROVE i <= j
    <3>1. PICK a, b : a = UpTo(S, i) /\ b = UpTo(S, j)
      OBVIOUS
    <3>2. a \in Nat /\ b \in Nat /\ a <= b
      BY <1>1, <2>1, <2>3, <2>4, <3>1, Zenon
    <3>3. ~(b < a)
      BY <3>2
    <3>4. ~(j < i)
      BY <1>3, <3>1, <3>3, Zenon
    <3>5. i \in Int /\ j \in Int
      OBVIOUS
    <3>. QED  BY <3>4, <3>5
  <2>. QED  BY <2>5
<1>5. \E i \in S : \A j \in S : i >= j
  <2>1. PICK c : c = Cardinality(S)
    OBVIOUS
  <2>2. PICK f : f = [i \in S |-> UpTo(S, i)]
    OBVIOUS
  <2>3. c \in Nat /\ \A i \in S : f[i] \in Nat /\ f[i] <= c /\ f[i] = UpTo(S, i)
    BY <1>1, <1>2, <2>1, <2>2, Zenon
  <2>4. PICK R : R = {c - f[i] : i \in S}
    OBVIOUS
  <2>5. R \in SUBSET Nat /\ R # {}
    <3>1. \A i \in S : c - f[i] \in Nat
      BY <2>3
    <3>. QED  BY <2>4, <3>1, Zenon
  <2>6. PICK r \in R : \A s \in R : r <= s
    BY <2>5, LeastExists, Zenon
  <2>7. PICK i \in S : r = c - f[i]
    BY <2>4
  <2>8. ASSUME NEW j \in S PROVE i >= j
    <3>1. c - f[i] <= c - f[j]
      BY <2>4, <2>6, <2>7, Zenon
    <3>2. ~(f[i] < f[j])
      BY <2>3, <3>1
    <3>3. ~(i < j)
      BY <1>3, <2>3, <3>2, Zenon
    <3>4. i \in Int /\ j \in Int
      OBVIOUS
    <3>. QED  BY <3>3, <3>4
  <2>. QED  BY <2>8
<1>. QED  BY <1>4, <1>5

\* So Max and Min are what their names say.
LEMMA MaxMin ==
  ASSUME NEW S \in SUBSET Int, IsFiniteSet(S), S # {}
  PROVE  /\ Max(S) \in S /\ \A j \in S : Max(S) >= j
         /\ Min(S) \in S /\ \A j \in S : Min(S) <= j
BY BoundsExist DEF Max, Min

\* Cauchy and Schwarz: n times the sum of squares is at least the square of the sum,
\* for each of the subsets that the fold goes through.
LEMMA CauchySchwarz ==
  ASSUME NEW S, IsFiniteSet(S), NEW v, \A i \in S : v[i] \in Int,
         NEW f, IsSum(v, f, S), NEW h, IsSum([i \in S |-> v[i] * v[i]], h, S)
  PROVE  \A s \in SUBSET S : /\ f[s] \in Int /\ h[s] \in Int /\ h[s] >= 0
                             /\ Cardinality(s) * h[s] >= f[s] * f[s]
<1> DEFINE q == [i \in S |-> v[i] * v[i]]
<1>3. IsSum(v, f, S)
  OBVIOUS
<1>4. IsSum(q, h, S)
  OBVIOUS
<1>5. \A i \in S : q[i] = v[i] * v[i]
  OBVIOUS
<1> HIDE DEF q
<1> DEFINE Good(s) == /\ f[s] \in Int /\ h[s] \in Int /\ h[s] >= 0
                      /\ Cardinality(s) * h[s] >= f[s] * f[s]
           bad == {k \in Nat : \E s \in SUBSET S : Cardinality(s) = k /\ ~Good(s)}
<1>6. \A s \in SUBSET S : IsFiniteSet(s) /\ Cardinality(s) \in Nat
  BY FS_Subset, FS_CardinalityType
<1>7. ASSUME NEW k \in bad, \A j \in bad : k <= j PROVE FALSE
  <2>1. PICK s \in SUBSET S : Cardinality(s) = k /\ ~Good(s)
    OBVIOUS
  <2>2. f[s] = AddUp(v, f, s) /\ h[s] = AddUp(q, h, s)
    BY <1>3, <1>4 DEF IsSum
  <2>3. CASE s = {}
    <3>1. f[s] = 0 /\ h[s] = 0 /\ Cardinality(s) = 0
      BY <2>2, <2>3, FS_EmptySet DEF AddUp
    <3>. QED  BY <2>1, <3>1
  <2>4. CASE s # {}
    <3>1. PICK c, t : c = Picked(s) /\ t = s \ {c}
      OBVIOUS
    <3>2. c \in s /\ t \in SUBSET S /\ Cardinality(t) = k - 1 /\ k - 1 \in Nat
      <4>1. c \in s /\ t \in SUBSET S /\ Cardinality(s) = k
        BY <2>1, <2>4, <3>1 DEF Picked
      <4>2. Cardinality(t) = k - 1 /\ k - 1 \in Nat
        <5> HIDE DEF bad, Good
        <5>1. IsFiniteSet(s) /\ IsFiniteSet(t)
          BY <1>6, <4>1
        <5>2. Cardinality(t) = Cardinality(s) - 1
          BY <3>1, <4>1, <5>1, FS_RemoveElement
        <5>3. Cardinality(t) \in Nat
          BY <5>1, FS_CardinalityType
        <5>. QED  BY <4>1, <5>2, <5>3
      <4>. QED  BY <4>1, <4>2
    <3>3. Good(t)
      <4>1. k - 1 \notin bad
        <5>1. k \in Nat /\ ~(k <= k - 1)
          OBVIOUS
        <5> HIDE DEF bad
        <5>. QED  BY <1>7, <5>1
      <4>. QED  BY <3>2, <4>1
    <3>4. PICK a, m, p, r : a = v[c] /\ m = k - 1 /\ p = f[t] /\ r = h[t]
      OBVIOUS
    <3>5. f[s] = a + p /\ h[s] = a * a + r /\ Cardinality(s) = m + 1
      <4>1. f[s] = v[c] + f[t]
        BY <2>2, <2>4, <3>1 DEF AddUp
      <4>2. h[s] = q[c] + h[t]
        BY <2>2, <2>4, <3>1 DEF AddUp
      <4>3. q[c] = v[c] * v[c]
        BY <1>5, <3>2
      <4>. QED  BY <2>1, <3>2, <3>4, <4>1, <4>2, <4>3
    <3>6. a \in Int /\ m \in Nat /\ p \in Int /\ r \in Int /\ r >= 0 /\ m * r >= p * p
      BY <3>2, <3>3, <3>4
    <3> HIDE DEF bad, Good
    <3>7. (m + 1) * (a * a + r) >= (a + p) * (a + p) /\ a * a + r >= 0
      <4>1. a * a >= 0 /\ p * p >= 0
        BY <3>6, Z3
      <4>2. CASE m = 0
        <5>1. p = 0
          <6>1. p * p <= 0
            BY <3>6, <4>2, Z3
          <6>. QED  BY <3>6, <6>1, Z3
        <5>. QED  BY <3>6, <4>1, <4>2, <5>1, Z3
      <4>3. CASE m > 0
        <5>1. r + m * (a * a) >= 2 * (a * p)
          <6>1. PICK b : b = m * a
            OBVIOUS
          <6>2. b \in Int /\ (p - b) * (p - b) >= 0
            BY <3>6, <6>1, Z3
          <6>3. p * p + b * b >= 2 * (b * p)
            BY <3>6, <6>2, Z3
          <6>4. b * b = m * (m * (a * a)) /\ b * p = m * (a * p)
            BY <3>6, <6>1, Z3
          <6>5. PICK d, e : d = r + m * (a * a) /\ e = 2 * (a * p)
            OBVIOUS
          <6>6. d \in Int /\ e \in Int /\ m * d >= m * e
            <7>1. m * d = m * r + m * (m * (a * a)) /\ m * e = 2 * (m * (a * p))
              BY <3>6, <6>5, Z3
            <7>. QED  BY <3>6, <6>3, <6>4, <6>5, <7>1, Z3
          <6>7. d >= e
            BY <3>6, <4>3, <6>6, Z3
          <6>. QED  BY <6>5, <6>7
        <5>2. (m + 1) * (a * a + r) - (a + p) * (a + p) = (r + m * (a * a) - 2 * (a * p)) + (m * r - p * p)
          BY <3>6, Z3
        <5>. QED  BY <3>6, <4>1, <5>1, <5>2, Z3
      <4>. QED  BY <3>6, <4>2, <4>3
    <3>8. Good(s)
      <4>1. f[s] \in Int /\ h[s] \in Int /\ h[s] >= 0 /\ Cardinality(s) * h[s] >= f[s] * f[s]
        BY <3>5, <3>6, <3>7
      <4>. QED  BY <4>1 DEF Good
    <3>. QED  BY <2>1, <3>8
  <2>. QED  BY <2>3, <2>4
<1>8. bad = {}
  BY <1>7, LeastExists
<1>9. \A s \in SUBSET S : Good(s)
  BY <1>6, <1>8
<1>. QED  BY <1>9

\* So it is of the sums that the z-score is made of.
LEMMA SumsOfSquares ==
  ASSUME NEW S, IsFiniteSet(S), NEW v, \A i \in S : v[i] \in Int
  PROVE  \E f, h : /\ IsSum(v, f, S) /\ IsSum([i \in S |-> v[i] * v[i]], h, S)
                  /\ SumOver(v, S) = f[S] /\ SquaresOver(v, S) = h[S]
<1>1. PICK q : q = [i \in S |-> v[i] * v[i]]
  OBVIOUS
<1>2. PICK f : f = (CHOOSE g : IsSum(v, g, S))
  OBVIOUS
<1>3. PICK h : h = (CHOOSE g : IsSum(q, g, S))
  OBVIOUS
<1>4. IsSum(v, f, S) /\ SumOver(v, S) = f[S]
  <2>1. SumOver(v, S) = (CHOOSE g : IsSum(v, g, S))[S]
    BY DEF SumOver, MapThenSumSet, MapThenFoldSet, IsSum, AddUp, Picked
  <2>. QED  BY <1>2, <2>1, SumExists
<1>5. IsSum(q, h, S)
  BY <1>3, SumExists
<1>6. SquaresOver(v, S) = h[S]
  BY <1>1, <1>3, SquaresUnfold
<1>. QED  BY <1>1, <1>4, <1>5, <1>6

\* Hence a spread is not negative.
LEMMA SpreadBound ==
  ASSUME NEW S, IsFiniteSet(S), NEW v, \A i \in S : v[i] \in Int
  PROVE  /\ SumOver(v, S) \in Int /\ SquaresOver(v, S) \in Int
         /\ Cardinality(S) * SquaresOver(v, S) >= SumOver(v, S) * SumOver(v, S)
<1>1. PICK f, h : /\ IsSum(v, f, S) /\ IsSum([i \in S |-> v[i] * v[i]], h, S)
                  /\ SumOver(v, S) = f[S] /\ SquaresOver(v, S) = h[S]
  BY SumsOfSquares
<1>2. \A s \in SUBSET S : f[s] \in Int /\ h[s] \in Int /\ Cardinality(s) * h[s] >= f[s] * f[s]
  BY <1>1, CauchySchwarz
<1>. QED  BY <1>1, <1>2

\* A product of natural numbers is one.
LEMMA ProductIsNat == ASSUME NEW n \in Nat, NEW k \in Nat PROVE n * k \in Nat
BY Z3

\* A square is a natural number.
LEMMA SquareIsNat == ASSUME NEW n \in Int PROVE n * n \in Nat
BY Z3

\* Multiplying by a natural number keeps the order of two integers.
LEMMA TimesKeepsOrder ==
  ASSUME NEW n \in Nat, NEW p \in Int, NEW q \in Int, p <= q
  PROVE  n * p <= n * q
BY Z3

\* A window begins in the scored part and ends with its minute.
LEMMA WindowStart ==
  ASSUME NEW split \in Nat, NEW n \in Nat, NEW i \in (split + 1)..n,
         NEW from, from = Max({split + 1, i - Window + 1})
  PROVE  /\ from \in Nat /\ split + 1 <= from /\ from <= i
         /\ i \in Nat /\ i - from + 1 \in Nat
<1>1. PICK j, k : j = split + 1 /\ k = i - Window + 1
  OBVIOUS
<1>2. i \in Nat /\ j \in Nat /\ k \in Int /\ j <= i /\ k <= i
  BY <1>1 DEF Window
<1>3. from = IF j >= k THEN j ELSE k
  BY <1>1, <1>2, MaxOfTwo
<1>4. from \in Nat /\ j <= from /\ from <= i
  BY <1>2, <1>3
<1>. QED  BY <1>1, <1>2, <1>4

\* Every z-score is a fraction that is not negative.
LEMMA ZScoresTyped ==
  ASSUME NEW v \in Seq(Int), NEW split \in Nat, NEW i \in (split + 1)..Len(v)
  PROVE  ZSquared(v, split, i).num \in Nat /\ ZSquared(v, split, i).den \in Nat \ {0}
<1>1. PICK from, w, sum, squares, spread :
        /\ from = Max({split + 1, i - Window + 1}) /\ w = i - from + 1
        /\ sum = SumOver(v, from..i) /\ squares = SquaresOver(v, from..i)
        /\ spread = w * squares - sum * sum
  OBVIOUS
<1>2. from \in Nat /\ split + 1 <= from /\ from <= i /\ w \in Nat /\ i \in Nat
  <2>1. Len(v) \in Nat
    OBVIOUS
  <2>. QED  BY <1>1, <2>1, WindowStart
<1>3. sum \in Int /\ squares \in Int /\ w * squares >= sum * sum
  <2>1. PICK S : S = from..i
    OBVIOUS
  <2>2. IsFiniteSet(S) /\ Cardinality(S) = w
    BY <1>1, <1>2, <2>1, FS_Interval
  <2>3. \A j \in S : v[j] \in Int
    <3>1. \A j \in S : j \in 1..Len(v)
      BY <1>2, <2>1
    <3>2. \A j \in 1..Len(v) : v[j] \in Int
      OBVIOUS
    <3>. QED  BY <3>1, <3>2
  <2>4. /\ SumOver(v, S) \in Int /\ SquaresOver(v, S) \in Int
        /\ Cardinality(S) * SquaresOver(v, S) >= SumOver(v, S) * SumOver(v, S)
    BY <2>2, <2>3, SpreadBound
  <2>. QED  BY <1>1, <2>1, <2>2, <2>4
<1>4. ZSquared(v, split, i) =
        IF w < 5 \/ spread = 0 THEN [num |-> 0, den |-> 1]
        ELSE [num |-> (w * v[i] - sum) * (w * v[i] - sum) * (w - 1), den |-> w * spread]
  BY <1>1, Zenon DEF ZSquared, SumOver, SquaresOver
<1>5. CASE w < 5 \/ spread = 0
  BY <1>4, <1>5
<1>6. CASE ~(w < 5 \/ spread = 0)
  <2>1. PICK c, t, m : c = v[i] /\ t = w * c - sum /\ m = t * t
    OBVIOUS
  <2>2. c \in Int
    <3>1. i \in 1..Len(v)
      BY <1>2
    <3>. QED  BY <2>1, <3>1
  <2>3. t \in Int /\ m \in Int /\ m >= 0
    <3>1. w * c \in Int
      BY <1>2, <2>2, Z3
    <3>2. t \in Int
      BY <1>3, <2>1, <3>1
    <3>. QED  BY <2>1, <3>2, SquareIsNat
  <2>4. PICK p : p = w * squares
    OBVIOUS
  <2>5. PICK q : q = sum * sum
    OBVIOUS
  <2>6. p \in Int /\ q \in Int /\ p >= q /\ spread = p - q
    <3>1. p \in Int /\ q \in Int
      <4>1. w * squares \in Int /\ sum * sum \in Int
        BY <1>2, <1>3, Z3
      <4>. QED  BY <2>4, <2>5, <4>1
    <3>. QED  BY <1>1, <1>3, <2>4, <2>5, <3>1, Zenon
  <2>7. spread \in Int /\ spread > 0 /\ w >= 5
    BY <1>2, <1>6, <2>6
  <2>8. w * spread \in Int /\ w * spread > 0 /\ m * (w - 1) >= 0 /\ m * (w - 1) \in Int
    BY <1>2, <2>3, <2>7, Z3
  <2>9. ZSquared(v, split, i) = [num |-> m * (w - 1), den |-> w * spread]
    BY <1>4, <1>6, <2>1, Zenon
  <2>10. PICK f, g : f = m * (w - 1) /\ g = w * spread
    OBVIOUS
  <2>11. f \in Nat /\ g \in Nat \ {0}
    BY <2>8, <2>10
  <2>. QED  BY <2>9, <2>10, <2>11
<1>. QED  BY <1>5, <1>6

\* The z-scores of a batch, and the minutes that z flags when top is its largest.
ZBatch(v, split) == [i \in (split + 1)..Len(v) |-> ZSquared(v, split, i)]
ZFlags(z, top, threshold, mode) ==
  {i \in DOMAIN z :
     \/ threshold = 0
     \/ mode = "absolute" /\ 100 * z[i].num >= threshold * threshold * 36 * z[i].den
     \/ mode = "relative" /\ 100 * z[i].num * top.den > threshold * threshold * top.num * z[i].den}

\* ZScore flags by these, in every mode and at every threshold.
LEMMA ZScoreByBatch ==
  ASSUME NEW v \in Seq(Int), NEW split \in Nat, split < Len(v)
  PROVE  \E k \in (split + 1)..Len(v) :
           /\ \A i \in (split + 1)..Len(v) : ~Below(ZBatch(v, split)[k], ZBatch(v, split)[i])
           /\ \A threshold, mode :
                ZScore(v, split, threshold, mode)
                  = ZFlags(ZBatch(v, split), ZBatch(v, split)[k], threshold, mode)
<1> DEFINE n == Len(v)
           z == [i \in (split + 1)..n |-> ZSquared(v, split, i)]
           largest == CHOOSE r \in {z[i] : i \in DOMAIN z} : \A i \in DOMAIN z : ~Below(r, z[i])
<1>1. n \in Nat /\ split + 1 \in Nat /\ split + 1 <= n /\ DOMAIN z = (split + 1)..n
  OBVIOUS
<1>2. \A i \in (split + 1)..n : z[i].num \in Nat /\ z[i].den \in Nat \ {0}
  BY ZScoresTyped
<1>3. z = ZBatch(v, split)
  BY DEF ZBatch
<1> HIDE DEF z
<1>4. \E k \in (split + 1)..n : \A i \in (split + 1)..n : ~Below(z[k], z[i])
  BY <1>1, <1>2, LargestExists
<1>5. /\ largest \in {z[i] : i \in DOMAIN z}
      /\ \A i \in DOMAIN z : ~Below(largest, z[i])
  BY <1>1, <1>4
<1>6. PICK k \in (split + 1)..n : largest = z[k]
  BY <1>1, <1>5
<1>7. ASSUME NEW threshold, NEW mode
      PROVE  ZScore(v, split, threshold, mode) = ZFlags(z, z[k], threshold, mode)
  <2>1. ZScore(v, split, threshold, mode) = ZFlags(z, largest, threshold, mode)
    BY Zenon DEF ZScore, ZFlags, z
  <2> HIDE DEF largest
  <2>. QED  BY <1>6, <2>1
<1> HIDE DEF largest
<1>. QED  BY <1>1, <1>3, <1>5, <1>6, <1>7

\* A higher threshold is a stricter test, for every score that is not negative.
LEMMA ZScoreStricter ==
  ASSUME NEW v \in Seq(Int), NEW split \in Nat, NEW lo \in Nat, NEW hi \in Nat, lo <= hi, NEW mode,
         split < Len(v)
  PROVE  ZScore(v, split, hi, mode) \subseteq ZScore(v, split, lo, mode)
<1>1. PICK z, n : z = ZBatch(v, split) /\ n = Len(v)
  OBVIOUS
<1>2. DOMAIN z = (split + 1)..n /\ \A i \in (split + 1)..n : z[i].num \in Nat /\ z[i].den \in Nat \ {0}
  BY <1>1, ZScoresTyped DEF ZBatch
<1>3. ASSUME NEW c \in Nat, NEW b \in Nat
      PROVE  /\ lo * lo * c * b <= hi * hi * c * b
             /\ lo * lo * c * b \in Int /\ hi * hi * c * b \in Int
  <2>1. PICK e, f, g : e = hi * hi /\ f = lo * lo /\ g = c * b
    OBVIOUS
  <2>2. e \in Nat /\ f \in Nat /\ g \in Nat /\ f <= e
    <3>1. PICK h : h = hi * lo
      OBVIOUS
    <3>2. f <= h /\ h <= e
      BY <2>1, <3>1, Z3
    <3>3. e \in Nat /\ f \in Nat /\ h \in Nat
      BY <2>1, <3>1, Z3
    <3>4. g \in Nat
      BY <2>1, ProductIsNat
    <3>. QED  BY <3>2, <3>3, <3>4
  <2>3. e * g >= f * g
    BY <2>2, Z3
  <2>4. hi * hi * c * b = e * g /\ lo * lo * c * b = f * g
    BY <2>1, Z3
  <2>5. e * g \in Int /\ f * g \in Int
    BY <2>2, Z3
  <2>. QED  BY <2>3, <2>4, <2>5
<1>4. PICK k \in (split + 1)..n : \A threshold :
        ZScore(v, split, threshold, mode) = ZFlags(z, z[k], threshold, mode)
  BY <1>1, ZScoreByBatch
<1>5. ASSUME NEW i \in DOMAIN z, i \in ZFlags(z, z[k], hi, mode)
      PROVE  i \in ZFlags(z, z[k], lo, mode)
  <2>1. PICK a, b, c, d : a = z[i].num /\ b = z[i].den /\ c = z[k].num /\ d = z[k].den
    OBVIOUS
  <2>2. a \in Nat /\ b \in Nat /\ c \in Nat /\ d \in Nat
    BY <1>2, <2>1
  <2>3. \/ hi = 0
        \/ mode = "absolute" /\ 100 * a >= hi * hi * 36 * b
        \/ mode = "relative" /\ 100 * a * d > hi * hi * c * b
    BY <1>5, <2>1 DEF ZFlags
  <2>4. \/ lo = 0
        \/ mode = "absolute" /\ 100 * a >= lo * lo * 36 * b
        \/ mode = "relative" /\ 100 * a * d > lo * lo * c * b
    <3>1. hi = 0 => lo = 0
      OBVIOUS
    <3>2. PICK e, f, o, p : /\ e = hi * hi * 36 * b /\ f = lo * lo * 36 * b
                            /\ o = hi * hi * c * b /\ p = lo * lo * c * b
      OBVIOUS
    <3>3. f <= e /\ f \in Int /\ e \in Int /\ p <= o /\ p \in Int /\ o \in Int
      <4>1. 36 \in Nat
        OBVIOUS
      <4>. QED  BY <1>3, <2>2, <3>2, <4>1
    <3>4. PICK q : q = 100 * a * d
      OBVIOUS
    <3>5. q \in Int
      BY <2>2, <3>4, Z3
    <3>6. 100 * a >= e => 100 * a >= f
      BY <2>2, <3>3
    <3>7. q > o => q > p
      BY <3>3, <3>5
    <3>. QED  BY <2>3, <3>1, <3>2, <3>4, <3>6, <3>7
  <2>. QED  BY <2>1, <2>4 DEF ZFlags
<1>6. ZFlags(z, z[k], hi, mode) \subseteq ZFlags(z, z[k], lo, mode)
  <2>1. ZFlags(z, z[k], hi, mode) \subseteq DOMAIN z
    BY DEF ZFlags
  <2>. QED  BY <1>5, <2>1
<1>. QED  BY <1>4, <1>6

\* What a function takes on a finite set is finite.
LEMMA ImageFinite ==
  ASSUME NEW S, IsFiniteSet(S), NEW v
  PROVE  IsFiniteSet({v[i] : i \in S})
<1>1. PICK f, T : f = [i \in S |-> v[i]] /\ T = {v[i] : i \in S}
  OBVIOUS
<1>2. f \in [S -> T] /\ \A t \in T : \E i \in S : f[i] = t
  BY <1>1
<1>3. f \in Surjection(S, T)
  BY <1>2 DEF Surjection
<1>4. IsFiniteSet(T)
  BY <1>3, FS_Surjection
<1>. QED  BY <1>1, <1>4

\* The order statistics that Percentile picks.
OrderOf(v, n, r) == CHOOSE u \in {v[i] : i \in 1..n} :
                      /\ Cardinality({i \in 1..n : v[i] < u}) <= r
                      /\ Cardinality({i \in 1..n : v[i] <= u}) > r

AllIntegers(v, n) == \A i \in 1..n : v[i] \in Int

\* u is the r-th of the first n values of v.
Ordered(v, n, r, u) ==
  /\ u \in Int
  /\ \E i \in 1..n : u = v[i]
  /\ Cardinality({i \in 1..n : v[i] < u}) <= r
  /\ Cardinality({i \in 1..n : v[i] <= u}) > r

\* They exist: the least value that more than r of the others do not exceed.
LEMMA OrderTyped ==
  ASSUME NEW n \in Nat, NEW r \in Nat, r < n, NEW v, AllIntegers(v, n)
  PROVE  Ordered(v, n, r, OrderOf(v, n, r))
<1>0. \A i \in 1..n : v[i] \in Int
  BY Zenon DEF AllIntegers
<1>1. PICK S : S = 1..n
  OBVIOUS
<1>2. PICK V : V = {v[i] : i \in S}
  OBVIOUS
<1>3. IsFiniteSet(S) /\ Cardinality(S) = n /\ S # {}
  <2>1. 1 \in 1..n /\ Cardinality(1..n) = n /\ IsFiniteSet(1..n)
    <3>1. Cardinality(1..n) = (IF 1 > n THEN 0 ELSE n - 1 + 1) /\ IsFiniteSet(1..n)
      BY FS_Interval
    <3>. QED  BY <3>1
  <2>. QED  BY <1>1, <2>1
<1>4. V \in SUBSET Int /\ IsFiniteSet(V) /\ V # {}
  <2>1. \A i \in S : v[i] \in Int
    BY <1>0, <1>1
  <2>2. IsFiniteSet({v[i] : i \in S})
    BY <1>3, ImageFinite
  <2>. QED  BY <1>2, <1>3, <2>1, <2>2
<1> DEFINE AtMost(u) == {i \in S : v[i] <= u}
           Under(u) == {i \in S : v[i] < u}
<1>5. \A u : /\ IsFiniteSet(AtMost(u)) /\ Cardinality(AtMost(u)) \in Nat
             /\ IsFiniteSet(Under(u)) /\ Cardinality(Under(u)) \in Nat
  BY <1>3, FS_Subset, FS_CardinalityType
<1>6. PICK P : P = {u \in V : Cardinality(AtMost(u)) > r}
  OBVIOUS
<1>7. P \in SUBSET Int /\ IsFiniteSet(P) /\ P # {}
  <2>1. PICK m \in V : \A u \in V : m >= u
    BY <1>4, BoundsExist
  <2>2. AtMost(m) = S
    BY <1>2, <1>4, <2>1
  <2>3. m \in P
    BY <1>3, <1>6, <2>1, <2>2
  <2>. QED  BY <1>4, <1>6, <2>3, FS_Subset
<1>8. PICK u \in P : \A w \in P : u <= w
  BY <1>7, BoundsExist
<1>9. Cardinality(Under(u)) <= r
  <2>0. SUFFICES ASSUME Cardinality(Under(u)) > r PROVE FALSE
    <3>1. PICK a : a = Cardinality(Under(u))
      OBVIOUS
    <3>2. a \in Nat
      BY <1>5, <3>1
    <3>3. a > r \/ a <= r
      BY <3>2
    <3>. QED  BY <3>1, <3>3, Zenon
  <2>1. PICK W : W = {v[i] : i \in Under(u)}
    OBVIOUS
  <2>2. W \in SUBSET V /\ IsFiniteSet(W)
    <3>1. IsFiniteSet({v[i] : i \in Under(u)})
      <4>1. IsFiniteSet(Under(u))
        BY <1>5
      <4> HIDE DEF Under
      <4>. QED  BY <4>1, ImageFinite
    <3>. QED  BY <1>2, <2>1, <3>1
  <2>3. W # {}
    <3>1. Under(u) # {}
      BY <2>0, FS_EmptySet
    <3>. QED  BY <2>1, <3>1
  <2>4. PICK m \in W : \A w \in W : m >= w
    BY <1>4, <2>2, <2>3, BoundsExist
  <2>5. m \in V /\ m < u /\ m \in Int /\ u \in Int
    BY <1>4, <1>7, <2>1, <2>2
  <2>6. AtMost(m) = Under(u)
    <3>1. \A i \in S : v[i] <= m <=> v[i] < u
      <4>1. ASSUME NEW i \in S PROVE v[i] <= m <=> v[i] < u
        <5>1. v[i] \in Int
          BY <1>0, <1>1
        <5>2. v[i] < u => v[i] \in W
          BY <2>1
        <5>. QED  BY <2>4, <2>5, <5>1, <5>2
      <4>. QED  BY <4>1
    <3>. QED  BY <3>1
  <2>7. m \in P
    BY <1>6, <2>0, <2>5, <2>6
  <2>. QED  BY <1>8, <2>5, <2>7
<1>10. u \in V /\ Cardinality(AtMost(u)) > r
  BY <1>6
<1>11. \E w \in {v[i] : i \in 1..n} :
         /\ Cardinality({i \in 1..n : v[i] < w}) <= r
         /\ Cardinality({i \in 1..n : v[i] <= w}) > r
  BY <1>1, <1>2, <1>9, <1>10
<1>12. /\ OrderOf(v, n, r) \in {v[i] : i \in 1..n}
       /\ Cardinality({i \in 1..n : v[i] < OrderOf(v, n, r)}) <= r
       /\ Cardinality({i \in 1..n : v[i] <= OrderOf(v, n, r)}) > r
  BY <1>11 DEF OrderOf
<1>13. \E i \in 1..n : OrderOf(v, n, r) = v[i]
  BY <1>12
<1>14. OrderOf(v, n, r) \in Int
  BY <1>0, <1>13
<1>. QED  BY <1>12, <1>13, <1>14, Zenon DEF Ordered

\* A later one is not smaller.
LEMMA OrdersAscend ==
  ASSUME NEW n \in Nat, NEW r \in Nat, NEW k \in Nat, r <= k, k < n,
         NEW v, AllIntegers(v, n)
  PROVE  OrderOf(v, n, r) <= OrderOf(v, n, k)
<1>1. PICK a, b : a = OrderOf(v, n, r) /\ b = OrderOf(v, n, k)
  OBVIOUS
<1>2. /\ a \in Int /\ Cardinality({i \in 1..n : v[i] < a}) <= r
      /\ b \in Int /\ Cardinality({i \in 1..n : v[i] <= b}) > k
  <2>1. r < n
    OBVIOUS
  <2>2. Ordered(v, n, r, a) /\ Ordered(v, n, k, b)
    BY <1>1, <2>1, OrderTyped, Zenon
  <2>. QED  BY <2>2, Zenon DEF Ordered
<1>3. PICK S, T : S = {i \in 1..n : v[i] <= b} /\ T = {i \in 1..n : v[i] < a}
  OBVIOUS
<1>4. IsFiniteSet(S) /\ IsFiniteSet(T) /\ Cardinality(S) \in Nat /\ Cardinality(T) \in Nat
  <2>1. IsFiniteSet(1..n)
    BY FS_Interval
  <2>. QED  BY <1>3, <2>1, FS_Subset, FS_CardinalityType
<1>5. ASSUME b < a PROVE FALSE
  <2>1. S \subseteq T
    <3>1. \A i \in 1..n : v[i] \in Int
      BY Zenon DEF AllIntegers
    <3>. QED  BY <1>2, <1>3, <1>5, <3>1
  <2>2. Cardinality(S) <= Cardinality(T)
    BY <1>4, <2>1, FS_Subset
  <2>. QED  BY <1>2, <1>3, <1>4, <2>2
<1>. QED  BY <1>1, <1>2, <1>5

\* A percentile is a point between two order statistics that follow each other: rest
\* parts out of den of the way from the one at r to the one at next.
Between(v, n, num, den, r, next, rest) ==
  /\ r \in 0..(n - 1) /\ next \in 0..(n - 1) /\ rest \in 0..(den - 1)
  /\ (n - 1) * num = den * r + rest
  /\ r <= next /\ (r < n - 1 => next = r + 1)
  /\ Percentile(v, num, den)
       = den * OrderOf(v, n, r) + rest * (OrderOf(v, n, next) - OrderOf(v, n, r))

\* There are two such.
LEMMA PercentileBetween ==
  ASSUME NEW v \in Seq(Int), NEW n, n = Len(v), n # 0, NEW den \in {4, Thousandths}, NEW num \in 0..den
  PROVE  \E r, next, rest : Between(v, n, num, den, r, next, rest)
<1>1. PICK m, r, next, rest : /\ m = (n - 1) * num /\ r = m \div den /\ rest = m % den
                              /\ next = Min({r + 1, n - 1})
  OBVIOUS
<1>2. n \in Nat \ {0} /\ num \in Nat /\ num <= den
  <2>1. den = 4 \/ den = 1000
    BY DEF Thousandths
  <2>. QED  BY <2>1
<1>3. m \in Nat /\ m <= den * (n - 1)
  <2>1. (n - 1) * num \in Nat
    BY <1>2, ProductIsNat
  <2>2. den \in Int /\ n - 1 \in Nat
    BY <1>2
  <2>3. (n - 1) * num <= (n - 1) * den
    BY <1>2, <2>2, TimesKeepsOrder
  <2>. QED  BY <1>1, <2>1, <2>2, <2>3, Z3
<1>4. r \in Nat /\ r <= n - 1 /\ rest \in 0..(den - 1) /\ m = den * r + rest
  <2>1. r = m \div den /\ rest = m % den /\ n - 1 \in Nat
    BY <1>1, <1>2
  <2>2. CASE den = 4
    BY <1>3, <2>1, <2>2
  <2>3. CASE den = 1000
    BY <1>3, <2>1, <2>3
  <2>. QED  BY <2>2, <2>3 DEF Thousandths
<1>5. next = IF r + 1 <= n - 1 THEN r + 1 ELSE n - 1
  <2>1. r + 1 \in Int /\ n - 1 \in Int
    BY <1>2, <1>4
  <2>. QED  BY <1>1, <2>1 DEF Min
<1>6. next \in 0..(n - 1) /\ r \in 0..(n - 1) /\ r <= next /\ (r < n - 1 => next = r + 1)
  BY <1>2, <1>4, <1>5
<1>7. Percentile(v, num, den)
        = den * OrderOf(v, n, r) + rest * (OrderOf(v, n, next) - OrderOf(v, n, r))
  BY <1>1 DEF Percentile, OrderOf
<1>. QED  BY <1>1, <1>4, <1>6, <1>7, Zenon DEF Between

\* A point that divides p and q, which are in order, is between them, and further on
\* the more of the way it goes.
LEMMA Interpolates ==
  ASSUME NEW den \in Nat, NEW p \in Int, NEW q \in Int, p <= q,
         NEW j \in Nat, NEW i \in Nat, j <= i, i <= den
  PROVE  /\ den * p + i * (q - p) \in Int /\ den * p \in Int /\ den * q \in Int
         /\ den * p <= den * p + i * (q - p) /\ den * p + i * (q - p) <= den * q
         /\ den * p + j * (q - p) <= den * p + i * (q - p)
<1>1. PICK d : d = q - p
  OBVIOUS
<1>2. d \in Nat /\ q = p + d
  BY <1>1
<1>3. i * d \in Nat /\ j * d \in Nat /\ den * d \in Nat
  BY <1>2, ProductIsNat
<1>4. d * j <= d * i /\ d * i <= d * den
  <2>1. i \in Int /\ j \in Int /\ den \in Int
    OBVIOUS
  <2>. QED  BY <1>2, <2>1, TimesKeepsOrder
<1>5. d * j = j * d /\ d * i = i * d /\ d * den = den * d /\ den * q = den * p + den * d
      /\ den * p \in Int
  BY <1>2, Z3
<1>. QED  BY <1>1, <1>3, <1>4, <1>5

\* So it is a number between the bounds of the sample.
LEMMA PercentileInside ==
  ASSUME NEW v \in Seq(Int), v # <<>>, NEW den \in {4, Thousandths}, NEW num \in 0..den
  PROVE  /\ Percentile(v, num, den) \in Int
         /\ \A lo, hi \in Int :
              (\A i \in 1..Len(v) : lo <= v[i] /\ v[i] <= hi) =>
                den * lo <= Percentile(v, num, den) /\ Percentile(v, num, den) <= den * hi
<1>1. PICK n : n = Len(v)
  OBVIOUS
<1>2. n \in Nat \ {0} /\ n # 0 /\ AllIntegers(v, n)
  BY <1>1 DEF AllIntegers
<1>3. PICK r, next, rest : Between(v, n, num, den, r, next, rest)
  BY <1>1, <1>2, PercentileBetween, Zenon
<1>4. PICK a, b : a = OrderOf(v, n, r) /\ b = OrderOf(v, n, next)
  OBVIOUS
<1>5. r \in Nat /\ next \in Nat /\ r < n /\ next < n /\ n \in Nat /\ r <= next
  BY <1>2, <1>3 DEF Between
<1>6. a \in Int /\ (\E i \in 1..n : a = v[i])
  <2>1. Ordered(v, n, r, a)
    BY <1>2, <1>4, <1>5, OrderTyped, Zenon
  <2>. QED  BY <2>1, Zenon DEF Ordered
<1>7. b \in Int /\ (\E i \in 1..n : b = v[i])
  <2>1. Ordered(v, n, next, b)
    BY <1>2, <1>4, <1>5, OrderTyped, Zenon
  <2>. QED  BY <2>1, Zenon DEF Ordered
<1>8. a <= b
  BY <1>2, <1>4, <1>5, OrdersAscend, Zenon
<1>9. den \in Nat /\ rest \in Nat /\ rest <= den
  <2>1. den = 4 \/ den = 1000
    BY DEF Thousandths
  <2>2. rest \in 0..(den - 1)
    BY <1>3, Zenon DEF Between
  <2>. QED  BY <2>1, <2>2
<1>10. PICK c : c = den * a + rest * (b - a)
  OBVIOUS
<1>11. c \in Int /\ den * a <= c /\ c <= den * b
  <2>1. rest <= rest
    BY <1>9
  <2>. QED  BY <1>6, <1>7, <1>8, <1>9, <1>10, <2>1, Interpolates, Zenon
<1>12. ASSUME NEW lo \in Int, NEW hi \in Int, \A i \in 1..n : lo <= v[i] /\ v[i] <= hi
       PROVE  den * lo <= c /\ c <= den * hi
  <2>1. lo <= a /\ b <= hi
    BY <1>6, <1>7, <1>12
  <2>2. den * lo <= den * a
    BY <1>6, <1>9, <2>1, TimesKeepsOrder, Zenon
  <2>3. den * b <= den * hi
    BY <1>7, <1>9, <2>1, TimesKeepsOrder, Zenon
  <2>4. PICK e, f, g, h : e = den * lo /\ f = den * a /\ g = den * b /\ h = den * hi
    OBVIOUS
  <2>5. e \in Int /\ f \in Int /\ g \in Int /\ h \in Int
    <3>1. \A i \in Int : den * i \in Int
      BY <1>9, Z3
    <3>. QED  BY <1>6, <1>7, <2>4, <3>1, Zenon
  <2>6. e <= f /\ f <= c /\ c <= g /\ g <= h
    BY <1>11, <2>2, <2>3, <2>4, Zenon
  <2>7. e <= c /\ c <= h
    BY <1>11, <2>5, <2>6
  <2>. QED  BY <2>4, <2>7
<1>13. Percentile(v, num, den) = c
  BY <1>3, <1>4, <1>10, Zenon DEF Between
<1>. QED  BY <1>1, <1>11, <1>12, <1>13, Zenon

\* And a larger share has a percentile that is not smaller.
LEMMA PercentilesAscend ==
  ASSUME NEW v \in Seq(Int), v # <<>>, NEW den \in {4, Thousandths}, NEW lo \in 0..den, NEW hi \in 0..den,
         lo <= hi
  PROVE  Percentile(v, lo, den) <= Percentile(v, hi, den)
<1>1. PICK n : n = Len(v)
  OBVIOUS
<1>2. n \in Nat \ {0} /\ n # 0 /\ n \in Nat /\ AllIntegers(v, n)
  BY <1>1 DEF AllIntegers
<1>3. den \in Nat
  BY DEF Thousandths
<1>4. PICK r, next, rest : Between(v, n, lo, den, r, next, rest)
  BY <1>1, <1>2, PercentileBetween, Zenon
<1>5. PICK k, after, more : Between(v, n, hi, den, k, after, more)
  BY <1>1, <1>2, PercentileBetween, Zenon
<1>6. den * r + rest <= den * k + more
  <2>1. n - 1 \in Nat /\ lo \in Int /\ hi \in Int
    BY <1>2, <1>3
  <2>2. (n - 1) * lo <= (n - 1) * hi
    BY <2>1, TimesKeepsOrder, Zenon
  <2>. QED  BY <1>4, <1>5, <2>2, Zenon DEF Between
<1>7. r < k \/ (r = k /\ rest <= more)
  <2>1. /\ r \in 0..(n - 1) /\ rest \in 0..(den - 1)
        /\ k \in 0..(n - 1) /\ more \in 0..(den - 1)
    BY <1>4, <1>5, Zenon DEF Between
  <2>2. CASE den = 4
    BY <1>2, <1>6, <2>1, <2>2
  <2>3. CASE den = 1000
    BY <1>2, <1>6, <2>1, <2>3
  <2>. QED  BY <2>2, <2>3 DEF Thousandths
<1>8. PICK a, b, c, d : /\ a = OrderOf(v, n, r) /\ b = OrderOf(v, n, next)
                        /\ c = OrderOf(v, n, k) /\ d = OrderOf(v, n, after)
  OBVIOUS
<1>9. /\ r \in Nat /\ next \in Nat /\ k \in Nat /\ after \in Nat
      /\ r < n /\ next < n /\ k < n /\ after < n
      /\ rest \in Nat /\ rest <= den /\ more \in Nat /\ more <= den
      /\ r <= next /\ k <= after
      /\ (r < n - 1 => next = r + 1) /\ (k < n - 1 => after = k + 1)
  BY <1>2, <1>3, <1>4, <1>5 DEF Between
<1>10. a \in Int /\ b \in Int /\ c \in Int /\ d \in Int
  <2>1. \A i \in 0..(n - 1) : OrderOf(v, n, i) \in Int
    <3>1. \A i \in 0..(n - 1) : i \in Nat /\ i < n
      BY <1>2
    <3>. QED  BY <1>2, <3>1, OrderTyped, Zenon DEF Ordered
  <2>. QED  BY <1>4, <1>5, <1>8, <2>1, Zenon DEF Between
<1>11. a <= b /\ c <= d
  <2>1. a <= b
    BY <1>2, <1>8, <1>9, OrdersAscend, Zenon
  <2>2. c <= d
    BY <1>2, <1>8, <1>9, OrdersAscend, Zenon
  <2>. QED  BY <2>1, <2>2
<1>12. PICK p, q : p = den * a + rest * (b - a) /\ q = den * c + more * (d - c)
  OBVIOUS
<1>13. p \in Int /\ p <= den * b /\ den * b \in Int
  <2>1. rest <= rest
    BY <1>9
  <2>. QED  BY <1>3, <1>9, <1>10, <1>11, <1>12, <2>1, Interpolates, Zenon
<1>14. q \in Int /\ den * c <= q /\ den * c \in Int
  <2>1. more <= more
    BY <1>9
  <2>. QED  BY <1>3, <1>9, <1>10, <1>11, <1>12, <2>1, Interpolates, Zenon
<1>15. p <= q
  <2>1. CASE r < k
    <3>1. next <= k
      <4>1. r < n - 1
        BY <1>2, <1>9, <2>1
      <4>2. next = r + 1
        BY <1>9, <4>1
      <4>. QED  BY <1>9, <2>1, <4>2
    <3>2. b <= c
      BY <1>2, <1>8, <1>9, <3>1, OrdersAscend, Zenon
    <3>3. den * b <= den * c
      BY <1>3, <1>10, <3>2, TimesKeepsOrder, Zenon
    <3>4. PICK e, f : e = den * b /\ f = den * c
      OBVIOUS
    <3>5. e \in Int /\ f \in Int /\ p <= e /\ e <= f /\ f <= q
      BY <1>13, <1>14, <3>3, <3>4, Zenon
    <3>. QED  BY <1>13, <1>14, <3>5
  <2>2. CASE r = k /\ rest <= more
    <3>1. next = after
      <4>1. CASE r < n - 1
        BY <1>9, <2>2, <4>1, Zenon
      <4>2. next \in 0..(n - 1) /\ after \in 0..(n - 1) /\ r \in 0..(n - 1) /\ r <= next /\ k <= after
        BY <1>4, <1>5, Zenon DEF Between
      <4>3. CASE ~(r < n - 1)
        BY <1>2, <2>2, <4>2, <4>3
      <4>. QED  BY <4>1, <4>3
    <3>2. a = c /\ b = d
      BY <1>8, <2>2, <3>1, Zenon
    <3>3. den * a + rest * (b - a) <= den * a + more * (b - a)
      BY <1>3, <1>9, <1>10, <1>11, <2>2, Interpolates, Zenon
    <3>. QED  BY <1>12, <3>2, <3>3, Zenon
  <2>. QED  BY <1>7, <2>1, <2>2
<1>16. Percentile(v, lo, den) = p /\ Percentile(v, hi, den) = q
  BY <1>4, <1>5, <1>8, <1>12, Zenon DEF Between
<1>. QED  BY <1>15, <1>16, Zenon

\* A lower threshold is reached whenever a higher one is, over a denominator that
\* is not negative.
LEMMA ReachesLower ==
  ASSUME NEW num \in Int, NEW den \in Nat, NEW lo \in Nat, NEW hi \in Nat, lo <= hi,
         Reaches(num, den, hi)
  PROVE  Reaches(num, den, lo)
<1>1. lo * den <= hi * den /\ lo * den \in Int /\ hi * den \in Int
  BY Z3
<1>. QED  BY <1>1 DEF Reaches

\* The fences of the quartiles.
LEMMA IqrStricter ==
  ASSUME NEW v \in Seq(Int), NEW split \in Nat \ {0}, split < Len(v),
         NEW fitted \in Seq(Int), fitted # <<>>, NEW lo \in Nat, NEW hi \in Nat, lo <= hi
  PROVE  Iqr(fitted, v, split, hi) \subseteq Iqr(fitted, v, split, lo)
<1>1. PICK p, q : p = Percentile(fitted, 1, 4) /\ q = Percentile(fitted, 3, 4)
  OBVIOUS
<1>2. p \in Int /\ q \in Int
  <2>1. 1 \in 0..4 /\ 3 \in 0..4
    OBVIOUS
  <2>. QED  BY <1>1, <2>1, PercentileInside
<1>3. PICK den : den = Max({3 * (q - p), 1})
  OBVIOUS
<1>4. den \in Nat
  <2>1. 3 * (q - p) \in Int /\ 1 \in Int
    BY <1>2
  <2>2. den = IF 3 * (q - p) >= 1 THEN 3 * (q - p) ELSE 1
    BY <1>3, <2>1, MaxOfTwo
  <2>. QED  BY <2>1, <2>2
<1> DEFINE dist(i) == Max({0, 4 * v[i] - q, p - 4 * v[i]})
<1>5. ASSUME NEW i \in (split + 1)..Len(v) PROVE 2 * dist(i) \in Int
  <2>1. v[i] \in Int
    <3>1. i \in 1..Len(v)
      OBVIOUS
    <3>. QED  BY <3>1
  <2>2. PICK S : S = {0, 4 * v[i] - q, p - 4 * v[i]}
    OBVIOUS
  <2>3. S \in SUBSET Int /\ S # {}
    <3>1. 0 \in Int /\ 4 * v[i] - q \in Int /\ p - 4 * v[i] \in Int
      BY <1>2, <2>1
    <3>. QED  BY <2>2, <3>1, Zenon
  <2>4. IsFiniteSet(S)
    <3>1. IsFiniteSet({0} \union {4 * v[i] - q} \union {p - 4 * v[i]})
      BY FS_Singleton, FS_Union
    <3>2. S = {0} \union {4 * v[i] - q} \union {p - 4 * v[i]}
      BY <2>2
    <3>. QED  BY <3>1, <3>2
  <2>5. Max(S) \in Int
    BY <2>3, <2>4, MaxMin
  <2>. QED  BY <2>2, <2>5
<1>6. ASSUME NEW threshold
      PROVE  Iqr(fitted, v, split, threshold)
               = {i \in (split + 1)..Len(v) : Reaches(2 * dist(i), den, threshold)}
  BY <1>1, <1>3, Zenon DEF Iqr
<1> HIDE DEF dist
<1>7. \A i \in (split + 1)..Len(v) : Reaches(2 * dist(i), den, hi) => Reaches(2 * dist(i), den, lo)
  BY <1>4, <1>5, ReachesLower
<1>. QED  BY <1>6, <1>7, Zenon

\* The band of the forecast.
LEMMA ProphetStricter ==
  ASSUME NEW v \in Seq(Int), NEW split \in Nat, NEW lo \in Nat, NEW hi \in Nat, lo <= hi
  PROVE  Prophet(v, split, hi) \subseteq Prophet(v, split, lo)
<1>1. \A i \in (split + 1)..Len(v) : i \notin Forecast(split)
  BY DEF Forecast
<1>2. Reaches(0, 2, hi) => Reaches(0, 2, lo)
  BY ReachesLower
<1>. QED  BY <1>1, <1>2 DEF Prophet

\* The range of the scored minutes, of which there is at least one.
LEMMA ForestRange ==
  ASSUME NEW v \in Seq(Int), NEW split \in Nat, split < Len(v)
  PROVE  LET R == {v[i] : i \in (split + 1)..Len(v)}
         IN  /\ Min(R) \in Int /\ Max(R) \in R /\ Max(R) - Min(R) \in Nat
             /\ \A i \in (split + 1)..Len(v) : v[i] \in Int /\ Min(R) <= v[i] /\ v[i] <= Max(R)
<1>1. PICK S : S = (split + 1)..Len(v)
  OBVIOUS
<1>2. PICK R : R = {v[i] : i \in S}
  OBVIOUS
<1>3. IsFiniteSet(S) /\ S # {}
  <2>1. split + 1 \in Int /\ Len(v) \in Int /\ split + 1 \in (split + 1)..Len(v)
    OBVIOUS
  <2>. QED  BY <1>1, <2>1, FS_Interval
<1>4. \A i \in S : v[i] \in Int
  <2>1. \A i \in S : i \in 1..Len(v)
    BY <1>1
  <2>2. \A i \in 1..Len(v) : v[i] \in Int
    OBVIOUS
  <2>. QED  BY <2>1, <2>2
<1>5. R \in SUBSET Int /\ IsFiniteSet(R) /\ R # {}
  <2>1. IsFiniteSet({v[i] : i \in S})
    BY <1>3, ImageFinite
  <2>. QED  BY <1>2, <1>3, <1>4, <2>1
<1>6. /\ Max(R) \in R /\ \A j \in R : Max(R) >= j
      /\ Min(R) \in R /\ \A j \in R : Min(R) <= j
  BY <1>5, MaxMin
<1>7. PICK m, l : m = Max(R) /\ l = Min(R)
  OBVIOUS
<1>8. m \in R /\ l \in R /\ (\A j \in R : m >= j /\ l <= j)
  BY <1>6, <1>7, Zenon
<1>9. m \in Int /\ l \in Int /\ m - l \in Nat
  BY <1>5, <1>8
<1>10. \A i \in S : v[i] \in Int /\ l <= v[i] /\ v[i] <= m
  <2>1. ASSUME NEW i \in S PROVE v[i] \in Int /\ l <= v[i] /\ v[i] <= m
    <3>1. v[i] \in R /\ v[i] \in Int
      BY <1>2, <1>4
    <3>2. m >= v[i] /\ l <= v[i]
      BY <1>8, <3>1
    <3>. QED  BY <1>9, <3>1, <3>2
  <2>. QED  BY <2>1
<1>11. /\ Min(R) \in Int /\ Max(R) \in R /\ Max(R) - Min(R) \in Nat
       /\ \A i \in S : v[i] \in Int /\ Min(R) <= v[i] /\ v[i] <= Max(R)
  BY <1>7, <1>8, <1>9, <1>10, Zenon
<1>. QED  BY <1>1, <1>2, <1>11, Zenon

\* The decision scores, and their place between the least and the greatest.
LEMMA ForestStricter ==
  ASSUME NEW v \in Seq(Int), NEW split \in Nat, split < Len(v), NEW mode,
         NEW fitted, NEW contamination, NEW lo \in Nat, NEW hi \in Nat, lo <= hi
  PROVE  Forest(fitted, v, split, hi, mode, contamination)
           \subseteq Forest(fitted, v, split, lo, mode, contamination)
<1>1. PICK R, S : S = (split + 1)..Len(v) /\ R = {v[i] : i \in (split + 1)..Len(v)}
  OBVIOUS
<1>2. PICK m, l : m = Max(R) /\ l = Min(R)
  OBVIOUS
<1>3. /\ l \in Int /\ m - l \in Nat
      /\ \A i \in S : v[i] \in Int
  BY <1>1, <1>2, ForestRange, Zenon
<1>4. PICK den : den = Max({m - l, 1})
  OBVIOUS
<1>5. den \in Nat
  <2>1. m - l \in Int /\ 1 \in Int
    BY <1>3
  <2>2. den = IF m - l >= 1 THEN m - l ELSE 1
    BY <1>4, <2>1, MaxOfTwo
  <2>. QED  BY <1>3, <2>2
<1>6. PICK offset : offset = Percentile(fitted, Thousandths - contamination, Thousandths)
  OBVIOUS
<1>7. ASSUME NEW threshold
      PROVE  Forest(fitted, v, split, threshold, mode, contamination)
               = {i \in S : \/ Thousandths * v[i] > offset
                            \/ mode = "relative" /\ Reaches(v[i] - l, den, threshold)}
  BY <1>1, <1>2, <1>4, <1>6, Zenon DEF Forest
<1>8. \A i \in S : Reaches(v[i] - l, den, hi) => Reaches(v[i] - l, den, lo)
  <2>1. \A i \in S : v[i] - l \in Int
    BY <1>3
  <2>. QED  BY <1>5, <2>1, ReachesLower
<1>. QED  BY <1>7, <1>8, Zenon

\* Where a task scores anything, its split leaves minutes on both sides.
LEMMA SplitInside ==
  ASSUME NEW n \in Nat, NEW kind, Scored(kind, n) # {}
  PROVE  Split(kind, n) \in Nat \ {0} /\ Split(kind, n) < n
<1>1. PICK q, f : /\ q = (4 * n) \div 5
                  /\ f = (CASE kind = "prophet" -> 10 [] kind = "isolation_forest" -> 5 [] OTHER -> 1)
  OBVIOUS
<1>2. q \in Nat /\ f \in Nat \ {0}
  BY <1>1, Z3
<1>3. Split(kind, n) = IF q >= f THEN q ELSE f
  BY <1>1, <1>2, MaxOfTwo DEF Split
<1>4. PICK s : s = Split(kind, n)
  OBVIOUS
<1>5. s \in Nat \ {0}
  BY <1>2, <1>3, <1>4
<1>6. (s + 1)..n # {}
  BY <1>4 DEF Scored
<1>. QED  BY <1>4, <1>5, <1>6

\* Of the minutes before a split of the series.
LEMMA BeforeSplit ==
  ASSUME NEW S, NEW v \in Seq(S), NEW k \in 0..Len(v)
  PROVE  /\ SubSeq(v, 1, k) \in Seq(S) /\ Len(SubSeq(v, 1, k)) = k
         /\ \A i \in 1..k : SubSeq(v, 1, k)[i] = v[i]
BY SubSeqProperties

(***************************************************************************)
(* No detector flags a minute at a high threshold that it does not flag at *)
(* a lower one, whatever the series, the mode, the contamination and the   *)
(* stored fit: raising a metric's threshold (config.py, read by the tasks  *)
(* and handed to detect()) can only take anomalies away.  (Forest models   *)
(* absolute scores above one half.)                                        *)
(***************************************************************************)
THEOREM HigherThresholdFlagsLess ==
  ASSUME NEW v \in Seq(Int), NEW kind \in {"zscore", "iqr", "prophet", "isolation_forest"},
         NEW mode, NEW contamination, NEW stored \in Seq(Int),
         NEW lo \in Nat, NEW hi \in Nat, lo <= hi
  PROVE  Flagged(kind, v, hi, mode, contamination, stored)
           \subseteq Flagged(kind, v, lo, mode, contamination, stored)
<1>1. CASE Scored(kind, Len(v)) = {}
  BY <1>1 DEF Flagged
<1>2. CASE Scored(kind, Len(v)) # {}
  <2>1. PICK split : split = Split(kind, Len(v))
    OBVIOUS
  <2>2. split \in Nat \ {0} /\ split < Len(v)
    BY <1>2, <2>1, SplitInside
  <2>3. PICK fitted : fitted = IF kind = "iqr" /\ stored # <<>> THEN stored ELSE SubSeq(v, 1, split)
    OBVIOUS
  <2>4. fitted \in Seq(Int) /\ fitted # <<>>
    <3>1. split \in 0..Len(v)
      BY <2>2
    <3>2. SubSeq(v, 1, split) \in Seq(Int) /\ Len(SubSeq(v, 1, split)) = split
      BY <3>1, BeforeSplit
    <3>. QED  BY <2>2, <2>3, <3>2
  <2>5. PICK d : d = [mode |-> mode, contamination |-> contamination, fitted |-> fitted]
    OBVIOUS
  <2>6. d.mode = mode /\ d.contamination = contamination /\ d.fitted = fitted
    BY <2>5
  <2>7. /\ Flagged(kind, v, hi, mode, contamination, stored) = Verdict(kind, v, split, hi, d)
        /\ Flagged(kind, v, lo, mode, contamination, stored) = Verdict(kind, v, split, lo, d)
    BY <1>2, <2>1, <2>3, <2>5, Zenon DEF Flagged
  <2>8. CASE kind = "zscore"
    BY <2>2, <2>7, <2>8, ZScoreStricter DEF Verdict
  <2>9. CASE kind = "iqr"
    BY <2>2, <2>4, <2>6, <2>7, <2>9, IqrStricter DEF Verdict
  <2>10. CASE kind = "prophet"
    BY <2>2, <2>7, <2>10, ProphetStricter DEF Verdict
  <2>11. CASE kind = "isolation_forest"
    BY <2>2, <2>7, <2>11, ForestStricter DEF Verdict
  <2>. QED  BY <2>8, <2>9, <2>10, <2>11
<1>. QED  BY <1>1, <1>2

(***************************************************************************)
(* Relative scores are stretched by the top of the batch, so in relative   *)
(* mode a batch that is not flat is almost never without an anomaly,       *)
(* however harmless it is.  At every threshold that config.py accepts the  *)
(* forest flags one as soon as two of its scores differ; and the z-score   *)
(* does as soon as one is not 0, but for the threshold 1, at which it      *)
(* never flags any: it divides by a little more than the largest, and the  *)
(* forest by exactly the range.                                            *)
(***************************************************************************)
THEOREM RelativeAlwaysFlags ==
  ASSUME NEW v \in Seq(Int), NEW kind \in {"zscore", "isolation_forest"}, NEW threshold \in 0..10,
         NEW split \in Nat, split < Len(v), NEW d, d.mode = "relative",
         kind = "zscore" => \E i \in (split + 1)..Len(v) : ZSquared(v, split, i).num > 0,
         kind = "isolation_forest" => \E i, j \in (split + 1)..Len(v) : v[i] # v[j]
  PROVE  Verdict(kind, v, split, threshold, d) # {} <=> kind = "isolation_forest" \/ threshold # 10
<1>1. CASE kind = "zscore"
  <2>1. PICK z, S : z = ZBatch(v, split) /\ S = (split + 1)..Len(v)
    OBVIOUS
  <2>2. DOMAIN z = S /\ \A i \in S : z[i].num \in Nat /\ z[i].den \in Nat \ {0}
    BY <2>1, ZScoresTyped DEF ZBatch
  <2>3. PICK k \in S : /\ \A i \in S : ~Below(z[k], z[i])
                       /\ ZScore(v, split, threshold, "relative") = ZFlags(z, z[k], threshold, "relative")
    BY <2>1, ZScoreByBatch
  <2>4. PICK i \in S : z[i].num > 0
    BY <1>1, <2>1 DEF ZBatch
  <2>5. PICK a, b, c, e : a = z[k].num /\ b = z[k].den /\ c = z[i].num /\ e = z[i].den
    OBVIOUS
  <2>6. a \in Nat /\ b \in Nat \ {0} /\ c \in Nat /\ e \in Nat \ {0} /\ c > 0 /\ ~(a * e < c * b)
    BY <2>2, <2>3, <2>4, <2>5 DEF Below
  <2>7. a > 0
    <3>1. c * b > 0
      BY <2>6, Z3
    <3>2. a # 0
      BY <2>6, <3>1, Z3
    <3>. QED  BY <2>6, <3>2
  <2>8. CASE threshold # 10
    <3>1. 100 * a * b > threshold * threshold * a * b
      <4>1. PICK t, g : t = threshold * threshold /\ g = a * b
        OBVIOUS
      <4>2. t \in Nat /\ t < 100 /\ g \in Nat /\ g > 0
        <5>1. threshold * threshold <= 9 * threshold
          BY <2>8, Z3
        <5>2. threshold * threshold \in Nat /\ a * b \in Nat /\ a * b > 0
          BY <2>6, <2>7, Z3
        <5>. QED  BY <2>8, <4>1, <5>1, <5>2
      <4>3. 100 * g > t * g
        BY <4>2, Z3
      <4>4. 100 * a * b = 100 * g /\ threshold * threshold * a * b = t * g
        BY <2>6, <4>1, Z3
      <4>. QED  BY <4>3, <4>4
    <3>2. k \in ZFlags(z, z[k], threshold, "relative")
      BY <2>2, <2>5, <3>1 DEF ZFlags
    <3>. QED  BY <1>1, <2>3, <2>8, <3>2 DEF Verdict
  <2>9. CASE threshold = 10
    <3>1. ASSUME NEW j \in S PROVE ~(100 * z[j].num * z[k].den > 10 * 10 * z[k].num * z[j].den)
      <4>1. PICK f, g : f = z[j].num /\ g = z[j].den
        OBVIOUS
      <4>2. f \in Nat /\ g \in Nat /\ ~(a * g < f * b)
        BY <2>2, <2>3, <2>5, <4>1 DEF Below
      <4>3. ~(100 * f * b > 10 * 10 * a * g)
        <5>1. PICK o, p : o = f * b /\ p = a * g
          OBVIOUS
        <5>2. o \in Int /\ p \in Int /\ ~(p < o)
          BY <2>6, <4>2, <5>1, Z3
        <5>3. 100 * f * b = 100 * o /\ 10 * 10 * a * g = 100 * p
          BY <2>6, <4>2, <5>1, Z3
        <5>. QED  BY <5>2, <5>3
      <4>. QED  BY <2>5, <4>1, <4>3
    <3>2. ZFlags(z, z[k], 10, "relative") = {}
      BY <2>2, <3>1 DEF ZFlags
    <3>. QED  BY <1>1, <2>3, <2>9, <3>2 DEF Verdict
  <2>. QED  BY <2>8, <2>9
<1>2. CASE kind = "isolation_forest"
  <2>1. PICK R, S : S = (split + 1)..Len(v) /\ R = {v[i] : i \in (split + 1)..Len(v)}
    OBVIOUS
  <2>2. PICK m, l : m = Max(R) /\ l = Min(R)
    OBVIOUS
  <2>3. /\ l \in Int /\ m \in R /\ m - l \in Nat
        /\ \A i \in S : v[i] \in Int /\ l <= v[i] /\ v[i] <= m
    BY <2>1, <2>2, ForestRange, Zenon
  <2>4. PICK k \in S : v[k] = m
    BY <2>1, <2>3
  <2>5. m - l >= 1
    <3>1. PICK i, j \in S : v[i] # v[j]
      BY <1>2, <2>1
    <3>2. PICK a, b : a = v[i] /\ b = v[j]
      OBVIOUS
    <3>3. a \in Int /\ b \in Int /\ l <= a /\ a <= m /\ l <= b /\ b <= m /\ a # b
      BY <2>3, <3>1, <3>2
    <3>4. m \in Int
      BY <2>3, <2>4
    <3>. QED  BY <2>3, <3>3, <3>4
  <2>6. Max({m - l, 1}) = m - l
    <3>1. m - l \in Int /\ 1 \in Int
      BY <2>3
    <3>. QED  BY <2>5, <3>1, MaxOfTwo
  <2>7. Reaches(v[k] - l, Max({m - l, 1}), threshold)
    <3>1. PICK w : w = m - l
      OBVIOUS
    <3>2. w \in Nat /\ 10 * w >= threshold * w
      <4>1. w \in Nat
        BY <2>3, <3>1
      <4>2. 10 * w >= threshold * w
        BY <4>1, Z3
      <4>. QED  BY <4>1, <4>2
    <3>. QED  BY <2>4, <2>6, <3>1, <3>2 DEF Reaches
  <2>8. PICK offset : offset = Percentile(d.fitted, Thousandths - d.contamination, Thousandths)
    OBVIOUS
  <2>9. Forest(d.fitted, v, split, threshold, d.mode, d.contamination)
          = {i \in S : \/ Thousandths * v[i] > offset
                       \/ d.mode = "relative" /\ Reaches(v[i] - l, Max({m - l, 1}), threshold)}
    BY <2>1, <2>2, <2>8, Zenon DEF Forest
  <2>10. k \in Forest(d.fitted, v, split, threshold, d.mode, d.contamination)
    BY <2>4, <2>7, <2>9, Zenon
  <2>. QED  BY <1>2, <2>10 DEF Verdict
<1>. QED  BY <1>1, <1>2

\* The member a fold takes out first does not matter: any of them may be added last.
LEMMA SumWithout ==
  ASSUME NEW S, IsFiniteSet(S), NEW v, \A i \in S : v[i] \in Int, NEW g, IsSum(v, g, S)
  PROVE  \A s \in SUBSET S : /\ g[s] \in Int
                             /\ \A c \in s : g[s] = v[c] + g[s \ {c}]
<1> DEFINE Good(s) == /\ g[s] \in Int
                      /\ \A c \in s : g[s \ {c}] \in Int /\ g[s] = v[c] + g[s \ {c}]
           bad == {k \in Nat : \E s \in SUBSET S : Cardinality(s) = k /\ ~Good(s)}
<1>1. \A s \in SUBSET S : IsFiniteSet(s) /\ Cardinality(s) \in Nat
  BY FS_Subset, FS_CardinalityType
<1>2. \A s \in SUBSET S : g[s] = AddUp(v, g, s)
  BY DEF IsSum
<1>3. ASSUME NEW k \in bad, \A j \in bad : k <= j PROVE FALSE
  <2>1. PICK s \in SUBSET S : Cardinality(s) = k /\ ~Good(s)
    OBVIOUS
  <2>2. k - 1 \notin bad
    <3>1. k \in Nat /\ ~(k <= k - 1)
      OBVIOUS
    <3> HIDE DEF bad
    <3>. QED  BY <1>3, <3>1
  <2>3. ASSUME NEW c \in s PROVE Good(s \ {c})
    <3> HIDE DEF Good
    <3>1. PICK t : t = s \ {c}
      OBVIOUS
    <3>2. IsFiniteSet(s) /\ IsFiniteSet(t) /\ t \in SUBSET S
      BY <1>1, <3>1
    <3>3. Cardinality(t) = Cardinality(s) - 1 /\ Cardinality(t) \in Nat
      <4> HIDE DEF bad
      <4>1. Cardinality(t) = Cardinality(s) - 1
        BY <3>1, <3>2, FS_RemoveElement
      <4>. QED  BY <1>1, <3>2, <4>1
    <3>4. Cardinality(t) = k - 1 /\ k - 1 \in Nat
      BY <2>1, <3>3, Zenon
    <3>5. Good(t)
      BY <2>2, <3>2, <3>4
    <3>. QED  BY <3>1, <3>5
  <2>4. CASE s = {}
    <3>1. g[s] = 0
      BY <1>2, <2>4 DEF AddUp
    <3>. QED  BY <2>1, <2>4, <3>1
  <2>5. CASE s # {}
    <3>1. PICK a : a = Picked(s)
      OBVIOUS
    <3>2. a \in s /\ g[s] = v[a] + g[s \ {a}]
      BY <1>2, <2>5, <3>1 DEF AddUp, Picked
    <3>3. g[s \ {a}] \in Int /\ v[a] \in Int
      BY <2>3, <3>2
    <3>4. ASSUME NEW c \in s, c # a PROVE g[s] = v[c] + g[s \ {c}]
      <4>1. PICK t : t = (s \ {a}) \ {c}
        OBVIOUS
      <4>2. t = (s \ {c}) \ {a}
        BY <4>1
      <4>3. g[s \ {a}] = v[c] + g[t]
        <5>1. c \in s \ {a} /\ Good(s \ {a})
          BY <2>3, <3>2, <3>4
        <5>. QED  BY <4>1, <5>1
      <4>4. g[s \ {c}] = v[a] + g[t]
        <5>1. a \in s \ {c} /\ Good(s \ {c})
          BY <2>3, <3>2, <3>4
        <5>. QED  BY <4>2, <5>1
      <4>5. PICK p, q, r : p = v[a] /\ q = v[c] /\ r = g[t]
        OBVIOUS
      <4>6. p \in Int /\ q \in Int /\ r \in Int
        <5>1. c \in s \ {a} /\ Good(s \ {a})
          BY <2>3, <3>2, <3>4
        <5>2. g[t] \in Int
          BY <4>1, <5>1
        <5>. QED  BY <3>3, <4>5, <5>2
      <4>. QED  BY <3>2, <4>3, <4>4, <4>5, <4>6
    <3>5. Good(s)
      <4>1. g[s] \in Int
        BY <3>2, <3>3
      <4>2. \A c \in s : g[s \ {c}] \in Int
        BY <2>3
      <4>3. \A c \in s : g[s] = v[c] + g[s \ {c}]
        <5>1. ASSUME NEW c \in s PROVE g[s] = v[c] + g[s \ {c}]
          BY <3>2, <3>4
        <5>. QED  BY <5>1
      <4>. QED  BY <4>1, <4>2, <4>3
    <3>. QED  BY <2>1, <3>5
  <2>. QED  BY <2>4, <2>5
<1>4. bad = {}
  BY <1>3, LeastExists
<1>5. \A s \in SUBSET S : Good(s)
  BY <1>1, <1>4
<1>. QED  BY <1>5

\* One value lies out of the mean by at most n - 1 times what the others' spread allows:
\* no z-score of n minutes exceeds (n - 1) over the root of n.
LEMMA OutlierBound ==
  ASSUME NEW S, IsFiniteSet(S), NEW v, \A i \in S : v[i] \in Int, NEW c \in S,
         NEW n, n = Cardinality(S), NEW sum, sum = SumOver(v, S),
         NEW squares, squares = SquaresOver(v, S)
  PROVE  (n * v[c] - sum) * (n * v[c] - sum) <= (n - 1) * (n * squares - sum * sum)
<1> DEFINE q == [i \in S |-> v[i] * v[i]]
<1>1. PICK f, h : IsSum(v, f, S) /\ IsSum(q, h, S) /\ sum = f[S] /\ squares = h[S]
  BY SumsOfSquares
<1>2. \A i \in S : q[i] \in Int
  BY Z3
<1>3. PICK t : t = S \ {c}
  OBVIOUS
<1>4. q[c] = v[c] * v[c]
  OBVIOUS
<1>5. \A s \in SUBSET S : f[s] \in Int /\ h[s] \in Int /\ Cardinality(s) * h[s] >= f[s] * f[s]
  BY <1>1, CauchySchwarz
<1> HIDE DEF q
<1>6. f[S] = v[c] + f[t]
  <2>1. \A s \in SUBSET S : f[s] \in Int /\ \A d \in s : f[s] = v[d] + f[s \ {d}]
    BY <1>1, SumWithout
  <2>. QED  BY <1>3, <2>1
<1>7. h[S] = q[c] + h[t]
  <2>1. \A s \in SUBSET S : h[s] \in Int /\ \A d \in s : h[s] = q[d] + h[s \ {d}]
    BY <1>1, <1>2, SumWithout
  <2>. QED  BY <1>3, <2>1
<1>8. IsFiniteSet(t) /\ n \in Nat /\ Cardinality(t) = n - 1 /\ Cardinality(t) \in Nat
  <2>1. IsFiniteSet(t) /\ t \in SUBSET S
    BY <1>3, FS_Subset
  <2>2. Cardinality(t) = Cardinality(S) - 1
    BY <1>3, FS_RemoveElement
  <2>. QED  BY <2>1, <2>2, FS_CardinalityType
<1>9. PICK a, m, p, r : a = v[c] /\ m = n - 1 /\ p = f[t] /\ r = h[t]
  OBVIOUS
<1>10. a \in Int /\ m \in Nat /\ p \in Int /\ r \in Int /\ m * r >= p * p
  <2>1. t \in SUBSET S
    BY <1>3
  <2>2. m = Cardinality(t)
    BY <1>8, <1>9
  <2>3. f[t] \in Int /\ h[t] \in Int /\ Cardinality(t) * h[t] >= f[t] * f[t]
    BY <1>5, <2>1
  <2>. QED  BY <1>8, <1>9, <2>2, <2>3
<1>11. n = m + 1 /\ sum = a + p /\ squares = a * a + r
  BY <1>1, <1>4, <1>6, <1>7, <1>8, <1>9
<1>12. (n * a - sum) * (n * a - sum) <= (n - 1) * (n * squares - sum * sum)
  <2>1. n * a - sum = m * a - p
    BY <1>10, <1>11, Z3
  <2>2. n * squares - sum * sum = (m * (a * a) + (m + 1) * r) - (2 * (a * p) + p * p)
    BY <1>10, <1>11, Z3
  <2>3. (m * a - p) * (m * a - p) = m * m * (a * a) - 2 * (m * (a * p)) + p * p
    BY <1>10, Z3
  <2>4. m * ((m * (a * a) + (m + 1) * r) - (2 * (a * p) + p * p))
          = m * m * (a * a) - 2 * (m * (a * p)) + (m + 1) * (m * r) - m * (p * p)
    BY <1>10, Z3
  <2>5. (m + 1) * (m * r) >= (m + 1) * (p * p)
    BY <1>10, Z3
  <2>6. (m + 1) * (p * p) = m * (p * p) + p * p
    BY <1>10, Z3
  <2>7. PICK w, sq, hi, z, k : /\ w = m * m * (a * a) - 2 * (m * (a * p)) /\ sq = p * p
                          /\ hi = (m + 1) * (m * r) /\ z = m * (p * p) /\ k = (m + 1) * (p * p)
    OBVIOUS
  <2>8. w \in Int /\ sq \in Int /\ hi \in Int /\ z \in Int /\ k \in Int
    BY <1>10, <2>7, Z3
  <2>9. w + sq <= w + hi - z
    BY <2>5, <2>6, <2>7, <2>8
  <2>10. n - 1 = m
    BY <1>10, <1>11
  <2>11. (m * a - p) * (m * a - p) <= m * ((m * (a * a) + (m + 1) * r) - (2 * (a * p) + p * p))
    BY <2>3, <2>4, <2>7, <2>9
  <2>. QED  BY <2>1, <2>2, <2>10, <2>11
<1>. QED  BY <1>9, <1>12

\* The z-score of a minute, squared, is at most w - 1 times (w - 1) / w for the w minutes
\* of its window; it is 0 unless there are five.
LEMMA ZScoreBounded ==
  ASSUME NEW v \in Seq(Int), NEW split \in Nat, NEW i \in (split + 1)..Len(v)
  PROVE  \/ ZSquared(v, split, i).num = 0
         \/ \E w \in 5..(i - split) :
              w * ZSquared(v, split, i).num <= (w - 1) * (w - 1) * ZSquared(v, split, i).den
<1>1. PICK from, w, sum, squares, spread :
        /\ from = Max({split + 1, i - Window + 1}) /\ w = i - from + 1
        /\ sum = SumOver(v, from..i) /\ squares = SquaresOver(v, from..i)
        /\ spread = w * squares - sum * sum
  OBVIOUS
<1>2. from \in Nat /\ split + 1 <= from /\ from <= i /\ w \in Nat /\ i \in Nat
  <2>1. Len(v) \in Nat
    OBVIOUS
  <2>. QED  BY <1>1, <2>1, WindowStart
<1>3. PICK S : S = from..i
  OBVIOUS
<1>4. IsFiniteSet(S) /\ Cardinality(S) = w /\ i \in S
  BY <1>1, <1>2, <1>3, FS_Interval
<1>5. \A j \in S : v[j] \in Int
  <2>1. \A j \in S : j \in 1..Len(v)
    BY <1>2, <1>3
  <2>2. \A j \in 1..Len(v) : v[j] \in Int
    OBVIOUS
  <2>. QED  BY <2>1, <2>2
<1>6. sum \in Int /\ squares \in Int
  BY <1>1, <1>3, <1>4, <1>5, SpreadBound
<1>7. (w * v[i] - sum) * (w * v[i] - sum) <= (w - 1) * spread
  BY <1>1, <1>3, <1>4, <1>5, OutlierBound
<1>8. ZSquared(v, split, i) =
        IF w < 5 \/ spread = 0 THEN [num |-> 0, den |-> 1]
        ELSE [num |-> (w * v[i] - sum) * (w * v[i] - sum) * (w - 1), den |-> w * spread]
  BY <1>1, Zenon DEF ZSquared, SumOver, SquaresOver
<1>9. CASE w < 5 \/ spread = 0
  BY <1>8, <1>9
<1>10. CASE ~(w < 5 \/ spread = 0)
  <2>1. PICK m : m = (w * v[i] - sum) * (w * v[i] - sum)
    OBVIOUS
  <2>2. ZSquared(v, split, i) = [num |-> m * (w - 1), den |-> w * spread]
    BY <1>8, <1>10, <2>1, Zenon
  <2>3. PICK c, d : c = v[i] /\ d = w * c
    OBVIOUS
  <2>4. m \in Int /\ spread \in Int
    <3>1. c \in Int /\ d \in Int
      <4>1. c \in Int
        BY <1>4, <1>5, <2>3
      <4>. QED  BY <1>2, <2>3, <4>1, Z3
    <3>2. (d - sum) * (d - sum) \in Int
      BY <1>6, <3>1, Z3
    <3>3. m = (d - sum) * (d - sum)
      BY <2>1, <2>3, Zenon
    <3>4. PICK p, q : p = w * squares /\ q = sum * sum
      OBVIOUS
    <3>5. p \in Int /\ q \in Int
      <4>1. w * squares \in Int /\ sum * sum \in Int
        BY <1>2, <1>6, Z3
      <4>. QED  BY <3>4, <4>1
    <3>6. spread = p - q
      BY <1>1, <3>4, Zenon
    <3>7. p - q \in Int
      BY <3>5
    <3>. QED  BY <3>2, <3>3, <3>6, <3>7, Zenon
  <2>5. m <= (w - 1) * spread
    BY <1>7, <2>1, Zenon
  <2>6. w \in 5..(i - split)
    <3>1. w \in Nat /\ ~(w < 5)
      BY <1>2, <1>10
    <3>2. w <= i - split
      BY <1>1, <1>2
    <3>. QED  BY <1>2, <3>1, <3>2
  <2>7. w * (m * (w - 1)) <= (w - 1) * (w - 1) * (w * spread)
    <3>1. PICK k : k = w - 1
      OBVIOUS
    <3>2. k \in Nat /\ w = k + 1 /\ m <= k * spread
      BY <1>2, <2>5, <2>6, <3>1
    <3>3. PICK u, o : u = k * spread /\ o = k * (k + 1)
      OBVIOUS
    <3>4. u \in Int /\ o \in Nat /\ m <= u
      BY <2>4, <3>2, <3>3, Z3
    <3>5. o * m <= o * u
      BY <2>4, <3>4, TimesKeepsOrder
    <3>6. w * (m * k) = o * m /\ k * k * (w * spread) = o * u
      BY <2>4, <3>2, <3>3, Z3
    <3>. QED  BY <3>1, <3>5, <3>6
  <2>8. PICK f, g : f = m * (w - 1) /\ g = w * spread
    OBVIOUS
  <2>9. ZSquared(v, split, i).num = f /\ ZSquared(v, split, i).den = g
    BY <2>2, <2>8
  <2>. QED  BY <2>6, <2>7, <2>8, <2>9
<1>. QED  BY <1>9, <1>10

\* In absolute mode a score is a z-score over 6, and the default threshold of 0.8 asks for
\* 4.8: no minute of fewer than 25 scored ones reaches it, however far out it lies, so
\* that a metric with two hours of minutes or less has no z-score anomalies at all.
THEOREM AbsoluteNeedsMinutes ==
  ASSUME NEW v \in Seq(Int), NEW split \in Nat, split < Len(v), Len(v) < split + 25,
         NEW d, d.mode = "absolute"
  PROVE  Verdict("zscore", v, split, 8, d) = {}
<1>1. PICK z, S : z = ZBatch(v, split) /\ S = (split + 1)..Len(v)
  OBVIOUS
<1>2. DOMAIN z = S /\ \A i \in S : z[i].num \in Nat /\ z[i].den \in Nat \ {0}
  BY <1>1, ZScoresTyped DEF ZBatch
<1>3. PICK k \in S : ZScore(v, split, 8, "absolute") = ZFlags(z, z[k], 8, "absolute")
  BY <1>1, ZScoreByBatch
<1>4. ASSUME NEW i \in S, 100 * z[i].num >= 8 * 8 * 36 * z[i].den
      PROVE  FALSE
  <2>1. PICK a, b : a = z[i].num /\ b = z[i].den
    OBVIOUS
  <2>2. a \in Nat /\ b \in Nat \ {0} /\ 100 * a >= 2304 * b
    BY <1>2, <1>4, <2>1
  <2>3. z[i] = ZSquared(v, split, i)
    BY <1>1 DEF ZBatch
  <2>4. PICK w \in 5..(i - split) : w * a <= (w - 1) * (w - 1) * b
    <3>1. a # 0
      BY <2>2
    <3>2. a = 0 \/ \E w \in 5..(i - split) : w * a <= (w - 1) * (w - 1) * b
      BY <1>1, <2>1, <2>3, ZScoreBounded
    <3>. QED  BY <3>1, <3>2
  <2>5. w \in 5..24
    BY <1>1, <2>4
  <2>6. 23 * w >= (w - 1) * (w - 1)
    <3>1. w * w <= 24 * w
      BY <2>5, Z3
    <3>. QED  BY <2>5, <3>1, Z3
  <2>7. w * a <= 23 * (w * b)
    <3>1. 23 * w * b >= (w - 1) * (w - 1) * b
      BY <2>2, <2>5, <2>6, Z3
    <3>. QED  BY <2>2, <2>4, <2>5, <3>1, Z3
  <2>8. a <= 23 * b
    <3>1. w * a <= w * (23 * b)
      BY <2>2, <2>5, <2>7, Z3
    <3>. QED  BY <2>2, <2>5, <3>1, Z3
  <2>. QED  BY <2>2, <2>8
<1>5. ZFlags(z, z[k], 8, "absolute") = {}
  <2>1. \A i \in S : ~(100 * z[i].num >= 8 * 8 * 36 * z[i].den)
    BY <1>4
  <2>. QED  BY <1>2, <2>1 DEF ZFlags
<1>. QED  BY <1>3, <1>5 DEF Verdict

-----------------------------------------------------------------------------
(* Spikes, by the tasks and by the endpoint *)

\* Of minutes of which one at most is out of line, all order statistics but the last
\* are 0.
LEMMA OrderIsZero ==
  ASSUME NEW v, NEW n \in Nat, NEW e \in Nat, NEW r \in Nat, r <= n - 2,
         \A i \in 1..n : v[i] \in {0, 1, 2} /\ (i # e => v[i] = 0)
  PROVE  OrderOf(v, n, r) = 0
<1>1. IsFiniteSet(1..n) /\ Cardinality(1..n) = n
  BY FS_Interval
<1>2. IsFiniteSet((1..n) \ {e}) /\ Cardinality((1..n) \ {e}) >= n - 1
  <2>1. PICK S : S = 1..n
    OBVIOUS
  <2>2. IsFiniteSet(S) /\ Cardinality(S) = n
    BY <1>1, <2>1
  <2>3. IsFiniteSet(S \ {e})
        /\ Cardinality(S \ {e}) = IF e \in S THEN Cardinality(S) - 1 ELSE Cardinality(S)
    BY <2>2, FS_RemoveElement, Zenon
  <2>4. Cardinality(S \ {e}) >= n - 1
    <3>1. PICK a : a = Cardinality(S \ {e})
      OBVIOUS
    <3>2. a = n - 1 \/ a = n
      BY <2>2, <2>3, <3>1, Zenon
    <3>. QED  BY <3>1, <3>2
  <2>. QED  BY <2>1, <2>3, <2>4, Zenon
<1>3. ASSUME NEW S \in SUBSET (1..n)
      PROVE  IsFiniteSet(S) /\ Cardinality(S) \in Nat /\ Cardinality(S) <= n
  BY <1>1, FS_Subset, FS_CardinalityType
<1>4. ASSUME NEW S \in SUBSET (1..n), (1..n) \ {e} \subseteq S
      PROVE  Cardinality(S) >= n - 1
  <2>1. Cardinality((1..n) \ {e}) <= Cardinality(S) /\ Cardinality((1..n) \ {e}) \in Nat
    BY <1>2, <1>3, <1>4, FS_Subset, FS_CardinalityType
  <2>. QED  BY <1>2, <1>3, <2>1
<1>5. PICK u : u = OrderOf(v, n, r)
  OBVIOUS
<1>6. /\ \E i \in 1..n : u = v[i]
      /\ Cardinality({i \in 1..n : v[i] < u}) <= r
  <2>1. n \in Nat /\ r \in Nat /\ r < n
    OBVIOUS
  <2>2. AllIntegers(v, n)
    BY DEF AllIntegers
  <2>3. Ordered(v, n, r, u)
    BY <1>5, <2>1, <2>2, OrderTyped, Zenon
  <2>. QED  BY <2>3, Zenon DEF Ordered
<1>7. ASSUME u # 0 PROVE FALSE
  <2>1. u \in {1, 2}
    BY <1>6, <1>7
  <2>2. (1..n) \ {e} \subseteq {i \in 1..n : v[i] < u}
    BY <2>1
  <2>3. Cardinality({i \in 1..n : v[i] < u}) >= n - 1
        /\ Cardinality({i \in 1..n : v[i] < u}) \in Nat
    BY <1>3, <1>4, <2>2
  <2>. QED  BY <1>6, <2>3
<1>. QED  BY <1>5, <1>7

\* A spike is flagged by the fences of any earlier fit: a single minute is its own
\* quartiles, and of more, one out of line by c moves the upper quartile by at most
\* three quarters of c.
LEMMA IqrFlagsSpike ==
  ASSUME NEW v, NEW e, Spike(v, e), NEW split \in Nat, split < Len(v), NEW k \in 1..split
  PROVE  Len(v) \in Iqr(SubSeq(v, 1, k), v, split, 8)
<1>1. PICK n, fitted : n = Len(v) /\ fitted = SubSeq(v, 1, k)
  OBVIOUS
<1>2. /\ v \in Seq(Int) /\ n \in Nat /\ n \in (split + 1)..n /\ e \in Nat /\ k \in Nat /\ k # 0
      /\ k < n /\ v[n] \in {1, 2}
      /\ \A i \in 1..k : v[i] \in {0, 1, 2} /\ v[i] < v[n] /\ (i # e => v[i] = 0)
  <2>1. \A i \in 1..k : i \in 1..(n - 1) /\ i \in 1..n
    BY <1>1 DEF Spike
  <2>2. n \in 1..n /\ 1 \in 1..k
    BY <1>1 DEF Spike
  <2>. QED  BY <1>1, <2>1, <2>2 DEF Spike
<1>3. fitted \in Seq(Int) /\ Len(fitted) = k /\ fitted # <<>> /\ \A i \in 1..k : fitted[i] = v[i]
  <2>1. k \in 0..Len(v)
    BY <1>1, <1>2
  <2>2. fitted \in Seq(Int) /\ Len(fitted) = k /\ \A i \in 1..k : fitted[i] = v[i]
    BY <1>1, <1>2, <2>1, BeforeSplit
  <2>. QED  BY <1>2, <2>2
<1>4. PICK s : s = v[n]
  OBVIOUS
<1>5. s \in {1, 2} /\ \A i \in 1..k : fitted[i] \in {0, 1, 2} /\ fitted[i] < s /\ (i # e => fitted[i] = 0)
  BY <1>2, <1>3, <1>4
<1>6. PICK p, q : p = Percentile(fitted, 1, 4) /\ q = Percentile(fitted, 3, 4)
  OBVIOUS
<1>7. p \in Int /\ q \in Int /\ 0 <= p /\ q <= 4 * (s - 1)
  <2>1. 1 \in 0..4 /\ 3 \in 0..4 /\ 0 \in Int /\ s - 1 \in Int
    BY <1>5
  <2>2. \A i \in 1..Len(fitted) : 0 <= fitted[i] /\ fitted[i] <= s - 1
    BY <1>3, <1>5
  <2>3. p \in Int /\ 4 * 0 <= p
    BY <1>3, <1>6, <2>1, <2>2, PercentileInside
  <2>4. q \in Int /\ q <= 4 * (s - 1)
    BY <1>3, <1>6, <2>1, <2>2, PercentileInside
  <2>. QED  BY <2>3, <2>4
<1>8. p = q \/ q <= 3 * (s - 1)
  <2>0. 1 \in 0..4 /\ 3 \in 0..4 /\ 4 \in {4, Thousandths}
    OBVIOUS
  <2>1. PICK r, next, rest : Between(fitted, k, 3, 4, r, next, rest)
    BY <1>2, <1>3, <2>0, PercentileBetween, Zenon
  <2>2. /\ r \in 0..(k - 1) /\ next \in 0..(k - 1) /\ rest \in 0..3
        /\ (k - 1) * 3 = 4 * r + rest /\ r <= next
        /\ q = 4 * OrderOf(fitted, k, r) + rest * (OrderOf(fitted, k, next) - OrderOf(fitted, k, r))
    BY <1>6, <2>1 DEF Between
  <2>3. CASE k = 1
    <3>1. PICK o, after, more : Between(fitted, k, 1, 4, o, after, more)
      BY <1>2, <1>3, <2>0, PercentileBetween, Zenon
    <3>2. /\ o \in 0..(k - 1) /\ after \in 0..(k - 1) /\ more \in 0..3
          /\ p = 4 * OrderOf(fitted, k, o) + more * (OrderOf(fitted, k, after) - OrderOf(fitted, k, o))
          /\ (k - 1) * 1 = 4 * o + more
      BY <1>6, <3>1 DEF Between
    <3>3. o = 0 /\ after = 0 /\ more = 0 /\ r = 0 /\ next = 0 /\ rest = 0
      BY <2>2, <2>3, <3>2
    <3>. QED  BY <2>2, <3>2, <3>3
  <2>4. CASE k # 1
    <3>1. r \in Nat /\ r <= k - 2 /\ next \in Nat /\ next < k
      BY <1>2, <2>2, <2>4
    <3>2. OrderOf(fitted, k, r) = 0
      BY <1>2, <1>5, <3>1, OrderIsZero
    <3>3. PICK b : b = OrderOf(fitted, k, next)
      OBVIOUS
    <3>4. b \in Int /\ b <= s - 1 /\ s - 1 \in Nat
      <4>1. AllIntegers(fitted, k)
        BY <1>5 DEF AllIntegers
      <4>2. k \in Nat /\ next \in Nat /\ next < k
        BY <1>2, <3>1
      <4>3. Ordered(fitted, k, next, b)
        BY <3>3, <4>1, <4>2, OrderTyped, Zenon
      <4>4. \E i \in 1..k : b = fitted[i]
        BY <4>3, Zenon DEF Ordered
      <4>. QED  BY <1>5, <4>4
    <3>5. q = rest * b
      BY <2>2, <3>2, <3>3, <3>4
    <3>6. rest \in {0, 1, 2, 3}
      BY <2>2
    <3>7. rest * b <= 3 * (s - 1)
      BY <3>4, <3>6
    <3>. QED  BY <3>5, <3>7
  <2>. QED  BY <2>3, <2>4
<1>9. PICK dist, fence : dist = Max({0, 4 * s - q, p - 4 * s}) /\ fence = Max({3 * (q - p), 1})
  OBVIOUS
<1>10. dist \in Int /\ 4 * s - q <= dist
  <2>1. PICK D : D = {0, 4 * s - q, p - 4 * s}
    OBVIOUS
  <2>2. D \in SUBSET Int /\ 4 * s - q \in D
    BY <1>5, <1>7, <2>1
  <2>3. IsFiniteSet(D)
    <3>1. IsFiniteSet({0} \union {4 * s - q} \union {p - 4 * s})
      BY FS_Singleton, FS_Union
    <3>2. D = {0} \union {4 * s - q} \union {p - 4 * s}
      BY <2>1
    <3>. QED  BY <3>1, <3>2
  <2>4. dist \in D /\ \A j \in D : dist >= j
    BY <1>9, <2>1, <2>2, <2>3, MaxMin
  <2>. QED  BY <2>2, <2>4
<1>11. fence = IF 3 * (q - p) >= 1 THEN 3 * (q - p) ELSE 1
  <2>1. 3 * (q - p) \in Int /\ 1 \in Int
    BY <1>7
  <2>. QED  BY <1>9, <2>1, MaxOfTwo
<1>12. Reaches(2 * dist, fence, 8)
  BY <1>5, <1>7, <1>8, <1>10, <1>11 DEF Reaches
<1>13. Iqr(fitted, v, split, 8)
         = {i \in (split + 1)..Len(v) :
              Reaches(2 * Max({0, 4 * v[i] - q, p - 4 * v[i]}), Max({3 * (q - p), 1}), 8)}
  BY <1>6, Zenon DEF Iqr
<1>14. n \in Iqr(fitted, v, split, 8)
  BY <1>1, <1>2, <1>4, <1>9, <1>12, <1>13
<1>. QED  BY <1>1, <1>14

\* A spike is out of what the forest was fitted on, whatever share of that it was told
\* to call anomalous.
LEMMA ForestFlagsSpike ==
  ASSUME NEW v, NEW e, Spike(v, e), NEW split \in Nat \ {0}, split < Len(v),
         NEW threshold, NEW mode, NEW contamination \in 1..500
  PROVE  Len(v) \in Forest(SubSeq(v, 1, split), v, split, threshold, mode, contamination)
<1>1. PICK n, fitted, s, share :
        n = Len(v) /\ fitted = SubSeq(v, 1, split) /\ s = v[n] /\ share = Thousandths - contamination
  OBVIOUS
<1>2. /\ v \in Seq(Int) /\ n \in Nat /\ n \in (split + 1)..n /\ s \in Int
      /\ \A i \in 1..split : v[i] \in Int /\ 0 <= v[i] /\ v[i] < s
  <2>1. /\ v \in Seq({0, 1, 2}) /\ n \in Nat /\ n >= 21
        /\ \A i \in 1..(n - 1) : v[i] < s
    BY <1>1 DEF Spike
  <2>2. \A i \in 1..split : i \in 1..(n - 1) /\ i \in 1..n
    BY <1>1, <2>1
  <2>3. \A i \in 1..n : v[i] \in {0, 1, 2}
    BY <1>1, <2>1
  <2>4. n \in 1..n /\ n \in (split + 1)..n
    BY <1>1, <2>1
  <2>5. v \in Seq(Int)
    BY <2>1
  <2>6. s \in {0, 1, 2}
    BY <1>1, <2>3, <2>4
  <2>. QED  BY <2>1, <2>2, <2>3, <2>4, <2>5, <2>6
<1>3. fitted \in Seq(Int) /\ Len(fitted) = split /\ fitted # <<>> /\ \A i \in 1..split : fitted[i] = v[i]
  <2>1. split \in 0..Len(v)
    OBVIOUS
  <2>2. fitted \in Seq(Int) /\ Len(fitted) = split /\ \A i \in 1..split : fitted[i] = v[i]
    BY <1>1, <1>2, <2>1, BeforeSplit
  <2>. QED  BY <2>2
<1>4. share \in 0..Thousandths
  BY <1>1 DEF Thousandths
<1>5. PICK offset : offset = Percentile(fitted, share, Thousandths)
  OBVIOUS
<1>6. offset \in Int /\ offset <= Thousandths * (s - 1)
  <2>1. \A i \in 1..Len(fitted) : 0 <= fitted[i] /\ fitted[i] <= s - 1
    <3>1. \A i \in 1..split : v[i] <= s - 1
      BY <1>2
    <3>. QED  BY <1>2, <1>3, <3>1, Zenon
  <2>2. 0 \in Int /\ s - 1 \in Int
    BY <1>2
  <2>. QED  BY <1>3, <1>4, <1>5, <2>1, <2>2, PercentileInside
<1>7. Thousandths * s > offset
  BY <1>2, <1>6 DEF Thousandths
<1>8. PICK low, spread : /\ low = Min({v[i] : i \in (split + 1)..Len(v)})
                         /\ spread = Max({v[i] : i \in (split + 1)..Len(v)}) - low
  OBVIOUS
<1>9. Forest(fitted, v, split, threshold, mode, contamination)
        = {i \in (split + 1)..Len(v) :
             \/ Thousandths * v[i] > offset
             \/ mode = "relative" /\ Reaches(v[i] - low, Max({spread, 1}), threshold)}
  BY <1>1, <1>5, <1>8, Zenon DEF Forest
<1>10. n \in Forest(fitted, v, split, threshold, mode, contamination)
  BY <1>1, <1>2, <1>7, <1>9, Zenon
<1>. QED  BY <1>1, <1>10

\* Where a task scores anything at all, it splits the series where the endpoint does.
LEMMA SplitsAgree ==
  ASSUME NEW n \in Nat, NEW kind \in {"zscore", "iqr", "isolation_forest"},
         Scored(kind, n) # {}
  PROVE  /\ n > 1 /\ (kind = "isolation_forest" => n >= 10)
         /\ Split(kind, n) = (IF (4 * n) \div 5 >= 1 THEN (4 * n) \div 5 ELSE 1)
         /\ Split(kind, n) = Max({(4 * n) \div 5, 1})
<1>1. PICK q : q = (4 * n) \div 5
  OBVIOUS
<1>2. q \in Nat /\ 5 * q <= 4 * n /\ 4 * n <= 5 * q + 4
  BY <1>1, Z3
<1>3. CASE kind = "isolation_forest"
  <2>1. n >= 10
    BY <1>3 DEF Scored, Enough
  <2>2. q >= 5
    BY <1>2, <2>1
  <2>3. Split(kind, n) = Max({q, 5})
    BY <1>1, <1>3 DEF Split
  <2>4. Max({q, 5}) = q /\ Max({q, 1}) = q
    BY <1>2, <2>2, MaxOfTwo
  <2>. QED  BY <1>1, <2>1, <2>2, <2>3, <2>4
<1>4. CASE kind \in {"zscore", "iqr"}
  <2>1. Split(kind, n) = Max({q, 1})
    BY <1>1, <1>4 DEF Split
  <2>2. Max({q, 1}) = IF q >= 1 THEN q ELSE 1
    BY <1>2, MaxOfTwo
  <2>3. n > 1
    <3>1. n > 0 /\ Split(kind, n) + 1 <= n
      <4>1. PICK s : s = Split(kind, n)
        OBVIOUS
      <4>2. s \in Nat
        BY <1>2, <2>1, <2>2, <4>1
      <4>3. n > 0 /\ (s + 1)..n # {}
        BY <1>4, <4>1 DEF Scored, Enough
      <4>. QED  BY <4>1, <4>2, <4>3
    <3>. QED  BY <1>2, <2>1, <2>2, <3>1
  <2>. QED  BY <1>1, <1>4, <2>1, <2>2, <2>3
<1>. QED  BY <1>3, <1>4

(***************************************************************************)
(* For every series, threshold and scoring mode: whatever minute a z-score,*)
(* quartile or forest task flags, POST /anomalies/detect flags too, though *)
(* it splits the series and tests its length in code of its own; provided  *)
(* that the task calls no larger share anomalous than the endpoint, which  *)
(* does not read isolation_forest_contamination, and that it takes over no *)
(* stored model, which the endpoint never does.                            *)
(***************************************************************************)
THEOREM EndpointFlagsWhatTasksFlag ==
  ASSUME NEW v \in Seq(Int), NEW kind \in {"zscore", "iqr", "isolation_forest"},
         NEW threshold, NEW mode, NEW contamination \in 1..DefaultContamination
  PROVE  Flagged(kind, v, threshold, mode, contamination, <<>>)
           \subseteq DetectNow(kind, v, threshold, mode).flagged
<1>1. PICK n : n = Len(v)
  OBVIOUS
<1>2. n \in Nat
  BY <1>1
<1>3. CASE Scored(kind, n) = {}
  BY <1>1, <1>3 DEF Flagged
<1>4. CASE Scored(kind, n) # {}
  <2>1. n > 1 /\ (kind = "isolation_forest" => n >= 10) /\ Split(kind, n) = Max({(4 * n) \div 5, 1})
    BY <1>2, <1>4, SplitsAgree
  <2>2. n # 0 /\ n # 1 /\ kind \in Registry /\ kind # "prophet"
    BY <1>2, <2>1 DEF Registry
  <2>3. PICK split, fitted, built, d :
          /\ split = Split(kind, n) /\ fitted = SubSeq(v, 1, split)
          /\ built = [mode |-> mode, contamination |-> DefaultContamination, fitted |-> fitted]
          /\ d = [mode |-> mode, contamination |-> contamination, fitted |-> fitted]
    OBVIOUS
  <2>4. DetectNow(kind, v, threshold, mode).flagged = Verdict(kind, v, split, threshold, built)
    BY <1>1, <2>1, <2>2, <2>3, Zenon DEF DetectNow
  <2>5. Flagged(kind, v, threshold, mode, contamination, <<>>) = Verdict(kind, v, split, threshold, d)
    BY <1>1, <1>4, <2>3, Zenon DEF Flagged
  <2>6. /\ d.mode = mode /\ d.contamination = contamination /\ d.fitted = fitted
        /\ built.mode = mode /\ built.contamination = DefaultContamination /\ built.fitted = fitted
    BY <2>3
  <2>7. CASE kind \in {"zscore", "iqr"}
    BY <2>4, <2>5, <2>6, <2>7 DEF Verdict
  <2>8. CASE kind = "isolation_forest"
    <3>1. split \in 1..n /\ fitted \in Seq(Int) /\ fitted # <<>>
      <4>1. split \in Nat \ {0} /\ split < n
        BY <1>2, <1>4, <2>3, SplitInside
      <4>2. split \in 0..n
        BY <1>2, <4>1
      <4>3. fitted \in Seq(Int) /\ Len(fitted) = split
        BY <1>1, <2>3, <4>2, BeforeSplit
      <4>. QED  BY <1>2, <4>1, <4>3
    <3>2. PICK own, set, less, more :
            /\ own = Percentile(fitted, less, Thousandths) /\ less = Thousandths - DefaultContamination
            /\ set = Percentile(fitted, more, Thousandths) /\ more = Thousandths - contamination
      OBVIOUS
    <3>3. less \in 0..Thousandths /\ more \in 0..Thousandths /\ less <= more
      BY <3>2 DEF Thousandths, DefaultContamination
    <3>4. own \in Int /\ set \in Int /\ own <= set
      BY <3>1, <3>2, <3>3, PercentileInside, PercentilesAscend
    <3>5. \A i \in (split + 1)..Len(v) : Thousandths * v[i] > set => Thousandths * v[i] > own
      <4>1. \A i \in (split + 1)..Len(v) : v[i] \in Int
        <5>1. \A i \in (split + 1)..Len(v) : i \in 1..Len(v)
          BY <3>1
        <5>2. \A i \in 1..Len(v) : v[i] \in Int
          OBVIOUS
        <5>. QED  BY <5>1, <5>2
      <4>. QED  BY <3>4, <4>1 DEF Thousandths
    <3>6. PICK low, spread : /\ low = Min({v[i] : i \in (split + 1)..Len(v)})
                             /\ spread = Max({v[i] : i \in (split + 1)..Len(v)}) - low
      OBVIOUS
    <3>7. Forest(fitted, v, split, threshold, mode, contamination)
            = {i \in (split + 1)..Len(v) :
                 \/ Thousandths * v[i] > set
                 \/ mode = "relative" /\ Reaches(v[i] - low, Max({spread, 1}), threshold)}
      BY <3>2, <3>6, Zenon DEF Forest
    <3>8. Forest(fitted, v, split, threshold, mode, DefaultContamination)
            = {i \in (split + 1)..Len(v) :
                 \/ Thousandths * v[i] > own
                 \/ mode = "relative" /\ Reaches(v[i] - low, Max({spread, 1}), threshold)}
      BY <3>2, <3>6, Zenon DEF Forest
    <3>9. Forest(fitted, v, split, threshold, mode, contamination)
            \subseteq Forest(fitted, v, split, threshold, mode, DefaultContamination)
      BY <3>5, <3>7, <3>8, Zenon
    <3>. QED  BY <2>4, <2>5, <2>6, <2>8, <3>9 DEF Verdict
  <2>. QED  BY <2>7, <2>8
<1>. QED  BY <1>3, <1>4

\* The minutes that are out of line.
OutOfLine == {i \in DOMAIN series : series[i] # 0}

\* A series is one of small numbers, of which MaxOut at most are out of line.
SeriesInv ==
  /\ series \in Seq({0, 1, 2})
  /\ IsFiniteSet(OutOfLine) /\ Cardinality(OutOfLine) <= MaxOut

\* Every step keeps it.
LEMMA SeriesInvStep ==
  ASSUME MaxOut \in Nat
  PROVE  SeriesInv /\ [MCNext]_answersVars => SeriesInv'
<1> SUFFICES ASSUME SeriesInv, [MCNext]_answersVars PROVE SeriesInv'
  OBVIOUS
<1>1. CASE AppendMinute
  <2>1. PICK c \in {0, 1, 2} :
          /\ c # 0 => Cardinality(OutOfLine) < MaxOut
          /\ series' = Append(series, c)
    BY <1>1 DEF AppendMinute, OutOfLine
  <2>2. PICK n : n = Len(series) + 1
    OBVIOUS
  <2>3. /\ series' \in Seq({0, 1, 2}) /\ DOMAIN series = 1..(n - 1) /\ DOMAIN series' = 1..n
        /\ n \in Nat /\ series'[n] = c /\ \A i \in 1..(n - 1) : series'[i] = series[i]
    BY <2>1, <2>2, AppendProperties DEF SeriesInv
  <2>4. OutOfLine' = IF c = 0 THEN OutOfLine ELSE OutOfLine \union {n}
    <3>1. \A i \in 1..n : i = n \/ i \in 1..(n - 1)
      BY <2>3
    <3>2. n \in 1..n /\ \A i \in 1..(n - 1) : i \in 1..n
      BY <2>2, <2>3 DEF SeriesInv
    <3>. QED  BY <2>3, <3>1, <3>2 DEF OutOfLine
  <2>5. IsFiniteSet(OutOfLine) /\ Cardinality(OutOfLine) \in Nat /\ Cardinality(OutOfLine) <= MaxOut
    BY FS_CardinalityType DEF SeriesInv
  <2>6. n \notin OutOfLine
    BY <2>3 DEF OutOfLine
  <2>7. IsFiniteSet(OutOfLine') /\ Cardinality(OutOfLine') <= MaxOut
    <3>1. PICK S, T : S = OutOfLine /\ T = OutOfLine'
      OBVIOUS
    <3>2. T = (IF c = 0 THEN S ELSE S \union {n}) /\ IsFiniteSet(S) /\ n \notin S
          /\ Cardinality(S) \in Nat /\ Cardinality(S) <= MaxOut /\ (c # 0 => Cardinality(S) < MaxOut)
      BY <2>1, <2>4, <2>5, <2>6, <3>1
    <3>3. IsFiniteSet(S \union {n}) /\ Cardinality(S \union {n}) = Cardinality(S) + 1
      BY <3>2, FS_AddElement
    <3>4. IsFiniteSet(T) /\ Cardinality(T) <= MaxOut
      BY <3>2, <3>3
    <3>. QED  BY <3>1, <3>4
  <2>. QED  BY <2>3, <2>7 DEF SeriesInv
<1>2. CASE UNCHANGED series
  BY <1>2 DEF SeriesInv, OutOfLine
<1>3. CASE AppendRule \/ AppendEntry \/ List \/ ListLog \/ Report \/ Series
  BY <1>2, <1>3 DEF AppendRule, AppendEntry, List, ListLog, Report, Series
<1>4. CASE UNCHANGED answersVars
  BY <1>2, <1>4 DEF answersVars
<1>. QED  BY <1>1, <1>3, <1>4 DEF MCNext

\* With at most two minutes out of line, a last one that is further out than all
\* before it is a spike in the sense of the lemmas above.
LEMMA LastIsSpike ==
  ASSUME SeriesInv, MaxOut \in Nat, MaxOut <= 2, Len(series) >= 21,
         \A i \in 1..(Len(series) - 1) : series[i] < series[Len(series)]
  PROVE  \E e : Spike(series, e)
<1>1. PICK n : n = Len(series)
  OBVIOUS
<1>2. /\ n \in Nat /\ n >= 21 /\ series \in Seq({0, 1, 2}) /\ DOMAIN series = 1..n
      /\ \A i \in 1..n : series[i] \in {0, 1, 2}
      /\ \A i \in 1..(n - 1) : series[i] < series[n]
  BY <1>1 DEF SeriesInv
<1>3. n \in OutOfLine /\ \A i \in 1..(n - 1) : series[i] # 0 => i \in OutOfLine /\ i # n
  <2>1. n \in 1..n /\ 1 \in 1..(n - 1) /\ 1 \in 1..n
    BY <1>2
  <2>2. series[n] # 0
    BY <1>2, <2>1
  <2>. QED  BY <1>2, <2>1, <2>2 DEF OutOfLine
<1>4. ASSUME NEW j \in OutOfLine \ {n}, NEW k \in OutOfLine \ {n} PROVE j = k
  <2>1. CASE j # k
    <3>1. PICK S : S = OutOfLine
      OBVIOUS
    <3>2. IsFiniteSet(S) /\ Cardinality(S) \in Nat /\ Cardinality(S) <= 2 /\ n \in S
      BY <1>3, <3>1, FS_CardinalityType DEF SeriesInv
    <3>3. IsFiniteSet(S \ {n}) /\ Cardinality(S \ {n}) = Cardinality(S) - 1
      BY <3>2, FS_RemoveElement
    <3>4. IsFiniteSet((S \ {n}) \ {j}) /\ Cardinality((S \ {n}) \ {j}) = Cardinality(S \ {n}) - 1
      BY <3>1, <3>3, FS_RemoveElement
    <3>5. Cardinality(((S \ {n}) \ {j}) \ {k}) = Cardinality((S \ {n}) \ {j}) - 1
          /\ Cardinality(((S \ {n}) \ {j}) \ {k}) \in Nat
      BY <2>1, <3>1, <3>4, FS_RemoveElement, FS_CardinalityType
    <3>. QED  BY <3>2, <3>3, <3>4, <3>5
  <2>. QED  BY <2>1
<1>5. \E e \in 1..(n - 1) : \A i \in 1..(n - 1) : i # e => series[i] = 0
  <2>1. CASE \E e \in 1..(n - 1) : series[e] # 0
    BY <1>3, <1>4, <2>1
  <2>2. CASE \A e \in 1..(n - 1) : series[e] = 0
    <3>1. 1 \in 1..(n - 1)
      BY <1>2
    <3>. QED  BY <2>2, <3>1
  <2>. QED  BY <2>1, <2>2
<1>. QED  BY <1>1, <1>2, <1>5 DEF Spike

(***************************************************************************)
(* For series of every length, with at most one minute out of line before: *)
(* a minute further out than any before is flagged by the z-score and the  *)
(* forest tasks of the sweep, under every contamination, by an iqr task on *)
(* whichever earlier fit, and by the endpoint.                             *)
(***************************************************************************)
THEOREM SpikesAreSeen ==
  ASSUME MaxOut \in Nat, MaxOut <= 2
  PROVE  MCSpec => []SpikeSeen
<1>1. MCInit => SeriesInv
  <2> SUFFICES ASSUME MCInit PROVE SeriesInv
    OBVIOUS
  <2>1. series = <<>> /\ OutOfLine = {}
    BY DEF MCInit, OutOfLine
  <2>2. IsFiniteSet(OutOfLine) /\ Cardinality(OutOfLine) = 0
    BY <2>1, FS_EmptySet
  <2>. QED  BY <2>1, <2>2 DEF SeriesInv
<1>2. SeriesInv => SpikeSeen
  <2> SUFFICES ASSUME SeriesInv, NEW kind \in {"zscore", "iqr", "isolation_forest"},
                      NEW mode \in {"relative", "absolute"}, kind = "zscore" => mode = "relative",
                      Len(series) >= 21,
                      \A i \in 1..(Len(series) - 1) : series[i] < series[Len(series)]
               PROVE  /\ \A contamination \in Contaminations, earlier \in 0..Split(kind, Len(series)) :
                           Len(series) \in Flagged(kind, series, 8, mode, contamination,
                                                   SubSeq(series, 1, earlier))
                      /\ Len(series) \in DetectNow(kind, series, 8, mode).flagged
    BY DEF SpikeSeen
  <2>1. PICK n, split : n = Len(series) /\ split = Split(kind, n)
    OBVIOUS
  <2>2. n \in Nat /\ n >= 21 /\ series \in Seq({0, 1, 2})
    BY <2>1 DEF SeriesInv
  <2>3. PICK e : Spike(series, e)
    BY LastIsSpike
  <2>4. split \in Nat /\ split \in 1..n /\ split < n /\ split <= n - 5
        /\ split = Max({(4 * n) \div 5, 1})
    <3>1. PICK q : q = (4 * n) \div 5
      OBVIOUS
    <3>2. q \in Nat /\ 16 <= q /\ q <= n - 5
      BY <2>2, <3>1, Z3
    <3>3. Max({q, 5}) = q /\ Max({q, 1}) = q
      BY <3>2, MaxOfTwo
    <3>4. split = Max({q, IF kind = "isolation_forest" THEN 5 ELSE 1})
      BY <2>1, <3>1 DEF Split
    <3>5. split = q
      BY <3>3, <3>4
    <3>. QED  BY <2>2, <3>1, <3>2, <3>3, <3>5
  <2>5. Scored(kind, n) # {} /\ n \in (split + 1)..n
    <3>1. Enough(kind, n)
      BY <2>2 DEF Enough
    <3>2. n \in (split + 1)..n
      BY <2>2, <2>4
    <3>. QED  BY <2>1, <3>1, <3>2 DEF Scored
  <2>6. ASSUME NEW contamination \in 1..500, NEW k \in 1..split, kind # "iqr" => k = split, NEW d,
               d = [mode |-> mode, contamination |-> contamination, fitted |-> SubSeq(series, 1, k)]
        PROVE  n \in Verdict(kind, series, split, 8, d)
    <3>1. d.mode = mode /\ d.contamination = contamination /\ d.fitted = SubSeq(series, 1, k)
      BY <2>6
    <3>2. CASE kind = "zscore"
      <4>1. n \in ZScore(series, split, 8, "relative")
        BY <2>1, <2>3, <2>4, ZScoreFlagsSpike
      <4>. QED  BY <3>1, <3>2, <4>1 DEF Verdict
    <3>3. CASE kind = "iqr"
      <4>1. n \in Iqr(SubSeq(series, 1, k), series, split, 8)
        BY <2>1, <2>3, <2>4, IqrFlagsSpike
      <4>. QED  BY <3>1, <3>3, <4>1 DEF Verdict
    <3>4. CASE kind = "isolation_forest"
      <4>1. k = split
        BY <2>6, <3>4
      <4>2. split \in Nat \ {0} /\ split < Len(series)
        BY <2>1, <2>4
      <4>3. n \in Forest(SubSeq(series, 1, k), series, split, 8, mode, contamination)
        BY <2>1, <2>3, <4>1, <4>2, ForestFlagsSpike
      <4>. QED  BY <3>1, <3>4, <4>3 DEF Verdict
    <3>. QED  BY <3>2, <3>3, <3>4
  <2>7. ASSUME NEW contamination \in Contaminations, NEW earlier \in 0..split
        PROVE  n \in Flagged(kind, series, 8, mode, contamination, SubSeq(series, 1, earlier))
    <3>1. PICK stored, k : /\ stored = SubSeq(series, 1, earlier)
                           /\ k = (IF kind = "iqr" /\ stored # <<>> THEN earlier ELSE split)
      OBVIOUS
    <3>2. stored # <<>> => earlier # 0
      <4>1. earlier \in 0..Len(series)
        BY <2>1, <2>4
      <4>2. stored \in Seq({0, 1, 2}) /\ Len(stored) = earlier
        BY <2>2, <3>1, <4>1, BeforeSplit
      <4>. QED  BY <4>2, EmptySeq
    <3>3. k \in 1..split /\ (kind # "iqr" => k = split)
      <4>1. CASE kind = "iqr" /\ stored # <<>>
        <5>1. k = earlier /\ earlier # 0
          BY <3>1, <3>2, <4>1, Zenon
        <5>. QED  BY <4>1, <5>1
      <4>2. CASE ~(kind = "iqr" /\ stored # <<>>)
        <5>1. k = split
          BY <3>1, <4>2, Zenon
        <5>. QED  BY <2>4, <5>1
      <4>. QED  BY <4>1, <4>2
    <3>4. PICK d : d = [mode |-> mode, contamination |-> contamination, fitted |-> SubSeq(series, 1, k)]
      OBVIOUS
    <3>5. Flagged(kind, series, 8, mode, contamination, stored) = Verdict(kind, series, split, 8, d)
      <4>1. SubSeq(series, 1, k)
              = IF kind = "iqr" /\ stored # <<>> THEN stored ELSE SubSeq(series, 1, split)
        BY <3>1
      <4>. QED  BY <2>1, <2>5, <3>4, <4>1, Zenon DEF Flagged
    <3>6. contamination \in 1..500
      BY ContaminationAssumption
    <3>7. n \in Verdict(kind, series, split, 8, d)
      BY <2>6, <3>3, <3>4, <3>6
    <3>. QED  BY <3>1, <3>5, <3>7, Zenon
  <2>8. n \in DetectNow(kind, series, 8, mode).flagged
    <3>1. PICK d : d = [mode |-> mode, contamination |-> DefaultContamination,
                        fitted |-> SubSeq(series, 1, split)]
      OBVIOUS
    <3>2. n # 0 /\ n # 1 /\ kind \in Registry /\ kind # "prophet"
      BY <2>2 DEF Registry
    <3>3. DetectNow(kind, series, 8, mode).flagged = Verdict(kind, series, split, 8, d)
      BY <2>1, <2>4, <3>1, <3>2, Zenon DEF DetectNow
    <3>4. DefaultContamination \in 1..500 /\ split \in 1..split
      BY <2>4 DEF DefaultContamination
    <3>5. n \in Verdict(kind, series, split, 8, d)
      BY <2>6, <3>1, <3>4
    <3>. QED  BY <3>3, <3>5
  <2>. QED  BY <2>1, <2>7, <2>8
<1>3. SeriesInv /\ [MCNext]_answersVars => SeriesInv'
  BY SeriesInvStep
<1>. QED  BY <1>1, <1>2, <1>3, PTL DEF MCSpec
=============================================================================
