----------------------------- MODULE Detection -----------------------------
(***************************************************************************)
(* Which points of a series a detector task fits, scores and flags: the    *)
(* split in workers/tasks.py and the score and detect methods under        *)
(* detection/.  A series is a sequence of integers, one per minute.  For   *)
(* prophet (an external model) they stand for how far out the point lies,  *)
(* in halves of its band, and for isolation_forest (external as well) for  *)
(* the negated score that its trees give the point.  Thresholds are tenths *)
(* (0 to 10, config.py); the clip of a score to 1 is left out, for none of *)
(* them tells it.  STL is left out: its decomposition is neither.          *)
(***************************************************************************)
EXTENDS Integers, Sequences, FiniteSetsExt

Thousandths == 1000 \* contaminations are counted in these

Window == 60 \* StatisticalDetector's window

Registry == {"zscore", "iqr", "stl", "prophet", "isolation_forest"}

Reaches(num, den, threshold) == 10 * num >= threshold * den

\* The square of a point's z-score, a fraction: the rolling mean and deviation are
\* taken over the scored part alone, the point included; its first four points have
\* none and score 0, and so does every point of a flat window.
ZSquared(v, split, i) ==
  LET from == Max({split + 1, i - Window + 1})
      w == i - from + 1
      sum == MapThenSumSet(LAMBDA j : v[j], from..i)
      squares == MapThenSumSet(LAMBDA j : v[j] * v[j], from..i)
      spread == w * squares - sum * sum
  IN  IF w < 5 \/ spread = 0 THEN [num |-> 0, den |-> 1]
      ELSE [num |-> (w * v[i] - sum) * (w * v[i] - sum) * (w - 1), den |-> w * spread]

Below(x, y) == x.num * y.den < y.num * x.den

\* Relative scores divide by the largest z-score of the batch and a little more
\* (1e-9, which counts only where the two sides would be equal), absolute ones by 6;
\* detect() then compares with the threshold (here both sides are squared).
ZScore(v, split, threshold, mode) ==
  LET z == [i \in split + 1..Len(v) |-> ZSquared(v, split, i)]
      largest == CHOOSE x \in {z[i] : i \in DOMAIN z} : \A i \in DOMAIN z : ~Below(x, z[i])
  IN  {i \in DOMAIN z :
         \/ threshold = 0
         \/ mode = "absolute" /\ 100 * z[i].num >= threshold * threshold * 36 * z[i].den
         \/ mode = "relative" /\ 100 * z[i].num * largest.den > threshold * threshold * largest.num * z[i].den}

\* numpy's percentile (linear interpolation) of a sample at num out of den parts,
\* times den.
Percentile(sample, num, den) ==
  LET n == Len(sample)
      at(r) == CHOOSE x \in {sample[i] : i \in 1..n} :
                 /\ Cardinality({i \in 1..n : sample[i] < x}) <= r
                 /\ Cardinality({i \in 1..n : sample[i] <= x}) > r
      r == ((n - 1) * num) \div den
      rest == ((n - 1) * num) % den
  IN  den * at(r) + rest * (at(Min({r + 1, n - 1})) - at(r))

\* The score is the distance from the quartiles of the fitted minutes, in fences of
\* 1.5 times their range (a fence of almost nothing when that is 0).
Iqr(fitted, v, split, threshold) ==
  LET q1 == Percentile(fitted, 1, 4)
      q3 == Percentile(fitted, 3, 4)
      dist(i) == Max({0, 4 * v[i] - q3, q1 - 4 * v[i]})
  IN  {i \in split + 1..Len(v) : Reaches(2 * dist(i), Max({3 * (q3 - q1), 1}), threshold)}

\* fit() predicts the minutes it was fitted on; score() leaves out every minute
\* that is not in this forecast, which scores 0.
Forecast(split) == 1..split

Prophet(v, split, threshold) ==
  {i \in split + 1..Len(v) : Reaches(IF i \in Forecast(split) THEN v[i] ELSE 0, 2, threshold)}

\* The decision score is taken from an offset, the share of the fitted minutes that
\* the contamination declares anomalous, and predict() says -1 where it
\* is negative: detect() flags these, whatever the threshold.  Relative scores are
\* min-max normalised, 0 without a spread, and do not depend on the offset; an absolute
\* score exceeds one half exactly when the decision is negative (thresholds up to one
\* half are left out).
Forest(fitted, v, split, threshold, mode, contamination) ==
  LET scored == split + 1..Len(v)
      offset == Percentile(fitted, Thousandths - contamination, Thousandths)
      low == Min({v[i] : i \in scored})
      spread == Max({v[i] : i \in scored}) - low
  IN  {i \in scored : \/ Thousandths * v[i] > offset
                      \/ mode = "relative" /\ Reaches(v[i] - low, Max({spread, 1}), threshold)}

\* What a detector, told how to score and fitted on some minutes, detects in the rest.
Verdict(kind, v, split, threshold, d) ==
  CASE kind = "zscore" -> ZScore(v, split, threshold, d.mode)
    [] kind = "iqr" -> Iqr(d.fitted, v, split, threshold)
    [] kind = "prophet" -> Prophet(v, split, threshold)
    [] kind = "isolation_forest" -> Forest(d.fitted, v, split, threshold, d.mode, d.contamination)
-----------------------------------------------------------------------------
\* Mutant: a tenth of the series is scored.
SplitLate(kind, n) == Max({(9 * n) \div 10, 1})

\* int(len(series) * 0.8), and never less than a floor of the task's own.
Split(kind, n) ==
  Max({(4 * n) \div 5, CASE kind = "prophet" -> 10 [] kind = "isolation_forest" -> 5 [] OTHER -> 1})

\* Shorter series are returned from without a verdict.
Enough(kind, n) ==
  CASE kind = "prophet" -> n >= 20 [] kind = "isolation_forest" -> n >= 10 [] OTHER -> n > 0

Scored(kind, n) == IF Enough(kind, n) THEN Split(kind, n) + 1..n ELSE {}

\* What a detector task reports; it has nothing to score before the split is passed.
\* With model reuse on, an iqr task takes over the quartiles of the minutes that an
\* earlier task fitted on (stored, <<>> where no fresh model is); the other kinds
\* always fit, or do not use what is stored.
Flagged(kind, v, threshold, mode, contamination, stored) ==
  LET split == Split(kind, Len(v))
      reused == kind = "iqr" /\ stored # <<>>
  IN  IF Scored(kind, Len(v)) = {} THEN {}
      ELSE Verdict(kind, v, split, threshold,
                   [mode |-> mode, contamination |-> contamination,
                    fitted |-> IF reused THEN stored ELSE SubSeq(v, 1, split)])

\* The registry builds a forest without the setting: IsolationForestDetector's default.
DefaultContamination == 50

\* detect_now has one floor for all kinds, and no least length: prophet raises when
\* it is fitted on fewer than two points, isolation_forest when it scores none.  It
\* fits anew, whatever is stored.
DetectNow(kind, v, threshold, mode) ==
  LET n == Len(v)
      split == Max({(4 * n) \div 5, 1})
      built == [mode |-> mode, contamination |-> DefaultContamination, fitted |-> SubSeq(v, 1, split)]
      answer(status, flagged) == [status |-> status, flagged |-> flagged]
  IN  CASE n = 0 -> answer(404, {})
        [] n > 0 /\ kind \notin Registry -> answer(400, {})
        [] \/ kind = "prophet" /\ n \in 1..2
           \/ kind = "isolation_forest" /\ n = 1 -> answer(500, {})
        [] n = 1 /\ kind \in Registry \ {"prophet", "isolation_forest"} -> answer(200, {})
        [] OTHER -> answer(200, Verdict(kind, v, split, threshold, built))
=============================================================================
