---------------------------- MODULE HealthSummary ----------------------------
(***************************************************************************)
(* What the dashboard computes from the results of a check: the summary     *)
(* (ai_analysis.go), the ring buffer of past snapshots (internal/history)   *)
(* and the trend of the health score (internal/prediction).                 *)
(* Percentages are rounded down; in the trend they are exact fractions.     *)
(***************************************************************************)
EXTENDS Integers, Sequences, FiniteSets, SequencesExt, FiniteSetsExt

SevRank(severity) ==
  CASE severity = "Critical" -> 3
    [] severity = "Warning"  -> 2
    [] severity = "Info"     -> 1
    [] OTHER                 -> 0

\* The key under which an issue is acknowledged or snoozed.
IssueKey(i) == <<i.ns, i.resource, i.type>>
ResourceKey(i) == <<i.ns, i.resource>>
Unmuted(issues, muted) == {i \in issues : IssueKey(i) \notin muted}

\* computeCheckerOperationalCounts: the resources with an unmuted issue, and
\* those whose worst one is critical.
Unhealthy(issues, muted) ==
  {ResourceKey(i) : i \in {x \in Unmuted(issues, muted) : SevRank(x.severity) > 0}}
CriticalResources(issues, muted) ==
  {r \in Unhealthy(issues, muted) :
     \E i \in Unmuted(issues, muted) : ResourceKey(i) = r /\ i.severity = "Critical"}

\* computeOperationalHealthScore.
HealthScore(checked, critical) ==
  IF checked <= 0 THEN 100 ELSE ((checked - Min({critical, checked})) * 100) \div checked

Succeeded(results) == {c \in DOMAIN results : ~results[c].error}
\* A sum of natural numbers is the size of a disjoint union.
SumOver(S, Of(_)) == Cardinality(UNION {{x} \X (1 .. Of(x)) : x \in S})

CountUnmuted(results, muted, severity) ==
  SumOver(Succeeded(results), LAMBDA c :
    Cardinality({i \in Unmuted(results[c].issues, muted) : i.severity = severity}))

\* Mutation: the counts forget the issue states.
SummaryUnmutable(results, muted) ==
  LET checked == SumOver(Succeeded(results), LAMBDA c :
        results[c].healthy + Cardinality(Unhealthy(results[c].issues, muted)))
      critical == SumOver(Succeeded(results), LAMBDA c :
        Cardinality(CriticalResources(results[c].issues, muted)))
  IN [healthy |-> SumOver(Succeeded(results), LAMBDA c : results[c].healthy),
      issues  |-> SumOver(Succeeded(results), LAMBDA c : Cardinality(results[c].issues)),
      counts  |-> [s \in {"Critical", "Warning", "Info"} |-> CountUnmuted(results, {}, s)],
      checked |-> checked,
      score   |-> HealthScore(checked, critical)]

\* buildDashboardResults: failed checkers add nothing; a muted issue is listed
\* and counted in the total, but neither in its severity nor in the score.
Summary(results, muted) ==
  LET checked == SumOver(Succeeded(results), LAMBDA c :
        results[c].healthy + Cardinality(Unhealthy(results[c].issues, muted)))
      critical == SumOver(Succeeded(results), LAMBDA c :
        Cardinality(CriticalResources(results[c].issues, muted)))
  IN [healthy |-> SumOver(Succeeded(results), LAMBDA c : results[c].healthy),
      issues  |-> SumOver(Succeeded(results), LAMBDA c : Cardinality(results[c].issues)),
      counts  |-> [s \in {"Critical", "Warning", "Info"} |-> CountUnmuted(results, muted, s)],
      checked |-> checked,
      score   |-> HealthScore(checked, critical)]

\* computeIssueHash: how often each signature occurs, whatever the order.
IssueHash(results) ==
  LET Signature(c, i) == <<c, i.type, i.severity, i.ns, i.resource>>
  IN UNION {{<<Signature(c, i), Cardinality({j \in results[c].issues :
                                   Signature(c, j) = Signature(c, i)})>>
             : i \in results[c].issues} : c \in Succeeded(results)}

-----------------------------------------------------------------------------
(* internal/history: RingBuffer. *)

\* A capacity below 1 is taken for 1.
NewRing(capacity, none) ==
  [buf |-> [i \in 0..((IF capacity < 1 THEN 1 ELSE capacity) - 1) |-> none],
   head |-> 0, count |-> 0]
Capacity(ring) == Cardinality(DOMAIN ring.buf)

AddSnapshot(ring, s) ==
  [buf   |-> [ring.buf EXCEPT ![ring.head] = s],
   head  |-> (ring.head + 1) % Capacity(ring),
   count |-> Min({ring.count + 1, Capacity(ring)})]

\* A ring buffer after these snapshots.
RingOf(capacity, none, snapshots) ==
  LET after[i \in 0..Len(snapshots)] ==
        IF i = 0 THEN NewRing(capacity, none) ELSE AddSnapshot(after[i - 1], snapshots[i])
  IN after[Len(snapshots)]

\* Mutation: the slots are read from the first, as before the buffer was full.
LastUnwrapped(ring, n) ==
  [i \in 1..Min({n, ring.count}) |-> ring.buf[ring.count - Min({n, ring.count}) + i - 1]]

\* The last n snapshots, oldest first.
LastSnapshots(ring, n) ==
  LET m == Min({n, ring.count})
      start == (ring.head - m + Capacity(ring)) % Capacity(ring)
  IN [i \in 1..m |-> ring.buf[(start + i - 1) % Capacity(ring)]]

-----------------------------------------------------------------------------
(* internal/prediction: Analyze, on snapshots with a time, a health score and *)
(* a number of issues.  The unit of time is 30 s (the check interval); R² and *)
(* the confidence interval are left out.                                      *)

MinDataPoints == 5
TicksPerHour == 120

\* The sum of a sequence of numbers.
Total(s) ==
  LET sum[i \in 0..Len(s)] == IF i = 0 THEN 0 ELSE sum[i - 1] + s[i]
  IN sum[Len(s)]

\* Ordinary least squares: the slope is num / denom.
Regression(snaps) ==
  LET n == Len(snaps)
      X == [i \in 1..n |-> snaps[i].time - snaps[1].time]
      Y == [i \in 1..n |-> snaps[i].score]
      Products(a, b) == [i \in 1..n |-> a[i] * b[i]]
  IN [num   |-> n * Total(Products(X, Y)) - Total(X) * Total(Y),
      denom |-> n * Total(Products(X, X)) - Total(X) * Total(X)]

\* Less than half a point per hour is stable.
TrendDirection(snaps) ==
  LET r == Regression(snaps)
  IN IF r.denom = 0 \/ 2 * TicksPerHour * (IF r.num < 0 THEN -r.num ELSE r.num) < r.denom
     THEN "stable"
     ELSE IF r.num > 0 THEN "improving" ELSE "degrading"

\* Averages of the two halves: the difference counts from half an issue on.
\* (findRiskyCheckers, computeSeverityTrajectories)
Trajectory(snaps) ==
  LET mid == Len(snaps) \div 2
      rest == Len(snaps) - mid
      issues == [i \in 1..Len(snaps) |-> snaps[i].issues]
      first == Total(SubSeq(issues, 1, mid))
      second == Total(SubSeq(issues, mid + 1, Len(snaps)))
      diff == 2 * (second * mid - first * rest)
  IN CASE diff > mid * rest -> "increasing"
       [] diff < -(mid * rest) -> "decreasing"
       [] OTHER -> "stable"

Prediction(snaps) ==
  IF Len(snaps) < MinDataPoints THEN [status |-> "insufficient_data"]
  ELSE [status |-> "ok", direction |-> TrendDirection(snaps), trajectory |-> Trajectory(snaps)]
=============================================================================
