----------------------------- MODULE HealthCycle -----------------------------
(***************************************************************************)
(* The health of one cluster as the dashboard shows it: a check runs the    *)
(* checkers on the cluster, correlates their issues, reads the issue states *)
(* under the read lock, publishes under the write lock and records a        *)
(* snapshot (runCheckForCluster); meanwhile users acknowledge, snooze and   *)
(* unmute issues (handlers_issues.go), snoozes run out, and the enrichment  *)
(* of the published check returns insights about its causal groups.  Users  *)
(* also make requests (HealthReports), which find the same cluster.         *)
(*                                                                          *)
(* A check meets one snapshot of the cluster: the checkers list different   *)
(* kinds, so whatever they list at different moments is such a snapshot.    *)
(***************************************************************************)
EXTENDS Integers, Sequences, FiniteSets, Checkers, Causal, HealthSummary, HealthReports, AIContext

CONSTANTS
  Starts,         \* the cluster's objects, its kinds without a CRD, the scores of
                  \* earlier checks, the requests users may make, and a bound
                  \* for each count in used
  Existing,       \* the cluster's namespaces
  Plugins,        \* the registered plugin checkers
  HistorySize,    \* the capacity of the ring buffer
  SecretsIn       \* the namespace configured for notification secrets, or ""

\* A cluster is finite, and an object known by its kind, namespace and name (the
\* name of an event here is that of the object it is about); a request is of one
\* of two kinds; scores are integers here.
ASSUME StartsAssumption ==
  \A start \in Starts :
    /\ IsFiniteSet(start.objects)
    /\ \A o \in start.objects : /\ o.kind = "pod" => /\ IsFiniteSet(o.containers)
                                                   /\ \A c \in o.containers : c.kb \in Nat
                                /\ o.kind = "resourcequota" => IsFiniteSet(o.entries)
                                /\ o.kind = "event" => o.size \in Nat
    /\ \A o, p \in start.objects :
         o.kind = p.kind /\ o.ns = p.ns /\ o.name = p.name => o = p \/ o.kind = "event"
    /\ start.scores \in Seq(Int)
    /\ \A r \in start.requests :
         "type" \in DOMAIN r /\ r.type \in {"troubleshoot", "teamhealth"}
ASSUME HistorySizeAssumption == HistorySize \in Int
ASSUME ExistingAssumption == IsFiniteSet(Existing)
ASSUME PluginsAssumption ==
  IsFiniteSet(Plugins) /\ \A p \in Plugins : IsFiniteSet(p.rules)

VARIABLES
  cluster,  \* all its objects, those present now, the kinds without a CRD
  states,   \* cs.issueStates: per key, its action and whether a snooze ran out
  check,    \* runCheckForCluster: where it is and what it has computed
  latest,   \* cs.latest, and cs.latestCausal
  cache,    \* cs.lastAICacheHash and cs.lastCausalInsights
  ring,     \* cs.history
  report,   \* the last request and its outcome
  published, \* the snapshots of all checks (a history variable)
  used      \* the checks, changes, mutes, faults and reports so far, and their bounds

vars == <<cluster, states, check, latest, cache, ring, report, published, used>>

Idle == [pc |-> "idle"]
NoUpdate == [shown |-> FALSE]
NoReport == [request |-> [type |-> "none"]]

Snapshot(time, score, issues) == [time |-> time, score |-> score, issues |-> issues]
NoSnapshot == Snapshot(0, 100, 0)

Init ==
  /\ \E start \in Starts :
       /\ cluster = [all |-> start.objects, present |-> start.objects, absent |-> start.absent,
                     requests |-> start.requests]
       /\ used = [count |-> [x \in DOMAIN start.bound |-> 0], bound |-> start.bound]
       /\ published = [i \in DOMAIN start.scores |->
                         Snapshot(i, start.scores[i], 100 - start.scores[i])]
  /\ states = <<>>
  /\ check = Idle
  /\ latest = NoUpdate
  /\ report = NoReport
  /\ cache = [hash |-> {}, valid |-> FALSE, insights |-> <<>>]
  /\ ring = RingOf(HistorySize, NoSnapshot, published)

Spend(what) ==
  /\ \A x \in what : used.count[x] < used.bound[x]
  /\ used' = [used EXCEPT !.count = [x \in DOMAIN @ |-> IF x \in what THEN @[x] + 1 ELSE @[x]]]

-----------------------------------------------------------------------------
(* The cluster. *)

\* An object is deleted or comes back.
Change(o) ==
  /\ Spend({"changes"})
  /\ cluster' = [cluster EXCEPT !.present = IF o \in @ THEN @ \ {o} ELSE @ \cup {o}]
  /\ UNCHANGED <<states, check, latest, cache, ring, report, published>>

\* The reads and writes that fail meanwhile: none, one, or a kind everywhere.
Failures ==
  LET kinds == {o.kind : o \in cluster.present} \cup {"pod", "networkpolicy", "namespace", "configmap"}
      names == FilterSystem(Selected(Existing, {}))
  IN {{}} \cup {{<<k, ns>>} : k \in kinds, ns \in names} \cup {{k} \X names : k \in kinds}

\* All namespaces but those of the system, or the default one.
CheckedNamespaces(failed) ==
  LET names == IF \E f \in failed : f[1] = "namespace" THEN {"default"}
               ELSE FilterSystem(Selected(Existing, {}))
  IN IF names = {} THEN {"default"} ELSE names

World(failed) ==
  [objects |-> {o \in cluster.present : o.kind \notin cluster.absent},
   namespaces |-> CheckedNamespaces(failed), failed |-> failed, absent |-> cluster.absent,
   restartThreshold |-> DefaultRestartThreshold]

-----------------------------------------------------------------------------
(* Issue states (handlers_issues.go). *)

ActiveKeys(s) == {k \in DOMAIN s : ~s[k].expired}
RestrictTo(s, keys) == [k \in keys |-> s[k]]

\* Observations: the keys muted ever since, and at some time since, the check
\* has begun to read the states.
Observed(c, s) ==
  IF c.pc = "read"
  THEN [c EXCEPT !.held = @ \cap ActiveKeys(s), !.seen = @ \cup ActiveKeys(s)]
  ELSE c

SetStates(s) ==
  /\ states' = s
  /\ check' = Observed(check, s)
  /\ UNCHANGED <<cluster, latest, cache, ring, report, published>>

\* POST acknowledge or snooze, of an issue that is shown; it replaces the state
\* the issue had.
Mute(k, action) ==
  /\ Spend({"mutes"})
  /\ SetStates([x \in DOMAIN states \cup {k} |->
                  IF x = k THEN [action |-> action, expired |-> FALSE] ELSE states[x]])

\* DELETE acknowledge or snooze, either of which removes any state.
Unmute(k) ==
  /\ UNCHANGED used
  /\ SetStates(RestrictTo(states, DOMAIN states \ {k}))

\* The time of a snooze is over (IsExpired).
Expire(k) ==
  /\ states[k].action = "snoozed" /\ ~states[k].expired
  /\ UNCHANGED used
  /\ SetStates([states EXCEPT ![k].expired = TRUE])

\* cleanupExpiredIssueStates and GET /api/issue-states.
Prune ==
  /\ ActiveKeys(states) # DOMAIN states
  /\ UNCHANGED used
  /\ SetStates(RestrictTo(states, ActiveKeys(states)))

-----------------------------------------------------------------------------
(* runCheckForCluster. *)

Identity(g) == [rule |-> g.rule, ns |-> g.ns, keys |-> Keys(g)]
Bare(groups) == [i \in DOMAIN groups |->
  [id |-> Identity(groups[i]), severity |-> groups[i].severity, insight |-> {}]]

\* An order of those events of a namespace that ownership may relate: the
\* checkers in any order.
EventOrders(results, ns) ==
  LET events == {e \in EventsIn(results, ns) : Level(e.issue.resource[1]) > 0}
      checkers == {e.checker : e \in events}
      OfChecker(c) == SetToSeq({e \in events : e.checker = c})
  IN {FlattenSeq([i \in DOMAIN cs |-> OfChecker(cs[i])]) : cs \in SetToSeqs(checkers)}

Correlated(results, names) ==
  LET lists == [ns \in names |-> UNION {Candidates(results, ns, order) :
                                         order \in EventOrders(results, ns)}]
  IN UNION {Presented(Groups(candidates)) :
            candidates \in {f \in [names -> UNION {lists[ns] : ns \in names}] :
                               \A ns \in names : f[ns] \in lists[ns]}}

\* RunAll and Analyze.
Collect ==
  /\ check.pc = "idle"
  /\ \E failed \in Failures :
       /\ Spend({"checks"} \cup IF failed = {} THEN {} ELSE {"faults"})
       /\ LET results == RunAll(World(failed), Plugins)
          IN \E groups \in Correlated(results, CheckedNamespaces(failed)) :
               check' = [pc |-> "collected", world |-> World(failed), results |-> results,
                         groups |-> Bare(groups)]
  /\ UNCHANGED <<cluster, states, latest, cache, ring, report, published>>

\* applyCausalInsights: the insight with index i goes to the group at i.
ApplyInsights(groups, insights) ==
  [i \in DOMAIN groups |->
     IF i \in DOMAIN insights THEN [groups[i] EXCEPT !.insight = {insights[i]}] ELSE groups[i]]

\* The check counter is incremented; with the same issues as at the last
\* success the cached insights are used again; the issue states are read.
ReadStates ==
  /\ check.pc = "collected"
  /\ LET hit == cache.valid /\ cache.hash = IssueHash(check.results)
         groups == IF hit THEN ApplyInsights(check.groups, cache.insights) ELSE check.groups
         active == ActiveKeys(states)
     IN check' = [pc |-> "read", world |-> check.world, results |-> check.results,
                  groups |-> groups, hit |-> hit,
                  active |-> active, held |-> active, seen |-> active]
  /\ UNCHANGED <<cluster, states, latest, cache, ring, report, published, used>>

\* Under the write lock: expired snoozes are dropped, the others merged into
\* the update, and update and groups replaced.
Publish ==
  /\ check.pc = "read"
  /\ states' = RestrictTo(states, ActiveKeys(states))
  /\ latest' = [shown |-> TRUE, world |-> check.world, results |-> check.results,
                summary |-> Summary(check.results, check.active), muted |-> check.active,
                states |-> DOMAIN states', groups |-> check.groups,
                pending |-> ~check.hit, held |-> check.held, seen |-> check.seen]
  /\ check' = [pc |-> "record"]
  /\ UNCHANGED <<cluster, cache, ring, report, published, used>>

\* The snapshot is recorded after the lock was released.
Record ==
  /\ check.pc = "record"
  /\ LET s == Snapshot(Len(published) + 1, latest.summary.score, latest.summary.issues)
     IN ring' = AddSnapshot(ring, s) /\ published' = Append(published, s)
  /\ check' = Idle
  /\ UNCHANGED <<cluster, states, latest, cache, report, used>>

\* handleEnrichmentResult, for the newest check: the insights go to the groups
\* shown and into the cache, by index.  The AI may leave groups out.
Enrich ==
  /\ latest.shown /\ latest.pending
  /\ check.pc \in {"idle", "collected"}
  /\ \E n \in 0..Len(latest.groups) :
       LET insights == [i \in 1..n |-> latest.groups[i].id]
       IN /\ cache' = [hash |-> IssueHash(latest.results), valid |-> TRUE,
                       insights |-> insights]
          /\ latest' = [latest EXCEPT !.pending = FALSE,
                          !.groups = ApplyInsights(@, insights)]
  /\ UNCHANGED <<cluster, states, check, ring, report, published, used>>

ShownKeys ==
  IF latest.shown
  THEN UNION {{IssueKey(i) : i \in latest.results[c].issues} : c \in DOMAIN latest.results}
  ELSE {}

\* A request is admitted and worked on; checks go on independently.
Serve(request) ==
  /\ Admitted(request)
  /\ \E failed \in Failures :
       /\ Spend({"reports"} \cup IF failed = {} THEN {} ELSE {"faults"})
       /\ LET world == World(failed)
              r == Submitted(request)
          IN report' = [request |-> r, world |-> world,
               outcome |-> IF r.type = "troubleshoot" THEN Troubleshoot(world, r)
                           ELSE TeamHealth(world, Plugins, Existing, SecretsIn, r)]
  /\ UNCHANGED <<cluster, states, check, latest, cache, ring, published>>

\* The worker calls the AI for the newest check: it reads events and logs now.
Analyze ==
  /\ latest.shown /\ latest.pending
  /\ \E failed \in Failures :
       /\ Spend({"reports"} \cup IF failed = {} THEN {} ELSE {"faults"})
       /\ LET world == World(failed)
              batch == Batch(world, latest.results)
          IN report' = [request |-> [type |-> "analysis"], world |-> world,
                        results |-> latest.results,
                        given |-> batch, sent |-> CapTokenBudget(batch)]
  /\ UNCHANGED <<cluster, states, check, latest, cache, ring, published>>

Next ==
  \/ \E request \in cluster.requests : Serve(request)
  \/ \E o \in cluster.all : Change(o)
  \/ \E k \in ShownKeys, action \in {"acknowledged", "snoozed"} : Mute(k, action)
  \/ \E k \in DOMAIN states : Unmute(k) \/ Expire(k)
  \/ Prune \/ Collect \/ ReadStates \/ Publish \/ Record \/ Analyze \/ Enrich

Spec == Init /\ [][Next]_vars

-----------------------------------------------------------------------------
Built(c) == c \in DOMAIN BuiltinKinds /\ ~latest.results[c].error

\* The numbers of the summary are computed apart from each other and agree: the
\* score is below 100 exactly if a critical issue counts, the severities and
\* the muted issues make up the total, and every object a built-in checker saw
\* is either healthy or one of the resources with an issue
\* (ai_analysis.go:555 to 660).
SummaryAgrees ==
  LET summary == latest.summary
      MutedIn(c) == Cardinality({i \in latest.results[c].issues :
                                   IssueKey(i) \in latest.muted})
  IN latest.shown =>
       /\ summary.score < 100 <=> summary.counts["Critical"] > 0
       /\ summary.issues = summary.counts["Critical"] + summary.counts["Warning"]
                           + summary.counts["Info"] + SumOver(Succeeded(latest.results), MutedIn)
       /\ \A c \in {x \in DOMAIN latest.results : Built(x)} :
            latest.results[c].healthy + Cardinality(Unhealthy(latest.results[c].issues, {}))
              = Cardinality(Listed(latest.world, BuiltinKinds[c]))
                + Cardinality(Unprotected(latest.world, BuiltinKinds[c]))

\* A mute that lasts while a check reads the states and publishes is honoured:
\* the issue does not count, and its state is shown with it.  Nothing else is
\* left out: an expired or removed mute, or one that pruning has overtaken,
\* hides no issue (ai_analysis.go:441 to 469, server.go:177).
MutesHonoured ==
  LET Counted(s, muted) == CountUnmuted(latest.results, muted, s)
  IN latest.shown =>
       /\ latest.held \subseteq latest.states
       /\ \A s \in DOMAIN latest.summary.counts :
            /\ latest.summary.counts[s] >= Counted(s, latest.seen)
            /\ latest.summary.counts[s] <= Counted(s, latest.held)

Completed(type) == report.request.type = type /\ report.outcome.phase = "Completed"

\* The rules for pods exist twice (workload/checker.go:193,
\* troubleshootrequest_controller.go:292): a troubleshooting of a workload
\* finds what the health check finds, and also takes a succeeded pod for a
\* problem.  The logs stay within the size of a ConfigMap, every container's
\* are there unless the limit was reached, and none under a name that stands
\* for no such container.
TroubleshootAgrees ==
  LET r == report.request
      out == report.outcome
      Plain(issues) == {[type |-> i.type, severity |-> i.severity, at |-> i.at] : i \in issues}
      Ended == {[type |-> "PodNotRunning", severity |-> "Critical", at |-> p.name] :
                p \in {x \in out.pods : x.phase = "Succeeded"}}
  IN Completed("troubleshoot") =>
       /\ Asked(r, {"diagnose", "describe", "all"}) =>
            \A o \in report.world.objects :
              o.kind = r.kind /\ o.kind \in WorkloadKinds /\ o.ns = r.ns /\ o.name = r.name =>
                out.issues = Plain(IssuesOf(report.world, o)) \cup Ended
       /\ \A logs \in out.logs :
            /\ logs.size <= MaxTotalSize + MaxPerContainer
            /\ DOMAIN logs.data \subseteq UNION {{LogName(p, c) : c \in p.containers} : p \in out.pods}
            /\ logs.size <= MaxTotalSize =>
                 \A p \in out.pods : \A c \in p.containers : LogName(p, c) \in DOMAIN logs.data

\* A TeamHealthRequest and the dashboard count in separate code
\* (teamhealthrequest_controller.go:317, ai_analysis.go:545): on the same
\* results they agree; a target is notified of a cluster that scores below
\* 100 whatever its threshold, and below its threshold never; and a report
\* without issues, for which every list was read, covers the objects of all
\* namespaces asked for, unless there were too many of them.
ReportAgrees ==
  LET r == report.request
      out == report.outcome
      summary == Summary(out.results, {})
      ask == IF r.scope.namespaces = <<>>
             THEN UNION {Selected(Existing, labels) : labels \in r.scope.selector}
             ELSE ToSet(r.scope.namespaces) \cap {n.name : n \in Existing}
  IN Completed("teamhealth") =>
       /\ out.totals.healthy = summary.healthy /\ out.totals.issues = summary.issues
       /\ out.totals.critical = summary.counts["Critical"]
       /\ out.totals.warning = summary.counts["Warning"]
       /\ \A target \in out.notified :
            /\ target.onSeverity = "Critical" => summary.score < 100
            /\ target.onSeverity = "Warning" => summary.score < 100 \/ summary.counts["Warning"] > 0
       /\ summary.score < 100 =>
            \A target \in r.notify : target.onCompletion /\ target.url = "https" => target \in out.notified
       /\ summary.issues = 0 /\ out.world.failed = {} /\ Cardinality(ask) <= MaxNamespaces =>
            \A o \in report.world.objects :
              o.ns \in ask /\ r.checks \in {{}, DOMAIN BuiltinKinds} /\ o.kind \in UNION Range(BuiltinKinds)
                => IssuesOf(out.world, o) = {}

\* The batch for the AI is cut twice, to a number of issues and to a size, over
\* several passes whose running total is subtracted from at three places
\* (checker.go:277, context_builder.go:282).  Only issues at most as severe as
\* all that are sent are left out; events and logs end up within the size, by
\* cutting the oldest; no line is cut, and no issue loses its last event, while
\* others still have several; and not more is cut than it takes.
ContextFits ==
  LET given == report.given
      sent == report.sent
      NextCut(i) ==
        (IF Len(sent[i].events) = Len(given[i].events) THEN {}
         ELSE {given[i].events[Len(sent[i].events) + 1].size})
        \cup (IF Len(sent[i].logs) = Len(given[i].logs) THEN {}
              ELSE {given[i].logs[Len(given[i].logs) - Len(sent[i].logs)]})
  IN report.request.type = "analysis" =>
       /\ \A i \in ToSet(Collected(report.results)) :
            Signature(i) \notin {Signature(sent[k].issue) : k \in DOMAIN sent} =>
              \A k \in DOMAIN sent : SevRank(i.severity) <= SevRank(sent[k].issue.severity)
       /\ Chars(sent) <= MaxTotalChars
       /\ \A k \in DOMAIN sent : /\ IsPrefix(sent[k].events, given[k].events)
                                 /\ IsSuffix(sent[k].logs, given[k].logs)
       /\ \A j, k \in DOMAIN sent :
            /\ sent[k].logs # given[k].logs => Len(sent[j].events) <= 1
            /\ sent[k].events = <<>> /\ given[k].events # <<>> => Len(sent[j].logs) <= 1
       /\ sent # given => \E k \in DOMAIN sent : \E size \in NextCut(k) : Chars(sent) + size > MaxTotalChars

\* README.md:365 bounds the "Max log lines per crash-looping pod": with an issue
\* about a container that is not ready or keeps restarting goes the log of its
\* pod, where one can be read (context_builder.go:65 to 73).
CrashLogsSent ==
  LET Readable(i) == LogsFor(report.world, [i EXCEPT !.type = "CrashLoopBackOff"]) # <<>>
  IN report.request.type = "analysis" =>
       \A k \in DOMAIN report.given :
         LET c == report.given[k]
         IN c.issue.type \in {"ContainerNotReady", "HighRestartCount"} /\ Readable(c.issue) =>
              c.logs # <<>>

KeysIn(ns) == {EventKey(e) : e \in EventsIn(latest.results, ns)}
Grouped == UNION {latest.groups[i].id.keys : i \in DOMAIN latest.groups}
FluxChain(ns) ==
  LET chain == CHOOSE r \in Rules : r.name = "flux-chain"
      events == EventsIn(latest.results, ns)
  IN IF (\E e \in events : CauseSide(chain, e)) /\ (\E e \in events : EffectSide(chain, e))
     THEN {EventKey(e) : e \in {x \in events : CauseSide(chain, x) \/ EffectSide(chain, x)}}
     ELSE {}

\* Three correlators claim the same issues, and deduplication drops groups and
\* releases their claims (correlator.go:89 to 122).  In the end no issue is in
\* two groups, no group has one issue only, at most one issue of a namespace
\* is left alone, and a broken Flux source is shown together with everything
\* that depends on it.
CorrelationComplete ==
  LET groups == latest.groups
  IN latest.shown =>
       /\ \A i, j \in DOMAIN groups : i # j => groups[i].id.keys \cap groups[j].id.keys = {}
       /\ \A i \in DOMAIN groups : Cardinality(groups[i].id.keys) >= 2
       /\ \A ns \in latest.world.namespaces : Cardinality(KeysIn(ns) \ Grouped) <= 1
       /\ \A ns \in latest.world.namespaces : FluxChain(ns) # {} =>
            \E i \in DOMAIN groups : groups[i].id.rule = "flux-chain"
                                     /\ groups[i].id.keys = FluxChain(ns)

Rising(s) == \A i \in 2..Len(s) : s[i - 1].score <= s[i].score
Falling(s) == \A i \in 2..Len(s) : s[i - 1].score >= s[i].score

TrendWindow == 50 \* snapshots, at most

\* What the trend is computed from and what it says: the ring buffer returns
\* the newest snapshots, oldest first and as many as there are or it can hold,
\* also after it has wrapped around (history/ringbuffer.go:77); a score that
\* never fell in them is never called degrading, and one that also rose by 50
\* points is called improving (prediction/analyzer.go:58).
TrendFollows ==
  LET window == LastSnapshots(ring, TrendWindow)
      n == Len(window)
      trend == Prediction(window)
      rise == window[n].score - window[1].score
  IN /\ window = SubSeq(published, Len(published) - n + 1, Len(published))
     /\ n \in {TrendWindow, Capacity(ring), Len(published)}
     /\ \A bound \in {TrendWindow, Capacity(ring), Len(published)} : n <= bound
     /\ trend.status = "ok" =>
          /\ Rising(window) => trend.direction # "degrading"
          /\ Rising(window) /\ rise >= 50 => trend.direction = "improving"
          /\ Falling(window) => trend.direction # "improving"
          /\ Falling(window) /\ rise <= -50 => trend.direction = "degrading"

\* The AI's analysis of a group is shown with that group: types.go:66 says
\* "AIEnhanced is true when this group has been analyzed by AI."
InsightsOwn ==
  latest.shown =>
    \A i \in DOMAIN latest.groups : latest.groups[i].insight \subseteq {latest.groups[i].id}
=============================================================================
