------------------------------- MODULE Causal -------------------------------
(***************************************************************************)
(* Causal correlation (internal/causal): the issues of a check are grouped  *)
(* by cross-checker rules, by resource ownership and by namespace and time, *)
(* and an issue found in several groups is left to the most confident one.  *)
(* An event is an issue with the name of its checker.  The code goes        *)
(* through Go maps of checkers and namespaces, whose order is arbitrary:    *)
(* the operators that depend on it take the order as a parameter.           *)
(* Confidences are in percent; titles, IDs and root cause texts are left    *)
(* out, and so are timestamps, which are the same for all events of a check.*)
(***************************************************************************)
EXTENDS Naturals, Sequences, FiniteSets, SequencesExt

\* flattenEvents; the results of failed checkers are skipped.
Events(results) ==
  UNION {{[checker |-> c, issue |-> i] : i \in results[c].issues}
         : c \in {x \in DOMAIN results : ~results[x].error}}

EventsIn(results, ns) == {e \in Events(results) : e.issue.ns = ns}

\* What deduplicateGroups takes for the identity of an event.
EventKey(e) == <<e.checker, e.issue.ns, e.issue.resource, e.issue.type>>
Keys(group) == {EventKey(e) : e \in group.events}

SeverityRank(severity) ==
  CASE severity = "Critical" -> 3
    [] severity = "Warning"  -> 2
    [] severity = "Info"     -> 1
    [] OTHER                 -> 0

\* The highest severity of the events.
Highest(events) ==
  LET ranks == {SeverityRank(e.issue.severity) : e \in events}
  IN CHOOSE s \in {e.issue.severity : e \in events} :
       \A r \in ranks : r <= SeverityRank(s)

Group(rule, ns, events, confidence) ==
  [rule |-> rule, ns |-> ns, events |-> events, confidence |-> confidence,
   severity |-> Highest(events)]

-----------------------------------------------------------------------------
(* rules.go.  A rule gives a matching event a tag and fires in a namespace    *)
(* in which all its tags occur.  Three of the four rules look in the type of *)
(* a workload issue for a word that no built-in diagnosis contains.          *)

Grave(e) == e.issue.severity \in {"Critical", "Warning"}
OOMTypes == {"OOMKilled"}
CrashTypes == {"CrashLoopBackOff"}
ImagePullTypes == {"ImagePullBackOff", "ErrImagePull"}
PendingTypes == {"Pending", "Unschedulable"}

WorkloadOf(e, types) == e.checker = "workloads" /\ e.issue.type \in types

Rules ==
  {[name |-> "oom-quota", confidence |-> 85], [name |-> "crash-imagepull", confidence |-> 80],
   [name |-> "flux-chain", confidence |-> 90], [name |-> "pvc-workload", confidence |-> 75]}

\* The two sides of a rule.
CauseSide(rule, e) ==
  CASE rule.name = "oom-quota"       -> e.checker = "quotas" /\ Grave(e)
    [] rule.name = "crash-imagepull" -> WorkloadOf(e, ImagePullTypes)
    [] rule.name = "flux-chain"      -> e.checker = "gitrepositories" /\ Grave(e)
    [] rule.name = "pvc-workload"    -> e.checker = "pvcs" /\ Grave(e)
EffectSide(rule, e) ==
  CASE rule.name = "oom-quota"       -> WorkloadOf(e, OOMTypes)
    [] rule.name = "crash-imagepull" -> WorkloadOf(e, CrashTypes)
    [] rule.name = "flux-chain"      -> e.checker \in {"helmreleases", "kustomizations"} /\ Grave(e)
    [] rule.name = "pvc-workload"    -> WorkloadOf(e, PendingTypes)

\* applyCrossCheckerRules, in one namespace.
RuleGroups(results, ns) ==
  LET events == EventsIn(results, ns)
      Fires(rule) == /\ \E e \in events : CauseSide(rule, e)
                     /\ \E e \in events : EffectSide(rule, e)
  IN {Group(r.name, ns, {e \in events : CauseSide(r, e) \/ EffectSide(r, e)}, r.confidence)
      : r \in {x \in Rules : Fires(x)}}

-----------------------------------------------------------------------------
(* graph.go *)

\* resourceHierarchy.
Level(kind) ==
  CASE kind \in {"deployment", "statefulset", "daemonset"} -> 3
    [] kind = "replicaset" -> 2
    [] kind = "pod" -> 1
    [] OTHER -> 0

\* relatedByOwnership: the name of the higher kind begins the other's.
Owns(a, b) == Level(a[1]) > Level(b[1]) /\ Level(b[1]) > 0 /\ IsPrefix(a[2], b[2])
Related(a, b) == Owns(a, b) \/ Owns(b, a)

\* ResourceGraphCorrelator.Correlate in one namespace, with the events in this
\* order: each event that is still free takes the free events related to it;
\* an event that finds none stays free.
TakeRelated(acc, e, order) ==
  LET chain == {e} \cup {f \in ToSet(order) \ acc.used :
                            Related(e.issue.resource, f.issue.resource)}
  IN IF e \in acc.used \/ Cardinality(chain) < 2 THEN acc
     ELSE [used |-> acc.used \cup chain, chains |-> acc.chains \cup {chain}]

Chains(order) ==
  LET after[i \in 0..Len(order)] ==
        IF i = 0 THEN [used |-> {}, chains |-> {}]
        ELSE TakeRelated(after[i - 1], order[i], order)
  IN after[Len(order)].chains

GraphGroups(ns, order) ==
  {Group("resource-graph", ns, c, IF Cardinality(c) >= 3 THEN 90 ELSE 70) : c \in Chains(order)}

-----------------------------------------------------------------------------
(* temporal.go: all events of a check have its timestamp, so those of a       *)
(* namespace are within the window.                                           *)

TemporalGroups(results, ns) ==
  LET events == EventsIn(results, ns)
      checkers == {e.checker : e \in events}
  IN IF Cardinality(events) < 2 THEN {}
     ELSE {Group("temporal", ns, events,
                 50 + (IF Cardinality(checkers) > 1 THEN 20 ELSE 0)
                    + (IF Cardinality(events) >= 4 THEN 10 ELSE 0))}

-----------------------------------------------------------------------------
(* correlator.go *)

\* The first event of every key that no earlier group has claimed.
Unclaimed(group, claimed) ==
  LET free == {k \in Keys(group) : k \notin claimed}
  IN {CHOOSE e \in group.events : EventKey(e) = k : k \in free}

\* Mutation: the events a group keeps are not recorded as claimed.
DedupForgets(groups) == {g \in ToSet(groups) : Cardinality(Keys(g)) >= 2}

\* A group keeps the keys that no earlier group has claimed; with fewer than two
\* it is dropped and claims nothing.
Claim(acc, g) ==
  LET kept == Unclaimed(g, acc.claimed)
  IN IF Cardinality(kept) < 2 THEN acc
     ELSE [claimed |-> acc.claimed \cup {EventKey(e) : e \in kept},
           result  |-> acc.result \cup {[g EXCEPT !.events = kept]}]

\* deduplicateGroups, on the groups by falling confidence.
Deduplicate(groups) ==
  LET after[i \in 0..Len(groups)] ==
        IF i = 0 THEN [claimed |-> {}, result |-> {}]
        ELSE Claim(after[i - 1], groups[i])
  IN after[Len(groups)].result

\* The candidates of one namespace, by falling confidence; rules come before
\* chains and these before the temporal group.  Chains of equal confidence are
\* taken in any order.
Candidates(results, ns, order) ==
  LET Place(g) == CASE g.rule = "temporal" -> 2 [] g.rule = "resource-graph" -> 1 [] OTHER -> 0
      Before(g, h) == \/ g.confidence > h.confidence
                      \/ g.confidence = h.confidence /\ Place(g) < Place(h)
  IN {s \in SetToSeqs(RuleGroups(results, ns) \cup GraphGroups(ns, order)
                         \cup TemporalGroups(results, ns)) :
        \A i, j \in DOMAIN s : i < j => ~Before(s[j], s[i])}

\* Correlator.Analyze for the candidates of each namespace.  The keys of two
\* namespaces differ, so the groups of each are deduplicated alone.
Groups(candidates) == UNION {Deduplicate(candidates[ns]) : ns \in DOMAIN candidates}

\* sortGroups: by severity, then by confidence.  Groups equal in both come in
\* the order in which the namespaces were met.
Presented(groups) ==
  {s \in SetToSeqs(groups) : \A i, j \in DOMAIN s : i < j =>
     \/ SeverityRank(s[i].severity) > SeverityRank(s[j].severity)
     \/ SeverityRank(s[i].severity) = SeverityRank(s[j].severity)
        /\ s[i].confidence >= s[j].confidence}
=============================================================================
