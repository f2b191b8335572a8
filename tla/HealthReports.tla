---------------------------- MODULE HealthReports ----------------------------
(***************************************************************************)
(* What the requests answer: the admission webhooks (api/v1alpha1), the     *)
(* namespaces of a scope (internal/scope), the diagnosis, the logs and the  *)
(* events of a TroubleshootRequest, and the results and notifications of a  *)
(* TeamHealthRequest (internal/controller), as functions of what they meet. *)
(* When a request is worked on, by whom and how often is RequestController. *)
(*                                                                          *)
(* A scope's selector is {} (none) or {labels}; a namespace is a record     *)
(* with its name, labels and terminating.  Sizes of logs are in KB.         *)
(***************************************************************************)
EXTENDS Integers, Sequences, FiniteSets, SequencesExt, FiniteSetsExt, TLC, Checkers,
        HealthSummary

CONSTANT MaxNamespaces \* 50 in the code
ASSUME MaxNamespacesAssumption == MaxNamespaces \in Nat

-----------------------------------------------------------------------------
(* Admission. *)

TargetKinds == WorkloadKinds \cup {"replicaset", "pod", ""}
Actions == {"diagnose", "logs", "events", "describe", "all"}

\* ValidateCreate of a TroubleshootRequest.
TroubleshootValid(r) ==
  /\ r.name # <<>>
  /\ r.kind \in TargetKinds
  /\ ToSet(r.actions) \subseteq Actions
  /\ r.ttl >= 0

\* handlePostTroubleshoot validates the same again, has bounds of its own, and
\* fills in what is missing; all replaces every other action.
MaxTTLSeconds == 86400
PostAccepted(r) ==
  /\ r.name # <<>>
  /\ r.kind \in TargetKinds
  /\ ToSet(r.actions) \subseteq Actions
  /\ r.ttl \in 1..MaxTTLSeconds

Submitted(r) ==
  IF r.type # "troubleshoot" \/ r.via # "dashboard" THEN r
  ELSE [r EXCEPT !.kind = IF @ = "" THEN "deployment" ELSE @,
                 !.actions = IF @ = <<>> THEN <<"diagnose">>
                             ELSE IF "all" \in ToSet(@) THEN <<"all">> ELSE @]

\* Exactly one of url and secretRef; http only with the annotation.
NotifyValid(r, target) ==
  /\ (target.url = "") # (target.secret = "none")
  /\ target.url = "http" => r.allowHTTP

\* validateSpec of a TeamHealthRequest: only built-in checkers may be named.
TeamHealthValid(r) ==
  /\ r.checks \subseteq DOMAIN BuiltinKinds
  /\ r.ttl >= 0
  /\ \A target \in r.notify : NotifyValid(r, target)
  /\ r.scope.currentOnly => r.scope.namespaces = <<>> /\ r.scope.selector = {}
  /\ IsInjective(r.scope.namespaces)

Admitted(r) ==
  IF r.type # "troubleshoot" THEN TeamHealthValid(r)
  ELSE /\ r.via = "dashboard" => PostAccepted(r)
       /\ TroubleshootValid(Submitted(r))

-----------------------------------------------------------------------------
(* scope/resolver.go *)

SystemNamespaces == {"kube-system", "kube-public", "kube-node-lease", "flux-system"}
FilterSystem(names) == names \ SystemNamespaces

\* resolveBySelector.
Selected(existing, labels) ==
  {n.name : n \in {x \in existing : labels \subseteq x.labels /\ ~x.terminating}}

\* ResolveNamespaces: the list, else the selector, else the request's own
\* namespace.  A listed namespace that cannot be read is skipped.
ResolveNamespaces(existing, unreadable, scope, own) ==
  IF scope.namespaces # <<>>
  THEN {n.name : n \in existing} \cap (ToSet(scope.namespaces) \ unreadable)
  ELSE IF scope.selector # {}
  THEN UNION {Selected(existing, labels) : labels \in scope.selector}
  ELSE {own}

\* The first namespaces, in any fixed order.
Limited(names) ==
  IF Cardinality(names) <= MaxNamespaces THEN names
  ELSE CHOOSE s \in kSubset(MaxNamespaces, names) : TRUE

-----------------------------------------------------------------------------
(* troubleshootrequest_controller.go *)

\* Mutation: the threshold of the checker and this one drift apart.
HighRestartLoose == 4
HighRestartThreshold == 3

\* findTargetPods: {} also if the target is missing.
TargetPods(world, r) ==
  LET kind == IF r.kind = "" THEN "deployment" ELSE r.kind
      targets == {o \in Listed(world, {kind}) : o.name = r.name}
  IN IF kind = "pod" THEN targets
     ELSE {p \in Listed(world, {"pod"}) : \E o \in targets : p.app = o.app}

\* diagnosePodsDetailed, for one pod.
DetailedDiagnoses(pod) ==
  LET At(c) == pod.name \o c.name IN
  {Diagnosis(pod.phase # "Running", "PodNotRunning", "Critical", pod.name),
   Diagnosis(~pod.scheduled, "SchedulingFailed", "Critical", pod.name),
   Diagnosis(pod.notReady \notin {"", "ContainersNotReady"}, "PodNotReady", "Warning", pod.name)}
  \cup UNION {
    {Diagnosis(c.status = "notReady", "ContainerNotReady", "Critical", At(c)),
     Diagnosis(c.restarts > HighRestartThreshold, "HighRestartCount", "Warning", At(c)),
     Diagnosis("memoryLimit" \in c.lacks, "NoMemoryLimit", "Warning", At(c)),
     Diagnosis("cpuLimit" \in c.lacks, "NoCPULimit", "Info", At(c)),
     Diagnosis("requests" \in c.lacks, "NoResourceRequests", "Warning", At(c)),
     Diagnosis("liveness" \in c.lacks, "NoLivenessProbe", "Info", At(c)),
     Diagnosis("readiness" \in c.lacks, "NoReadinessProbe", "Info", At(c))}
    : c \in pod.containers}

Findings(pods) ==
  {[type |-> d.type, severity |-> d.severity, at |-> d.at] :
   d \in {x \in UNION {DetailedDiagnoses(p) : p \in pods} : x.holds}}

MaxPerContainer == 64
MaxTotalSize == 900

\* collectLogs: an entry per container, whose key is the names of pod and
\* container, joined; up to the entry with which the total is exceeded.
LogName(pod, c) == pod.name \o c.name

ReadLog(acc, pod, c) ==
  IF acc.size > MaxTotalSize THEN acc
  ELSE [size |-> acc.size + IF c.readable THEN Min({c.kb, MaxPerContainer}) ELSE 0,
        data |-> [name \in DOMAIN acc.data \cup {LogName(pod, c)} |->
                    IF name = LogName(pod, c) THEN <<pod.name, c.name>> ELSE acc.data[name]]]

\* The elements of a finite set in some fixed order, as a list call returns them.
AppendNext(list, S) == Append(list, CHOOSE x \in S \ ToSet(list) : TRUE)
ListOf(S) ==
  LET first[i \in 0..Cardinality(S)] == IF i = 0 THEN <<>> ELSE AppendNext(first[i - 1], S)
  IN first[Cardinality(S)]

ReadPod(acc, pod) ==
  LET containers == ListOf(pod.containers)
      after[i \in 0..Len(containers)] ==
        IF i = 0 THEN acc ELSE ReadLog(after[i - 1], pod, containers[i])
  IN after[Len(containers)]

CollectLogs(pods) ==
  LET list == ListOf(pods)
      after[i \in 0..Len(list)] ==
        IF i = 0 THEN [size |-> 0, data |-> <<>>] ELSE ReadPod(after[i - 1], list[i])
  IN after[Len(list)]

\* eventTimestamp: the first that is set.
EventAge(e) ==
  LET set == SelectSeq(e.times, LAMBDA t : t # "none")
  IN IF set = <<>> THEN "none" ELSE set[1]

\* collectEvents: of the last hour or without a time, about anything with the
\* name of the target or of a pod.
CollectEvents(world, r, pods) ==
  {e \in Listed(world, {"event"}) : /\ e.ns = r.ns
                                    /\ e.name \in {r.name} \cup {p.name : p \in pods}
                                    /\ EventAge(e) # "longAgo"}

Unwritable(world, r) == <<"configmap", r.ns>> \in world.failed
Asked(r, actions) == ToSet(r.actions) \cap actions # {}
SeverityCount(issues, severity) == Cardinality({i \in issues : i.severity = severity})

Failed == [phase |-> "Failed"]

\* Reconcile, from findTargetPods to the summary.  Every diagnosing action adds
\* all findings once more.
Troubleshoot(world, r) ==
  LET own == [world EXCEPT !.namespaces = {r.ns}]
      pods == TargetPods(own, r)
      found == IF Asked(r, {"diagnose", "all", "describe"}) THEN Findings(pods) ELSE {}
      times == Len(SelectSeq(r.actions, LAMBDA a : a \in {"diagnose", "all", "describe"}))
      logs == Asked(r, {"logs", "all", "describe"})
      events == Asked(r, {"events", "all", "describe"})
      noEvents == Unwritable(world, r) \/ <<"event", r.ns>> \in world.failed
  IN IF pods = {} THEN Failed
     ELSE [phase    |-> "Completed",
           pods     |-> pods,
           issues   |-> found,
           critical |-> times * SeverityCount(found, "Critical"),
           warning  |-> times * SeverityCount(found, "Warning"),
           logs     |-> IF logs /\ ~Unwritable(world, r) THEN {CollectLogs(pods)} ELSE {},
           events   |-> IF events /\ ~noEvents THEN CollectEvents(own, r, pods) ELSE {},
           partial  |-> (logs /\ Unwritable(world, r)) \/ (events /\ noEvents)]

-----------------------------------------------------------------------------
(* teamhealthrequest_controller.go *)

\* aggregateResults; the results of failed checkers add nothing.
Aggregate(results) ==
  LET ok == Succeeded(results)
      Count(severity) == SumOver(ok, LAMBDA c : SeverityCount(results[c].issues, severity))
  IN [healthy  |-> SumOver(ok, LAMBDA c : results[c].healthy),
      issues   |-> SumOver(ok, LAMBDA c : Cardinality(results[c].issues)),
      critical |-> Count("Critical"),
      warning  |-> Count("Warning")]

\* Mutation: only issues of exactly this severity meet the threshold.
SeverityMetExactly(threshold, critical, warning) ==
  CASE threshold = "Critical" -> critical > 0
    [] threshold = "Warning"  -> warning > 0
    [] OTHER                  -> TRUE

SeverityMet(threshold, critical, warning) ==
  CASE threshold = "Critical" -> critical > 0
    [] threshold = "Warning"  -> critical > 0 \/ warning > 0
    [] OTHER                  -> TRUE

\* dispatchNotifications and validateNotificationURL.  secretsIn is the
\* namespace configured for the secrets, or "".
Reachable(r, target, secretsIn) ==
  LET url == IF target.url # "" THEN target.url
             ELSE IF secretsIn \notin {"", r.ns} THEN "" ELSE target.secret
  IN \/ url = "https"
     \/ url = "http" /\ r.allowHTTP
     \/ target.type = "pagerduty" /\ url \notin {"", "none", "missing"}

Notified(r, agg, secretsIn) ==
  {target \in r.notify :
     /\ target.onCompletion
     /\ SeverityMet(target.onSeverity, agg.critical, agg.warning)
     /\ Reachable(r, target, secretsIn)}

\* Reconcile, from the scope to the notifications.
TeamHealth(world, plugins, existing, secretsIn, r) ==
  LET unreadable == {n.name : n \in {x \in existing : <<"namespace", x.name>> \in world.failed}}
      namespaces == Limited(ResolveNamespaces(existing, unreadable, r.scope, r.ns))
      names == IF r.checks = {} THEN DOMAIN RunAll(world, plugins) ELSE r.checks
      met == [world EXCEPT !.namespaces = namespaces,
                           !.restartThreshold = IF r.restartThreshold > 0 THEN r.restartThreshold ELSE @]
      all == RunAll(met, plugins)
      results == [c \in names |-> all[c]]
      agg == Aggregate(results)
  IN IF namespaces = {} \/ (r.scope.namespaces = <<>> /\ r.scope.selector # {} /\ unreadable # {})
     THEN Failed
     ELSE [phase |-> "Completed", world |-> met, results |-> results, totals |-> agg,
           notified |-> Notified(r, agg, secretsIn)]
=============================================================================
