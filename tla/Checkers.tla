------------------------------ MODULE Checkers ------------------------------
(***************************************************************************)
(* The built-in checkers and the plugin checkers (internal/checker), as     *)
(* functions of the objects they list.  An object is a record with its      *)
(* kind, namespace and name (a name is the sequence of its dash-separated   *)
(* parts) and the fields its checker reads.  An issue is a record; at names *)
(* the pod, container or quota entry its message is about, which its key    *)
(* does not.  Messages, suggestions and metadata are left out.              *)
(*                                                                          *)
(* world is what one check meets: its objects, the namespaces checked, the  *)
(* lists that fail (pairs of a kind and a namespace), the kinds whose CRD   *)
(* is not installed and the configured restart threshold.                   *)
(***************************************************************************)
EXTENDS Naturals, Sequences, FiniteSets

Severities == {"Critical", "Warning", "Info"}
WorkloadKinds == {"deployment", "statefulset", "daemonset"}

\* A checker's name and the kinds it lists; plugins are added by the caller.
BuiltinKinds ==
  [workloads |-> WorkloadKinds, helmreleases |-> {"helmrelease"},
   kustomizations |-> {"kustomization"}, gitrepositories |-> {"gitrepository"},
   secrets |-> {"secret"}, pvcs |-> {"pvc"}, quotas |-> {"resourcequota"},
   networkpolicies |-> {"networkpolicy"}]

\* A diagnosis: an issue of this type is reported if the condition holds.
Diagnosis(holds, type, severity, at) ==
  [holds |-> holds, type |-> type, severity |-> severity, at |-> at]

Reported(ns, resource, diagnoses) ==
  {[type |-> d.type, severity |-> d.severity, ns |-> ns, resource |-> resource,
    at |-> d.at] : d \in {x \in diagnoses : x.holds}}

CriticalIf(critical) == IF critical THEN "Critical" ELSE "Warning"

-----------------------------------------------------------------------------
(* workload/checker.go *)

DefaultRestartThreshold == 3

\* One container: its status (none before the pod is scheduled), then its
\* specification.
ContainerStatus(threshold, pod, c) ==
  {Diagnosis(c.status = "notReady", "ContainerNotReady", "Critical", pod.name \o c.name),
   Diagnosis(c.restarts > threshold, "HighRestartCount", "Warning", pod.name \o c.name)}

BestPractices(pod, c) ==
  LET Lacks(field, type, severity) ==
        Diagnosis(field \in c.lacks, type, severity, pod.name \o c.name)
  IN {Lacks("memoryLimit", "NoMemoryLimit", "Warning"),
      Lacks("cpuLimit", "NoCPULimit", "Info"),
      Lacks("requests", "NoResourceRequests", "Warning"),
      Lacks("liveness", "NoLivenessProbe", "Info"),
      Lacks("readiness", "NoReadinessProbe", "Info")}

\* diagnosePod.
PodDiagnoses(threshold, pod) ==
  {Diagnosis(pod.phase \notin {"Running", "Succeeded"}, "PodNotRunning", "Critical", pod.name),
   Diagnosis(~pod.scheduled, "SchedulingFailed", "Critical", pod.name),
   Diagnosis(pod.notReady \notin {"", "ContainersNotReady"}, "PodNotReady", "Warning", pod.name)}
  \cup UNION {ContainerStatus(threshold, pod, c) \cup BestPractices(pod, c) : c \in pod.containers}

\* The pods of a namespace are listed once; if that fails, there are none.
PodsIn(world, ns) ==
  IF <<"pod", ns>> \in world.failed THEN {}
  ELSE {o \in world.objects : o.kind = "pod" /\ o.ns = ns}

\* filterPodsForWorkload and diagnosePods.
DiagnosePods(world, workload) ==
  UNION {PodDiagnoses(world.restartThreshold, p) : p \in {x \in PodsIn(world, workload.ns) : x.app = workload.app}}

-----------------------------------------------------------------------------
(* flux/: HelmReleases, Kustomizations and GitRepositories. *)

\* What the three have in common: suspension, the Ready condition (its reason
\* becomes the type of the issue), and a reconciliation handled too long ago.
FluxDiagnoses(o, criticalReasons) ==
  {Diagnosis(o.suspend, "Suspended", "Warning", <<>>),
   Diagnosis(o.ready \notin {"none", "True"}, o.reason,
             CriticalIf(o.reason \in criticalReasons), <<"Ready">>)}

Stale(o, handledLongAgo) ==
  Diagnosis(~o.suspend /\ o.ready = "True" /\ handledLongAgo,
            "StaleReconciliation", "Warning", <<>>)

CheckHelmRelease(o) ==
  FluxDiagnoses(o, {"UpgradeFailed", "InstallFailed", "UninstallFailed",
                    "ArtifactFailed", "ChartPullFailed", "ReconciliationFailed"})
  \cup {Stale(o, o.handled = "longAgo"),
        Diagnosis(o.lastRelease = "failed", "ReleaseFailed", "Critical", <<>>)}

CheckKustomization(o) ==
  FluxDiagnoses(o, {"BuildFailed", "ValidationFailed", "HealthCheckFailed",
                    "ArtifactFailed", "ReconciliationFailed"})
  \cup {Stale(o, o.attempted # "" /\ o.handled = "longAgo"),
        Diagnosis("" \notin {o.attempted, o.applied} /\ o.attempted # o.applied,
                  "PendingChanges", "Info", <<>>),
        Diagnosis(o.healthy = "False", "UnhealthyResources", "Warning", <<>>)}

\* Without a handled reconcile request the time of the artifact counts.
CheckGitRepository(o) ==
  FluxDiagnoses(o, {"GitOperationFailed", "AuthenticationFailed", "CheckoutFailed",
                    "CloneFailed", "StorageOperationFailed"})
  \cup {Stale(o, (IF o.handled = "never" THEN o.artifact ELSE o.handled) = "longAgo"),
        Diagnosis(o.artifact = "none" /\ o.ready = "True", "NoArtifact", "Warning", <<>>),
        Diagnosis(o.ssh /\ ~o.secretRef, "NoAuthentication", "Warning", <<>>)}

-----------------------------------------------------------------------------
(* resource/ *)

\* secret.go, checkTLSCertificateWith: cert is none without a tls.crt.
CertificateDiagnoses(o) ==
  {Diagnosis(o.cert = "unparsable", "InvalidCertificate", "Warning", <<>>),
   Diagnosis(o.cert = "expired", "CertExpired", "Critical", <<>>),
   Diagnosis(o.cert = "expiring", "CertExpiringSoon", "Warning", <<>>),
   Diagnosis(o.cert \notin {"none", "unparsable"} /\ o.notYetValid,
             "CertNotYetValid", "Warning", <<>>)}

CheckSecret(o) ==
  (IF o.type \in {"tls", "opaque"} THEN CertificateDiagnoses(o) ELSE {})
  \cup {Diagnosis(o.empty /\ o.type # "serviceAccountToken", "EmptySecret", "Warning", <<>>)}

CheckPVC(o) ==
  {Diagnosis(o.phase = "Pending", "PVCPending", "Warning", <<>>),
   Diagnosis(o.phase = "Lost", "PVCLost", "Critical", <<>>),
   Diagnosis(o.resizePending, "PVCResizePending", "Info", <<>>),
   Diagnosis(o.phase = "Bound" /\ ~o.capacity, "PVCNoCapacity", "Warning", <<>>)}

\* Per entry of the quota: the percentage used; entries without a usage or
\* with a limit of 0 are skipped.
QuotaWarningPercent == 80 \* DefaultQuotaWarningPercent
CheckQuota(o) ==
  UNION {{Diagnosis(e.used >= e.hard, "QuotaExceeded", "Critical", <<e.name>>),
          Diagnosis(e.used < e.hard /\ e.used * 100 >= e.hard * QuotaWarningPercent,
                    "QuotaNearLimit", "Warning", <<e.name>>)}
         : e \in {x \in o.entries : x.hasUsed /\ x.hard > 0}}

CheckNetworkPolicy(o) ==
  {Diagnosis(o.allowAll, "OverlyPermissivePolicy", "Warning", <<>>),
   Diagnosis(o.wholeNamespace, "NamespaceWidePolicy", "Info", <<>>)}

-----------------------------------------------------------------------------
(* Check of each checker, and Registry.Run. *)

DiagnosesOf(world, o) ==
  CASE o.kind \in WorkloadKinds -> DiagnosePods(world, o)
    [] o.kind = "helmrelease"   -> CheckHelmRelease(o)
    [] o.kind = "kustomization" -> CheckKustomization(o)
    [] o.kind = "gitrepository" -> CheckGitRepository(o)
    [] o.kind = "secret"        -> CheckSecret(o)
    [] o.kind = "pvc"           -> CheckPVC(o)
    [] o.kind = "resourcequota" -> CheckQuota(o)
    [] o.kind = "networkpolicy" -> CheckNetworkPolicy(o)

IssuesOf(world, o) == Reported(o.ns, <<o.kind, o.name>>, DiagnosesOf(world, o))

\* The objects a checker gets to see: a list that fails is skipped.
Listed(world, kinds) ==
  {o \in world.objects : /\ o.kind \in kinds /\ o.ns \in world.namespaces
                         /\ <<o.kind, o.ns>> \notin world.failed}

\* The namespaces that were listed and have no network policy.
Unprotected(world, kinds) ==
  IF "networkpolicy" \notin kinds THEN {}
  ELSE {ns \in world.namespaces :
          /\ <<"networkpolicy", ns>> \notin world.failed
          /\ ~\E o \in world.objects : o.kind = "networkpolicy" /\ o.ns = ns}

NotSupported == [healthy |-> 0, issues |-> {}, error |-> TRUE]

\* Mutation: an object with only Info issues is counted as healthy as well.
BuiltinLenient(world, kinds) ==
  IF kinds \subseteq world.absent THEN NotSupported
  ELSE [healthy |-> Cardinality({o \in Listed(world, kinds) :
                       \A i \in IssuesOf(world, o) : i.severity = "Info"}),
        issues  |-> (UNION {IssuesOf(world, o) : o \in Listed(world, kinds)})
                    \cup (UNION {Reported(ns, <<"namespace", <<ns>> >>,
                           {Diagnosis(TRUE, "NoNetworkPolicy", "Info", <<>>)})
                           : ns \in Unprotected(world, kinds)}),
        error   |-> FALSE]

\* An object without issues is counted, the others are reported.
BuiltinCheck(world, kinds) ==
  IF kinds \subseteq world.absent THEN NotSupported
  ELSE [healthy |-> Cardinality({o \in Listed(world, kinds) : IssuesOf(world, o) = {}}),
        issues  |-> (UNION {IssuesOf(world, o) : o \in Listed(world, kinds)})
                    \cup (UNION {Reported(ns, <<"namespace", <<ns>> >>,
                           {Diagnosis(TRUE, "NoNetworkPolicy", "Info", <<>>)})
                           : ns \in Unprotected(world, kinds)}),
        error   |-> FALSE]

\* plugin/checker.go, a plugin whose rules look at a phase: a rule matches some
\* phases and its evaluation fails on others.  An object counts as healthy if
\* no rule matched, also when an evaluation failed.
PluginCheck(world, plugin) ==
  LET failed == {ns \in world.namespaces : <<plugin.kind, ns>> \in world.failed}
      Matched(o) == {r \in plugin.rules : o.phase \in r.match}
      RuleSeverity(r) == IF r.severity \in Severities THEN r.severity ELSE "Warning"
      Issues(o) == Reported(o.ns, <<plugin.resource, o.name>>,
        {Diagnosis(o.phase \in r.fails, plugin.evalError, "Warning", <<r.name>>) : r \in plugin.rules}
        \cup {Diagnosis(TRUE, r.name, RuleSeverity(r), <<>>) : r \in Matched(o)})
  IN [healthy |-> Cardinality({o \in Listed(world, {plugin.kind}) : Matched(o) = {}}),
      issues  |-> (UNION {Issues(o) : o \in Listed(world, {plugin.kind})})
                  \cup (UNION {Reported(ns, <<plugin.resource, <<>> >>,
                          {Diagnosis(TRUE, plugin.listError, "Warning", <<>>)}) : ns \in failed}),
      error   |-> failed = world.namespaces]

\* Registry.RunAll: every registered checker, the plugins by their names.
RunAll(world, plugins) ==
  [name \in DOMAIN BuiltinKinds \cup {p.name : p \in plugins} |->
     IF name \in DOMAIN BuiltinKinds
     THEN BuiltinCheck(world, BuiltinKinds[name])
     ELSE PluginCheck(world, CHOOSE p \in plugins : p.name = name)]
=============================================================================
