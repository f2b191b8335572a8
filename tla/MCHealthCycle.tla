---------------------------- MODULE MCHealthCycle ----------------------------
(***************************************************************************)
(* TLC instances of HealthCycle: every state of every kind of object alone  *)
(* and next to other objects, in two namespaces.                            *)
(***************************************************************************)
EXTENDS HealthCycle

Web == [kind |-> "deployment", ns |-> "n1", name |-> <<"web">>, app |-> "web"]
\* The same pods are selected by a StatefulSet whose name begins the same.
WebApi == [kind |-> "statefulset", ns |-> "n1", name |-> <<"web", "api">>, app |-> "api"]

Container(name, status, restarts, lacks) ==
  [name |-> <<name>>, status |-> status, restarts |-> restarts, lacks |-> lacks,
   readable |-> TRUE, kb |-> 10]
Good == Container("c", "ready", 0, {})
Pod(name, app, phase, scheduled, notReady, containers) ==
  [kind |-> "pod", ns |-> "n1", name |-> name, app |-> app, phase |-> phase,
   scheduled |-> scheduled, notReady |-> notReady, containers |-> containers]
WebPod(phase, scheduled, notReady, containers) ==
  Pod(<<"web", "1">>, "web", phase, scheduled, notReady, containers)

Pods ==
  {WebPod(phase, TRUE, "", {Good}) : phase \in {"Running", "Succeeded", "Failed"}}
  \cup {WebPod("Pending", FALSE, "", {}), WebPod("Running", TRUE, "ReadinessGatesNotReady", {Good})}
  \cup {WebPod("Running", TRUE, "ContainersNotReady",
          {Good, Container("d", "notReady", n, {})}) : n \in {3, 4}}
  \cup {WebPod("Running", TRUE, "ContainersNotReady",
          {Container(c, "notReady", 0, {"memoryLimit"}) : c \in {"c", "d"}})}
  \cup {WebPod("Running", TRUE, "", {Container("c", "ready", 4, lacks)}) :
          lacks \in {{}, {"cpuLimit"}, {"requests", "liveness", "readiness"}}}

HelmReleases ==
  {[kind |-> "helmrelease", ns |-> ns, name |-> <<"app">>, suspend |-> suspend,
    ready |-> ready, reason |-> reason, handled |-> handled, lastRelease |-> last] :
   ns \in {"n1"}, suspend \in BOOLEAN, handled \in {"never", "longAgo"},
   <<ready, reason, last>> \in {<<"none", "", "none">>, <<"True", "ReconciliationSucceeded", "deployed">>,
     <<"False", "UpgradeFailed", "failed">>, <<"Unknown", "DependencyNotReady", "deployed">>}}

Kustomizations ==
  {[kind |-> "kustomization", ns |-> ns, name |-> <<"app">>, suspend |-> suspend,
    ready |-> ready, reason |-> reason, handled |-> "longAgo", attempted |-> attempted,
    applied |-> "r1", healthy |-> healthy] :
   ns \in {"n1", "n2"}, suspend \in BOOLEAN, attempted \in {"", "r1", "r2"},
   <<ready, reason, healthy>> \in {<<"True", "ReconciliationSucceeded", "none">>,
     <<"False", "BuildFailed", "False">>, <<"False", "DependencyNotReady", "none">>}}

GitRepository(ns, suspend, ready, reason, handled, artifact, ssh) ==
  [kind |-> "gitrepository", ns |-> ns, name |-> <<"repo">>, suspend |-> suspend,
   ready |-> ready, reason |-> reason, handled |-> handled, artifact |-> artifact,
   ssh |-> ssh, secretRef |-> FALSE]
Broken(ns) == GitRepository(ns, FALSE, "False", "CloneFailed", "recently", "none", FALSE)
GitRepositories ==
  {GitRepository("n1", suspend, "True", "Succeeded", handled, artifact, ssh) :
     suspend \in BOOLEAN, handled \in {"never", "recently"},
     artifact \in {"none", "longAgo", "recently"}, ssh \in BOOLEAN}

Secrets ==
  {[kind |-> "secret", ns |-> "n2", name |-> <<"s">>, type |-> type, empty |-> empty,
    cert |-> cert, notYetValid |-> notYet] :
   <<type, empty, cert>> \in {<<"tls", FALSE, "expired">>, <<"opaque", FALSE, "expiring">>,
     <<"opaque", FALSE, "unparsable">>, <<"tls", FALSE, "valid">>, <<"opaque", TRUE, "none">>,
     <<"serviceAccountToken", TRUE, "none">>},
   notYet \in BOOLEAN}

PVCs ==
  {[kind |-> "pvc", ns |-> "n2", name |-> <<"data">>, phase |-> phase,
    resizePending |-> resize, capacity |-> capacity] :
   phase \in {"Pending", "Lost", "Bound"}, resize \in BOOLEAN, capacity \in BOOLEAN}

Entry(name, used_, hasUsed, hard) ==
  [name |-> name, used |-> used_, hasUsed |-> hasUsed, hard |-> hard]
Quotas ==
  {[kind |-> "resourcequota", ns |-> "n2", name |-> <<"q">>, entries |-> {Entry("cpu", n, TRUE, 10), e}] :
     n \in {7, 8, 10}, e \in {Entry("pods", 10, TRUE, 10), Entry("pods", 0, FALSE, 10),
                              Entry("pods", 3, TRUE, 0)}}

NetworkPolicies ==
  {[kind |-> "networkpolicy", ns |-> "n2", name |-> <<"np">>, allowAll |-> all,
    wholeNamespace |-> whole] : all \in BOOLEAN, whole \in BOOLEAN}

Others == HelmReleases \cup Kustomizations \cup GitRepositories \cup Secrets \cup PVCs
            \cup Quotas \cup NetworkPolicies

\* A pod of the StatefulSet: its name also begins with that of the Deployment.
ApiPod == Pod(<<"web", "api", "0">>, "api", "Failed", TRUE, "", {Good})

MCBroken ==
  {Broken("n1"),
   CHOOSE o \in Kustomizations : o.ns = "n1" /\ o.reason = "BuildFailed" /\ ~o.suspend,
   CHOOSE o \in Quotas : \E e \in o.entries : e.used >= e.hard}
MCClusterObjects ==
  {{Web, p} : p \in Pods}
  \cup {{Web, WebApi, ApiPod, p} : p \in {WebPod("Failed", TRUE, "", {Good})}}
  \cup {{o} : o \in Others}
  \cup {{Broken(o.ns), o} : o \in HelmReleases \cup Kustomizations}
  \cup {MCBroken}

Rule(name, severity, match, fails) ==
  [name |-> "plugin:pods:" \o name, severity |-> severity, match |-> match, fails |-> fails]
MCPlugins ==
  {[name |-> "plugin:pods", kind |-> "pod", resource |-> "pod",
    evalError |-> "plugin:pods:eval-error", listError |-> "plugin:pods:list-error",
    rules |-> {Rule("failed", "Fatal", {"Failed"}, {"Pending"}),
               Rule("seen", "Info", {"Failed", "Pending"}, {})}]}

Bound(checks, changes, mutes, faults, reports) ==
  [checks |-> checks, changes |-> changes, mutes |-> mutes, faults |-> faults, reports |-> reports]
Start(objects, absent, scores, requests, bound) ==
  [objects |-> objects, absent |-> absent, scores |-> scores, requests |-> requests, bound |-> bound]
Flux == {"helmrelease", "kustomization", "gitrepository"}

MCExisting ==
  {[name |-> "n1", labels |-> {"team"}, terminating |-> FALSE],
   [name |-> "n2", labels |-> {}, terminating |-> FALSE],
   [name |-> "n3", labels |-> {"team"}, terminating |-> TRUE],
   [name |-> "kube-system", labels |-> {}, terminating |-> FALSE]}

\* One check of every cluster, with a list that may fail and a mute; several
\* checks of some, one with the Flux CRDs missing; and a check of a cluster
\* without issues after any scores.
Protected == {[kind |-> "networkpolicy", ns |-> ns, name |-> <<"np">>, allowAll |-> FALSE,
               wholeNamespace |-> FALSE] : ns \in {"n1", "n2"}}
Checked ==
  {Start(objects, {}, <<>>, {}, Bound(1, 0, 1, 1, 0)) : objects \in MCClusterObjects}
  \cup {Start(MCBroken, {}, <<>>, {}, Bound(2, 1, 1, 0, 0)),
        Start(MCBroken \cup Protected, Flux, <<>>, {}, Bound(2, 1, 2, 0, 0))}
  \cup {Start(Protected, {}, scores, {}, Bound(1, 0, 0, 0, 0)) : scores \in [1..5 -> {0, 50, 100}]}

-----------------------------------------------------------------------------
(* Requests. *)

Troubleshooting(kind, name, actions) ==
  [type |-> "troubleshoot", via |-> "api", ns |-> "n1", kind |-> kind, name |-> name,
   actions |-> actions, ttl |-> 0]
Troubleshootings ==
  {Troubleshooting("deployment", <<"web">>, actions) :
     actions \in {<<>>, <<"logs">>, <<"events">>, <<"diagnose", "all">>, <<"restart">>}}
  \cup {Troubleshooting(kind, <<"web">>, <<"describe">>) : kind \in {"", "job", "replicaset"}}
  \cup {Troubleshooting("pod", <<"web", "1">>, <<"all">>), Troubleshooting("pod", <<>>, <<"all">>)}
FromDashboard ==
  {[Troubleshooting(kind, <<"web">>, actions) EXCEPT !.via = "dashboard", !.ttl = ttl] :
     kind \in {"", "deployment"}, actions \in {<<>>, <<"diagnose", "all">>, <<"restart">>}, ttl \in {0, 1}}

\* Logs of up to 1 MB, and two containers whose entries have one name.
Large(n) == {[Good EXCEPT !.name = <<"c", i>>, !.kb = 100] :
               i \in ToSet(SubSeq(<<"1", "2", "3", "4", "5", "6", "7", "8">>, 1, n))}
LargePods(n) ==
  {Web, WebPod("Running", TRUE, "", Large(n) \cup {[Good EXCEPT !.readable = FALSE]}),
   Pod(<<"web", "2">>, "web", "Running", TRUE, "", Large(8)),
   Pod(<<"web", "1", "c">>, "web", "Running", TRUE, "", {[Good EXCEPT !.name = <<"1">>]})}

Event(about, name, times, size) ==
  [kind |-> "event", ns |-> "n1", about |-> about, name |-> name, times |-> times, size |-> size]
Events1 == {Event("deployment", <<"web">>, <<"none", "recently">>, 3),
            Event("pod", <<"web", "1">>, <<"longAgo", "recently">>, 1),
            Event("pod", <<"other">>, <<"none", "none">>, 1)}

Target(type, onSeverity, url, secret) ==
  [type |-> type, onCompletion |-> TRUE, onSeverity |-> onSeverity, url |-> url, secret |-> secret]
Targets ==
  {Target("slack", severity, "https", "none") : severity \in {"", "Critical", "Warning", "Info"}}
  \cup {Target("pagerduty", "Warning", "", secret) : secret \in {"key", "missing"}}
  \cup {[Target("teams", "Critical", "https", "none") EXCEPT !.onCompletion = FALSE]}

Scope(namespaces, selector, currentOnly) ==
  [namespaces |-> namespaces, selector |-> selector, currentOnly |-> currentOnly]
Scopes == {Scope(<<>>, {}, TRUE), Scope(<<>>, {{}}, FALSE), Scope(<<>>, {{"team"}}, FALSE),
           Scope(<<>>, {{"nobody"}}, FALSE), Scope(<<"n2", "gone">>, {}, FALSE),
           Scope(<<"n1", "n1">>, {}, FALSE), Scope(<<"n1">>, {}, TRUE)}

TeamRequest(checks, scope, notify, threshold, allowHTTP) ==
  [type |-> "teamhealth", ns |-> "n1", checks |-> checks, scope |-> scope, notify |-> notify,
   restartThreshold |-> threshold, allowHTTP |-> allowHTTP, ttl |-> 0]
TeamRequests ==
  {TeamRequest(checks, scope, Targets, threshold, FALSE) : scope \in Scopes, threshold \in {0, 5},
     checks \in {{}, {"workloads", "pvcs"}, DOMAIN BuiltinKinds, {"plugin:pods"}}}
  \cup {TeamRequest({}, Scope(<<>>, {}, TRUE), {Target("webhook", "", "http", secret)}, 0, allow) :
          secret \in {"none", "https"}, allow \in BOOLEAN}
  \cup {TeamRequest({}, Scope(<<>>, {}, TRUE), {Target("webhook", "", "", "http")}, 0, allow) :
          allow \in BOOLEAN}

Requested ==
  {Start({Web, p} \cup Events1, {}, <<>>, Troubleshootings \cup FromDashboard, Bound(0, 0, 0, 1, 1)) : p \in Pods}
  \cup {Start(LargePods(n), {}, <<>>, Troubleshootings, Bound(0, 0, 0, 0, 1)) : n \in {1, 7, 8}}
  \cup {Start(objects, {}, <<>>, TeamRequests, Bound(0, 0, 0, 1, 1)) :
          objects \in {{Web, p} : p \in Pods} \cup {{o} : o \in Secrets \cup PVCs \cup NetworkPolicies}
                       \cup {MCBroken, Protected}}

-----------------------------------------------------------------------------
(* Analyses: a Deployment with a failed pod, with up to four events of each,
   and clusters with more issues than are sent. *)

Eventful(n) ==
  {Web, WebPod("Failed", TRUE, "", {[Good EXCEPT !.kb = n]})}
  \cup {Event(about[1], about[2], <<times, "none">>, size) :
          about \in {<<"deployment", <<"web">> >>, <<"pod", <<"web", "1">> >>},
          times \in {"longAgo", "recently"}, size \in {1, n}}

Analyzed ==
  {Start(Eventful(n), {}, <<>>, {}, Bound(1, 0, 0, 1, 1)) : n \in 0..3}
  \cup {Start({Web, p} \cup Events1, {}, <<>>, {}, Bound(1, 0, 0, 1, 1)) : p \in Pods}
  \cup {Start(MCBroken, {}, <<>>, {}, Bound(1, 0, 0, 1, 1))}

MCStarts == Checked \cup Requested \cup Analyzed

\* Two namespaces with the same issues.
MCAlike == {Start({Broken("n1"), Broken("n2")}, {}, <<>>, {}, Bound(2, 0, 0, 0, 0))}
=============================================================================
