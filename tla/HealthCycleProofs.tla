--------------------------- MODULE HealthCycleProofs ---------------------------
(***************************************************************************)
(* Proofs about HealthCycle, for any finite cluster, namespaces, plugins,   *)
(* requests and history: the numbers of the summary agree with each other,  *)
(* a mute that lasts is honoured, the causal groups are disjoint and leave  *)
(* nothing out, reports and troubleshootings agree with the dashboard, the  *)
(* trend says what the newest snapshots show, and what is sent to the AI is *)
(* within its limits and the right part of what there was.                  *)
(*                                                                          *)
(* First, sums over finite sets; then, that each checker finds finitely     *)
(* many issues of known severities; then the summary as sums; then what     *)
(* correlation and deduplication make of the events, by induction along     *)
(* the functions that compute them; then the inductive invariant, which     *)
(* ties what a check, the dashboard and a report hold to the one snapshot   *)
(* of the cluster it was computed from, and what follows from it; then the  *)
(* ring buffer, the regression line, and the invariant of the history; and  *)
(* last what the batch for the AI adds up to, and how it is cut.            *)
(***************************************************************************)
EXTENDS HealthCycle, FiniteSetTheorems, SequenceTheorems, WellFoundedInduction, TLAPS

-----------------------------------------------------------------------------
(* Finite sets and sums. *)

\* What a function makes of a finite set is finite.
LEMMA FiniteImage ==
  ASSUME NEW S, IsFiniteSet(S), NEW f
  PROVE  IsFiniteSet({f[x] : x \in S})
<1> DEFINE T == {f[x] : x \in S}
           g == [x \in S |-> f[x]]
<1>1. g \in Surjection(S, T)
  BY DEF Surjection
<1> QED
  BY <1>1, FS_Surjection

\* A finite union of finite sets is finite.
LEMMA FiniteUnion ==
  ASSUME NEW S, IsFiniteSet(S), NEW f, \A x \in S : IsFiniteSet(f[x])
  PROVE  IsFiniteSet(UNION {f[x] : x \in S})
<1> DEFINE T == {f[x] : x \in S}
<1>1. IsFiniteSet(T)
  BY FiniteImage
<1>2. \A t \in T : IsFiniteSet(t)
  OBVIOUS
<1> HIDE DEF T
<1>3. IsFiniteSet(UNION T)
  BY <1>1, <1>2, FS_UNION
<1> QED
  BY <1>3 DEF T

\* Different values for different elements: as many values as elements.
LEMMA SameSize ==
  ASSUME NEW S, IsFiniteSet(S), NEW f, \A x, y \in S : f[x] = f[y] => x = y
  PROVE  /\ IsFiniteSet({f[x] : x \in S})
         /\ Cardinality({f[x] : x \in S}) = Cardinality(S)
<1> DEFINE T == {f[x] : x \in S}
           g == [x \in S |-> f[x]]
<1>1. g \in Bijection(S, T)
  BY DEF Bijection, Injection, Surjection, IsInjective
<1>2. ExistsBijection(S, T)
  BY <1>1 DEF ExistsBijection
<1> HIDE DEF T
<1>3. IsFiniteSet(T) /\ Cardinality(T) = Cardinality(S)
  BY <1>2, FS_Bijection
<1> QED
  BY <1>3 DEF T

\* The size of a disjoint union.
LEMMA DisjointSize ==
  ASSUME NEW S, NEW T, IsFiniteSet(S), IsFiniteSet(T), S \cap T = {}
  PROVE  /\ IsFiniteSet(S \cup T)
         /\ Cardinality(S) \in Nat /\ Cardinality(T) \in Nat
         /\ Cardinality(S \cup T) = Cardinality(S) + Cardinality(T)
<1>1. Cardinality(S) \in Nat /\ Cardinality(T) \in Nat
  BY FS_CardinalityType
<1>2. /\ IsFiniteSet(S \cup T)
      /\ Cardinality(S \cup T) = Cardinality(S) + Cardinality(T) - Cardinality({})
  BY FS_Union
<1>3. Cardinality({}) = 0
  BY FS_EmptySet
<1> QED
  BY <1>1, <1>2, <1>3

\* SumOver for a function.
Parts(S, f) == UNION {{x} \X (1 .. f[x]) : x \in S}
Sum(S, f) == Cardinality(Parts(S, f))

\* A sum of natural numbers is a natural number.
LEMMA SumType ==
  ASSUME NEW S, IsFiniteSet(S), NEW f, \A x \in S : f[x] \in Nat
  PROVE  IsFiniteSet(Parts(S, f)) /\ Sum(S, f) \in Nat
<1> DEFINE g == [x \in S |-> {x} \X (1 .. f[x])]
<1>1. ASSUME NEW x \in S PROVE IsFiniteSet({x} \X (1 .. f[x]))
  <2> DEFINE T == 1 .. f[x]
  <2>1. IsFiniteSet(T)
    BY FS_Interval
  <2>2. IsFiniteSet({x})
    BY FS_Singleton
  <2> HIDE DEF T
  <2>3. IsFiniteSet({x} \X T)
    BY <2>1, <2>2, FS_Product
  <2> QED
    BY <2>3 DEF T
<1>2. IsFiniteSet(UNION {g[x] : x \in S})
  <2>1. \A x \in S : IsFiniteSet(g[x])
    BY <1>1
  <2> HIDE DEF g
  <2> QED
    BY <2>1, FiniteUnion
<1>3. Parts(S, f) = UNION {g[x] : x \in S}
  BY DEF Parts
<1> QED
  BY <1>2, <1>3, FS_CardinalityType DEF Sum

\* Larger numbers have a larger sum.
LEMMA SumMonotone ==
  ASSUME NEW S, IsFiniteSet(S), NEW f, NEW g,
         \A x \in S : f[x] \in Nat /\ g[x] \in Nat /\ f[x] <= g[x]
  PROVE  Sum(S, f) <= Sum(S, g)
<1>1. Parts(S, f) \subseteq Parts(S, g)
  BY DEF Parts
<1>2. IsFiniteSet(Parts(S, g))
  BY SumType
<1> QED
  BY <1>1, <1>2, FS_Subset DEF Sum

\* A sum is positive exactly if a number is.
LEMMA SumPositive ==
  ASSUME NEW S, IsFiniteSet(S), NEW f, \A x \in S : f[x] \in Nat
  PROVE  Sum(S, f) > 0 <=> \E x \in S : f[x] > 0
<1>1. IsFiniteSet(Parts(S, f)) /\ Sum(S, f) \in Nat
  BY SumType
<1>2. Sum(S, f) = 0 <=> Parts(S, f) = {}
  BY <1>1, FS_EmptySet DEF Sum
<1>3. Parts(S, f) # {} <=> \E x \in S : f[x] > 0
  <2>1. ASSUME NEW x \in S, f[x] > 0 PROVE <<x, 1>> \in Parts(S, f)
    BY <2>1 DEF Parts
  <2>2. ASSUME NEW e \in Parts(S, f) PROVE \E x \in S : f[x] > 0
    BY DEF Parts
  <2> QED
    BY <2>1, <2>2
<1> QED
  BY <1>1, <1>2, <1>3

\* Sums add up.
LEMMA SumAdds ==
  ASSUME NEW S, IsFiniteSet(S), NEW f, NEW g, NEW h,
         \A x \in S : f[x] \in Nat /\ g[x] \in Nat /\ h[x] = f[x] + g[x]
  PROVE  Sum(S, h) = Sum(S, f) + Sum(S, g)
<1> DEFINE A == Parts(S, f)
           B == Parts(S, g)
           shift == [d \in B |-> <<d[1], f[d[1]] + d[2]>>]
           C == {shift[e] : e \in B}
<1>1. IsFiniteSet(A) /\ IsFiniteSet(B)
  BY SumType
<1>2. \A e \in B : e[1] \in S /\ e[2] \in Nat /\ e[2] >= 1 /\ e[2] <= g[e[1]] /\ e = <<e[1], e[2]>>
  BY DEF Parts
<1>3. \A e, d \in B : shift[e] = shift[d] => e = d
  BY <1>2
<1>4. IsFiniteSet(C) /\ Cardinality(C) = Cardinality(B)
  <2> HIDE DEF B, shift
  <2> QED
    BY <1>1, <1>3, SameSize
<1>5. A \cap C = {}
  <2> SUFFICES ASSUME NEW e \in B, shift[e] \in A PROVE FALSE
    OBVIOUS
  <2>1. e[1] \in S /\ e[2] \in Nat /\ e[2] >= 1 /\ f[e[1]] \in Nat
    BY <1>2
  <2>2. f[e[1]] + e[2] <= f[e[1]]
    BY DEF Parts
  <2> QED
    BY <2>1, <2>2
<1>6. Parts(S, h) = A \cup C
  <2>1. ASSUME NEW e \in Parts(S, h) PROVE e \in A \cup C
    <3>1. PICK x \in S, n \in Nat : n \in 1 .. h[x] /\ e = <<x, n>>
      BY DEF Parts
    <3>2. f[x] \in Nat /\ g[x] \in Nat /\ h[x] = f[x] + g[x]
      OBVIOUS
    <3>3. CASE n <= f[x]
      <4>1. n \in 1 .. f[x]
        BY <3>1, <3>2, <3>3
      <4>2. <<x, n>> \in A
        BY <4>1 DEF Parts
      <4> QED
        BY <3>1, <4>2
    <3>4. CASE n > f[x]
      <4>1. n - f[x] \in 1 .. g[x]
        BY <3>1, <3>2, <3>4
      <4>2. <<x, n - f[x]>> \in B
        BY <4>1 DEF Parts
      <4>3. shift[<<x, n - f[x]>>] = e
        BY <3>1, <3>2, <4>2
      <4> QED
        BY <4>2, <4>3
    <3> QED
      BY <3>1, <3>2, <3>3, <3>4
  <2>2. ASSUME NEW e \in A PROVE e \in Parts(S, h)
    <3>1. PICK x \in S, n \in Nat : n \in 1 .. f[x] /\ e = <<x, n>>
      BY DEF Parts
    <3>2. n \in 1 .. h[x]
      BY <3>1
    <3> QED
      BY <3>1, <3>2 DEF Parts
  <2>3. ASSUME NEW e \in B PROVE shift[e] \in Parts(S, h)
    <3>1. PICK x \in S, n \in Nat : n \in 1 .. g[x] /\ e = <<x, n>>
      BY DEF Parts
    <3>2. f[x] + n \in 1 .. h[x]
      BY <3>1
    <3>3. shift[e] = <<x, f[x] + n>>
      BY <3>1
    <3> QED
      BY <3>2, <3>3 DEF Parts
  <2> QED
    BY <2>1, <2>2, <2>3
<1> HIDE DEF A, B, C
<1>7. Cardinality(A \cup C) = Cardinality(A) + Cardinality(C)
  BY <1>1, <1>4, <1>5, DisjointSize
<1> QED
  BY <1>4, <1>6, <1>7 DEF Sum, A, B
-----------------------------------------------------------------------------
(* The results of the checkers: finitely many issues, each of a known severity. *)

Fine(S) == IsFiniteSet(S) /\ \A x \in S : x.severity \in Severities

\* Diagnoses that are written down one by one are finite.
LEMMA Enumerated ==
  ASSUME NEW a, NEW b, NEW c, NEW d, NEW e
  PROVE  IsFiniteSet({a, b, c, d, e})
<1>1. IsFiniteSet({a})
  BY FS_Singleton
<1>2. IsFiniteSet({a} \cup {b})
  BY <1>1, FS_AddElement
<1>3. IsFiniteSet(({a} \cup {b}) \cup {c})
  BY <1>2, FS_AddElement
<1>4. IsFiniteSet((({a} \cup {b}) \cup {c}) \cup {d})
  BY <1>3, FS_AddElement
<1>5. IsFiniteSet(((({a} \cup {b}) \cup {c}) \cup {d}) \cup {e})
  BY <1>4, FS_AddElement
<1>6. ((({a} \cup {b}) \cup {c}) \cup {d}) \cup {e} = {a, b, c, d, e}
  OBVIOUS
<1> QED
  BY <1>5, <1>6

\* The sets of up to five diagnoses.
LEMMA FewFine ==
  /\ \A a : a.severity \in Severities => Fine({a})
  /\ \A a, b : a.severity \in Severities /\ b.severity \in Severities => Fine({a, b})
  /\ \A a, b, c : a.severity \in Severities /\ b.severity \in Severities /\ c.severity \in Severities
       => Fine({a, b, c})
  /\ \A a, b, c, d : a.severity \in Severities /\ b.severity \in Severities
                     /\ c.severity \in Severities /\ d.severity \in Severities
       => Fine({a, b, c, d})
  /\ \A a, b, c, d, e : a.severity \in Severities /\ b.severity \in Severities
                        /\ c.severity \in Severities /\ d.severity \in Severities
                        /\ e.severity \in Severities
       => Fine({a, b, c, d, e})
<1>1. ASSUME NEW a, NEW b, NEW c, NEW d, NEW e,
             a.severity \in Severities, b.severity \in Severities, c.severity \in Severities,
             d.severity \in Severities, e.severity \in Severities
      PROVE  Fine({a, b, c, d, e})
  BY <1>1, Enumerated DEF Fine
<1>2. \A a, b, c, d : /\ {a} = {a, a, a, a, a} /\ {a, b} = {a, b, b, b, b}
                      /\ {a, b, c} = {a, b, c, c, c} /\ {a, b, c, d} = {a, b, c, d, d}
  OBVIOUS
<1>3. ASSUME NEW a, a.severity \in Severities PROVE Fine({a})
  <2>1. Fine({a, a, a, a, a})
    BY <1>1, <1>3
  <2> QED
    BY <1>2, <2>1
<1>4. ASSUME NEW a, NEW b, a.severity \in Severities, b.severity \in Severities
      PROVE  Fine({a, b})
  <2>1. Fine({a, b, b, b, b})
    BY <1>1, <1>4
  <2> QED
    BY <1>2, <2>1
<1>5. ASSUME NEW a, NEW b, NEW c,
             a.severity \in Severities, b.severity \in Severities, c.severity \in Severities
      PROVE  Fine({a, b, c})
  <2>1. Fine({a, b, c, c, c})
    BY <1>1, <1>5
  <2> QED
    BY <1>2, <2>1
<1>6. ASSUME NEW a, NEW b, NEW c, NEW d, a.severity \in Severities, b.severity \in Severities,
             c.severity \in Severities, d.severity \in Severities
      PROVE  Fine({a, b, c, d})
  <2>1. Fine({a, b, c, d, d})
    BY <1>1, <1>6
  <2> QED
    BY <1>2, <2>1
<1> QED
  BY <1>1, <1>3, <1>4, <1>5, <1>6, Zenon

\* The union of two sets of diagnoses.
LEMMA UnionFine ==
  ASSUME NEW S, NEW T, Fine(S), Fine(T)
  PROVE  Fine(S \cup T)
<1>1. IsFiniteSet(S \cup T)
  BY FS_Union DEF Fine
<1> QED
  BY <1>1 DEF Fine

\* The union of finitely many sets of diagnoses.
LEMMA ManyFine ==
  ASSUME NEW S, IsFiniteSet(S), NEW f, \A x \in S : Fine(f[x])
  PROVE  Fine(UNION {f[x] : x \in S})
<1>1. IsFiniteSet(UNION {f[x] : x \in S})
  BY FiniteUnion DEF Fine
<1> QED
  BY <1>1 DEF Fine

\* Reported diagnoses are issues (the checkers append one after the other).
LEMMA ReportedFine ==
  ASSUME NEW ns, NEW resource, NEW ds, Fine(ds)
  PROVE  Fine(Reported(ns, resource, ds))
<1> DEFINE S == {x \in ds : x.holds}
           f == [d \in S |-> [type |-> d.type, severity |-> d.severity, ns |-> ns,
                              resource |-> resource, at |-> d.at]]
<1>1. IsFiniteSet(S)
  BY FS_Subset DEF Fine
<1>2. IsFiniteSet({f[d] : d \in S})
  <2> HIDE DEF S, f
  <2> QED
    BY <1>1, FiniteImage
<1>3. Reported(ns, resource, ds) = {f[d] : d \in S}
  BY DEF Reported
<1>4. \A i \in {f[d] : d \in S} : i.severity \in Severities
  <2>1. \A d \in S : f[d].severity = d.severity /\ d.severity \in Severities
    BY DEF Fine
  <2> HIDE DEF f
  <2> QED
    BY <2>1
<1> QED
  BY <1>2, <1>3, <1>4, Zenon DEF Fine

\* What the check of a cluster meets: finitely many objects, known by their
\* kinds, namespaces and names.
WorldOK(w) ==
  /\ IsFiniteSet(w.objects) /\ IsFiniteSet(w.namespaces)
  /\ \A o \in w.objects : /\ o.kind = "pod" => /\ IsFiniteSet(o.containers)
                                               /\ \A c \in o.containers : c.kb \in Nat
                          /\ o.kind = "resourcequota" => IsFiniteSet(o.entries)
  /\ \A o, p \in w.objects :
       o.kind = p.kind /\ o.ns = p.ns /\ o.name = p.name => o = p \/ o.kind = "event"

\* The diagnoses of a container.
LEMMA StatusFine ==
  ASSUME NEW n, NEW pod, NEW x
  PROVE  Fine(ContainerStatus(n, pod, x))
<1> DEFINE a == Diagnosis(x.status = "notReady", "ContainerNotReady", "Critical", pod.name \o x.name)
           b == Diagnosis(x.restarts > n, "HighRestartCount", "Warning", pod.name \o x.name)
<1>1. a.severity = "Critical" /\ b.severity = "Warning"
  BY Zenon DEF Diagnosis
<1>2. ContainerStatus(n, pod, x) = {a, b}
  BY DEF ContainerStatus
<1> HIDE DEF a, b
<1> QED
  BY <1>1, <1>2, FewFine DEF Severities

\* The best practices a container lacks.
LEMMA PracticesFine ==
  ASSUME NEW pod, NEW x
  PROVE  Fine(BestPractices(pod, x))
<1> DEFINE a == Diagnosis("memoryLimit" \in x.lacks, "NoMemoryLimit", "Warning", pod.name \o x.name)
           b == Diagnosis("cpuLimit" \in x.lacks, "NoCPULimit", "Info", pod.name \o x.name)
           c == Diagnosis("requests" \in x.lacks, "NoResourceRequests", "Warning", pod.name \o x.name)
           d == Diagnosis("liveness" \in x.lacks, "NoLivenessProbe", "Info", pod.name \o x.name)
           e == Diagnosis("readiness" \in x.lacks, "NoReadinessProbe", "Info", pod.name \o x.name)
<1>1. a.severity = "Warning" /\ b.severity = "Info" /\ c.severity = "Warning" /\ d.severity = "Info" /\ e.severity = "Info"
  BY Zenon DEF Diagnosis
<1>2. BestPractices(pod, x) = {a, b, c, d, e}
  BY DEF BestPractices
<1> HIDE DEF a, b, c, d, e
<1> QED
  BY <1>1, <1>2, FewFine DEF Severities

\* The diagnoses of a pod (diagnosePod).
LEMMA PodFine ==
  ASSUME NEW n, NEW pod, IsFiniteSet(pod.containers)
  PROVE  Fine(PodDiagnoses(n, pod))
<1> DEFINE a == Diagnosis(pod.phase \notin {"Running", "Succeeded"}, "PodNotRunning",
                          "Critical", pod.name)
           b == Diagnosis(~pod.scheduled, "SchedulingFailed", "Critical", pod.name)
           c == Diagnosis(pod.notReady \notin {"", "ContainersNotReady"}, "PodNotReady",
                          "Warning", pod.name)
           f == [x \in pod.containers |-> ContainerStatus(n, pod, x) \cup BestPractices(pod, x)]
<1>1. a.severity = "Critical" /\ b.severity = "Critical" /\ c.severity = "Warning"
  BY Zenon DEF Diagnosis
<1>2. PodDiagnoses(n, pod) = {a, b, c} \cup UNION {f[x] : x \in pod.containers}
  BY DEF PodDiagnoses
<1> HIDE DEF a, b, c
<1>3. Fine({a, b, c})
  BY <1>1, FewFine DEF Severities
<1>4. ASSUME NEW x \in pod.containers PROVE Fine(f[x])
  BY StatusFine, PracticesFine, UnionFine
<1> HIDE DEF f
<1>5. Fine(UNION {f[x] : x \in pod.containers})
  BY <1>4, ManyFine
<1> QED
  BY <1>2, <1>3, <1>5, UnionFine

\* The diagnoses of a workload, of its pods (diagnosePods).
LEMMA WorkloadFine ==
  ASSUME NEW w, WorldOK(w), NEW o
  PROVE  Fine(DiagnosePods(w, o))
<1> DEFINE pods == {p \in PodsIn(w, o.ns) : p.app = o.app}
           f == [p \in pods |-> PodDiagnoses(w.restartThreshold, p)]
<1>1. pods \subseteq w.objects /\ \A p \in pods : p.kind = "pod"
  BY DEF PodsIn
<1>2. IsFiniteSet(pods)
  BY <1>1, FS_Subset DEF WorldOK
<1>3. \A p \in pods : Fine(f[p])
  BY <1>1, PodFine DEF WorldOK
<1>4. DiagnosePods(w, o) = UNION {f[p] : p \in pods}
  BY DEF DiagnosePods
<1> HIDE DEF pods, f
<1> QED
  BY <1>2, <1>3, <1>4, ManyFine

\* The diagnoses of a quota, two per entry (checkQuota).
LEMMA QuotaFine ==
  ASSUME NEW o, IsFiniteSet(o.entries)
  PROVE  Fine(CheckQuota(o))
<1> DEFINE entries == {x \in o.entries : x.hasUsed /\ x.hard > 0}
           f == [e \in entries |->
                   {Diagnosis(e.used >= e.hard, "QuotaExceeded", "Critical", <<e.name>>),
                    Diagnosis(e.used < e.hard /\ e.used * 100 >= e.hard * QuotaWarningPercent,
                              "QuotaNearLimit", "Warning", <<e.name>>)}]
<1>1. IsFiniteSet(entries)
  BY FS_Subset
<1>2. ASSUME NEW x \in entries PROVE Fine(f[x])
  <2> DEFINE a == Diagnosis(x.used >= x.hard, "QuotaExceeded", "Critical", <<x.name>>)
             b == Diagnosis(x.used < x.hard /\ x.used * 100 >= x.hard * QuotaWarningPercent, "QuotaNearLimit", "Warning", <<x.name>>)
  <2>1. a.severity = "Critical" /\ b.severity = "Warning"
    BY Zenon DEF Diagnosis
  <2>2. f[x] = {a, b}
    OBVIOUS
  <2> HIDE DEF a, b
  <2> QED
    BY <2>1, <2>2, FewFine DEF Severities
<1>3. CheckQuota(o) = UNION {f[e] : e \in entries}
  BY DEF CheckQuota
<1> HIDE DEF entries, f
<1> QED
  BY <1>1, <1>2, <1>3, ManyFine

Builtins == UNION {BuiltinKinds[c] : c \in DOMAIN BuiltinKinds}

\* The diagnoses that the Flux checkers have in common.
LEMMA FluxFine ==
  ASSUME NEW o, NEW reasons
  PROVE  Fine(FluxDiagnoses(o, reasons))
<1> DEFINE a == Diagnosis(o.suspend, "Suspended", "Warning", <<>>)
           b == Diagnosis(o.ready \notin {"none", "True"}, o.reason,
                          CriticalIf(o.reason \in reasons), <<"Ready">>)
<1>1. a.severity = "Warning" /\ b.severity \in {"Critical", "Warning"}
  BY Zenon DEF Diagnosis, CriticalIf
<1>2. FluxDiagnoses(o, reasons) = {a, b}
  BY DEF FluxDiagnoses
<1> HIDE DEF a, b
<1> QED
  BY <1>1, <1>2, FewFine DEF Severities

\* The diagnoses of a HelmRelease.
LEMMA HelmReleaseFine ==
  ASSUME NEW o
  PROVE  Fine(CheckHelmRelease(o))
<1> DEFINE own == {Stale(o, o.handled = "longAgo"),
                    Diagnosis(o.lastRelease = "failed", "ReleaseFailed", "Critical", <<>>)}
<1>1. Fine(own)
  <2> DEFINE a == Stale(o, o.handled = "longAgo")
             b == Diagnosis(o.lastRelease = "failed", "ReleaseFailed", "Critical", <<>>)
  <2>1. a.severity = "Warning" /\ b.severity = "Critical"
    BY Zenon DEF Diagnosis, Stale
  <2>2. own = {a, b}
    OBVIOUS
  <2> HIDE DEF a, b
  <2> QED
    BY <2>1, <2>2, FewFine DEF Severities
<1> HIDE DEF own
<1> QED
  BY <1>1, FluxFine, UnionFine DEF CheckHelmRelease, own

\* The diagnoses of a Kustomization.
LEMMA KustomizationFine ==
  ASSUME NEW o
  PROVE  Fine(CheckKustomization(o))
<1> DEFINE own == {Stale(o, o.attempted # "" /\ o.handled = "longAgo"),
                    Diagnosis("" \notin {o.attempted, o.applied} /\ o.attempted # o.applied, "PendingChanges", "Info", <<>>),
                    Diagnosis(o.healthy = "False", "UnhealthyResources", "Warning", <<>>)}
<1>1. Fine(own)
  <2> DEFINE a == Stale(o, o.attempted # "" /\ o.handled = "longAgo")
             b == Diagnosis("" \notin {o.attempted, o.applied} /\ o.attempted # o.applied, "PendingChanges", "Info", <<>>)
             c == Diagnosis(o.healthy = "False", "UnhealthyResources", "Warning", <<>>)
  <2>1. a.severity = "Warning" /\ b.severity = "Info" /\ c.severity = "Warning"
    BY Zenon DEF Diagnosis, Stale
  <2>2. own = {a, b, c}
    OBVIOUS
  <2> HIDE DEF own, a, b, c
  <2> QED
    BY <2>1, <2>2, FewFine DEF Severities
<1> HIDE DEF own
<1> QED
  BY <1>1, FluxFine, UnionFine DEF CheckKustomization, own

\* The diagnoses of a GitRepository.
LEMMA GitRepositoryFine ==
  ASSUME NEW o
  PROVE  Fine(CheckGitRepository(o))
<1> DEFINE own == {Stale(o, (IF o.handled = "never" THEN o.artifact ELSE o.handled) = "longAgo"),
                    Diagnosis(o.artifact = "none" /\ o.ready = "True", "NoArtifact", "Warning", <<>>),
                    Diagnosis(o.ssh /\ ~o.secretRef, "NoAuthentication", "Warning", <<>>)}
<1>1. Fine(own)
  <2> DEFINE a == Stale(o, (IF o.handled = "never" THEN o.artifact ELSE o.handled) = "longAgo")
             b == Diagnosis(o.artifact = "none" /\ o.ready = "True", "NoArtifact", "Warning", <<>>)
             c == Diagnosis(o.ssh /\ ~o.secretRef, "NoAuthentication", "Warning", <<>>)
  <2>1. a.severity = "Warning" /\ b.severity = "Warning" /\ c.severity = "Warning"
    BY Zenon DEF Diagnosis, Stale
  <2>2. own = {a, b, c}
    OBVIOUS
  <2> HIDE DEF a, b, c
  <2> QED
    BY <2>1, <2>2, FewFine DEF Severities
<1> HIDE DEF own
<1> QED
  BY <1>1, FluxFine, UnionFine DEF CheckGitRepository, own

\* The diagnoses of a certificate.
LEMMA CertificateFine ==
  ASSUME NEW o
  PROVE  Fine(CertificateDiagnoses(o))
<1> DEFINE a == Diagnosis(o.cert = "unparsable", "InvalidCertificate", "Warning", <<>>)
           b == Diagnosis(o.cert = "expired", "CertExpired", "Critical", <<>>)
           c == Diagnosis(o.cert = "expiring", "CertExpiringSoon", "Warning", <<>>)
           d == Diagnosis(o.cert \notin {"none", "unparsable"} /\ o.notYetValid, "CertNotYetValid", "Warning", <<>>)
<1>1. a.severity = "Warning" /\ b.severity = "Critical" /\ c.severity = "Warning" /\ d.severity = "Warning"
  BY Zenon DEF Diagnosis
<1>2. CertificateDiagnoses(o) = {a, b, c, d}
  BY DEF CertificateDiagnoses
<1> HIDE DEF a, b, c, d
<1> QED
  BY <1>1, <1>2, FewFine DEF Severities

\* The diagnoses of a secret, with or without a certificate.
LEMMA SecretFine ==
  ASSUME NEW o
  PROVE  Fine(CheckSecret(o))
<1> DEFINE a == Diagnosis(o.empty /\ o.type # "serviceAccountToken", "EmptySecret", "Warning", <<>>)
<1>1. a.severity = "Warning"
  BY Zenon DEF Diagnosis
<1>2. CheckSecret(o) = (IF o.type \in {"tls", "opaque"} THEN CertificateDiagnoses(o) ELSE {}) \cup {a}
  BY DEF CheckSecret
<1> HIDE DEF a
<1>3. Fine({a})
  BY <1>1, FewFine DEF Severities
<1>4. Fine({})
  BY FS_EmptySet DEF Fine
<1> QED
  BY <1>2, <1>3, <1>4, CertificateFine, UnionFine

\* The diagnoses of a volume claim.
LEMMA PVCFine ==
  ASSUME NEW o
  PROVE  Fine(CheckPVC(o))
<1> DEFINE a == Diagnosis(o.phase = "Pending", "PVCPending", "Warning", <<>>)
           b == Diagnosis(o.phase = "Lost", "PVCLost", "Critical", <<>>)
           c == Diagnosis(o.resizePending, "PVCResizePending", "Info", <<>>)
           d == Diagnosis(o.phase = "Bound" /\ ~o.capacity, "PVCNoCapacity", "Warning", <<>>)
<1>1. a.severity = "Warning" /\ b.severity = "Critical" /\ c.severity = "Info" /\ d.severity = "Warning"
  BY Zenon DEF Diagnosis
<1>2. CheckPVC(o) = {a, b, c, d}
  BY DEF CheckPVC
<1> HIDE DEF a, b, c, d
<1> QED
  BY <1>1, <1>2, FewFine DEF Severities

\* The diagnoses of a network policy.
LEMMA NetworkPolicyFine ==
  ASSUME NEW o
  PROVE  Fine(CheckNetworkPolicy(o))
<1> DEFINE a == Diagnosis(o.allowAll, "OverlyPermissivePolicy", "Warning", <<>>)
           b == Diagnosis(o.wholeNamespace, "NamespaceWidePolicy", "Info", <<>>)
<1>1. a.severity = "Warning" /\ b.severity = "Info"
  BY Zenon DEF Diagnosis
<1>2. CheckNetworkPolicy(o) = {a, b}
  BY DEF CheckNetworkPolicy
<1> HIDE DEF a, b
<1> QED
  BY <1>1, <1>2, FewFine DEF Severities

\* The diagnoses of any object that a built-in checker lists.
LEMMA ObjectFine ==
  ASSUME NEW w, WorldOK(w), NEW o \in w.objects, o.kind \in Builtins
  PROVE  Fine(DiagnosesOf(w, o))
<1>1. o.kind \in WorkloadKinds \cup {"helmrelease", "kustomization", "gitrepository", "secret",
                                     "pvc", "resourcequota", "networkpolicy"}
  BY DEF Builtins, BuiltinKinds
<1>2. CASE o.kind \in WorkloadKinds
  BY <1>2, WorkloadFine DEF DiagnosesOf, WorkloadKinds
<1>3. CASE o.kind = "helmrelease"
  BY <1>3, HelmReleaseFine DEF DiagnosesOf, WorkloadKinds
<1>4. CASE o.kind = "kustomization"
  BY <1>4, KustomizationFine DEF DiagnosesOf, WorkloadKinds
<1>5. CASE o.kind = "gitrepository"
  BY <1>5, GitRepositoryFine DEF DiagnosesOf, WorkloadKinds
<1>6. CASE o.kind = "secret"
  BY <1>6, SecretFine DEF DiagnosesOf, WorkloadKinds
<1>7. CASE o.kind = "pvc"
  BY <1>7, PVCFine DEF DiagnosesOf, WorkloadKinds
<1>8. CASE o.kind = "resourcequota"
  BY <1>8, QuotaFine DEF DiagnosesOf, WorkloadKinds, WorldOK
<1>9. CASE o.kind = "networkpolicy"
  BY <1>9, NetworkPolicyFine DEF DiagnosesOf, WorkloadKinds
<1> QED
  BY <1>1, <1>2, <1>3, <1>4, <1>5, <1>6, <1>7, <1>8, <1>9
ResultsOK(results) ==
  /\ IsFiniteSet(DOMAIN results)
  /\ \A c \in DOMAIN results : results[c].healthy \in Nat /\ Fine(results[c].issues)

\* What a checker lists, and the namespaces without a policy, are finite sets.
LEMMA ListedFinite ==
  ASSUME NEW w, WorldOK(w), NEW kinds
  PROVE  IsFiniteSet(Listed(w, kinds)) /\ IsFiniteSet(Unprotected(w, kinds))
<1>1. Listed(w, kinds) \subseteq w.objects /\ Unprotected(w, kinds) \subseteq w.namespaces
  BY DEF Listed, Unprotected
<1> QED
  BY <1>1, FS_Subset DEF WorldOK

\* An issue about the namespace or the list itself.
LEMMA SingleFine ==
  ASSUME NEW ns, NEW resource, NEW type, NEW severity \in Severities
  PROVE  Fine(Reported(ns, resource, {Diagnosis(TRUE, type, severity, <<>>)}))
<1> DEFINE a == Diagnosis(TRUE, type, severity, <<>>)
<1>1. a.severity = severity
  BY Zenon DEF Diagnosis
<1> HIDE DEF a
<1>2. Fine({a})
  BY <1>1, FewFine
<1>3. Fine(Reported(ns, resource, {a}))
  BY <1>2, ReportedFine
<1> QED
  BY <1>3 DEF a

\* The result of a built-in checker.
LEMMA BuiltinFine ==
  ASSUME NEW w, WorldOK(w), NEW kinds \in SUBSET Builtins
  PROVE  BuiltinCheck(w, kinds).healthy \in Nat /\ Fine(BuiltinCheck(w, kinds).issues)
<1> DEFINE objects == Listed(w, kinds)
           bare == Unprotected(w, kinds)
           healthy == Cardinality({o \in objects : IssuesOf(w, o) = {}})
           Missing(ns) == Reported(ns, <<"namespace", <<ns>> >>,
                            {Diagnosis(TRUE, "NoNetworkPolicy", "Info", <<>>)})
           A == UNION {IssuesOf(w, o) : o \in objects}
           B == UNION {Missing(ns) : ns \in bare}
<1>1. IsFiniteSet(objects) /\ IsFiniteSet(bare)
  BY ListedFinite
<1>2. healthy \in Nat
  <2>1. IsFiniteSet({o \in objects : IssuesOf(w, o) = {}})
    BY <1>1, FS_Subset
  <2> QED
    BY <2>1, FS_CardinalityType
<1>3. Fine(A)
  <2> DEFINE f == [o \in objects |-> IssuesOf(w, o)]
  <2>1. ASSUME NEW o \in objects PROVE Fine(f[o])
    <3>1. o \in w.objects /\ o.kind \in Builtins
      BY DEF Listed
    <3>2. Fine(DiagnosesOf(w, o))
      BY <3>1, ObjectFine
    <3> QED
      BY <3>2, ReportedFine DEF IssuesOf
  <2>2. A = UNION {f[o] : o \in objects}
    OBVIOUS
  <2> HIDE DEF A, f, objects
  <2> QED
    BY <1>1, <2>1, <2>2, ManyFine
<1>4. Fine(B)
  <2> DEFINE f == [ns \in bare |-> Missing(ns)]
  <2>1. \A ns \in bare : Fine(f[ns])
    BY SingleFine DEF Severities
  <2> HIDE DEF Missing
  <2>2. B = UNION {f[ns] : ns \in bare}
    OBVIOUS
  <2> HIDE DEF B, f, bare
  <2> QED
    BY <1>1, <2>1, <2>2, ManyFine
<1>5. BuiltinCheck(w, kinds) = IF kinds \subseteq w.absent THEN NotSupported
                               ELSE [healthy |-> healthy, issues |-> A \cup B, error |-> FALSE]
  BY DEF BuiltinCheck
<1>6. Fine({})
  BY FS_EmptySet DEF Fine
<1> HIDE DEF healthy, A, B
<1>7. Fine(A \cup B)
  BY <1>3, <1>4, UnionFine
<1> QED
  BY <1>2, <1>5, <1>6, <1>7 DEF NotSupported

\* The result of a plugin checker.
LEMMA PluginFine ==
  ASSUME NEW w, WorldOK(w), NEW p, IsFiniteSet(p.rules)
  PROVE  PluginCheck(w, p).healthy \in Nat /\ Fine(PluginCheck(w, p).issues)
<1> DEFINE failed == {ns \in w.namespaces : <<p.kind, ns>> \in w.failed}
           objects == Listed(w, {p.kind})
           Matched(o) == {r \in p.rules : o.phase \in r.match}
           RuleSeverity(r) == IF r.severity \in Severities THEN r.severity ELSE "Warning"
           Errors(o) == {Diagnosis(o.phase \in r.fails, p.evalError, "Warning", <<r.name>>) :
                         r \in p.rules}
           Matches(o) == {Diagnosis(TRUE, r.name, RuleSeverity(r), <<>>) : r \in Matched(o)}
           Issues(o) == Reported(o.ns, <<p.resource, o.name>>, Errors(o) \cup Matches(o))
           Unlisted(ns) == Reported(ns, <<p.resource, <<>> >>,
                             {Diagnosis(TRUE, p.listError, "Warning", <<>>)})
           healthy == Cardinality({o \in objects : Matched(o) = {}})
           error == failed = w.namespaces
           A == UNION {Issues(o) : o \in objects}
           B == UNION {Unlisted(ns) : ns \in failed}
<1>1. IsFiniteSet(objects) /\ IsFiniteSet(failed)
  BY ListedFinite, FS_Subset DEF WorldOK
<1>2. healthy \in Nat
  <2>1. IsFiniteSet({o \in objects : Matched(o) = {}})
    BY <1>1, FS_Subset
  <2> QED
    BY <2>1, FS_CardinalityType
<1>3. ASSUME NEW o \in objects PROVE Fine(Issues(o))
  <2>1. Fine(Errors(o))
    <3> DEFINE d == [r \in p.rules |-> Diagnosis(o.phase \in r.fails, p.evalError, "Warning", <<r.name>>)]
    <3>1. IsFiniteSet({d[r] : r \in p.rules})
      <4> HIDE DEF d
      <4> QED
        BY FiniteImage
    <3>2. ASSUME NEW r \in p.rules PROVE d[r].severity = "Warning"
      BY Zenon DEF Diagnosis
    <3>3. Errors(o) = {d[r] : r \in p.rules}
      BY Zenon
    <3> HIDE DEF d, Errors
    <3> QED
      BY <3>1, <3>2, <3>3 DEF Fine, Severities
  <2>2. Fine(Matches(o))
    <3> DEFINE S == Matched(o)
               d == [r \in S |-> Diagnosis(TRUE, r.name, RuleSeverity(r), <<>>)]
    <3>1. IsFiniteSet({d[r] : r \in S})
      <4>1. IsFiniteSet(S)
        BY FS_Subset
      <4> HIDE DEF d, S
      <4> QED
        BY <4>1, FiniteImage
    <3>2. ASSUME NEW r \in S PROVE d[r].severity = RuleSeverity(r)
      BY Zenon DEF Diagnosis
    <3>3. Matches(o) = {d[r] : r \in S}
      BY Zenon
    <3>4. \A r \in S : RuleSeverity(r) \in Severities
      BY DEF Severities
    <3> HIDE DEF d, S, Matches
    <3> QED
      BY <3>1, <3>2, <3>3, <3>4 DEF Fine
  <2> HIDE DEF Errors, Matches
  <2> QED
    BY <2>1, <2>2, UnionFine, ReportedFine
<1>4. \A ns \in failed : Fine(Unlisted(ns))
  BY SingleFine DEF Severities
<1>5. PluginCheck(w, p) = [healthy |-> healthy, issues |-> A \cup B, error |-> error]
  BY DEF PluginCheck
<1>6. PluginCheck(w, p).healthy = healthy /\ PluginCheck(w, p).issues = A \cup B
  <2> HIDE DEF healthy, A, B, error
  <2> QED
    BY <1>5
<1> HIDE DEF objects, failed, Issues, Unlisted
<1>7. Fine(A)
  <2> DEFINE f == [o \in objects |-> Issues(o)]
  <2>1. \A o \in objects : Fine(f[o])
    BY <1>3
  <2>2. A = UNION {f[o] : o \in objects}
    OBVIOUS
  <2> HIDE DEF A, f
  <2> QED
    BY <1>1, <2>1, <2>2, ManyFine
<1>8. Fine(B)
  <2> DEFINE f == [ns \in failed |-> Unlisted(ns)]
  <2>1. \A ns \in failed : Fine(f[ns])
    BY <1>4
  <2>2. B = UNION {f[ns] : ns \in failed}
    OBVIOUS
  <2> HIDE DEF B, f
  <2> QED
    BY <1>1, <2>1, <2>2, ManyFine
<1> HIDE DEF healthy, A, B
<1> QED
  BY <1>2, <1>6, <1>7, <1>8, UnionFine

\* The results of all checkers (RunAll).
LEMMA RunFine ==
  ASSUME NEW w, WorldOK(w)
  PROVE  ResultsOK(RunAll(w, Plugins))
<1> DEFINE results == RunAll(w, Plugins)
           names == DOMAIN BuiltinKinds \cup {p.name : p \in Plugins}
<1>1. DOMAIN results = names
  BY DEF RunAll
<1>2. IsFiniteSet(names)
  <2> DEFINE f == [p \in Plugins |-> p.name]
  <2>1. IsFiniteSet({f[p] : p \in Plugins})
    <3> HIDE DEF f
    <3> QED
      BY PluginsAssumption, FiniteImage
  <2>2. {f[p] : p \in Plugins} = {p.name : p \in Plugins}
    OBVIOUS
  <2>3. IsFiniteSet(DOMAIN BuiltinKinds)
    <3> DEFINE S == {"workloads", "helmreleases", "kustomizations", "gitrepositories", "secrets"}
               T == {"pvcs", "quotas", "networkpolicies", "networkpolicies", "networkpolicies"}
    <3>1. DOMAIN BuiltinKinds = S \cup T
      BY DEF BuiltinKinds
    <3>2. IsFiniteSet(S) /\ IsFiniteSet(T)
      BY Enumerated
    <3> HIDE DEF S, T
    <3> QED
      BY <3>1, <3>2, FS_Union
  <2> QED
    BY <2>1, <2>2, <2>3, FS_Union
<1>3. ASSUME NEW c \in names PROVE results[c].healthy \in Nat /\ Fine(results[c].issues)
  <2>1. CASE c \in DOMAIN BuiltinKinds
    <3>1. results[c] = BuiltinCheck(w, BuiltinKinds[c]) /\ BuiltinKinds[c] \subseteq Builtins
      BY <2>1 DEF RunAll, Builtins
    <3> QED
      BY <3>1, BuiltinFine
  <2>2. CASE c \notin DOMAIN BuiltinKinds
    <3> DEFINE p == CHOOSE x \in Plugins : x.name = c
    <3>1. p \in Plugins
      BY <2>2
    <3>2. results[c] = PluginCheck(w, p)
      BY <2>2 DEF RunAll
    <3> HIDE DEF p
    <3> QED
      BY <3>1, <3>2, PluginFine, PluginsAssumption
  <2> QED
    BY <2>1, <2>2
<1> QED
  BY <1>1, <1>2, <1>3 DEF ResultsOK
-----------------------------------------------------------------------------
(* The summary of the results. *)

\* The least of two numbers.
LEMMA MinOfTwo ==
  ASSUME NEW a \in Nat, NEW b \in Nat, a <= b
  PROVE  Min({a, b}) = a
BY DEF Min

\* A percentage, rounded down: the whole is 100, anything less is below.
LEMMA Percentage ==
  ASSUME NEW whole \in Nat \ {0}, NEW part \in Nat, part <= whole
  PROVE  /\ ((whole - part) * 100) \div whole \in Nat
         /\ ((whole - part) * 100) \div whole < 100 <=> part > 0
<1> DEFINE n == (whole - part) * 100
           q == n \div whole
<1>1. n \in Nat /\ n <= 100 * whole /\ (part > 0 => n < 100 * whole) /\ (part = 0 => n = 100 * whole)
  OBVIOUS
<1> HIDE DEF n
<1>2. q \in Int /\ whole * q <= n /\ n < whole * q + whole
  BY <1>1
<1> HIDE DEF q
<1>3. q >= 0
  BY <1>1, <1>2
<1>4. part > 0 => q < 100
  <2> SUFFICES ASSUME part > 0, q >= 100 PROVE FALSE
    BY <1>2
  <2>1. whole * q >= whole * 100
    BY <1>2
  <2> QED
    BY <1>1, <1>2, <2>1
<1>5. part = 0 => q >= 100
  <2> SUFFICES ASSUME part = 0, q <= 99 PROVE FALSE
    BY <1>2
  <2>1. whole * q <= whole * 99
    BY <1>2
  <2> QED
    BY <1>1, <1>2, <2>1
<1> QED
  BY <1>2, <1>3, <1>4, <1>5 DEF q, n

\* The issues of a severity that count, those of a muted key, and the resources they
\* are about, each of one checker.
Counting(results, muted, severity, c) ==
  {i \in Unmuted(results[c].issues, muted) : i.severity = severity}
Muting(results, muted, c) == {i \in results[c].issues : IssueKey(i) \in muted}

\* They are finite, and the more keys are muted the fewer issues count.
LEMMA CountingFinite ==
  ASSUME NEW results, ResultsOK(results), NEW muted, NEW c \in Succeeded(results)
  PROVE  /\ \A s : /\ IsFiniteSet(Counting(results, muted, s, c))
                   /\ Cardinality(Counting(results, muted, s, c)) \in Nat
         /\ IsFiniteSet(Muting(results, muted, c)) /\ Cardinality(Muting(results, muted, c)) \in Nat
         /\ IsFiniteSet(results[c].issues) /\ Cardinality(results[c].issues) \in Nat
<1>1. IsFiniteSet(results[c].issues)
  BY DEF ResultsOK, Succeeded, Fine
<1>2. /\ \A s : Counting(results, muted, s, c) \subseteq results[c].issues
      /\ Muting(results, muted, c) \subseteq results[c].issues
  BY DEF Counting, Muting, Unmuted
<1>3. \A T \in SUBSET results[c].issues : IsFiniteSet(T) /\ Cardinality(T) \in Nat
  BY <1>1, FS_Subset, FS_CardinalityType
<1> QED
  BY <1>1, <1>2, <1>3

\* The counts as sums over the checkers that succeeded.
CountsOf(results, muted, severity) ==
  [c \in Succeeded(results) |-> Cardinality(Counting(results, muted, severity, c))]

\* A count of the summary is the sum of its numbers per checker.
LEMMA CountIsSum ==
  ASSUME NEW results, NEW muted, NEW s
  PROVE  CountUnmuted(results, muted, s) = Sum(Succeeded(results), CountsOf(results, muted, s))
<1> DEFINE S == Succeeded(results)
           f == CountsOf(results, muted, s)
<1>1. CountUnmuted(results, muted, s)
        = Cardinality(UNION {{c} \X (1 .. Cardinality(Counting(results, muted, s, c))) : c \in S})
  BY DEF CountUnmuted, SumOver, Counting
<1>2. \A c \in S : f[c] = Cardinality(Counting(results, muted, s, c))
  BY DEF CountsOf
<1> HIDE DEF S, f
<1> QED
  BY <1>1, <1>2 DEF Sum, Parts, S, f

\* The checkers that succeeded are finitely many.
LEMMA SucceededFinite ==
  ASSUME NEW results, ResultsOK(results)
  PROVE  IsFiniteSet(Succeeded(results)) /\ Succeeded(results) \subseteq DOMAIN results
BY FS_Subset DEF ResultsOK, Succeeded

\* A count of the summary is a natural number.
LEMMA CountsType ==
  ASSUME NEW results, ResultsOK(results), NEW muted, NEW s
  PROVE  CountUnmuted(results, muted, s) \in Nat
<1>1. \A c \in Succeeded(results) : CountsOf(results, muted, s)[c] \in Nat
  BY CountingFinite DEF CountsOf
<1> QED
  BY <1>1, CountIsSum, SumType, SucceededFinite

\* The more is muted, the less is counted (isIssueMuted).
LEMMA MutingCountsLess ==
  ASSUME NEW results, ResultsOK(results), NEW less, NEW more, less \subseteq more, NEW s
  PROVE  CountUnmuted(results, more, s) <= CountUnmuted(results, less, s)
<1> DEFINE f == CountsOf(results, more, s)
           g == CountsOf(results, less, s)
           S == Succeeded(results)
<1>1. ASSUME NEW c \in S PROVE f[c] \in Nat /\ g[c] \in Nat /\ f[c] <= g[c]
  <2>1. Counting(results, more, s, c) \subseteq Counting(results, less, s, c)
    BY DEF Counting, Unmuted
  <2>2. /\ IsFiniteSet(Counting(results, less, s, c))
        /\ Cardinality(Counting(results, less, s, c)) \in Nat
        /\ Cardinality(Counting(results, more, s, c)) \in Nat
    BY CountingFinite
  <2>3. Cardinality(Counting(results, more, s, c)) <= Cardinality(Counting(results, less, s, c))
    BY <2>1, <2>2, FS_Subset
  <2> QED
    BY <2>2, <2>3 DEF CountsOf
<1>2. IsFiniteSet(S)
  BY SucceededFinite
<1> HIDE DEF f, g, S
<1>3. Sum(S, f) <= Sum(S, g)
  BY <1>1, <1>2, SumMonotone
<1> QED
  BY <1>3, CountIsSum DEF f, g, S

\* The numbers of healthy objects, of all issues and of the muted ones, per checker
\* that succeeded.
HealthyPer(results) == [c \in Succeeded(results) |-> results[c].healthy]
IssuesPer(results) == [c \in Succeeded(results) |-> Cardinality(results[c].issues)]
MutedPer(results, muted) ==
  [c \in Succeeded(results) |-> Cardinality(Muting(results, muted, c))]

\* The severities that count and the muted issues are all issues.
LEMMA CountsAddUp ==
  ASSUME NEW results, ResultsOK(results), NEW muted
  PROVE  Sum(Succeeded(results), IssuesPer(results))
           = CountUnmuted(results, muted, "Critical") + CountUnmuted(results, muted, "Warning")
             + CountUnmuted(results, muted, "Info")
             + Sum(Succeeded(results), MutedPer(results, muted))
<1> DEFINE S == Succeeded(results)
           critical == CountsOf(results, muted, "Critical")
           warning == CountsOf(results, muted, "Warning")
           info == CountsOf(results, muted, "Info")
           hidden == MutedPer(results, muted)
           all == IssuesPer(results)
           two == [c \in S |-> critical[c] + warning[c]]
           three == [c \in S |-> two[c] + info[c]]
<1>1. ASSUME NEW c \in S
      PROVE  /\ critical[c] \in Nat /\ warning[c] \in Nat /\ info[c] \in Nat /\ hidden[c] \in Nat
             /\ all[c] = critical[c] + warning[c] + info[c] + hidden[c]
  <2> DEFINE C == Counting(results, muted, "Critical", c)
             W == Counting(results, muted, "Warning", c)
             I == Counting(results, muted, "Info", c)
             M == Muting(results, muted, c)
             A == results[c].issues
  <2>1. /\ IsFiniteSet(C) /\ IsFiniteSet(W) /\ IsFiniteSet(I) /\ IsFiniteSet(M)
        /\ Cardinality(C) \in Nat /\ Cardinality(W) \in Nat /\ Cardinality(I) \in Nat
        /\ Cardinality(M) \in Nat
    BY CountingFinite
  <2>2. A = ((C \cup W) \cup I) \cup M
    <3>1. \A i \in A : i.severity \in {"Critical", "Warning", "Info"}
      BY DEF ResultsOK, Succeeded, Fine, Severities
    <3> QED
      BY <3>1 DEF Counting, Muting, Unmuted
  <2>3. C \cap W = {} /\ (C \cup W) \cap I = {} /\ ((C \cup W) \cup I) \cap M = {}
    BY DEF Counting, Muting, Unmuted
  <2> HIDE DEF C, W, I, M, A
  <2>4. /\ IsFiniteSet(C \cup W)
        /\ Cardinality(C \cup W) = Cardinality(C) + Cardinality(W)
    BY <2>1, <2>3, DisjointSize
  <2>5. /\ IsFiniteSet((C \cup W) \cup I)
        /\ Cardinality((C \cup W) \cup I) = Cardinality(C \cup W) + Cardinality(I)
    BY <2>1, <2>3, <2>4, DisjointSize
  <2>6. Cardinality(A) = Cardinality((C \cup W) \cup I) + Cardinality(M)
    BY <2>1, <2>2, <2>3, <2>5, DisjointSize
  <2>7. /\ critical[c] = Cardinality(C) /\ warning[c] = Cardinality(W) /\ info[c] = Cardinality(I)
        /\ hidden[c] = Cardinality(M) /\ all[c] = Cardinality(A)
    BY DEF CountsOf, MutedPer, IssuesPer, C, W, I, M, A
  <2> HIDE DEF critical, warning, info, hidden, all
  <2> QED
    BY <2>1, <2>4, <2>5, <2>6, <2>7
<1>2. IsFiniteSet(S)
  BY SucceededFinite
<1>3. /\ CountUnmuted(results, muted, "Critical") = Sum(S, critical)
      /\ CountUnmuted(results, muted, "Warning") = Sum(S, warning)
      /\ CountUnmuted(results, muted, "Info") = Sum(S, info)
  BY CountIsSum
<1>4. \A c \in S : /\ two[c] \in Nat /\ three[c] \in Nat /\ two[c] = critical[c] + warning[c]
                   /\ three[c] = two[c] + info[c]
  BY <1>1
<1>5. \A c \in S : all[c] = three[c] + hidden[c]
  <2> SUFFICES ASSUME NEW c \in S PROVE all[c] = three[c] + hidden[c]
    OBVIOUS
  <2>1. all[c] = critical[c] + warning[c] + info[c] + hidden[c]
    BY <1>1
  <2>2. three[c] = critical[c] + warning[c] + info[c]
    BY <1>4
  <2> HIDE DEF all, three, critical, warning, info, hidden
  <2> QED
    BY <2>1, <2>2
<1> HIDE DEF S, critical, warning, info, hidden, all, two, three
<1>6. Sum(S, two) = Sum(S, critical) + Sum(S, warning)
  BY <1>1, <1>2, <1>4, SumAdds
<1>7. Sum(S, three) = Sum(S, two) + Sum(S, info)
  BY <1>1, <1>2, <1>4, SumAdds
<1>8. Sum(S, all) = Sum(S, three) + Sum(S, hidden)
  BY <1>1, <1>2, <1>4, <1>5, SumAdds
<1> QED
  BY <1>3, <1>6, <1>7, <1>8 DEF S, all, hidden

\* A finite set has elements exactly if its size is positive.
LEMMA Inhabited ==
  ASSUME NEW S, IsFiniteSet(S)
  PROVE  Cardinality(S) \in Nat /\ (Cardinality(S) > 0 <=> S # {})
<1>1. Cardinality(S) \in Nat /\ (Cardinality(S) = 0 <=> S = {})
  BY FS_CardinalityType, FS_EmptySet
<1> QED
  BY <1>1

\* The resources with an issue are finitely many, some of them critical; and there is
\* a critical one exactly if a critical issue counts.
LEMMA ResourcesFinite ==
  ASSUME NEW results, ResultsOK(results), NEW muted, NEW c \in Succeeded(results)
  PROVE  LET issues == results[c].issues
         IN /\ Cardinality(Unhealthy(issues, muted)) \in Nat
            /\ Cardinality(CriticalResources(issues, muted)) \in Nat
            /\ Cardinality(CriticalResources(issues, muted)) <= Cardinality(Unhealthy(issues, muted))
            /\ Cardinality(CriticalResources(issues, muted)) > 0
                 <=> CountsOf(results, muted, "Critical")[c] > 0
<1> DEFINE issues == results[c].issues
           U == Unhealthy(issues, muted)
           K == CriticalResources(issues, muted)
           some == {x \in Unmuted(issues, muted) : SevRank(x.severity) > 0}
           key == [i \in some |-> ResourceKey(i)]
           C == Counting(results, muted, "Critical", c)
<1>1. IsFiniteSet(issues)
  BY CountingFinite
<1>2. IsFiniteSet(some)
  BY <1>1, FS_Subset DEF Unmuted
<1>3. U = {key[i] : i \in some}
  BY DEF Unhealthy
<1>4. IsFiniteSet({key[i] : i \in some})
  <2> HIDE DEF some, key
  <2> QED
    BY <1>2, FiniteImage
<1>5. K \subseteq U
  BY DEF CriticalResources
<1>6. IsFiniteSet(C)
  BY CountingFinite
<1>7. K # {} <=> C # {}
  <2>1. ASSUME NEW r \in K PROVE C # {}
    BY DEF CriticalResources, Counting
  <2>2. ASSUME NEW i \in C PROVE K # {}
    <3>1. i \in Unmuted(issues, muted) /\ i.severity = "Critical"
      BY DEF Counting
    <3>2. ResourceKey(i) \in Unhealthy(issues, muted)
      BY <3>1 DEF Unhealthy, SevRank
    <3> QED
      BY <3>1, <3>2 DEF CriticalResources
  <2> QED
    BY <2>1, <2>2
<1>8. CountsOf(results, muted, "Critical")[c] = Cardinality(C)
  BY DEF CountsOf
<1> HIDE DEF U, K, some, key, C
<1>9. IsFiniteSet(U) /\ IsFiniteSet(K) /\ Cardinality(K) <= Cardinality(U)
  BY <1>3, <1>4, <1>5, FS_Subset
<1>10. /\ Cardinality(U) \in Nat /\ Cardinality(K) \in Nat
       /\ Cardinality(K) > 0 <=> Cardinality(C) > 0
  BY <1>6, <1>7, <1>9, Inhabited
<1> QED
  BY <1>8, <1>9, <1>10 DEF U, K

\* The score is below 100 exactly if a critical issue counts: every critical
\* resource is one of those that were checked (computeOperationalHealthScore).
LEMMA ScoreAgrees ==
  ASSUME NEW results, ResultsOK(results), NEW muted
  PROVE  /\ Summary(results, muted).score \in Nat
         /\ Summary(results, muted).score < 100
              <=> CountUnmuted(results, muted, "Critical") > 0
<1> DEFINE S == Succeeded(results)
           seen == [c \in S |-> results[c].healthy + Cardinality(Unhealthy(results[c].issues, muted))]
           bad == [c \in S |-> Cardinality(CriticalResources(results[c].issues, muted))]
           counts == CountsOf(results, muted, "Critical")
           checked == Sum(S, seen)
           critical == Sum(S, bad)
<1>1. Summary(results, muted).score = HealthScore(checked, critical)
  <2>1. /\ SumOver(S, LAMBDA c : results[c].healthy + Cardinality(Unhealthy(results[c].issues, muted)))
             = checked
        /\ SumOver(S, LAMBDA c : Cardinality(CriticalResources(results[c].issues, muted))) = critical
    BY DEF SumOver, Sum, Parts
  <2> HIDE DEF checked, critical
  <2> QED
    BY <2>1 DEF Summary
<1>2. ASSUME NEW c \in S
      PROVE  /\ seen[c] \in Nat /\ bad[c] \in Nat /\ bad[c] <= seen[c]
             /\ counts[c] \in Nat /\ (bad[c] > 0 <=> counts[c] > 0)
  <2>1. results[c].healthy \in Nat
    BY DEF ResultsOK, Succeeded
  <2>2. counts[c] \in Nat
    BY CountingFinite DEF CountsOf
  <2> DEFINE u == Cardinality(Unhealthy(results[c].issues, muted))
             k == Cardinality(CriticalResources(results[c].issues, muted))
  <2>3. u \in Nat /\ k \in Nat /\ k <= u /\ (k > 0 <=> counts[c] > 0)
    BY ResourcesFinite
  <2>4. seen[c] = results[c].healthy + u /\ bad[c] = k
    OBVIOUS
  <2> HIDE DEF u, k, seen, bad, counts
  <2> QED
    BY <2>1, <2>2, <2>3, <2>4
<1>3. IsFiniteSet(S)
  BY SucceededFinite
<1>4. CountUnmuted(results, muted, "Critical") = Sum(S, counts)
  BY CountIsSum
<1> HIDE DEF S, seen, bad, counts
<1>5. critical \in Nat /\ checked \in Nat /\ critical <= checked
  BY <1>2, <1>3, SumType, SumMonotone
<1>6. critical > 0 <=> Sum(S, counts) > 0
  <2>1. critical > 0 <=> \E c \in S : bad[c] > 0
    BY <1>2, <1>3, SumPositive
  <2>2. Sum(S, counts) > 0 <=> \E c \in S : counts[c] > 0
    BY <1>2, <1>3, SumPositive
  <2> QED
    BY <1>2, <2>1, <2>2
<1> HIDE DEF checked, critical
<1>7. HealthScore(checked, critical) \in Nat /\ (HealthScore(checked, critical) < 100 <=> critical > 0)
  <2>1. CASE checked = 0
    BY <1>5, <2>1 DEF HealthScore
  <2>2. CASE checked # 0
    <3>1. Min({critical, checked}) = critical
      BY <1>5, MinOfTwo
    <3>2. HealthScore(checked, critical) = ((checked - critical) * 100) \div checked
      BY <1>5, <2>2, <3>1 DEF HealthScore
    <3> QED
      BY <1>5, <2>2, <3>2, Percentage
  <2> QED
    BY <2>1, <2>2
<1> QED
  BY <1>1, <1>4, <1>6, <1>7

\* The totals are sums over the checkers.
LEMMA TotalsAreSums ==
  ASSUME NEW results
  PROVE  /\ SumOver(Succeeded(results), LAMBDA c : results[c].healthy)
              = Sum(Succeeded(results), HealthyPer(results))
         /\ SumOver(Succeeded(results), LAMBDA c : Cardinality(results[c].issues))
              = Sum(Succeeded(results), IssuesPer(results))
<1> DEFINE S == Succeeded(results)
           healthy == SumOver(S, LAMBDA c : results[c].healthy)
           issues == SumOver(S, LAMBDA c : Cardinality(results[c].issues))
<1>1. /\ healthy = Cardinality(UNION {{c} \X (1 .. results[c].healthy) : c \in S})
      /\ issues = Cardinality(UNION {{c} \X (1 .. Cardinality(results[c].issues)) : c \in S})
  BY DEF SumOver
<1>2. \A c \in S : /\ HealthyPer(results)[c] = results[c].healthy
                  /\ IssuesPer(results)[c] = Cardinality(results[c].issues)
  BY DEF HealthyPer, IssuesPer
<1> HIDE DEF S, healthy, issues
<1>3. healthy = Sum(S, HealthyPer(results)) /\ issues = Sum(S, IssuesPer(results))
  BY <1>1, <1>2 DEF Sum, Parts
<1> QED
  BY <1>3 DEF S, healthy, issues

\* What the summary is made of.
LEMMA SummaryFields ==
  ASSUME NEW results, NEW muted
  PROVE  LET summary == Summary(results, muted)
         IN /\ summary.healthy = Sum(Succeeded(results), HealthyPer(results))
            /\ summary.issues = Sum(Succeeded(results), IssuesPer(results))
            /\ summary.counts = [s \in {"Critical", "Warning", "Info"} |->
                                   CountUnmuted(results, muted, s)]
<1> DEFINE healthy == SumOver(Succeeded(results), LAMBDA c : results[c].healthy)
           issues == SumOver(Succeeded(results), LAMBDA c : Cardinality(results[c].issues))
           counts == [s \in {"Critical", "Warning", "Info"} |-> CountUnmuted(results, muted, s)]
           checked == SumOver(Succeeded(results), LAMBDA c :
             results[c].healthy + Cardinality(Unhealthy(results[c].issues, muted)))
           critical == SumOver(Succeeded(results), LAMBDA c :
             Cardinality(CriticalResources(results[c].issues, muted)))
           score == HealthScore(checked, critical)
<1>1. Summary(results, muted) = [healthy |-> healthy, issues |-> issues, counts |-> counts,
                                 checked |-> checked, score |-> score]
  BY DEF Summary
<1>2. healthy = Sum(Succeeded(results), HealthyPer(results))
  BY TotalsAreSums
<1>3. issues = Sum(Succeeded(results), IssuesPer(results))
  BY TotalsAreSums
<1>4. /\ Summary(results, muted).healthy = healthy /\ Summary(results, muted).issues = issues
      /\ Summary(results, muted).counts = counts
  <2> HIDE DEF healthy, issues, counts, checked, score
  <2> QED
    BY <1>1
<1> HIDE DEF healthy, issues
<1> QED
  BY <1>2, <1>3, <1>4

\* The objects a built-in checker lists are healthy or have an issue, and the others
\* it reports are the namespaces without a policy: it counts each of them once, for
\* no two of them have the same resource key.
LEMMA ObjectsCounted ==
  ASSUME NEW w, WorldOK(w), NEW kinds \in SUBSET Builtins, ~BuiltinCheck(w, kinds).error
  PROVE  BuiltinCheck(w, kinds).healthy + Cardinality(Unhealthy(BuiltinCheck(w, kinds).issues, {}))
           = Cardinality(Listed(w, kinds)) + Cardinality(Unprotected(w, kinds))
<1> DEFINE objects == Listed(w, kinds)
           bare == Unprotected(w, kinds)
           well == {o \in objects : IssuesOf(w, o) = {}}
           sick == {o \in objects : IssuesOf(w, o) # {}}
           Missing(ns) == Reported(ns, <<"namespace", <<ns>> >>,
                            {Diagnosis(TRUE, "NoNetworkPolicy", "Info", <<>>)})
           issues == (UNION {IssuesOf(w, o) : o \in objects}) \cup (UNION {Missing(ns) : ns \in bare})
           key == [o \in sick |-> <<o.ns, <<o.kind, o.name>> >>]
           lack == [ns \in bare |-> <<ns, <<"namespace", <<ns>> >> >>]
           U == {key[o] : o \in sick}
           V == {lack[ns] : ns \in bare}
<1>1. BuiltinCheck(w, kinds) = [healthy |-> Cardinality(well), issues |-> issues, error |-> FALSE]
  BY DEF BuiltinCheck, NotSupported
<1>2. /\ BuiltinCheck(w, kinds).healthy = Cardinality(well)
      /\ BuiltinCheck(w, kinds).issues = issues
  <2> HIDE DEF well, issues
  <2> QED
    BY <1>1
<1>3. \A i \in issues : SevRank(i.severity) > 0
  <2>1. Fine(BuiltinCheck(w, kinds).issues)
    BY BuiltinFine
  <2> HIDE DEF issues
  <2> QED
    BY <1>2, <2>1 DEF Fine, Severities, SevRank
<1>4. \A o : \A i \in IssuesOf(w, o) : ResourceKey(i) = <<o.ns, <<o.kind, o.name>> >>
  BY DEF IssuesOf, Reported, ResourceKey
<1>5. \A ns : /\ \A i \in Missing(ns) : ResourceKey(i) = <<ns, <<"namespace", <<ns>> >> >>
              /\ Missing(ns) # {}
  <2> DEFINE d == Diagnosis(TRUE, "NoNetworkPolicy", "Info", <<>>)
  <2>1. d.holds
    BY Zenon DEF Diagnosis
  <2> HIDE DEF d
  <2>2. \A ns : /\ \A i \in Reported(ns, <<"namespace", <<ns>> >>, {d}) :
                     ResourceKey(i) = <<ns, <<"namespace", <<ns>> >> >>
                /\ Reported(ns, <<"namespace", <<ns>> >>, {d}) # {}
    <3> DEFINE resource(ns) == <<"namespace", <<ns>> >>
               issue(ns) == [type |-> d.type, severity |-> d.severity, ns |-> ns,
                             resource |-> resource(ns), at |-> d.at]
    <3>1. \A ns : Reported(ns, resource(ns), {d}) = {issue(ns)}
      <4> HIDE DEF resource
      <4> QED
        BY <2>1 DEF Reported
    <3>2. \A ns : ResourceKey(issue(ns)) = <<ns, resource(ns)>>
      <4> HIDE DEF resource
      <4> QED
        BY DEF ResourceKey
    <3> HIDE DEF issue
    <3>3. \A ns : /\ \A i \in Reported(ns, resource(ns), {d}) : ResourceKey(i) = <<ns, resource(ns)>>
                  /\ Reported(ns, resource(ns), {d}) # {}
      <4> HIDE DEF resource
      <4> QED
        BY <3>1, <3>2
    <3> QED
      BY <3>3
  <2> QED
    BY <2>2 DEF d
<1>6. Unhealthy(issues, {}) = U \cup V
  <2>1. Unhealthy(issues, {}) = {ResourceKey(i) : i \in issues}
    <3> HIDE DEF issues
    <3> QED
      BY <1>3 DEF Unhealthy, Unmuted
  <2>2. ASSUME NEW i \in issues PROVE ResourceKey(i) \in U \cup V
    <3> HIDE DEF Missing
    <3>1. CASE \E o \in objects : i \in IssuesOf(w, o)
      BY <1>4, <3>1
    <3>2. CASE \E ns \in bare : i \in Missing(ns)
      BY <1>5, <3>2
    <3> QED
      BY <3>1, <3>2
  <2>3. ASSUME NEW o \in sick PROVE key[o] \in {ResourceKey(i) : i \in issues}
    <3> HIDE DEF Missing
    <3>1. PICK i \in IssuesOf(w, o) : TRUE
      OBVIOUS
    <3>2. i \in issues /\ ResourceKey(i) = key[o]
      BY <1>4
    <3> QED
      BY <3>2
  <2>4. ASSUME NEW ns \in bare PROVE lack[ns] \in {ResourceKey(i) : i \in issues}
    <3> HIDE DEF Missing
    <3>1. PICK i \in Missing(ns) : TRUE
      BY <1>5
    <3>2. i \in issues /\ ResourceKey(i) = lack[ns]
      BY <1>5
    <3> QED
      BY <3>2
  <2> HIDE DEF issues, key, lack, sick, bare
  <2> QED
    BY <2>1, <2>2, <2>3, <2>4
<1>7. \A o \in objects : o \in w.objects /\ o.kind \in Builtins
  BY DEF Listed
<1>8. "namespace" \notin Builtins /\ "event" \notin Builtins
  BY DEF Builtins, BuiltinKinds, WorkloadKinds
<1>9. IsFiniteSet(objects) /\ IsFiniteSet(bare)
  BY ListedFinite
<1>10. \A o, p \in sick : key[o] = key[p] => o = p
  <2> SUFFICES ASSUME NEW o \in sick, NEW p \in sick, key[o] = key[p] PROVE o = p
    OBVIOUS
  <2>1. o.ns = p.ns /\ o.kind = p.kind /\ o.name = p.name
    OBVIOUS
  <2> QED
    BY <1>7, <1>8, <2>1 DEF WorldOK
<1>11. U \cap V = {}
  <2> SUFFICES ASSUME NEW o \in sick, NEW ns \in bare, key[o] = lack[ns] PROVE FALSE
    OBVIOUS
  <2>1. o.kind = "namespace"
    OBVIOUS
  <2> QED
    BY <1>7, <1>8, <2>1
<1>12. well \cup sick = objects /\ well \cap sick = {}
  OBVIOUS
<1>13. IsFiniteSet(well) /\ IsFiniteSet(sick)
  BY <1>9, FS_Subset
<1>14. \A ns, m \in bare : lack[ns] = lack[m] => ns = m
  OBVIOUS
<1> HIDE DEF objects, bare, well, sick, issues, key, lack
<1>15. IsFiniteSet(U) /\ Cardinality(U) = Cardinality(sick)
  BY <1>10, <1>13, SameSize
<1>16. IsFiniteSet(V) /\ Cardinality(V) = Cardinality(bare)
  BY <1>9, <1>14, SameSize
<1> HIDE DEF U, V
<1>17. /\ Cardinality(U \cup V) = Cardinality(sick) + Cardinality(bare)
       /\ Cardinality(bare) \in Nat
  <2>1. /\ Cardinality(V) \in Nat
        /\ Cardinality(U \cup V) = Cardinality(U) + Cardinality(V)
    BY <1>11, <1>15, <1>16, DisjointSize
  <2> QED
    BY <1>15, <1>16, <2>1
<1>18. /\ Cardinality(objects) = Cardinality(well) + Cardinality(sick)
       /\ Cardinality(well) \in Nat /\ Cardinality(sick) \in Nat
  BY <1>12, <1>13, DisjointSize
<1>19. BuiltinCheck(w, kinds).healthy + Cardinality(Unhealthy(BuiltinCheck(w, kinds).issues, {}))
         = Cardinality(objects) + Cardinality(bare)
  BY <1>2, <1>6, <1>17, <1>18
<1> QED
  BY <1>19 DEF objects, bare

-----------------------------------------------------------------------------
(* Recursive functions: induction over an interval, by its smallest          *)
(* counterexample, and the existence of what a recursive definition defines. *)

\* Induction over an interval, on the set of the numbers for which a fact holds.
LEMMA IntervalInduction ==
  ASSUME NEW lo \in Nat, NEW n \in Nat, NEW S, lo \in S,
         \A i \in lo .. n : i \in S /\ i < n => i + 1 \in S
  PROVE  lo .. n \subseteq S
<1> DEFINE T == (lo .. n) \ S
<1> SUFFICES ASSUME T # {} PROVE FALSE
  OBVIOUS
<1>1. T \subseteq Nat
  OBVIOUS
<1> HIDE DEF T
<1>2. PICK x \in T : \A y \in T : ~ (<<y, x>> \in OpToRel(<, Nat))
  BY <1>1, NatLessThanWellFounded, WFMin, Zenon
<1>3. x \in lo .. n /\ x \notin S /\ x # lo
  BY DEF T
<1>4. x - 1 \in lo .. n /\ x - 1 < n /\ (x - 1) + 1 = x
  BY <1>3
<1>5. x - 1 \notin S
  BY <1>3, <1>4
<1>6. x - 1 \in T
  BY <1>4, <1>5 DEF T
<1>7. <<x - 1, x>> \in OpToRel(<, Nat)
  <2>1. x - 1 \in Nat /\ x \in Nat /\ x - 1 < x
    BY <1>3, <1>4
  <2> QED
    BY <2>1 DEF OpToRel
<1> QED
  BY <1>2, <1>6, <1>7

\* f begins with base, and each value follows from the one before.
Stepwise(f, lo, n, A, base, step) ==
  /\ f \in [lo .. n -> A]
  /\ f[lo] = base /\ \A i \in lo .. n : i # lo => f[i] = step[i][f[i - 1]]

\* A function that is defined by its previous value exists.
LEMMA Recursion ==
  ASSUME NEW lo \in Nat, NEW n \in Nat, lo <= n, NEW A, NEW base \in A, NEW step,
         \A i \in lo .. n, a \in A : i # lo => step[i][a] \in A
  PROVE  \E f : Stepwise(f, lo, n, A, base, step)
<1> DEFINE Follows(f, m) == Stepwise(f, lo, m, A, base, step)
           S == {m \in lo .. n : \E f : Follows(f, m)}
<1>1. lo \in S
  <2> DEFINE f == [i \in lo .. lo |-> base]
  <2>1. Follows(f, lo)
    BY DEF Stepwise
  <2>2. lo \in lo .. n
    OBVIOUS
  <2> HIDE DEF f
  <2> QED
    BY <2>1, <2>2
<1>2. ASSUME NEW m \in lo .. n, m \in S, m < n
      PROVE  m + 1 \in S
  <2>1. PICK f : Follows(f, m)
    BY <1>2
  <2> DEFINE g == [i \in lo .. m + 1 |-> IF i = m + 1 THEN step[m + 1][f[m]] ELSE f[i]]
  <2>2. m + 1 \in lo .. n /\ m + 1 # lo /\ f[m] \in A
    BY <1>2, <2>1 DEF Stepwise
  <2>3. step[m + 1][f[m]] \in A
    BY <2>2
  <2>4. g \in [lo .. m + 1 -> A]
    <3>1. ASSUME NEW i \in lo .. m + 1 PROVE g[i] \in A
      <4>1. CASE i = m + 1
        BY <2>3, <4>1
      <4>2. CASE i # m + 1
        <5>1. i \in lo .. m
          BY <4>2
        <5> QED
          BY <2>1, <4>2, <5>1 DEF Stepwise
      <4> QED
        BY <4>1, <4>2
    <3> QED
      BY <3>1
  <2>5. ASSUME NEW i \in lo .. m + 1, i # lo
        PROVE  g[i] = step[i][g[i - 1]]
    <3>1. CASE i = m + 1
      <4>1. i - 1 = m /\ m \in lo .. m + 1 /\ m # m + 1
        BY <3>1
      <4>2. g[m] = f[m]
        BY <4>1
      <4> QED
        BY <3>1, <4>1, <4>2
    <3>2. CASE i # m + 1
      <4>1. i \in lo .. m /\ g[i] = f[i]
        BY <3>2
      <4>2. i - 1 \in lo .. m /\ i - 1 \in lo .. m + 1 /\ i - 1 # m + 1
        BY <2>5, <4>1
      <4>3. g[i - 1] = f[i - 1]
        BY <4>2
      <4>4. f[i] = step[i][f[i - 1]]
        BY <2>1, <2>5, <4>1 DEF Stepwise
      <4> QED
        BY <4>1, <4>3, <4>4
    <3> QED
      BY <3>1, <3>2
  <2>6. g[lo] = base
    <3>1. lo \in lo .. m + 1 /\ lo # m + 1
      OBVIOUS
    <3> QED
      BY <2>1, <3>1 DEF Stepwise
  <2> HIDE DEF g
  <2>7. Follows(g, m + 1)
    BY <2>4, <2>5, <2>6 DEF Stepwise
  <2> QED
    BY <2>2, <2>7
<1>3. lo .. n \subseteq S
  <2> HIDE DEF S
  <2> QED
    BY <1>1, <1>2, IntervalInduction
<1>4. n \in S
  BY <1>3
<1> QED
  BY <1>4

\* A concatenation of sequences is a sequence.
LEMMA FlattenType ==
  ASSUME NEW E, NEW n \in Nat, NEW seqs \in [1 .. n -> Seq(E)]
  PROVE  FlattenSeq(seqs) \in Seq(E)
<1>1. Len(seqs) = n /\ DOMAIN seqs = 1 .. n
  BY LenProperties
<1>2. CASE n = 0
  <2>1. FlattenSeq(seqs) = seqs
    BY <1>1, <1>2 DEF FlattenSeq
  <2> QED
    BY <1>1, <1>2, <2>1
<1>3. CASE n # 0
  <2> DEFINE flatten[i \in 1 .. Len(seqs)] ==
               IF i = 1 THEN seqs[i] ELSE flatten[i - 1] \o seqs[i]
             step == [i \in 1 .. n |-> [a \in Seq(E) |-> a \o seqs[i]]]
  <2>1. FlattenSeq(seqs) = flatten[n]
    BY <1>1, <1>3 DEF FlattenSeq
  <2>2. \E f : f = [i \in 1 .. Len(seqs) |-> IF i = 1 THEN seqs[i] ELSE f[i - 1] \o seqs[i]]
    <3>1. \A i \in 1 .. n, a \in Seq(E) : step[i][a] = a \o seqs[i] /\ step[i][a] \in Seq(E)
      OBVIOUS
    <3>2. seqs[1] \in Seq(E)
      BY <1>3
    <3> HIDE DEF step
    <3>3. 1 \in Nat /\ 1 <= n
      BY <1>3
    <3>4. PICK f : Stepwise(f, 1, n, Seq(E), seqs[1], step)
      BY <3>1, <3>2, <3>3, Recursion
    <3>5. ASSUME NEW i \in 1 .. n
          PROVE  f[i] = IF i = 1 THEN seqs[i] ELSE f[i - 1] \o seqs[i]
      <4>1. CASE i = 1
        BY <3>4, <4>1 DEF Stepwise
      <4>2. CASE i # 1
        <5>1. i - 1 \in 1 .. n
          BY <4>2
        <5>2. f[i] = step[i][f[i - 1]] /\ f[i - 1] \in Seq(E)
          BY <3>4, <4>2, <5>1 DEF Stepwise
        <5> QED
          BY <3>1, <4>2, <5>2
      <4> QED
        BY <4>1, <4>2
    <3>6. f = [i \in 1 .. n |-> f[i]]
      BY <3>4 DEF Stepwise
    <3>7. f = [i \in 1 .. n |-> IF i = 1 THEN seqs[i] ELSE f[i - 1] \o seqs[i]]
      BY <3>5, <3>6
    <3> QED
      BY <1>1, <3>7
  <2>3. flatten = [i \in 1 .. n |-> IF i = 1 THEN seqs[i] ELSE flatten[i - 1] \o seqs[i]]
    BY <1>1, <2>2, Zenon
  <2> HIDE DEF flatten
  <2> DEFINE S == {i \in 1 .. n : flatten[i] \in Seq(E)}
  <2>4. 1 \in S
    BY <1>3, <2>3
  <2>5. ASSUME NEW i \in 1 .. n, i \in S, i < n PROVE i + 1 \in S
    <3>1. i + 1 \in 1 .. n /\ i + 1 # 1 /\ (i + 1) - 1 = i
      BY <2>5
    <3>2. flatten[i + 1] = flatten[i] \o seqs[i + 1]
      BY <2>3, <3>1
    <3>3. flatten[i] \in Seq(E) /\ seqs[i + 1] \in Seq(E)
      BY <2>5, <3>1
    <3>4. flatten[i + 1] \in Seq(E)
      BY <3>2, <3>3
    <3> QED
      BY <3>1, <3>4
  <2> HIDE DEF S
  <2>6. 1 .. n \subseteq S
    BY <2>4, <2>5, IntervalInduction
  <2>7. flatten[n] \in Seq(E)
    BY <1>3, <2>6 DEF S
  <2> QED
    BY <2>1, <2>7
<1> QED
  BY <1>2, <1>3

\* A finite set can be written down.
LEMMA SetToSeqType ==
  ASSUME NEW S, IsFiniteSet(S)
  PROVE  SetToSeq(S) \in Seq(S)
<1>1. PICK n \in Nat : ExistsBijection(1 .. n, S)
  BY FS_NatBijection
<1>2. Cardinality(S) = n
  BY <1>1, FS_CountingElements
<1>3. PICK f : f \in [1 .. n -> S] /\ IsInjective(f)
  BY <1>1 DEF ExistsBijection, Bijection, Injection
<1>4. SetToSeq(S) \in [1 .. n -> S]
  BY <1>2, <1>3, Zenon DEF SetToSeq
<1> QED
  BY <1>4

\* The events that ownership may relate are events of the namespace.
LEMMA OrderType ==
  ASSUME NEW results, NEW ns, IsFiniteSet(EventsIn(results, ns)),
         NEW order \in EventOrders(results, ns)
  PROVE  order \in Seq(EventsIn(results, ns))
<1> DEFINE E == EventsIn(results, ns)
           events == {e \in E : Level(e.issue.resource[1]) > 0}
           checkers == {e.checker : e \in events}
           OfChecker(c) == SetToSeq({e \in events : e.checker = c})
<1>1. PICK cs \in SetToSeqs(checkers) : order = FlattenSeq([i \in DOMAIN cs |-> OfChecker(cs[i])])
  BY DEF EventOrders
<1>2. ASSUME NEW c PROVE OfChecker(c) \in Seq(E)
  <2> DEFINE part == {e \in events : e.checker = c}
  <2>1. part \subseteq E
    OBVIOUS
  <2> HIDE DEF part
  <2>2. IsFiniteSet(part)
    BY <2>1, FS_Subset
  <2>3. SetToSeq(part) \in Seq(part)
    BY <2>2, SetToSeqType
  <2>4. SetToSeq(part) \in Seq(E)
    BY <2>1, <2>3
  <2> QED
    BY <2>4 DEF part
<1> HIDE DEF OfChecker, E, events
<1>3. \E n \in Nat : DOMAIN cs = 1 .. n
  <2>1. IsFiniteSet(checkers)
    <3>1. events \subseteq E /\ IsFiniteSet(E)
      BY DEF events, E
    <3>2. IsFiniteSet(events)
      BY <3>1, FS_Subset
    <3> DEFINE f == [e \in events |-> e.checker]
    <3>3. IsFiniteSet({f[e] : e \in events})
      BY <3>2, FiniteImage
    <3>4. checkers = {f[e] : e \in events}
      OBVIOUS
    <3> QED
      BY <3>3, <3>4
  <2>2. Cardinality(checkers) \in Nat
    BY <2>1, FS_CardinalityType
  <2>3. DOMAIN cs = 1 .. Cardinality(checkers)
    BY <1>1 DEF SetToSeqs
  <2> QED
    BY <2>2, <2>3
<1>4. PICK n \in Nat : DOMAIN cs = 1 .. n
  BY <1>3
<1>5. [i \in DOMAIN cs |-> OfChecker(cs[i])] \in [1 .. n -> Seq(E)]
  BY <1>2, <1>4
<1> QED
  BY <1>1, <1>5, FlattenType DEF E

\* The chains are made of the events that were given.
LEMMA ChainsFrom ==
  ASSUME NEW E, IsFiniteSet(E), NEW order \in Seq(E)
  PROVE  Chains(order) \subseteq SUBSET E /\ IsFiniteSet(Chains(order))
<1> DEFINE n == Len(order)
           A == [used : SUBSET E, chains : SUBSET SUBSET E]
           base == [used |-> {}, chains |-> {}]
           after[i \in 0 .. Len(order)] ==
             IF i = 0 THEN [used |-> {}, chains |-> {}]
             ELSE TakeRelated(after[i - 1], order[i], order)
           step == [i \in 0 .. n |-> [a \in A |-> TakeRelated(a, order[i], order)]]
<1>1. n \in Nat /\ ToSet(order) \subseteq E /\ \A i \in 0 .. n : i # 0 => order[i] \in E
  BY DEF ToSet
<1>2. ASSUME NEW i \in 0 .. n, NEW a \in A, i # 0
      PROVE  TakeRelated(a, order[i], order) \in A
  <2> DEFINE e == order[i]
             chain == {e} \cup {f \in ToSet(order) \ a.used :
                                  Related(e.issue.resource, f.issue.resource)}
  <2>1. chain \in SUBSET E
    BY <1>1, <1>2
  <2> HIDE DEF chain
  <2>2. [used |-> a.used \cup chain, chains |-> a.chains \cup {chain}] \in A
    BY <2>1
  <2> QED
    BY <2>2 DEF TakeRelated, chain
<1>3. after = [i \in 0 .. n |-> IF i = 0 THEN base ELSE TakeRelated(after[i - 1], order[i], order)]
  <2>1. base \in A
    OBVIOUS
  <2>2. \A i \in 0 .. n, a \in A : i # 0 => step[i][a] = TakeRelated(a, order[i], order)
                                             /\ step[i][a] \in A
    BY <1>2
  <2> HIDE DEF step, A, base
  <2> HIDE DEF n
  <2>3. PICK f : Stepwise(f, 0, n, A, base, step)
    <3>1. 0 \in Nat /\ n \in Nat /\ 0 <= n
      BY <1>1
    <3>2. \A i \in 0 .. n, a \in A : i # 0 => step[i][a] \in A
      BY <2>2
    <3> QED
      BY <2>1, <3>1, <3>2, Recursion
  <2>4. ASSUME NEW i \in 0 .. n
        PROVE  f[i] = IF i = 0 THEN base ELSE TakeRelated(f[i - 1], order[i], order)
    <3>1. CASE i = 0
      BY <2>3, <3>1 DEF Stepwise
    <3>2. CASE i # 0
      <4>1. i - 1 \in 0 .. n
        BY <1>1, <3>2
      <4> QED
        BY <2>2, <2>3, <3>2, <4>1 DEF Stepwise
    <3> QED
      BY <3>1, <3>2
  <2>5. f = [i \in 0 .. n |-> f[i]]
    BY <2>3 DEF Stepwise
  <2>6. f = [i \in 0 .. n |-> IF i = 0 THEN base ELSE TakeRelated(f[i - 1], order[i], order)]
    BY <2>4, <2>5
  <2>7. \E g : g = [i \in 0 .. n |-> IF i = 0 THEN base ELSE TakeRelated(g[i - 1], order[i], order)]
    BY <2>6
  <2> QED
    BY <2>7, Zenon DEF base, n
<1> HIDE DEF after, A
<1> DEFINE S == {i \in 0 .. n : after[i] \in A}
<1>4. 0 \in S
  BY <1>1, <1>3 DEF A
<1>5. ASSUME NEW i \in 0 .. n, i \in S, i < n PROVE i + 1 \in S
  <2>1. i + 1 \in 0 .. n /\ i + 1 # 0 /\ (i + 1) - 1 = i
    BY <1>1, <1>5
  <2>2. after[i + 1] = TakeRelated(after[i], order[i + 1], order)
    BY <1>3, <2>1
  <2> QED
    BY <1>2, <1>5, <2>1, <2>2
<1> HIDE DEF S
<1>6. 0 .. n \subseteq S
  BY <1>1, <1>4, <1>5, IntervalInduction
<1>7. after[n] \in A
  BY <1>1, <1>6 DEF S
<1>8. Chains(order) = after[n].chains
  BY DEF Chains, after
<1>9. Chains(order) \in SUBSET SUBSET E
  BY <1>7, <1>8 DEF A
<1>10. IsFiniteSet(SUBSET E)
  BY FS_SUBSET
<1> QED
  BY <1>9, <1>10, FS_Subset

-----------------------------------------------------------------------------
(* Deduplication. *)

\* A group of events of a namespace.
IsGroup(g, ns, E) ==
  /\ g = [rule |-> g.rule, ns |-> g.ns, events |-> g.events, confidence |-> g.confidence,
          severity |-> g.severity]
  /\ g.ns = ns /\ g.events \subseteq E

\* What a group keeps has exactly the keys that were free, each once.
LEMMA UnclaimedKeys ==
  ASSUME NEW g, IsFiniteSet(g.events), NEW claimed
  PROVE  LET kept == Unclaimed(g, claimed)
         IN /\ kept \subseteq g.events /\ {EventKey(e) : e \in kept} = Keys(g) \ claimed
            /\ IsFiniteSet(Keys(g)) /\ Cardinality(Keys(g) \ claimed) \in Nat
            /\ Cardinality(kept) = Cardinality(Keys(g) \ claimed)
<1> DEFINE free == {k \in Keys(g) : k \notin claimed}
           f == [k \in free |-> CHOOSE e \in g.events : EventKey(e) = k]
           key == [e \in g.events |-> EventKey(e)]
<1>1. \A k \in free : f[k] \in g.events /\ EventKey(f[k]) = k
  BY DEF Keys
<1>2. Keys(g) = {key[e] : e \in g.events}
  BY DEF Keys
<1> HIDE DEF key
<1>3. IsFiniteSet(Keys(g))
  BY <1>2, FiniteImage
<1>4. IsFiniteSet(free) /\ Cardinality(free) \in Nat /\ free = Keys(g) \ claimed
  BY <1>3, FS_Subset, FS_CardinalityType
<1>5. Unclaimed(g, claimed) = {f[k] : k \in free}
  BY DEF Unclaimed
<1> HIDE DEF f, free
<1>6. Cardinality({f[k] : k \in free}) = Cardinality(free)
  BY <1>1, <1>4, SameSize
<1>7. {EventKey(e) : e \in {f[k] : k \in free}} = free
  BY <1>1
<1>8. {f[k] : k \in free} \subseteq g.events
  BY <1>1
<1> QED
  BY <1>3, <1>4, <1>5, <1>6, <1>7, <1>8

\* The groups R that are left of the first i candidates in s: no key is in two of
\* them, each has two keys at least, of every candidate at most one key is in none,
\* and the first candidate is left as it was.
Deduplicated(R, s, i, ns, E) ==
  /\ \A g \in R : IsGroup(g, ns, E) /\ Cardinality(Keys(g)) >= 2
  /\ \A g, h \in R : g # h => Keys(g) \cap Keys(h) = {}
  /\ \A j \in 1 .. i : Cardinality(Keys(s[j]) \ UNION {Keys(g) : g \in R}) <= 1
  /\ i >= 1 /\ Cardinality(Keys(s[1])) >= 2 =>
       \E g \in R : g.rule = s[1].rule /\ Keys(g) = Keys(s[1])

ClaimsOK(acc, s, i, ns, E) ==
  /\ acc = [claimed |-> acc.claimed, result |-> acc.result]
  /\ acc.claimed = UNION {Keys(g) : g \in acc.result}
  /\ i = 0 => acc.result = {}
  /\ Deduplicated(acc.result, s, i, ns, E)

\* A candidate claims what is free of it, or nothing.
LEMMA ClaimKeeps ==
  ASSUME NEW E, IsFiniteSet(E), NEW ns, NEW s, NEW i \in Nat,
         \A j \in 1 .. i + 1 : IsGroup(s[j], ns, E),
         NEW acc, ClaimsOK(acc, s, i, ns, E)
  PROVE  ClaimsOK(Claim(acc, s[i + 1]), s, i + 1, ns, E)
<1> DEFINE g == s[i + 1]
           kept == Unclaimed(g, acc.claimed)
           new == [g EXCEPT !.events = kept]
           next == Claim(acc, g)
           R == acc.result
           claimed == acc.claimed
<1>1. IsGroup(g, ns, E) /\ i + 1 \in 1 .. i + 1 /\ g = s[i + 1]
  OBVIOUS
<1> HIDE DEF g
<1>2. IsFiniteSet(g.events)
  BY <1>1, FS_Subset DEF IsGroup
<1>3. /\ kept \subseteq g.events /\ {EventKey(e) : e \in kept} = Keys(g) \ claimed
      /\ Cardinality(kept) = Cardinality(Keys(g) \ claimed)
      /\ Cardinality(kept) \in Nat
  <2>1. LET k == Unclaimed(g, claimed)
        IN /\ k \subseteq g.events /\ {EventKey(e) : e \in k} = Keys(g) \ claimed
           /\ IsFiniteSet(Keys(g)) /\ Cardinality(Keys(g) \ claimed) \in Nat
           /\ Cardinality(k) = Cardinality(Keys(g) \ claimed)
    BY <1>2, UnclaimedKeys
  <2> QED
    BY <2>1
<1>4. Deduplicated(R, s, i, ns, E) /\ claimed = UNION {Keys(h) : h \in R}
  BY DEF ClaimsOK
<1>5. i = 0 => R = {} /\ claimed = {} /\ g = s[1]
  BY <1>1, <1>4 DEF ClaimsOK
<1>6. next = IF Cardinality(kept) < 2 THEN acc
             ELSE [claimed |-> claimed \cup {EventKey(e) : e \in kept}, result |-> R \cup {new}]
  BY DEF Claim
<1> HIDE DEF kept, next, R, claimed
<1>7. \A j \in 1 .. i + 1 : j = i + 1 \/ j \in 1 .. i
  OBVIOUS
<1>8. CASE Cardinality(kept) < 2
  <2>1. Cardinality(Keys(s[i + 1]) \ claimed) <= 1
    BY <1>1, <1>3, <1>8
  <2>2. \A j \in 1 .. i + 1 : Cardinality(Keys(s[j]) \ claimed) <= 1
    BY <1>4, <1>7, <2>1 DEF Deduplicated
  <2>3. Cardinality(Keys(s[1])) >= 2 => \E h \in R : h.rule = s[1].rule /\ Keys(h) = Keys(s[1])
    <3>1. CASE i = 0
      <4>1. Keys(g) \ claimed = Keys(g) /\ g = s[1]
        BY <1>5, <3>1
      <4> QED
        BY <1>3, <1>8, <4>1
    <3>2. CASE i # 0
      BY <1>4, <3>2 DEF Deduplicated
    <3> QED
      BY <3>1, <3>2
  <2>4. Deduplicated(R, s, i + 1, ns, E)
    BY <1>4, <2>2, <2>3 DEF Deduplicated
  <2> QED
    BY <1>1, <1>6, <1>8, <2>4 DEF ClaimsOK, next, R
<1>9. CASE ~(Cardinality(kept) < 2)
  <2>1. IsGroup(new, ns, E) /\ new.events = kept /\ new.rule = g.rule
    BY <1>1, <1>3 DEF IsGroup
  <2> HIDE DEF new
  <2>2. Keys(new) = Keys(g) \ claimed
    BY <1>3, <2>1 DEF Keys
  <2> DEFINE now == claimed \cup Keys(new)
  <2>3. next = [claimed |-> now, result |-> R \cup {new}]
    BY <1>3, <1>6, <1>9, <2>2
  <2>4. now = UNION {Keys(h) : h \in R \cup {new}}
    BY <1>4
  <2>5. \A h \in R \cup {new} : IsGroup(h, ns, E) /\ Cardinality(Keys(h)) >= 2
    <3>1. Cardinality(Keys(new)) >= 2
      BY <1>3, <1>9, <2>2
    <3> QED
      BY <1>4, <2>1, <3>1 DEF Deduplicated
  <2>6. \A h, k \in R \cup {new} : h # k => Keys(h) \cap Keys(k) = {}
    <3>1. \A h \in R : Keys(h) \cap Keys(new) = {}
      BY <1>4, <2>2
    <3>2. \A h, k \in R : h # k => Keys(h) \cap Keys(k) = {}
      BY <1>4 DEF Deduplicated
    <3> QED
      BY <3>1, <3>2
  <2>7. ASSUME NEW j \in 1 .. i + 1
        PROVE  Cardinality(Keys(s[j]) \ now) <= 1
    <3>1. CASE j = i + 1
      <4>1. Keys(s[j]) \ now = {}
        BY <1>1, <2>2, <3>1
      <4> QED
        BY <4>1, FS_EmptySet
    <3>2. CASE j \in 1 .. i
      <4> DEFINE before == Keys(s[j]) \ claimed
                 after == Keys(s[j]) \ now
      <4>1. Cardinality(before) <= 1
        BY <1>4, <3>2 DEF Deduplicated
      <4>2. IsFiniteSet(s[j].events)
        BY FS_Subset DEF IsGroup
      <4>3. IsFiniteSet(Keys(s[j]))
        <5>1. LET k == Unclaimed(s[j], {})
              IN /\ k \subseteq s[j].events /\ {EventKey(e) : e \in k} = Keys(s[j]) \ {}
                 /\ IsFiniteSet(Keys(s[j])) /\ Cardinality(Keys(s[j]) \ {}) \in Nat
                 /\ Cardinality(k) = Cardinality(Keys(s[j]) \ {})
          BY <4>2, UnclaimedKeys
        <5> QED
          BY <5>1
      <4>4. after \subseteq before /\ before \subseteq Keys(s[j])
        OBVIOUS
      <4> HIDE DEF before, after
      <4>5. /\ IsFiniteSet(before) /\ Cardinality(after) <= Cardinality(before)
            /\ Cardinality(after) \in Nat /\ Cardinality(before) \in Nat
        BY <4>3, <4>4, FS_Subset, FS_CardinalityType
      <4>6. Cardinality(after) <= 1
        BY <4>1, <4>5
      <4> QED
        BY <4>6 DEF after
    <3> QED
      BY <1>7, <3>1, <3>2
  <2>8. Cardinality(Keys(s[1])) >= 2 =>
          \E h \in R \cup {new} : h.rule = s[1].rule /\ Keys(h) = Keys(s[1])
    <3>1. CASE i = 0
      <4>1. Keys(new) = Keys(g) /\ g = s[1]
        BY <1>5, <2>2, <3>1
      <4> QED
        BY <2>1, <4>1
    <3>2. CASE i # 0
      BY <1>4, <3>2 DEF Deduplicated
    <3> QED
      BY <3>1, <3>2
  <2> DEFINE all == R \cup {new}
  <2> HIDE DEF all, now
  <2>9. Deduplicated(all, s, i + 1, ns, E)
    <3>1. \A j \in 1 .. i + 1 : Cardinality(Keys(s[j]) \ UNION {Keys(h) : h \in all}) <= 1
      BY <2>4, <2>7 DEF all
    <3>2. i + 1 >= 1 /\ Cardinality(Keys(s[1])) >= 2 =>
            \E h \in all : h.rule = s[1].rule /\ Keys(h) = Keys(s[1])
      BY <2>8 DEF all
    <3>3. /\ \A h \in all : IsGroup(h, ns, E) /\ Cardinality(Keys(h)) >= 2
          /\ \A h, k \in all : h # k => Keys(h) \cap Keys(k) = {}
      BY <2>5, <2>6 DEF all
    <3> QED
      BY <3>1, <3>2, <3>3 DEF Deduplicated
  <2>10. next = [claimed |-> now, result |-> all] /\ now = UNION {Keys(h) : h \in all}
    BY <2>3, <2>4 DEF all
  <2>11. ClaimsOK(next, s, i + 1, ns, E)
    BY <2>9, <2>10 DEF ClaimsOK
  <2> QED
    BY <1>1, <2>11 DEF next
<1> QED
  BY <1>8, <1>9

\* What deduplication leaves of the candidates of a namespace.
LEMMA DeduplicateOK ==
  ASSUME NEW E, IsFiniteSet(E), NEW ns, NEW n \in Nat, NEW T, NEW s \in [1 .. n -> T],
         \A j \in 1 .. n : IsGroup(s[j], ns, E)
  PROVE  IsFiniteSet(Deduplicate(s)) /\ Deduplicated(Deduplicate(s), s, n, ns, E)
<1> DEFINE K == {EventKey(e) : e \in E}
           pairs == (1 .. n) \X SUBSET E
           less == [p \in pairs |-> [s[p[1]] EXCEPT !.events = p[2]]]
           Res == {less[p] : p \in pairs}
           A == [claimed : SUBSET K, result : SUBSET Res]
           base == [claimed |-> {}, result |-> {}]
           after[i \in 0 .. Len(s)] ==
             IF i = 0 THEN [claimed |-> {}, result |-> {}] ELSE Claim(after[i - 1], s[i])
           step == [i \in 0 .. n |-> [a \in A |-> Claim(a, s[i])]]
<1>1. Len(s) = n
  BY LenProperties
<1>2. IsFiniteSet(Res)
  <2>1. IsFiniteSet(pairs)
    <3>1. IsFiniteSet(1 .. n)
      BY FS_Interval
    <3>2. IsFiniteSet(SUBSET E)
      BY FS_SUBSET
    <3> QED
      BY <3>1, <3>2, FS_Product
  <2> HIDE DEF pairs, less
  <2> QED
    BY <2>1, FiniteImage
<1>3. ASSUME NEW i \in 0 .. n, NEW a \in A, i # 0
      PROVE  Claim(a, s[i]) \in A
  <2> DEFINE g == s[i]
             kept == Unclaimed(g, a.claimed)
             new == [g EXCEPT !.events = kept]
  <2>1. i \in 1 .. n /\ IsGroup(g, ns, E)
    BY <1>3
  <2>2. IsFiniteSet(g.events)
    BY <2>1, FS_Subset DEF IsGroup
  <2>3. kept \subseteq g.events
    BY <2>2, UnclaimedKeys
  <2>4. kept \in SUBSET E
    BY <2>1, <2>3 DEF IsGroup
  <2>5. new \in Res
    <3>1. <<i, kept>> \in pairs
      BY <2>1, <2>4
    <3>2. less[<<i, kept>>] = new
      BY <3>1
    <3> HIDE DEF less, pairs
    <3> QED
      BY <3>1, <3>2
  <2>6. {EventKey(e) : e \in kept} \in SUBSET K
    BY <2>4
  <2>7. Claim(a, g) = IF Cardinality(kept) < 2 THEN a
                      ELSE [claimed |-> a.claimed \cup {EventKey(e) : e \in kept},
                            result  |-> a.result \cup {new}]
    BY DEF Claim
  <2> HIDE DEF kept, new, K, Res
  <2> QED
    BY <2>5, <2>6, <2>7
<1>4. after = [i \in 0 .. n |-> IF i = 0 THEN base ELSE Claim(after[i - 1], s[i])]
  <2>1. base \in A
    OBVIOUS
  <2>2. \A i \in 0 .. n, a \in A : i # 0 => step[i][a] = Claim(a, s[i]) /\ step[i][a] \in A
    BY <1>3
  <2> HIDE DEF step, A, base
  <2>3. PICK f : Stepwise(f, 0, n, A, base, step)
    <3>1. 0 \in Nat /\ n \in Nat /\ 0 <= n
      OBVIOUS
    <3>2. \A i \in 0 .. n, a \in A : i # 0 => step[i][a] \in A
      BY <2>2
    <3> QED
      BY <2>1, <3>1, <3>2, Recursion
  <2>4. ASSUME NEW i \in 0 .. n
        PROVE  f[i] = IF i = 0 THEN base ELSE Claim(f[i - 1], s[i])
    <3>1. CASE i = 0
      BY <2>3, <3>1 DEF Stepwise
    <3>2. CASE i # 0
      <4>1. i - 1 \in 0 .. n
        BY <3>2
      <4> QED
        BY <2>2, <2>3, <3>2, <4>1 DEF Stepwise
    <3> QED
      BY <3>1, <3>2
  <2>5. f = [i \in 0 .. n |-> f[i]]
    BY <2>3 DEF Stepwise
  <2>6. f = [i \in 0 .. n |-> IF i = 0 THEN base ELSE Claim(f[i - 1], s[i])]
    BY <2>4, <2>5
  <2>7. \E g : g = [i \in 0 .. Len(s) |-> IF i = 0 THEN base ELSE Claim(g[i - 1], s[i])]
    BY <1>1, <2>6
  <2>8. after = [i \in 0 .. Len(s) |-> IF i = 0 THEN base ELSE Claim(after[i - 1], s[i])]
    BY <2>7, Zenon DEF base
  <2> QED
    BY <1>1, <2>8
<1> HIDE DEF after, A
<1> DEFINE S == {i \in 0 .. n : after[i] \in A /\ ClaimsOK(after[i], s, i, ns, E)}
<1>5. 0 \in S
  <2>1. after[0] = base
    BY <1>4
  <2>2. after[0] \in A
    BY <2>1 DEF A
  <2>3. ClaimsOK(after[0], s, 0, ns, E)
    BY <2>1 DEF ClaimsOK, Deduplicated
  <2> QED
    BY <2>2, <2>3
<1>6. ASSUME NEW i \in 0 .. n, i \in S, i < n PROVE i + 1 \in S
  <2>1. i + 1 \in 0 .. n /\ i + 1 # 0 /\ (i + 1) - 1 = i /\ i \in Nat
    BY <1>6
  <2>2. after[i + 1] = Claim(after[i], s[i + 1])
    BY <1>4, <2>1
  <2>3. after[i] \in A /\ ClaimsOK(after[i], s, i, ns, E)
    BY <1>6
  <2>4. after[i + 1] \in A
    BY <1>3, <2>1, <2>2, <2>3
  <2>5. \A j \in 1 .. i + 1 : IsGroup(s[j], ns, E)
    BY <2>1
  <2>6. ClaimsOK(after[i + 1], s, i + 1, ns, E)
    BY <2>1, <2>2, <2>3, <2>5, ClaimKeeps
  <2> QED
    BY <2>1, <2>4, <2>6
<1> HIDE DEF S
<1>7. 0 .. n \subseteq S
  <2>1. 0 \in Nat
    OBVIOUS
  <2> QED
    BY <1>5, <1>6, <2>1, IntervalInduction
<1>8. after[n] \in A /\ ClaimsOK(after[n], s, n, ns, E)
  BY <1>7 DEF S
<1>9. Deduplicate(s) = after[n].result
  BY <1>1 DEF Deduplicate, after
<1>10. Deduplicate(s) \subseteq Res
  BY <1>8, <1>9 DEF A
<1>11. IsFiniteSet(Deduplicate(s))
  BY <1>2, <1>10, FS_Subset
<1> QED
  BY <1>8, <1>9, <1>11 DEF ClaimsOK

-----------------------------------------------------------------------------
(* The candidates of a namespace. *)

\* The events of a check are finitely many.
LEMMA EventsFinite ==
  ASSUME NEW results, ResultsOK(results), NEW ns
  PROVE  IsFiniteSet(EventsIn(results, ns))
<1> DEFINE S == {c \in DOMAIN results : ~results[c].error}
           part(c) == {[checker |-> c, issue |-> i] : i \in results[c].issues}
           f == [c \in S |-> part(c)]
<1>1. IsFiniteSet(S)
  BY FS_Subset DEF ResultsOK
<1>2. ASSUME NEW c \in S PROVE IsFiniteSet(f[c])
  <2> DEFINE issues == results[c].issues
             g == [i \in issues |-> [checker |-> c, issue |-> i]]
  <2>1. IsFiniteSet(issues)
    BY DEF ResultsOK, Fine
  <2>2. f[c] = {g[i] : i \in issues}
    OBVIOUS
  <2> HIDE DEF issues, g, f
  <2> QED
    BY <2>1, <2>2, FiniteImage
<1>3. Events(results) = UNION {f[c] : c \in S}
  <2>1. Events(results) = UNION {part(c) : c \in S}
    BY Zenon DEF Events
  <2> HIDE DEF part, S
  <2>2. {f[c] : c \in S} = {part(c) : c \in S}
    OBVIOUS
  <2> QED
    BY <2>1, <2>2
<1> HIDE DEF S, f
<1>4. IsFiniteSet(Events(results))
  BY <1>1, <1>2, <1>3, FiniteUnion
<1>5. EventsIn(results, ns) \subseteq Events(results)
  BY DEF EventsIn
<1> QED
  BY <1>4, <1>5, FS_Subset

\* A set that is written down in some order is there entirely, each element once.
LEMMA ListedOnce ==
  ASSUME NEW S, IsFiniteSet(S), NEW s \in SetToSeqs(S)
  PROVE  LET n == Cardinality(S)
         IN /\ n \in Nat /\ s \in [1 .. n -> S]
            /\ \A i, j \in 1 .. n : i # j => s[i] # s[j]
            /\ \A x \in S : \E i \in 1 .. n : s[i] = x
<1> DEFINE n == Cardinality(S)
<1>1. n \in Nat
  BY FS_CardinalityType
<1>2. s \in [1 .. n -> S] /\ \A i, j \in 1 .. n : i # j => s[i] # s[j]
  BY DEF SetToSeqs
<1>3. s \in Injection(1 .. n, S)
  BY <1>2 DEF Injection, IsInjective
<1>4. Cardinality(1 .. n) = n
  <2>1. 1 \in Int /\ n \in Int
    BY <1>1
  <2>2. Cardinality(1 .. n) = IF 1 > n THEN 0 ELSE n - 1 + 1
    BY <2>1, FS_Interval
  <2> QED
    BY <1>1, <2>2
<1>5. s \in Surjection(1 .. n, S)
  BY <1>3, <1>4, FS_Injection
<1> QED
  BY <1>1, <1>2, <1>5 DEF Surjection

\* Two elements make two.
LEMMA TwoElements ==
  ASSUME NEW S, IsFiniteSet(S), NEW x \in S, NEW y \in S, x # y
  PROVE  Cardinality(S) >= 2
<1>1. IsFiniteSet({x}) /\ Cardinality({x}) = 1
  BY FS_Singleton
<1>2. Cardinality({x} \cup {y}) = 2
  BY <1>1, FS_AddElement
<1>3. {x} \cup {y} \subseteq S
  OBVIOUS
<1>4. Cardinality({x} \cup {y}) <= Cardinality(S) /\ Cardinality(S) \in Nat
  BY <1>3, FS_Subset, FS_CardinalityType
<1> QED
  BY <1>2, <1>4

\* The keys of events.
KeysOf(events) == {EventKey(e) : e \in events}

\* They are at most as many as the events.
LEMMA KeysFinite ==
  ASSUME NEW E, IsFiniteSet(E)
  PROVE  /\ IsFiniteSet(KeysOf(E)) /\ Cardinality(KeysOf(E)) <= Cardinality(E)
         /\ Cardinality(KeysOf(E)) \in Nat /\ Cardinality(E) \in Nat
<1> DEFINE f == [e \in E |-> EventKey(e)]
<1>1. f \in Surjection(E, KeysOf(E))
  BY DEF Surjection, KeysOf
<1> QED
  BY <1>1, FS_Surjection, FS_CardinalityType

\* What a broken source and all that depends on it have in common.
Flux == [name |-> "flux-chain", confidence |-> 90]
FluxEvents(results, ns) ==
  {e \in EventsIn(results, ns) : CauseSide(Flux, e) \/ EffectSide(Flux, e)}
FluxFires(results, ns) ==
  /\ \E e \in EventsIn(results, ns) : CauseSide(Flux, e)
  /\ \E e \in EventsIn(results, ns) : EffectSide(Flux, e)

\* The groups of the four rules.
LEMMA RuleGroupsAre ==
  ASSUME NEW results, NEW ns
  PROVE  /\ IsFiniteSet(RuleGroups(results, ns))
         /\ \A g \in RuleGroups(results, ns) :
              /\ IsGroup(g, ns, EventsIn(results, ns))
              /\ \/ g.confidence \in {75, 80, 85}
                 \/ g = Group("flux-chain", ns, FluxEvents(results, ns), 90)
              /\ g.rule \in {"oom-quota", "crash-imagepull", "flux-chain", "pvc-workload"}
         /\ FluxFires(results, ns) =>
              Group("flux-chain", ns, FluxEvents(results, ns), 90) \in RuleGroups(results, ns)
<1> DEFINE E == EventsIn(results, ns)
           Fires(rule) == /\ \E e \in E : CauseSide(rule, e)
                          /\ \E e \in E : EffectSide(rule, e)
           S == {x \in Rules : Fires(x)}
           part == [r \in Rules |-> {e \in E : CauseSide(r, e) \/ EffectSide(r, e)}]
           f == [r \in Rules |-> Group(r.name, ns, part[r], r.confidence)]
<1>1. RuleGroups(results, ns) = {f[r] : r \in S}
  BY DEF RuleGroups
<1>2. IsFiniteSet(S)
  <2> DEFINE a == [name |-> "oom-quota", confidence |-> 85]
             b == [name |-> "crash-imagepull", confidence |-> 80]
             c == [name |-> "flux-chain", confidence |-> 90]
             d == [name |-> "pvc-workload", confidence |-> 75]
  <2>1. Rules = {a, b, c, d, d}
    BY DEF Rules
  <2> HIDE DEF a, b, c, d
  <2>2. IsFiniteSet(Rules)
    BY <2>1, Enumerated
  <2> QED
    BY <2>2, FS_Subset
<1>3. Flux \in Rules /\ \A r \in Rules : r = Flux \/ r.confidence \in {75, 80, 85}
  BY DEF Rules, Flux
<1>4. \A r \in Rules : r.name \in {"oom-quota", "crash-imagepull", "flux-chain", "pvc-workload"}
  BY DEF Rules
<1>5. \A r \in Rules : part[r] \subseteq E
  OBVIOUS
<1>6. part[Flux] = FluxEvents(results, ns)
  BY <1>3 DEF FluxEvents
<1>7. FluxFires(results, ns) => Flux \in S
  BY <1>3 DEF FluxFires
<1> HIDE DEF part
<1>8. f[Flux] = Group("flux-chain", ns, FluxEvents(results, ns), 90)
  BY <1>3, <1>6 DEF Flux
<1>9. ASSUME NEW r \in Rules
      PROVE  /\ IsGroup(f[r], ns, E) /\ f[r].confidence = r.confidence /\ f[r].rule = r.name
  <2> DEFINE severity == Highest(part[r])
  <2>1. f[r] = [rule |-> r.name, ns |-> ns, events |-> part[r], confidence |-> r.confidence,
                severity |-> severity]
    BY DEF Group
  <2> HIDE DEF severity, f, E
  <2> QED
    BY <1>5, <2>1 DEF IsGroup
<1> HIDE DEF f, Fires, E
<1>10. \A r \in S : r \in Rules
  OBVIOUS
<1> HIDE DEF S
<1>11. IsFiniteSet(RuleGroups(results, ns))
  BY <1>1, <1>2, FiniteImage
<1>12. ASSUME NEW g \in RuleGroups(results, ns)
       PROVE  /\ IsGroup(g, ns, E)
              /\ \/ g.confidence \in {75, 80, 85}
                 \/ g = Group("flux-chain", ns, FluxEvents(results, ns), 90)
              /\ g.rule \in {"oom-quota", "crash-imagepull", "flux-chain", "pvc-workload"}
  <2>1. PICK r \in S : g = f[r]
    BY <1>1
  <2>2. r \in Rules
    BY <1>10
  <2> QED
    BY <1>3, <1>4, <1>8, <1>9, <2>1, <2>2
<1>13. FluxFires(results, ns) =>
         Group("flux-chain", ns, FluxEvents(results, ns), 90) \in RuleGroups(results, ns)
  BY <1>1, <1>7, <1>8
<1> QED
  BY <1>11, <1>12, <1>13 DEF E

\* The groups of related resources.
LEMMA GraphGroupsAre ==
  ASSUME NEW E, IsFiniteSet(E), NEW order \in Seq(E), NEW ns
  PROVE  /\ IsFiniteSet(GraphGroups(ns, order))
         /\ \A g \in GraphGroups(ns, order) :
              IsGroup(g, ns, E) /\ g.confidence \in {70, 90} /\ g.rule = "resource-graph"
<1> DEFINE C == Chains(order)
           confidence == [c \in C |-> IF Cardinality(c) >= 3 THEN 90 ELSE 70]
           f == [c \in C |-> Group("resource-graph", ns, c, confidence[c])]
<1>1. C \subseteq SUBSET E /\ IsFiniteSet(C)
  BY ChainsFrom
<1>2. GraphGroups(ns, order) = {f[c] : c \in C}
  BY DEF GraphGroups
<1>3. \A c \in C : confidence[c] \in {70, 90}
  OBVIOUS
<1> HIDE DEF C, confidence
<1>4. ASSUME NEW c \in C
      PROVE  IsGroup(f[c], ns, E) /\ f[c].confidence \in {70, 90} /\ f[c].rule = "resource-graph"
  <2> DEFINE severity == Highest(c)
  <2>1. f[c] = [rule |-> "resource-graph", ns |-> ns, events |-> c, confidence |-> confidence[c],
                severity |-> severity]
    BY DEF Group
  <2> HIDE DEF severity, f
  <2> QED
    BY <1>1, <1>3, <2>1 DEF IsGroup
<1> HIDE DEF f
<1> QED
  BY <1>1, <1>2, <1>4, FiniteImage

\* The group of all events of the namespace.
LEMMA TemporalGroupIs ==
  ASSUME NEW results, NEW ns, Cardinality(EventsIn(results, ns)) \in Nat
  PROVE  /\ IsFiniteSet(TemporalGroups(results, ns))
         /\ \A g \in TemporalGroups(results, ns) :
              /\ IsGroup(g, ns, EventsIn(results, ns))
              /\ g.confidence \in {50, 60, 70, 80} /\ g.rule = "temporal"
              /\ g.events = EventsIn(results, ns)
         /\ Cardinality(EventsIn(results, ns)) >= 2 => TemporalGroups(results, ns) # {}
<1> DEFINE E == EventsIn(results, ns)
           confidence == 50 + (IF Cardinality({e.checker : e \in E}) > 1 THEN 20 ELSE 0)
                            + (IF Cardinality(E) >= 4 THEN 10 ELSE 0)
           g == Group("temporal", ns, E, confidence)
<1>1. TemporalGroups(results, ns) = IF Cardinality(E) < 2 THEN {} ELSE {g}
  BY DEF TemporalGroups
<1>2. confidence \in {50, 60, 70, 80}
  OBVIOUS
<1> HIDE DEF confidence
<1>3. IsGroup(g, ns, E) /\ g.confidence = confidence /\ g.rule = "temporal" /\ g.events = E
  <2> DEFINE severity == Highest(E)
  <2>1. g = [rule |-> "temporal", ns |-> ns, events |-> E, confidence |-> confidence,
             severity |-> severity]
    BY DEF Group
  <2> HIDE DEF severity, g, E
  <2> QED
    BY <2>1 DEF IsGroup
<1> HIDE DEF g
<1>4. IsFiniteSet({}) /\ IsFiniteSet({g})
  BY FS_EmptySet, FS_Singleton
<1>5. Cardinality(E) \in Nat
  OBVIOUS
<1> HIDE DEF E
<1>6. CASE Cardinality(E) < 2
  BY <1>1, <1>4, <1>5, <1>6 DEF E
<1>7. CASE ~(Cardinality(E) < 2)
  BY <1>1, <1>2, <1>3, <1>4, <1>7 DEF E
<1> QED
  BY <1>6, <1>7

-----------------------------------------------------------------------------
(* The groups of a check. *)

\* The candidates of a namespace are groups of its events; all its events are one
\* of them, if it has two at least, and a broken source with its dependents comes
\* first.
LEMMA CandidatesAre ==
  ASSUME NEW results, NEW ns, IsFiniteSet(EventsIn(results, ns)),
         NEW order \in EventOrders(results, ns), NEW s \in Candidates(results, ns, order)
  PROVE  \E n \in Nat :
           /\ \E T : s \in [1 .. n -> T]
           /\ \A j \in 1 .. n : IsGroup(s[j], ns, EventsIn(results, ns))
           /\ Cardinality(EventsIn(results, ns)) >= 2 =>
                \E j \in 1 .. n : s[j].events = EventsIn(results, ns)
           /\ FluxFires(results, ns) =>
                n >= 1 /\ s[1] = Group("flux-chain", ns, FluxEvents(results, ns), 90)
<1> DEFINE E == EventsIn(results, ns)
           A == RuleGroups(results, ns)
           B == GraphGroups(ns, order)
           C == TemporalGroups(results, ns)
           T == (A \cup B) \cup C
           n == Cardinality(T)
           flux == Group("flux-chain", ns, FluxEvents(results, ns), 90)
           Place(g) == CASE g.rule = "temporal" -> 2 [] g.rule = "resource-graph" -> 1
                         [] OTHER -> 0
           Before(g, h) == \/ g.confidence > h.confidence
                           \/ g.confidence = h.confidence /\ Place(g) < Place(h)
<1>1. s \in SetToSeqs(T) /\ \A i, j \in DOMAIN s : i < j => ~Before(s[j], s[i])
  BY DEF Candidates
<1>2. /\ IsFiniteSet(A)
      /\ \A g \in A : /\ IsGroup(g, ns, E)
                      /\ g.confidence \in {75, 80, 85} \/ g = flux
                      /\ g.rule \in {"oom-quota", "crash-imagepull", "flux-chain", "pvc-workload"}
      /\ FluxFires(results, ns) => flux \in A
  BY RuleGroupsAre
<1>3. /\ IsFiniteSet(B)
      /\ \A g \in B : IsGroup(g, ns, E) /\ g.confidence \in {70, 90} /\ g.rule = "resource-graph"
  BY OrderType, GraphGroupsAre
<1>4. /\ IsFiniteSet(C)
      /\ \A g \in C : /\ IsGroup(g, ns, E) /\ g.confidence \in {50, 60, 70, 80}
                      /\ g.rule = "temporal" /\ g.events = E
      /\ Cardinality(E) >= 2 => C # {}
  BY FS_CardinalityType, TemporalGroupIs
<1>5. flux.rule = "flux-chain" /\ flux.confidence = 90
  BY DEF Group
<1> HIDE DEF E, A, B, C, flux
<1>6. IsFiniteSet(T)
  BY <1>2, <1>3, <1>4, FS_Union
<1>7. \A g \in T : IsGroup(g, ns, E)
  BY <1>2, <1>3, <1>4
<1>8. \A g \in T : g # flux => Before(flux, g)
  <2> SUFFICES ASSUME NEW g \in T, g # flux PROVE Before(flux, g)
    OBVIOUS
  <2>1. CASE g \in A
    BY <1>2, <1>5, <2>1
  <2>2. CASE g \in B
    <3>1. Place(flux) = 0 /\ Place(g) = 1
      BY <1>3, <1>5, <2>2
    <3> QED
      BY <1>3, <1>5, <2>2, <3>1
  <2>3. CASE g \in C
    BY <1>4, <1>5, <2>3
  <2> QED
    BY <2>1, <2>2, <2>3
<1>9. Cardinality(E) >= 2 => \E g \in T : g.events = E
  BY <1>4
<1>10. FluxFires(results, ns) => flux \in T
  BY <1>2
<1> HIDE DEF T, Before
<1>11. /\ n \in Nat /\ s \in [1 .. n -> T]
       /\ \A i, j \in 1 .. n : i # j => s[i] # s[j]
       /\ \A x \in T : \E i \in 1 .. n : s[i] = x
  BY <1>1, <1>6, ListedOnce
<1> HIDE DEF n
<1>12. \A j \in 1 .. n : IsGroup(s[j], ns, E)
  BY <1>7, <1>11
<1>13. Cardinality(E) >= 2 => \E j \in 1 .. n : s[j].events = E
  BY <1>9, <1>11
<1>14. ASSUME FluxFires(results, ns) PROVE n >= 1 /\ s[1] = flux
  <2>1. PICK k \in 1 .. n : s[k] = flux
    BY <1>10, <1>11, <1>14
  <2>2. n >= 1 /\ 1 \in 1 .. n /\ s[1] \in T
    BY <1>11
  <2>3. ASSUME s[1] # flux PROVE FALSE
    <3>1. 1 < k /\ 1 \in DOMAIN s /\ k \in DOMAIN s
      BY <1>11, <2>1, <2>2, <2>3
    <3>2. ~Before(s[k], s[1])
      BY <1>1, <3>1
    <3> QED
      BY <1>8, <2>1, <2>2, <2>3, <3>2
  <2> QED
    BY <2>2, <2>3
<1> QED
  BY <1>11, <1>12, <1>13, <1>14 DEF E, flux

\* The keys of a broken source and its dependents, if there is one.
FluxKeys(results, ns) ==
  IF FluxFires(results, ns) THEN KeysOf(FluxEvents(results, ns)) ELSE {}

\* They are two at least: the source is another checker's.
LEMMA FluxTwo ==
  ASSUME NEW results, NEW ns, IsFiniteSet(EventsIn(results, ns)), FluxFires(results, ns)
  PROVE  Cardinality(KeysOf(FluxEvents(results, ns))) >= 2
<1> DEFINE F == FluxEvents(results, ns)
<1>1. PICK a \in EventsIn(results, ns) : CauseSide(Flux, a)
  BY DEF FluxFires
<1>2. PICK b \in EventsIn(results, ns) : EffectSide(Flux, b)
  BY DEF FluxFires
<1>3. a.checker = "gitrepositories"
  BY <1>1 DEF CauseSide, Flux
<1>4. b.checker \in {"helmreleases", "kustomizations"}
  BY <1>2 DEF EffectSide, Flux
<1>5. EventKey(a) \in KeysOf(F) /\ EventKey(b) \in KeysOf(F)
  BY <1>1, <1>2 DEF FluxEvents, KeysOf
<1>6. EventKey(a) # EventKey(b)
  <2>1. a.checker # b.checker
    BY <1>3, <1>4
  <2>2. EventKey(a)[1] = a.checker /\ EventKey(b)[1] = b.checker
    BY DEF EventKey
  <2> QED
    BY <2>1, <2>2
<1>7. F \subseteq EventsIn(results, ns)
  BY DEF FluxEvents
<1> HIDE DEF F
<1>8. IsFiniteSet(KeysOf(F))
  BY <1>7, FS_Subset, KeysFinite
<1> QED
  BY <1>5, <1>6, <1>8, TwoElements DEF F

\* What deduplication leaves of the candidates of one namespace.
NamespaceComplete(R, results, ns) ==
  /\ IsFiniteSet(R)
  /\ \A g \in R : IsGroup(g, ns, EventsIn(results, ns)) /\ Cardinality(Keys(g)) >= 2
  /\ \A g, h \in R : g # h => Keys(g) \cap Keys(h) = {}
  /\ Cardinality(KeysOf(EventsIn(results, ns)) \ UNION {Keys(g) : g \in R}) <= 1
  /\ FluxKeys(results, ns) # {} =>
       \E g \in R : g.rule = "flux-chain" /\ Keys(g) = FluxKeys(results, ns)

\* No key is in two groups or alone in one; all but one are in a group.
LEMMA NamespaceGroups ==
  ASSUME NEW results, NEW ns, IsFiniteSet(EventsIn(results, ns)),
         NEW order \in EventOrders(results, ns), NEW s \in Candidates(results, ns, order)
  PROVE  NamespaceComplete(Deduplicate(s), results, ns)
<1> DEFINE R == Deduplicate(s)
           E == EventsIn(results, ns)
           flux == Group("flux-chain", ns, FluxEvents(results, ns), 90)
           claimed == UNION {Keys(g) : g \in R}
<1>1. PICK n \in Nat :
        /\ \E T : s \in [1 .. n -> T]
        /\ \A j \in 1 .. n : IsGroup(s[j], ns, E)
        /\ Cardinality(E) >= 2 => \E j \in 1 .. n : s[j].events = E
        /\ FluxFires(results, ns) => n >= 1 /\ s[1] = flux
  BY CandidatesAre
<1>2. IsFiniteSet(E)
  OBVIOUS
<1>3. flux.rule = "flux-chain" /\ Keys(flux) = KeysOf(FluxEvents(results, ns))
  BY DEF Group, Keys, KeysOf
<1> HIDE DEF E, flux
<1>4. IsFiniteSet(R) /\ Deduplicated(R, s, n, ns, E)
  BY <1>1, <1>2, DeduplicateOK
<1>5. Cardinality(KeysOf(E) \ claimed) <= 1
  <2> DEFINE rest == KeysOf(E) \ claimed
  <2>1. CASE Cardinality(E) >= 2
    <3>1. PICK j \in 1 .. n : s[j].events = E
      BY <1>1, <2>1
    <3>2. Keys(s[j]) = KeysOf(E)
      BY <3>1 DEF Keys, KeysOf
    <3>3. Cardinality(Keys(s[j]) \ claimed) <= 1
      BY <1>4 DEF Deduplicated
    <3> QED
      BY <3>2, <3>3
  <2>2. CASE ~(Cardinality(E) >= 2)
    <3>1. /\ IsFiniteSet(KeysOf(E)) /\ Cardinality(KeysOf(E)) <= Cardinality(E)
          /\ Cardinality(KeysOf(E)) \in Nat /\ Cardinality(E) \in Nat
      BY <1>2, KeysFinite
    <3>2. rest \subseteq KeysOf(E)
      OBVIOUS
    <3> HIDE DEF rest
    <3>3. IsFiniteSet(rest) /\ Cardinality(rest) <= Cardinality(KeysOf(E))
      BY <3>1, <3>2, FS_Subset
    <3>4. Cardinality(rest) \in Nat
      BY <3>3, FS_CardinalityType
    <3>5. Cardinality(rest) <= 1
      BY <2>2, <3>1, <3>3, <3>4
    <3> QED
      BY <3>5 DEF rest
  <2> QED
    BY <2>1, <2>2
<1>6. ASSUME FluxKeys(results, ns) # {}
      PROVE  \E g \in R : g.rule = "flux-chain" /\ Keys(g) = FluxKeys(results, ns)
  <2>1. FluxFires(results, ns) /\ FluxKeys(results, ns) = KeysOf(FluxEvents(results, ns))
    BY <1>6 DEF FluxKeys
  <2>2. Cardinality(KeysOf(FluxEvents(results, ns))) >= 2
    BY <1>2, <2>1, FluxTwo DEF E
  <2>3. n >= 1 /\ Cardinality(Keys(s[1])) >= 2
    BY <1>1, <1>3, <2>1, <2>2
  <2>4. PICK g \in R : g.rule = s[1].rule /\ Keys(g) = Keys(s[1])
    BY <1>4, <2>3 DEF Deduplicated
  <2> QED
    BY <1>1, <1>3, <2>1, <2>4
<1> HIDE DEF claimed, R
<1>7. /\ \A g \in R : IsGroup(g, ns, E) /\ Cardinality(Keys(g)) >= 2
      /\ \A g, h \in R : g # h => Keys(g) \cap Keys(h) = {}
  BY <1>4 DEF Deduplicated
<1> QED
  BY <1>4, <1>5, <1>6, <1>7 DEF E, claimed, R, NamespaceComplete

\* CorrelationComplete, of what a check has computed.
Complete(results, names, groups) ==
  /\ \A i \in DOMAIN groups :
       /\ groups[i] = [id |-> groups[i].id, severity |-> groups[i].severity,
                       insight |-> groups[i].insight]
       /\ Cardinality(groups[i].id.keys) >= 2
  /\ \A i, j \in DOMAIN groups : i # j => groups[i].id.keys \cap groups[j].id.keys = {}
  /\ \A ns \in names :
       /\ Cardinality(KeysOf(EventsIn(results, ns))
                        \ UNION {groups[i].id.keys : i \in DOMAIN groups}) <= 1
       /\ FluxKeys(results, ns) # {} =>
            \E i \in DOMAIN groups : /\ groups[i].id.rule = "flux-chain"
                                     /\ groups[i].id.keys = FluxKeys(results, ns)

\* What a check correlates is complete, whatever order it takes the issues in.
LEMMA CorrelatedComplete ==
  ASSUME NEW results, ResultsOK(results), NEW names, IsFiniteSet(names),
         NEW groups \in Correlated(results, names)
  PROVE  Complete(results, names, Bare(groups))
<1> DEFINE lists == [ns \in names |-> UNION {Candidates(results, ns, order) :
                                              order \in EventOrders(results, ns)}]
           bare == Bare(groups)
<1>1. PICK candidates \in [names -> UNION {lists[ns] : ns \in names}] :
        /\ \A ns \in names : candidates[ns] \in lists[ns]
        /\ groups \in Presented(Groups(candidates))
  BY DEF Correlated
<1> DEFINE D == [ns \in names |-> Deduplicate(candidates[ns])]
           all == UNION {D[ns] : ns \in names}
           E(ns) == EventsIn(results, ns)
<1>2. ASSUME NEW ns \in names
      PROVE  /\ IsFiniteSet(D[ns])
             /\ \A g \in D[ns] : IsGroup(g, ns, E(ns)) /\ Cardinality(Keys(g)) >= 2
             /\ \A g, h \in D[ns] : g # h => Keys(g) \cap Keys(h) = {}
             /\ Cardinality(KeysOf(E(ns)) \ UNION {Keys(g) : g \in D[ns]}) <= 1
             /\ FluxKeys(results, ns) # {} =>
                  \E g \in D[ns] : g.rule = "flux-chain" /\ Keys(g) = FluxKeys(results, ns)
  <2>1. PICK order \in EventOrders(results, ns) : candidates[ns] \in Candidates(results, ns, order)
    BY <1>1
  <2>2. IsFiniteSet(EventsIn(results, ns))
    BY EventsFinite
  <2>3. NamespaceComplete(Deduplicate(candidates[ns]), results, ns)
    BY <2>1, <2>2, NamespaceGroups
  <2>4. NamespaceComplete(D[ns], results, ns)
    BY <2>3
  <2> HIDE DEF D
  <2> QED
    BY <2>4 DEF NamespaceComplete
<1>3. \A ns \in names : \A g \in D[ns] : \A k \in Keys(g) : k[2] = ns
  <2> SUFFICES ASSUME NEW ns \in names, NEW g \in D[ns], NEW k \in Keys(g) PROVE k[2] = ns
    OBVIOUS
  <2>1. PICK e \in g.events : k = EventKey(e)
    BY DEF Keys
  <2>2. e.issue.ns = ns
    BY <1>2 DEF IsGroup, EventsIn
  <2> QED
    BY <2>1, <2>2 DEF EventKey
<1>4. Groups(candidates) = all
  BY DEF Groups
<1> HIDE DEF D
<1>5. IsFiniteSet(all)
  <2>1. \A ns \in names : IsFiniteSet(D[ns])
    BY <1>2
  <2> QED
    BY <2>1, FiniteUnion
<1>6. groups \in SetToSeqs(all)
  BY <1>1, <1>4 DEF Presented
<1> HIDE DEF lists, all
<1> DEFINE n == Cardinality(all)
<1>7. /\ n \in Nat /\ groups \in [1 .. n -> all]
      /\ \A i, j \in 1 .. n : i # j => groups[i] # groups[j]
      /\ \A g \in all : \E i \in 1 .. n : groups[i] = g
  BY <1>5, <1>6, ListedOnce
<1> HIDE DEF n
<1>8. /\ DOMAIN bare = 1 .. n
      /\ \A i \in 1 .. n : bare[i] = [id |-> Identity(groups[i]), severity |-> groups[i].severity,
                                      insight |-> {}]
  BY <1>7 DEF Bare
<1> HIDE DEF bare
<1>9. \A i \in 1 .. n : /\ bare[i].id.keys = Keys(groups[i]) /\ bare[i].id.rule = groups[i].rule
                        /\ bare[i] = [id |-> bare[i].id, severity |-> bare[i].severity,
                                      insight |-> bare[i].insight]
  BY <1>8 DEF Identity
<1>10. \A i \in 1 .. n : \E ns \in names : groups[i] \in D[ns]
  BY <1>7 DEF all
<1>11. \A ns \in names : D[ns] \subseteq all
  BY DEF all
<1>12. \A i \in 1 .. n : Cardinality(bare[i].id.keys) >= 2
  BY <1>2, <1>9, <1>10
<1>13. ASSUME NEW i \in 1 .. n, NEW j \in 1 .. n, i # j
       PROVE  bare[i].id.keys \cap bare[j].id.keys = {}
  <2>1. PICK ns \in names : groups[i] \in D[ns]
    BY <1>10
  <2>2. PICK other \in names : groups[j] \in D[other]
    BY <1>10
  <2>3. groups[i] # groups[j]
    BY <1>7, <1>13
  <2>4. CASE ns = other
    <3>1. Keys(groups[i]) \cap Keys(groups[j]) = {}
      BY <1>2, <2>1, <2>2, <2>3, <2>4
    <3> QED
      BY <1>9, <3>1
  <2>5. CASE ns # other
    <3>1. \A k \in Keys(groups[i]) : k[2] = ns
      BY <1>3, <2>1
    <3>2. \A k \in Keys(groups[j]) : k[2] = other
      BY <1>3, <2>2
    <3>3. Keys(groups[i]) \cap Keys(groups[j]) = {}
      BY <2>5, <3>1, <3>2
    <3> QED
      BY <1>9, <3>3
  <2> QED
    BY <2>4, <2>5
<1>14. ASSUME NEW ns \in names
       PROVE  Cardinality(KeysOf(E(ns)) \ UNION {bare[i].id.keys : i \in 1 .. n}) <= 1
  <2> DEFINE few == KeysOf(E(ns)) \ UNION {Keys(g) : g \in D[ns]}
             rest == KeysOf(E(ns)) \ UNION {bare[i].id.keys : i \in 1 .. n}
  <2>1. rest \subseteq few
    <3>1. ASSUME NEW g \in D[ns] PROVE \E i \in 1 .. n : bare[i].id.keys = Keys(g)
      <4>1. PICK i \in 1 .. n : groups[i] = g
        BY <1>7, <1>11
      <4> QED
        BY <1>9, <4>1
    <3> QED
      BY <3>1
  <2>2. few \subseteq KeysOf(E(ns))
    OBVIOUS
  <2>3. IsFiniteSet(KeysOf(E(ns)))
    BY EventsFinite, KeysFinite
  <2>4. Cardinality(few) <= 1
    BY <1>2
  <2> HIDE DEF few, rest
  <2>5. IsFiniteSet(few)
    BY <2>2, <2>3, FS_Subset
  <2>6. IsFiniteSet(rest) /\ Cardinality(rest) <= Cardinality(few)
    BY <2>1, <2>5, FS_Subset
  <2>7. Cardinality(rest) \in Nat /\ Cardinality(few) \in Nat
    BY <2>5, <2>6, FS_CardinalityType
  <2>8. Cardinality(rest) <= 1
    BY <2>4, <2>6, <2>7
  <2> QED
    BY <2>8 DEF rest
<1>15. ASSUME NEW ns \in names, FluxKeys(results, ns) # {}
       PROVE  \E i \in 1 .. n : /\ bare[i].id.rule = "flux-chain"
                                /\ bare[i].id.keys = FluxKeys(results, ns)
  <2>1. PICK g \in D[ns] : g.rule = "flux-chain" /\ Keys(g) = FluxKeys(results, ns)
    BY <1>2, <1>15
  <2>2. PICK i \in 1 .. n : groups[i] = g
    BY <1>7, <1>11
  <2> QED
    BY <1>9, <2>1, <2>2
<1>16. Complete(results, names, bare)
  BY <1>8, <1>9, <1>12, <1>13, <1>14, <1>15 DEF Complete
<1> QED
  BY <1>16 DEF bare

\* Insights go to groups and change none.
LEMMA InsightsKeep ==
  ASSUME NEW results, NEW names, NEW groups, Complete(results, names, groups), NEW insights
  PROVE  Complete(results, names, ApplyInsights(groups, insights))
<1> DEFINE now == ApplyInsights(groups, insights)
<1>1. DOMAIN now = DOMAIN groups
  BY DEF ApplyInsights
<1>2. ASSUME NEW i \in DOMAIN groups
      PROVE  /\ now[i].id = groups[i].id
             /\ now[i] = [id |-> now[i].id, severity |-> now[i].severity,
                          insight |-> now[i].insight]
  <2>1. groups[i] = [id |-> groups[i].id, severity |-> groups[i].severity,
                     insight |-> groups[i].insight]
    BY DEF Complete
  <2>2. CASE i \in DOMAIN insights
    <3>1. now[i] = [groups[i] EXCEPT !.insight = {insights[i]}]
      BY <2>2 DEF ApplyInsights
    <3> HIDE DEF now
    <3>2. now[i] = [id |-> groups[i].id, severity |-> groups[i].severity,
                    insight |-> {insights[i]}]
      BY <2>1, <3>1
    <3> QED
      BY <3>2
  <2>3. CASE i \notin DOMAIN insights
    <3>1. now[i] = groups[i]
      BY <2>3 DEF ApplyInsights
    <3> HIDE DEF now
    <3> QED
      BY <2>1, <3>1
  <2> QED
    BY <2>2, <2>3
<1> HIDE DEF now
<1>3. UNION {now[i].id.keys : i \in DOMAIN now} = UNION {groups[i].id.keys : i \in DOMAIN groups}
  BY <1>1, <1>2
<1>4. Complete(results, names, now)
  BY <1>1, <1>2, <1>3 DEF Complete
<1> QED
  BY <1>4 DEF now

-----------------------------------------------------------------------------
(* The inductive invariant: what a check, the update shown and a report hold *)
(* was computed from one snapshot of a finite cluster; and a mute that lasts *)
(* is among the states the check has read, and among those it publishes.     *)

\* The fields of a snapshot of the cluster; no object is of a kind without a CRD, and
\* events have a size.
MetOK(w) ==
  /\ WorldOK(w)
  /\ w = [objects |-> w.objects, namespaces |-> w.namespaces, failed |-> w.failed,
          absent |-> w.absent, restartThreshold |-> w.restartThreshold]
  /\ \A o \in w.objects : o.kind \notin w.absent /\ (o.kind = "event" => o.size \in Nat)

ClusterOK ==
  /\ \E start \in Starts : cluster.all = start.objects /\ cluster.requests = start.requests
  /\ cluster.present \subseteq cluster.all
  /\ cluster = [all |-> cluster.all, present |-> cluster.present, absent |-> cluster.absent,
                requests |-> cluster.requests]

Computed(c) ==
  /\ MetOK(c.world) /\ c.results = RunAll(c.world, Plugins)
  /\ Complete(c.results, c.world.namespaces, c.groups)

CheckOK ==
  /\ check.pc \in {"idle", "collected", "read", "record"}
  /\ check.pc \in {"collected", "read"} => Computed(check)
  /\ check.pc = "read" =>
       /\ check = [pc |-> "read", world |-> check.world, results |-> check.results,
                   groups |-> check.groups, hit |-> check.hit, active |-> check.active,
                   held |-> check.held, seen |-> check.seen]
       /\ check.held \subseteq check.active /\ check.active \subseteq check.seen
       /\ check.held \subseteq ActiveKeys(states)

LatestOK ==
  \/ latest = NoUpdate
  \/ /\ latest = [shown |-> TRUE, world |-> latest.world, results |-> latest.results,
                  summary |-> latest.summary, muted |-> latest.muted,
                  states |-> latest.states, groups |-> latest.groups,
                  pending |-> latest.pending, held |-> latest.held, seen |-> latest.seen]
     /\ Computed(latest)
     /\ latest.summary = Summary(latest.results, latest.muted)
     /\ latest.held \subseteq latest.muted /\ latest.muted \subseteq latest.seen
     /\ latest.held \subseteq latest.states

ReportOK ==
  /\ report.request.type = "teamhealth" =>
       /\ MetOK(report.world) /\ TeamHealthValid(report.request)
       /\ report.outcome = TeamHealth(report.world, Plugins, Existing, SecretsIn, report.request)
  /\ report.request.type = "troubleshoot" =>
       /\ MetOK(report.world) /\ report.world.restartThreshold = DefaultRestartThreshold
       /\ report.outcome = Troubleshoot(report.world, report.request)
  /\ report.request.type = "analysis" =>
       /\ MetOK(report.world) /\ ResultsOK(report.results)
       /\ report.given = Batch(report.world, report.results)
       /\ report.sent = CapTokenBudget(report.given)

IInv == ClusterOK /\ CheckOK /\ LatestOK /\ ReportOK

\* What a check or a request meets, whatever fails meanwhile.
LEMMA WorldFine ==
  ASSUME ClusterOK, NEW failed
  PROVE  MetOK(World(failed))
<1> DEFINE w == World(failed)
<1>1. /\ w.objects = {o \in cluster.present : o.kind \notin cluster.absent}
      /\ w.namespaces = CheckedNamespaces(failed) /\ w.absent = cluster.absent
      /\ w = [objects |-> w.objects, namespaces |-> w.namespaces, failed |-> w.failed,
              absent |-> w.absent, restartThreshold |-> w.restartThreshold]
  BY DEF World
<1>2. PICK start \in Starts : cluster.all = start.objects
  BY DEF ClusterOK
<1>3. w.objects \subseteq start.objects
  BY <1>1, <1>2 DEF ClusterOK
<1>4. IsFiniteSet(w.objects)
  BY <1>3, StartsAssumption, FS_Subset
<1>5. IsFiniteSet(CheckedNamespaces(failed))
  <2> DEFINE names == FilterSystem(Selected(Existing, {}))
  <2>1. IsFiniteSet(names)
    <3> DEFINE S == {x \in Existing : {} \subseteq x.labels /\ ~x.terminating}
               name == [n \in S |-> n.name]
    <3>1. IsFiniteSet(S)
      BY ExistingAssumption, FS_Subset
    <3>2. IsFiniteSet({name[n] : n \in S})
      <4> HIDE DEF S, name
      <4> QED
        BY <3>1, FiniteImage
    <3>3. {name[n] : n \in S} = Selected(Existing, {})
      BY DEF Selected
    <3>4. names \subseteq Selected(Existing, {})
      BY DEF FilterSystem
    <3> HIDE DEF S, name, names
    <3> QED
      BY <3>2, <3>3, <3>4, FS_Subset
  <2>2. IsFiniteSet({"default"})
    BY FS_Singleton
  <2>3. CheckedNamespaces(failed) = names \/ CheckedNamespaces(failed) = {"default"}
    BY DEF CheckedNamespaces
  <2> HIDE DEF names
  <2> QED
    BY <2>1, <2>2, <2>3
<1> HIDE DEF w
<1>6. WorldOK(w)
  <2>1. \A o \in w.objects : /\ o.kind = "pod" => /\ IsFiniteSet(o.containers)
                                                  /\ \A c \in o.containers : c.kb \in Nat
                             /\ o.kind = "resourcequota" => IsFiniteSet(o.entries)
    BY <1>3, StartsAssumption
  <2>2. \A o, p \in w.objects :
          o.kind = p.kind /\ o.ns = p.ns /\ o.name = p.name => o = p \/ o.kind = "event"
    BY <1>3, StartsAssumption
  <2> QED
    BY <1>1, <1>4, <1>5, <2>1, <2>2 DEF WorldOK
<1>7. \A o \in w.objects : o.kind \notin w.absent /\ (o.kind = "event" => o.size \in Nat)
  BY <1>1, <1>3, StartsAssumption
<1>8. MetOK(w)
  BY <1>1, <1>6, <1>7 DEF MetOK
<1> QED
  BY <1>8 DEF w

\* Between the actions of users a check goes on observing which keys are muted.
LEMMA StatesKeep ==
  ASSUME IInv, NEW s, SetStates(s)
  PROVE  IInv'
<1> USE DEF IInv
<1>1. /\ states' = s /\ check' = Observed(check, s)
      /\ UNCHANGED <<cluster, latest, report>>
  BY DEF SetStates
<1>2. ClusterOK' /\ LatestOK' /\ ReportOK'
  BY <1>1 DEF ClusterOK, LatestOK, ReportOK, Computed
<1>3. CASE check.pc = "read"
  <2>1. check' = [check EXCEPT !.held = @ \cap ActiveKeys(s), !.seen = @ \cup ActiveKeys(s)]
    BY <1>1, <1>3 DEF Observed
  <2>2. check' = [pc |-> "read", world |-> check.world, results |-> check.results,
                  groups |-> check.groups, hit |-> check.hit, active |-> check.active,
                  held |-> check.held \cap ActiveKeys(s), seen |-> check.seen \cup ActiveKeys(s)]
    BY <1>3, <2>1 DEF CheckOK
  <2>3. /\ check.held \subseteq check.active /\ check.active \subseteq check.seen
        /\ Computed(check)
    BY <1>3 DEF CheckOK
  <2>4. ActiveKeys(states)' = ActiveKeys(s)
    BY <1>1 DEF ActiveKeys
  <2>5. Computed(check)'
    BY <2>2, <2>3 DEF Computed
  <2>6. CheckOK'
    <3> DEFINE active == ActiveKeys(s)
    <3>1. check'.held = check.held \cap active /\ check'.seen = check.seen \cup active
      BY <2>2
    <3>2. check'.active = check.active /\ check'.pc = "read"
      BY <2>2
    <3> HIDE DEF active
    <3>3. check' = [pc |-> "read", world |-> check'.world, results |-> check'.results,
                    groups |-> check'.groups, hit |-> check'.hit, active |-> check'.active,
                    held |-> check'.held, seen |-> check'.seen]
      BY <2>2
    <3>4. check'.held \subseteq ActiveKeys(states)'
      BY <2>4, <3>1 DEF active
    <3> QED
      BY <2>3, <2>5, <3>1, <3>2, <3>3, <3>4 DEF CheckOK
  <2> QED
    BY <1>2, <2>6
<1>4. CASE check.pc # "read"
  <2>1. check' = check
    BY <1>1, <1>4 DEF Observed
  <2> QED
    BY <1>2, <1>4, <2>1 DEF CheckOK, Computed
<1> QED
  BY <1>3, <1>4

\* A change of the cluster leaves what was read of it alone.
LEMMA ChangeKeeps ==
  ASSUME IInv, NEW o \in cluster.all, Change(o)
  PROVE  IInv'
<1>1. /\ cluster' = [cluster EXCEPT !.present = IF o \in @ THEN @ \ {o} ELSE @ \cup {o}]
      /\ UNCHANGED <<states, check, latest, report>>
  BY DEF Change
<1>2. CheckOK' /\ LatestOK' /\ ReportOK'
  BY <1>1 DEF IInv, CheckOK, LatestOK, ReportOK, Computed, ActiveKeys
<1>3. ClusterOK'
  <2>1. cluster' = [all |-> cluster.all,
                    present |-> IF o \in cluster.present THEN cluster.present \ {o}
                                ELSE cluster.present \cup {o},
                    absent |-> cluster.absent, requests |-> cluster.requests]
    BY <1>1 DEF IInv, ClusterOK
  <2> QED
    BY <2>1 DEF IInv, ClusterOK
<1> QED
  BY <1>2, <1>3 DEF IInv

\* RunAll and Analyze.
LEMMA CollectKeeps ==
  ASSUME IInv, Collect
  PROVE  IInv'
<1>1. PICK failed, groups :
        /\ groups \in Correlated(RunAll(World(failed), Plugins), CheckedNamespaces(failed))
        /\ check' = [pc |-> "collected", world |-> World(failed),
                     results |-> RunAll(World(failed), Plugins), groups |-> Bare(groups)]
  <2>1. PICK failed \in Failures :
          \E groups \in Correlated(RunAll(World(failed), Plugins), CheckedNamespaces(failed)) :
            check' = [pc |-> "collected", world |-> World(failed),
                      results |-> RunAll(World(failed), Plugins), groups |-> Bare(groups)]
    BY DEF Collect
  <2> QED
    BY <2>1
<1>2. UNCHANGED <<cluster, states, latest, report>>
  BY DEF Collect
<1>3. ClusterOK' /\ LatestOK' /\ ReportOK'
  BY <1>2 DEF IInv, ClusterOK, LatestOK, ReportOK, Computed
<1>4. MetOK(World(failed))
  BY WorldFine DEF IInv
<1>5. CheckOK'
  <2> DEFINE world == World(failed)
             results == RunAll(world, Plugins)
             bare == Bare(groups)
  <2>1. world.namespaces = CheckedNamespaces(failed)
    BY DEF World
  <2>2. MetOK(world) /\ WorldOK(world)
    BY <1>4 DEF MetOK
  <2> HIDE DEF world
  <2>3. ResultsOK(results) /\ IsFiniteSet(world.namespaces)
    BY <2>2, RunFine DEF WorldOK
  <2>4. groups \in Correlated(results, world.namespaces)
    BY <1>1, <2>1 DEF world
  <2>5. check' = [pc |-> "collected", world |-> world, results |-> results, groups |-> bare]
    BY <1>1 DEF world
  <2> HIDE DEF results
  <2>6. Complete(results, world.namespaces, bare)
    BY <2>3, <2>4, CorrelatedComplete
  <2> HIDE DEF bare
  <2>7. /\ check'.pc = "collected" /\ check'.world = world /\ check'.results = results
        /\ check'.groups = bare
    BY <2>5
  <2>8. Computed(check)'
    BY <2>2, <2>6, <2>7 DEF Computed, results
  <2> QED
    BY <2>7, <2>8 DEF CheckOK
<1> QED
  BY <1>3, <1>5 DEF IInv

\* The states are read: what is muted now is observed from here on.
LEMMA ReadStatesKeeps ==
  ASSUME IInv, ReadStates
  PROVE  IInv'
<1>1. PICK groups, hit :
        /\ groups = check.groups \/ groups = ApplyInsights(check.groups, cache.insights)
        /\ check' = [pc |-> "read", world |-> check.world, results |-> check.results,
                     groups |-> groups, hit |-> hit, active |-> ActiveKeys(states),
                     held |-> ActiveKeys(states), seen |-> ActiveKeys(states)]
  <2> DEFINE h == cache.valid /\ cache.hash = IssueHash(check.results)
             g == IF h THEN ApplyInsights(check.groups, cache.insights) ELSE check.groups
  <2>1. g = check.groups \/ g = ApplyInsights(check.groups, cache.insights)
    OBVIOUS
  <2>2. check' = [pc |-> "read", world |-> check.world, results |-> check.results,
                  groups |-> g, hit |-> h, active |-> ActiveKeys(states),
                  held |-> ActiveKeys(states), seen |-> ActiveKeys(states)]
    BY Zenon DEF ReadStates
  <2> HIDE DEF g, h
  <2> QED
    BY <2>1, <2>2
<1>2. check.pc = "collected" /\ UNCHANGED <<cluster, states, latest, report>>
  BY DEF ReadStates
<1>3. ClusterOK' /\ LatestOK' /\ ReportOK'
  BY <1>2 DEF IInv, ClusterOK, LatestOK, ReportOK, Computed
<1>4. CheckOK'
  <2> DEFINE active == ActiveKeys(states)
  <2>1. active' = active
    BY <1>2 DEF ActiveKeys
  <2>2. Computed(check)
    BY <1>2 DEF IInv, CheckOK
  <2> HIDE DEF active
  <2>3. check' = [pc |-> "read", world |-> check.world, results |-> check.results,
                  groups |-> groups, hit |-> hit, active |-> active,
                  held |-> active, seen |-> active]
    BY <1>1 DEF active
  <2>4. Complete(check.results, check.world.namespaces, groups)
    <3>1. Complete(check.results, check.world.namespaces, check.groups)
      BY <2>2 DEF Computed
    <3> QED
      BY <1>1, <3>1, InsightsKeep
  <2>5. Computed(check)'
    BY <2>2, <2>3, <2>4 DEF Computed
  <2>6. check'.held \subseteq ActiveKeys(states)'
    BY <2>1, <2>3 DEF active
  <2> QED
    BY <2>3, <2>5, <2>6 DEF CheckOK
<1> QED
  BY <1>3, <1>4 DEF IInv

\* The states that are published are those in force at that moment.
LEMMA PublishKeeps ==
  ASSUME IInv, Publish
  PROVE  IInv'
<1>1. /\ check.pc = "read" /\ check' = [pc |-> "record"]
      /\ states' = RestrictTo(states, ActiveKeys(states))
      /\ UNCHANGED <<cluster, report>>
  BY DEF Publish
<1>2. latest' = [shown |-> TRUE, world |-> check.world, results |-> check.results,
                 summary |-> Summary(check.results, check.active), muted |-> check.active,
                 states |-> DOMAIN states', groups |-> check.groups,
                 pending |-> ~check.hit, held |-> check.held, seen |-> check.seen]
  BY DEF Publish
<1>3. /\ Computed(check) /\ check.held \subseteq check.active
      /\ check.active \subseteq check.seen /\ check.held \subseteq ActiveKeys(states)
  BY <1>1 DEF IInv, CheckOK
<1>4. ClusterOK' /\ ReportOK' /\ CheckOK'
  BY <1>1 DEF IInv, ClusterOK, ReportOK, CheckOK
<1>5. check.held \subseteq DOMAIN states'
  BY <1>1, <1>3 DEF RestrictTo
<1>6. LatestOK'
  <2> DEFINE summary == Summary(check.results, check.active)
             kept == DOMAIN states'
             pending == ~check.hit
  <2> HIDE DEF summary, kept, pending
  <2>1. latest' = [shown |-> TRUE, world |-> check.world, results |-> check.results,
                   summary |-> summary, muted |-> check.active,
                   states |-> kept, groups |-> check.groups,
                   pending |-> pending, held |-> check.held, seen |-> check.seen]
    BY <1>2, Zenon DEF summary, kept, pending
  <2>2. Computed(latest)'
    BY <1>3, <2>1 DEF Computed
  <2>3. latest'.summary = Summary(latest'.results, latest'.muted)
    <3>1. latest'.summary = summary /\ latest'.results = check.results
          /\ latest'.muted = check.active
      BY <2>1
    <3> QED
      BY <3>1 DEF summary
  <2>4. /\ latest'.held \subseteq latest'.muted /\ latest'.muted \subseteq latest'.seen
        /\ latest'.held \subseteq latest'.states
    BY <1>3, <1>5, <2>1 DEF kept
  <2>5. latest' = [shown |-> TRUE, world |-> latest'.world, results |-> latest'.results,
                   summary |-> latest'.summary, muted |-> latest'.muted,
                   states |-> latest'.states, groups |-> latest'.groups,
                   pending |-> latest'.pending, held |-> latest'.held, seen |-> latest'.seen]
    BY <2>1
  <2> QED
    BY <2>2, <2>3, <2>4, <2>5 DEF LatestOK
<1> QED
  BY <1>4, <1>6 DEF IInv

\* The insights change the groups only.
LEMMA EnrichKeeps ==
  ASSUME IInv, Enrich
  PROVE  IInv'
<1>1. /\ latest.shown
      /\ \E insights : latest' = [latest EXCEPT !.pending = FALSE,
                                    !.groups = ApplyInsights(@, insights)]
      /\ UNCHANGED <<cluster, states, check, report>>
  BY DEF Enrich
<1>2. ClusterOK' /\ CheckOK' /\ ReportOK'
  BY <1>1 DEF IInv, ClusterOK, CheckOK, ReportOK, Computed, ActiveKeys
<1>3. latest # NoUpdate
  BY <1>1 DEF NoUpdate
<1>4. PICK insights : latest' = [latest EXCEPT !.pending = FALSE,
                                   !.groups = ApplyInsights(@, insights)]
  BY <1>1
<1>5. latest' = [shown |-> TRUE, world |-> latest.world, results |-> latest.results,
                 summary |-> latest.summary, muted |-> latest.muted,
                 states |-> latest.states, groups |-> ApplyInsights(latest.groups, insights),
                 pending |-> FALSE, held |-> latest.held, seen |-> latest.seen]
  <2> DEFINE groups == ApplyInsights(latest.groups, insights)
  <2>1. latest' = [latest EXCEPT !.pending = FALSE, !.groups = groups]
    BY <1>4
  <2>2. latest = [shown |-> TRUE, world |-> latest.world, results |-> latest.results,
                  summary |-> latest.summary, muted |-> latest.muted,
                  states |-> latest.states, groups |-> latest.groups,
                  pending |-> latest.pending, held |-> latest.held, seen |-> latest.seen]
    BY <1>3 DEF IInv, LatestOK
  <2> HIDE DEF groups
  <2>3. DOMAIN latest = {"shown", "world", "results", "summary", "muted", "states", "groups",
                         "pending", "held", "seen"}
    BY <2>2
  <2>4. /\ DOMAIN latest' = DOMAIN latest
        /\ latest'.pending = FALSE /\ latest'.groups = groups
        /\ \A f \in DOMAIN latest : f \notin {"pending", "groups"} => latest'[f] = latest[f]
    BY <2>1, <2>3
  <2>5. latest' = [f \in DOMAIN latest' |-> latest'[f]]
    BY <2>1
  <2>6. latest' = [shown |-> latest'.shown, world |-> latest'.world, results |-> latest'.results,
                   summary |-> latest'.summary, muted |-> latest'.muted,
                   states |-> latest'.states, groups |-> latest'.groups,
                   pending |-> latest'.pending, held |-> latest'.held, seen |-> latest'.seen]
    BY <2>3, <2>4, <2>5
  <2>7. latest.shown = TRUE
    BY <2>2
  <2> QED
    BY <2>3, <2>4, <2>6, <2>7 DEF groups
<1>6. Complete(latest.results, latest.world.namespaces, ApplyInsights(latest.groups, insights))
  <2>1. Complete(latest.results, latest.world.namespaces, latest.groups)
    BY <1>3 DEF IInv, LatestOK, Computed
  <2> QED
    BY <2>1, InsightsKeep
<1>7. LatestOK'
  <2> DEFINE groups == ApplyInsights(latest.groups, insights)
  <2> HIDE DEF groups
  <2>1. latest' = [shown |-> TRUE, world |-> latest.world, results |-> latest.results,
                   summary |-> latest.summary, muted |-> latest.muted,
                   states |-> latest.states, groups |-> groups,
                   pending |-> FALSE, held |-> latest.held, seen |-> latest.seen]
    BY <1>5 DEF groups
  <2>2. Computed(latest)'
    BY <1>3, <1>6, <2>1 DEF IInv, LatestOK, Computed, groups
  <2> QED
    BY <1>3, <2>1, <2>2 DEF IInv, LatestOK
<1> QED
  BY <1>2, <1>7 DEF IInv

\* A recorded snapshot is none of the check's business any more.
LEMMA RecordKeeps ==
  ASSUME IInv, Record
  PROVE  IInv'
<1>1. check' = Idle /\ UNCHANGED <<cluster, states, latest, report>>
  BY DEF Record
<1> QED
  BY <1>1 DEF IInv, ClusterOK, CheckOK, LatestOK, ReportOK, Computed, Idle

\* A request is answered from what it meets; only an admitted one is.
LEMMA ServeKeeps ==
  ASSUME IInv, NEW request \in cluster.requests, Serve(request)
  PROVE  IInv'
<1> DEFINE r == Submitted(request)
<1>1. Admitted(request) /\ UNCHANGED <<cluster, states, check, latest>>
  BY DEF Serve
<1>2. PICK failed \in Failures :
        report' = [request |-> r, world |-> World(failed),
                   outcome |-> IF r.type = "troubleshoot" THEN Troubleshoot(World(failed), r)
                               ELSE TeamHealth(World(failed), Plugins, Existing, SecretsIn, r)]
  BY DEF Serve
<1>3. ClusterOK' /\ CheckOK' /\ LatestOK'
  BY <1>1 DEF IInv, ClusterOK, CheckOK, LatestOK, Computed, ActiveKeys
<1>4. "type" \in DOMAIN request /\ request.type \in {"troubleshoot", "teamhealth"}
  BY StartsAssumption DEF IInv, ClusterOK
<1>5. r.type = "teamhealth" => TeamHealthValid(r)
  <2>1. CASE request.type # "troubleshoot"
    BY <1>1, <2>1 DEF Admitted, Submitted
  <2>2. CASE request.type = "troubleshoot"
    <3>1. r.type = "troubleshoot"
      BY <1>4, <2>2 DEF Submitted
    <3> QED
      BY <3>1
  <2> QED
    BY <2>1, <2>2
<1>6. MetOK(World(failed))
  BY WorldFine DEF IInv
<1>7. ReportOK'
  <2> DEFINE world == World(failed)
             other == Troubleshoot(world, r)
             answer == TeamHealth(world, Plugins, Existing, SecretsIn, r)
  <2> HIDE DEF r, world, other, answer
  <2>1. report' = [request |-> r, world |-> world,
                   outcome |-> IF r.type = "troubleshoot" THEN other ELSE answer]
    BY <1>2, Zenon DEF world, other, answer
  <2>2. /\ report'.request = r /\ report'.world = world
        /\ r.type = "teamhealth" => report'.outcome = answer
        /\ r.type = "troubleshoot" => report'.outcome = other
    BY <2>1
  <2>3. /\ r.type = "teamhealth" =>
             report'.outcome = TeamHealth(report'.world, Plugins, Existing, SecretsIn, report'.request)
        /\ r.type = "troubleshoot" =>
             report'.outcome = Troubleshoot(report'.world, report'.request)
    BY <2>2 DEF answer, other
  <2>4. MetOK(report'.world) /\ report'.world.restartThreshold = DefaultRestartThreshold
    BY <1>6, <2>2 DEF world, World
  <2>5. report'.request.type # "analysis"
    <3>1. r.type \in {"troubleshoot", "teamhealth"}
      BY <1>4 DEF r, Submitted
    <3> QED
      BY <2>2, <3>1
  <2> QED
    BY <1>5, <2>2, <2>3, <2>4, <2>5 DEF ReportOK
<1> QED
  BY <1>3, <1>7 DEF IInv

\* The AI's analysis is another kind of report: of the newest results, and of a cluster
\* that is read again.
LEMMA AnalyzeKeeps ==
  ASSUME IInv, Analyze
  PROVE  IInv'
<1>1. UNCHANGED <<cluster, states, check, latest>>
  BY DEF Analyze
<1>2. PICK failed \in Failures :
        report' = [request |-> [type |-> "analysis"], world |-> World(failed),
                   results |-> latest.results, given |-> Batch(World(failed), latest.results),
                   sent |-> CapTokenBudget(Batch(World(failed), latest.results))]
  BY DEF Analyze
<1>3. MetOK(World(failed))
  BY WorldFine DEF IInv
<1>4. ResultsOK(latest.results)
  <2>1. latest.shown
    BY DEF Analyze
  <2>2. latest # NoUpdate
    BY <2>1 DEF NoUpdate
  <2>3. Computed(latest)
    BY <2>2 DEF IInv, LatestOK
  <2> QED
    BY <2>3, RunFine DEF Computed, MetOK
<1>5. /\ report'.request.type = "analysis" /\ report'.world = World(failed)
      /\ report'.results = latest.results /\ report'.given = Batch(report'.world, report'.results)
      /\ report'.sent = CapTokenBudget(report'.given)
  BY <1>2
<1>6. ReportOK'
  BY <1>3, <1>4, <1>5 DEF ReportOK
<1> QED
  BY <1>1, <1>6 DEF IInv, ClusterOK, CheckOK, LatestOK, Computed, ActiveKeys

\* The inductive invariant holds in every run: what a check publishes and what a
\* request is answered was computed from one snapshot of the cluster.
THEOREM Invariance == Spec => []IInv
<1>1. Init => IInv
  <2> SUFFICES ASSUME Init PROVE IInv
    OBVIOUS
  <2>1. ClusterOK
    BY DEF Init, ClusterOK
  <2>2. CheckOK
    BY DEF Init, CheckOK, Idle
  <2>3. LatestOK
    BY DEF Init, LatestOK
  <2>4. ReportOK
    BY DEF Init, ReportOK, NoReport
  <2> QED
    BY <2>1, <2>2, <2>3, <2>4 DEF IInv
<1>2. IInv /\ [Next]_vars => IInv'
  <2> SUFFICES ASSUME IInv, [Next]_vars PROVE IInv'
    OBVIOUS
  <2>1. ASSUME NEW request \in cluster.requests, Serve(request) PROVE IInv'
    BY <2>1, ServeKeeps
  <2>2. ASSUME NEW o \in cluster.all, Change(o) PROVE IInv'
    BY <2>2, ChangeKeeps
  <2>3. ASSUME NEW k, NEW action, Mute(k, action) PROVE IInv'
    BY <2>3, StatesKeep DEF Mute
  <2>4. ASSUME NEW k, Unmute(k) \/ Expire(k) PROVE IInv'
    <3>1. \E s : SetStates(s)
      BY <2>4 DEF Unmute, Expire
    <3> QED
      BY <3>1, StatesKeep
  <2>5. ASSUME Prune PROVE IInv'
    BY <2>5, StatesKeep DEF Prune
  <2>6. CASE UNCHANGED vars
    BY <2>6 DEF IInv, ClusterOK, CheckOK, LatestOK, ReportOK, Computed, ActiveKeys, vars
  <2> QED
    BY <2>1, <2>2, <2>3, <2>4, <2>5, <2>6, CollectKeeps, ReadStatesKeeps, PublishKeeps,
       RecordKeeps, AnalyzeKeeps, EnrichKeeps DEF Next
<1> QED
  BY <1>1, <1>2, PTL DEF Spec

\* MutesHonoured holds in every run, for any order of checks and mutes: a key that is
\* muted all the while is in both lists, and none that was never muted is in either.
THEOREM MutesHonouredHolds == Spec => []MutesHonoured
<1>1. IInv => MutesHonoured
  <2> SUFFICES ASSUME IInv, latest.shown PROVE MutesHonoured
    BY DEF MutesHonoured
  <2>1. latest # NoUpdate
    BY DEF NoUpdate
  <2>2. /\ Computed(latest) /\ latest.summary = Summary(latest.results, latest.muted)
        /\ latest.held \subseteq latest.muted /\ latest.muted \subseteq latest.seen
        /\ latest.held \subseteq latest.states
    BY <2>1 DEF IInv, LatestOK
  <2>3. ResultsOK(latest.results)
    BY <2>2, RunFine DEF Computed, MetOK
  <2>4. ASSUME NEW s \in DOMAIN latest.summary.counts
        PROVE  /\ latest.summary.counts[s] >= CountUnmuted(latest.results, latest.seen, s)
               /\ latest.summary.counts[s] <= CountUnmuted(latest.results, latest.held, s)
    <3>1. latest.summary.counts = [t \in {"Critical", "Warning", "Info"} |->
                                     CountUnmuted(latest.results, latest.muted, t)]
      <4> DEFINE counts == [t \in {"Critical", "Warning", "Info"} |->
                              CountUnmuted(latest.results, latest.muted, t)]
      <4>1. Summary(latest.results, latest.muted).counts = counts
        BY SummaryFields
      <4> QED
        BY <2>2, <4>1
    <3>2. latest.summary.counts[s] = CountUnmuted(latest.results, latest.muted, s)
      BY <3>1
    <3>3. /\ CountUnmuted(latest.results, latest.seen, s)
               <= CountUnmuted(latest.results, latest.muted, s)
          /\ CountUnmuted(latest.results, latest.muted, s)
               <= CountUnmuted(latest.results, latest.held, s)
      BY <2>2, <2>3, MutingCountsLess
    <3>4. /\ CountUnmuted(latest.results, latest.seen, s) \in Nat
          /\ CountUnmuted(latest.results, latest.muted, s) \in Nat
          /\ CountUnmuted(latest.results, latest.held, s) \in Nat
      BY <2>3, CountsType
    <3> QED
      BY <3>2, <3>3, <3>4
  <2> QED
    BY <2>2, <2>4 DEF MutesHonoured
<1> QED
  BY <1>1, Invariance, PTL

\* CorrelationComplete holds in every run, for any cluster, namespaces and plugins and
\* for every order in which the correlators take the issues and the groups: no issue is
\* in two groups, none is alone in one, at most one of a namespace is in none, and a
\* broken source is shown with all that depends on it.
THEOREM CorrelationCompleteHolds == Spec => []CorrelationComplete
<1>1. IInv => CorrelationComplete
  <2> SUFFICES ASSUME IInv, latest.shown PROVE CorrelationComplete
    BY DEF CorrelationComplete
  <2> DEFINE groups == latest.groups
             names == latest.world.namespaces
  <2>1. latest # NoUpdate
    BY DEF NoUpdate
  <2>2. Complete(latest.results, names, groups)
    BY <2>1 DEF IInv, LatestOK, Computed
  <2>3. ASSUME NEW ns
        PROVE  /\ KeysIn(ns) = KeysOf(EventsIn(latest.results, ns))
               /\ FluxChain(ns) = FluxKeys(latest.results, ns)
    <3> DEFINE chain == CHOOSE r \in Rules : r.name = "flux-chain"
    <3>1. chain = Flux
      <4>1. Flux \in Rules /\ Flux.name = "flux-chain"
        BY DEF Rules, Flux
      <4>2. \A r \in Rules : r.name = "flux-chain" => r = Flux
        BY DEF Rules, Flux
      <4> QED
        BY <4>1, <4>2
    <3>2. FluxChain(ns) =
            IF /\ \E e \in EventsIn(latest.results, ns) : CauseSide(chain, e)
               /\ \E e \in EventsIn(latest.results, ns) : EffectSide(chain, e)
            THEN {EventKey(e) : e \in {x \in EventsIn(latest.results, ns) :
                                         CauseSide(chain, x) \/ EffectSide(chain, x)}}
            ELSE {}
      BY DEF FluxChain
    <3> HIDE DEF chain
    <3> QED
      BY <3>1, <3>2 DEF KeysIn, KeysOf, FluxKeys, FluxFires, FluxEvents
  <2>4. Grouped = UNION {groups[i].id.keys : i \in DOMAIN groups}
    BY DEF Grouped
  <2> HIDE DEF groups, names
  <2>5. /\ \A i, j \in DOMAIN groups : i # j => groups[i].id.keys \cap groups[j].id.keys = {}
        /\ \A i \in DOMAIN groups : Cardinality(groups[i].id.keys) >= 2
        /\ \A ns \in names : Cardinality(KeysIn(ns) \ Grouped) <= 1
        /\ \A ns \in names : FluxChain(ns) # {} =>
             \E i \in DOMAIN groups : /\ groups[i].id.rule = "flux-chain"
                                      /\ groups[i].id.keys = FluxChain(ns)
    BY <2>2, <2>3, <2>4 DEF Complete
  <2> QED
    BY <2>5, Zenon DEF CorrelationComplete, groups, names
<1> QED
  BY <1>1, Invariance, PTL

\* The results of a built-in checker are those of its check (Registry.RunAll).
LEMMA BuiltinResult ==
  ASSUME NEW w, NEW c \in DOMAIN BuiltinKinds
  PROVE  /\ c \in DOMAIN RunAll(w, Plugins)
         /\ RunAll(w, Plugins)[c] = BuiltinCheck(w, BuiltinKinds[c])
         /\ BuiltinKinds[c] \in SUBSET Builtins
BY DEF RunAll, Builtins

\* SummaryAgrees holds in every run: the score, the counts by severity, the total and
\* the objects are computed apart from each other (buildDashboardResults) and agree,
\* for any objects and any muted keys.
THEOREM SummaryAgreesHolds == Spec => []SummaryAgrees
<1>1. IInv => SummaryAgrees
  <2> SUFFICES ASSUME IInv, latest.shown PROVE SummaryAgrees
    BY DEF SummaryAgrees
  <2> DEFINE results == latest.results
             muted == latest.muted
             summary == Summary(results, muted)
             MutedIn(c) == Cardinality({i \in results[c].issues : IssueKey(i) \in muted})
             hidden == SumOver(Succeeded(results), MutedIn)
  <2>1. latest # NoUpdate
    BY DEF NoUpdate
  <2>2. Computed(latest) /\ latest.summary = summary
    BY <2>1 DEF IInv, LatestOK
  <2>3. ResultsOK(results)
    BY <2>2, RunFine DEF Computed, MetOK
  <2>4. /\ summary.counts["Critical"] = CountUnmuted(results, muted, "Critical")
        /\ summary.counts["Warning"] = CountUnmuted(results, muted, "Warning")
        /\ summary.counts["Info"] = CountUnmuted(results, muted, "Info")
    <3> DEFINE counts == [s \in {"Critical", "Warning", "Info"} |-> CountUnmuted(results, muted, s)]
    <3>1. summary.counts = counts
      BY SummaryFields
    <3> HIDE DEF summary
    <3> QED
      BY <3>1
  <2>5. summary.score < 100 <=> summary.counts["Critical"] > 0
    BY <2>3, <2>4, ScoreAgrees
  <2>6. summary.issues = summary.counts["Critical"] + summary.counts["Warning"]
                         + summary.counts["Info"] + hidden
    <3>1. summary.issues = Sum(Succeeded(results), IssuesPer(results))
      BY SummaryFields
    <3>2. summary.issues = CountUnmuted(results, muted, "Critical")
                           + CountUnmuted(results, muted, "Warning")
                           + CountUnmuted(results, muted, "Info")
                           + Sum(Succeeded(results), MutedPer(results, muted))
      BY <2>3, <3>1, CountsAddUp
    <3>3. hidden = Sum(Succeeded(results), MutedPer(results, muted))
      <4>1. hidden = Cardinality(UNION {{x} \X (1 .. MutedIn(x)) : x \in Succeeded(results)})
        BY DEF SumOver
      <4>2. \A x \in Succeeded(results) : MutedPer(results, muted)[x] = MutedIn(x)
        BY DEF MutedPer, Muting
      <4> HIDE DEF MutedIn, hidden
      <4> QED
        BY <4>1, <4>2 DEF Sum, Parts
    <3> HIDE DEF summary, hidden
    <3> QED
      BY <2>4, <3>2, <3>3
  <2>7. ASSUME NEW c \in DOMAIN results, Built(c)
        PROVE  results[c].healthy + Cardinality(Unhealthy(results[c].issues, {}))
                 = Cardinality(Listed(latest.world, BuiltinKinds[c]))
                   + Cardinality(Unprotected(latest.world, BuiltinKinds[c]))
    <3>1. c \in DOMAIN BuiltinKinds /\ ~results[c].error
      BY <2>7 DEF Built
    <3>2. /\ results[c] = BuiltinCheck(latest.world, BuiltinKinds[c])
          /\ BuiltinKinds[c] \in SUBSET Builtins
      BY <2>2, <3>1, BuiltinResult DEF Computed
    <3> QED
      BY <2>2, <3>1, <3>2, ObjectsCounted DEF Computed, MetOK
  <2> HIDE DEF summary, hidden
  <2> QED
    BY <2>2, <2>5, <2>6, <2>7 DEF SummaryAgrees, hidden
<1> QED
  BY <1>1, Invariance, PTL

-----------------------------------------------------------------------------
(* The reports of TeamHealthRequests. *)

\* A finite set has subsets of every smaller size.
LEMMA SubsetOfSize ==
  ASSUME NEW S, IsFiniteSet(S), NEW k \in Nat, k <= Cardinality(S)
  PROVE  \E T \in SUBSET S : Cardinality(T) = k
<1> DEFINE n == Cardinality(S)
<1>1. n \in Nat /\ ExistsBijection(1 .. n, S)
  BY FS_CardinalityType
<1>2. PICK f \in Bijection(1 .. n, S) : TRUE
  BY <1>1 DEF ExistsBijection
<1>3. f \in [1 .. n -> S] /\ \A i, j \in 1 .. n : f[i] = f[j] => i = j
  BY <1>2 DEF Bijection, Injection, IsInjective
<1> DEFINE I == 1 .. k
           T == {f[i] : i \in I}
<1>4. IsFiniteSet(I) /\ Cardinality(I) = k
  BY FS_Interval
<1>5. I \subseteq 1 .. n
  BY <1>1
<1>6. \A i, j \in I : f[i] = f[j] => i = j
  BY <1>3, <1>5
<1>7. T \subseteq S
  BY <1>3, <1>5
<1> HIDE DEF I
<1>8. Cardinality(T) = Cardinality(I)
  BY <1>4, <1>6, SameSize
<1> HIDE DEF T
<1> QED
  BY <1>4, <1>7, <1>8

\* The limit on namespaces takes some of them, and all if there are not more.
LEMMA LimitedFine ==
  ASSUME NEW names, IsFiniteSet(names)
  PROVE  /\ IsFiniteSet(Limited(names)) /\ Limited(names) \subseteq names
         /\ Cardinality(names) <= MaxNamespaces => Limited(names) = names
<1>1. CASE Cardinality(names) <= MaxNamespaces
  BY <1>1 DEF Limited
<1>2. CASE ~(Cardinality(names) <= MaxNamespaces)
  <2>1. Cardinality(names) \in Nat
    BY FS_CardinalityType
  <2>2. \E T \in SUBSET names : Cardinality(T) = MaxNamespaces
    BY <1>2, <2>1, MaxNamespacesAssumption, SubsetOfSize
  <2>3. Limited(names) \in kSubset(MaxNamespaces, names)
    BY <1>2, <2>2 DEF Limited, kSubset
  <2>4. Limited(names) \subseteq names
    BY <2>3 DEF kSubset
  <2> QED
    BY <1>2, <2>4, FS_Subset
<1> QED
  BY <1>1, <1>2

\* ResolveNamespaces finds finitely many: they exist, or it is the request's own.
LEMMA ResolvedFinite ==
  ASSUME NEW unreadable, NEW scope, NEW own
  PROVE  IsFiniteSet(ResolveNamespaces(Existing, unreadable, scope, own))
<1> DEFINE name == [n \in Existing |-> n.name]
           all == {name[n] : n \in Existing}
           resolved == ResolveNamespaces(Existing, unreadable, scope, own)
<1>1. IsFiniteSet(all)
  <2> HIDE DEF name
  <2> QED
    BY ExistingAssumption, FiniteImage
<1>2. IsFiniteSet({own})
  BY FS_Singleton
<1>3. resolved \subseteq all \/ resolved = {own}
  BY DEF ResolveNamespaces, Selected
<1> HIDE DEF all, resolved
<1>4. IsFiniteSet(resolved)
  BY <1>1, <1>2, <1>3, FS_Subset
<1> QED
  BY <1>4 DEF resolved

\* What a TeamHealthRequest meets, and the checkers it is about.
Unreadable(w) == {n.name : n \in {x \in Existing : <<"namespace", x.name>> \in w.failed}}
AskedWorld(w, r) ==
  [objects |-> w.objects,
   namespaces |-> Limited(ResolveNamespaces(Existing, Unreadable(w), r.scope, r.ns)),
   failed |-> w.failed, absent |-> w.absent,
   restartThreshold |-> IF r.restartThreshold > 0 THEN r.restartThreshold ELSE w.restartThreshold]
AskedNames(w, r) == IF r.checks = {} THEN DOMAIN RunAll(w, Plugins) ELSE r.checks

\* The fields of a completed report (Reconcile, aggregateResults, dispatchNotifications).
LEMMA ReportFields ==
  ASSUME NEW w, MetOK(w), NEW r,
         NEW out, out = TeamHealth(w, Plugins, Existing, SecretsIn, r), out.phase = "Completed"
  PROVE  /\ out.world = AskedWorld(w, r)
         /\ out.results = [c \in AskedNames(w, r) |-> RunAll(AskedWorld(w, r), Plugins)[c]]
         /\ out.totals = Aggregate(out.results)
         /\ out.notified = Notified(r, out.totals, SecretsIn)
<1> DEFINE unreadable == {n.name : n \in {x \in Existing : <<"namespace", x.name>> \in w.failed}}
           namespaces == Limited(ResolveNamespaces(Existing, unreadable, r.scope, r.ns))
           names == IF r.checks = {} THEN DOMAIN RunAll(w, Plugins) ELSE r.checks
           met == [w EXCEPT !.namespaces = namespaces,
                            !.restartThreshold = IF r.restartThreshold > 0 THEN r.restartThreshold ELSE @]
           all == RunAll(met, Plugins)
           results == [c \in names |-> all[c]]
           agg == Aggregate(results)
           told == Notified(r, agg, SecretsIn)
           failing == namespaces = {} \/ (r.scope.namespaces = <<>> /\ r.scope.selector # {} /\ unreadable # {})
<1>1. out = IF failing THEN Failed
            ELSE [phase |-> "Completed", world |-> met, results |-> results, totals |-> agg,
                  notified |-> told]
  BY DEF TeamHealth
<1>2. /\ out.world = met /\ out.results = results /\ out.totals = agg /\ out.notified = told
  <2> HIDE DEF failing, met, results, agg, told
  <2> QED
    BY <1>1 DEF Failed
<1>3. met = AskedWorld(w, r)
  <2> DEFINE threshold == IF r.restartThreshold > 0 THEN r.restartThreshold ELSE w.restartThreshold
  <2>1. met = [w EXCEPT !.namespaces = namespaces, !.restartThreshold = threshold]
    OBVIOUS
  <2>2. AskedWorld(w, r) = [objects |-> w.objects, namespaces |-> namespaces,
                            failed |-> w.failed, absent |-> w.absent,
                            restartThreshold |-> threshold]
    BY DEF AskedWorld, Unreadable
  <2>3. w = [objects |-> w.objects, namespaces |-> w.namespaces, failed |-> w.failed,
             absent |-> w.absent, restartThreshold |-> w.restartThreshold]
    BY DEF MetOK
  <2> HIDE DEF threshold, namespaces, met
  <2>4. DOMAIN w = {"objects", "namespaces", "failed", "absent", "restartThreshold"}
    BY <2>3
  <2>5. /\ DOMAIN met = DOMAIN w /\ met.namespaces = namespaces
        /\ met.restartThreshold = threshold /\ met.objects = w.objects
        /\ met.failed = w.failed /\ met.absent = w.absent
    BY <2>1, <2>4
  <2>6. met = [f \in DOMAIN met |-> met[f]]
    BY <2>1
  <2>7. met = [objects |-> met.objects, namespaces |-> met.namespaces, failed |-> met.failed,
               absent |-> met.absent, restartThreshold |-> met.restartThreshold]
    BY <2>4, <2>5, <2>6
  <2> QED
    BY <2>2, <2>5, <2>7
<1>4. names = AskedNames(w, r)
  BY DEF AskedNames
<1>5. results = [c \in AskedNames(w, r) |-> RunAll(AskedWorld(w, r), Plugins)[c]]
  <2> HIDE DEF names, met
  <2> QED
    BY <1>3, <1>4
<1> HIDE DEF met, results, agg, told, names
<1>6. out.totals = Aggregate(out.results)
  BY <1>2 DEF agg
<1>7. out.notified = Notified(r, out.totals, SecretsIn)
  BY <1>2 DEF told
<1> QED
  BY <1>2, <1>3, <1>5, <1>6, <1>7

\* The world and the results of a report are as fine as those of a check.
LEMMA ReportFine ==
  ASSUME NEW w, MetOK(w), NEW r, TeamHealthValid(r), NEW results,
         results = [c \in AskedNames(w, r) |-> RunAll(AskedWorld(w, r), Plugins)[c]]
  PROVE  WorldOK(AskedWorld(w, r)) /\ ResultsOK(results)
<1> DEFINE met == AskedWorld(w, r)
           all == RunAll(met, Plugins)
           names == AskedNames(w, r)
<1>1. met.objects = w.objects /\ IsFiniteSet(met.namespaces)
  BY ResolvedFinite, LimitedFine DEF AskedWorld
<1>2. WorldOK(met)
  <2> HIDE DEF met
  <2> QED
    BY <1>1 DEF MetOK, WorldOK
<1>3. names \subseteq DOMAIN all
  <2>1. DOMAIN all = DOMAIN RunAll(w, Plugins) /\ DOMAIN BuiltinKinds \subseteq DOMAIN all
    BY DEF RunAll
  <2> QED
    BY <2>1 DEF AskedNames, TeamHealthValid
<1>4. ResultsOK(all)
  BY <1>2, RunFine
<1>5. DOMAIN results = names /\ \A c \in names : results[c] = all[c]
  OBVIOUS
<1> HIDE DEF met, names, all
<1>6. IsFiniteSet(names)
  BY <1>3, <1>4, FS_Subset DEF ResultsOK
<1> QED
  BY <1>2, <1>3, <1>4, <1>5, <1>6 DEF ResultsOK, met

\* The dashboard and a report compute the same from the same results
\* (buildDashboardResults, aggregateResults).
LEMMA TotalsAgree ==
  ASSUME NEW results
  PROVE  LET totals == Aggregate(results)
         IN /\ totals.healthy = Summary(results, {}).healthy
            /\ totals.issues = Summary(results, {}).issues
            /\ totals.critical = CountUnmuted(results, {}, "Critical")
            /\ totals.warning = CountUnmuted(results, {}, "Warning")
<1> DEFINE S == Succeeded(results)
           healthy == SumOver(S, LAMBDA c : results[c].healthy)
           issues == SumOver(S, LAMBDA c : Cardinality(results[c].issues))
           critical == SumOver(S, LAMBDA c : SeverityCount(results[c].issues, "Critical"))
           warning == SumOver(S, LAMBDA c : SeverityCount(results[c].issues, "Warning"))
<1>1. Aggregate(results) = [healthy |-> healthy, issues |-> issues, critical |-> critical,
                            warning |-> warning]
  BY DEF Aggregate
<1>2. /\ Aggregate(results).healthy = healthy /\ Aggregate(results).issues = issues
      /\ Aggregate(results).critical = critical /\ Aggregate(results).warning = warning
  <2> HIDE DEF healthy, issues, critical, warning
  <2> QED
    BY <1>1
<1>3. Summary(results, {}).healthy = healthy /\ Summary(results, {}).issues = issues
  <2>1. healthy = Sum(S, HealthyPer(results))
    BY TotalsAreSums
  <2>2. issues = Sum(S, IssuesPer(results))
    BY TotalsAreSums
  <2> HIDE DEF healthy, issues
  <2> QED
    BY <2>1, <2>2, SummaryFields
<1>4. \A s, c : Cardinality(Counting(results, {}, s, c)) = SeverityCount(results[c].issues, s)
  BY DEF Counting, Unmuted, SeverityCount
<1>5. critical = CountUnmuted(results, {}, "Critical")
  <2>1. critical = Cardinality(UNION {{c} \X (1 .. SeverityCount(results[c].issues, "Critical")) : c \in S})
    BY DEF SumOver
  <2>2. \A c \in S : CountsOf(results, {}, "Critical")[c] = SeverityCount(results[c].issues, "Critical")
    BY <1>4 DEF CountsOf
  <2> HIDE DEF S, critical
  <2>3. critical = Sum(S, CountsOf(results, {}, "Critical"))
    BY <2>1, <2>2 DEF Sum, Parts
  <2> QED
    BY <2>3, CountIsSum DEF S
<1>6. warning = CountUnmuted(results, {}, "Warning")
  <2>1. warning = Cardinality(UNION {{c} \X (1 .. SeverityCount(results[c].issues, "Warning")) : c \in S})
    BY DEF SumOver
  <2>2. \A c \in S : CountsOf(results, {}, "Warning")[c] = SeverityCount(results[c].issues, "Warning")
    BY <1>4 DEF CountsOf
  <2> HIDE DEF S, warning
  <2>3. warning = Sum(S, CountsOf(results, {}, "Warning"))
    BY <2>1, <2>2 DEF Sum, Parts
  <2> QED
    BY <2>3, CountIsSum DEF S
<1> HIDE DEF healthy, issues, critical, warning
<1> QED
  BY <1>2, <1>3, <1>5, <1>6

\* The total is the sum over the checkers; none has an issue if it is 0.
LEMMA NoIssues ==
  ASSUME NEW results, ResultsOK(results), Summary(results, {}).issues = 0,
         NEW c \in Succeeded(results)
  PROVE  results[c].issues = {}
<1> DEFINE S == Succeeded(results)
           f == IssuesPer(results)
<1>1. \A x \in S : f[x] = Cardinality(results[x].issues) /\ f[x] \in Nat
  BY CountingFinite DEF IssuesPer
<1>2. IsFiniteSet(S)
  BY SucceededFinite
<1>3. IsFiniteSet(results[c].issues)
  BY CountingFinite
<1> HIDE DEF S, f
<1>4. Sum(S, f) = 0
  BY SummaryFields DEF S, f
<1>5. ~(f[c] > 0)
  BY <1>1, <1>2, <1>4, SumPositive DEF S
<1>6. Cardinality(results[c].issues) = 0
  BY <1>1, <1>5 DEF S
<1> QED
  BY <1>3, <1>6, Inhabited

\* In a report without issues no object of a built-in checker has one, of the
\* namespaces asked for: it was listed, or the report would say that it was not.
LEMMA CoversObjects ==
  ASSUME NEW w, MetOK(w), NEW r, TeamHealthValid(r), NEW results,
         results = [c \in AskedNames(w, r) |-> RunAll(AskedWorld(w, r), Plugins)[c]],
         Summary(results, {}).issues = 0, w.failed = {},
         NEW ask, ask = IF r.scope.namespaces = <<>>
                        THEN UNION {Selected(Existing, labels) : labels \in r.scope.selector}
                        ELSE ToSet(r.scope.namespaces) \cap {n.name : n \in Existing},
         Cardinality(ask) <= MaxNamespaces,
         NEW o \in w.objects, o.ns \in ask, r.checks \in {{}, DOMAIN BuiltinKinds},
         NEW c \in DOMAIN BuiltinKinds, o.kind \in BuiltinKinds[c]
  PROVE  IssuesOf(AskedWorld(w, r), o) = {}
<1> DEFINE met == AskedWorld(w, r)
           resolved == ResolveNamespaces(Existing, Unreadable(w), r.scope, r.ns)
           kinds == BuiltinKinds[c]
<1>1. Unreadable(w) = {}
  BY DEF Unreadable
<1>2. resolved = ask
  <2>1. CASE r.scope.namespaces # <<>>
    BY <1>1, <2>1 DEF ResolveNamespaces
  <2>2. CASE r.scope.namespaces = <<>>
    <3>1. r.scope.selector # {}
      BY <2>2
    <3> QED
      BY <2>2, <3>1 DEF ResolveNamespaces
  <2> QED
    BY <2>1, <2>2
<1>3. met.namespaces = ask
  <2>1. IsFiniteSet(resolved)
    BY ResolvedFinite
  <2>2. Limited(resolved) = resolved
    BY <1>2, <2>1, LimitedFine
  <2> QED
    BY <1>2, <2>2 DEF AskedWorld
<1>4. /\ met.objects = w.objects /\ met.failed = {} /\ met.absent = w.absent
  BY DEF AskedWorld
<1>5. /\ c \in DOMAIN results
      /\ results[c] = BuiltinCheck(met, kinds)
  <2>1. c \in AskedNames(w, r)
    BY BuiltinResult DEF AskedNames
  <2> QED
    BY <2>1, BuiltinResult
<1>6. ~(kinds \subseteq met.absent)
  BY <1>4 DEF MetOK
<1>7. o \in Listed(met, kinds)
  BY <1>3, <1>4 DEF Listed
<1> HIDE DEF met, kinds
<1>8. ~results[c].error /\ IssuesOf(met, o) \subseteq results[c].issues
  <2> DEFINE healthy == Cardinality({x \in Listed(met, kinds) : IssuesOf(met, x) = {}})
             A == UNION {IssuesOf(met, x) : x \in Listed(met, kinds)}
             B == UNION {Reported(ns, <<"namespace", <<ns>> >>,
                           {Diagnosis(TRUE, "NoNetworkPolicy", "Info", <<>>)})
                           : ns \in Unprotected(met, kinds)}
  <2>1. results[c] = [healthy |-> healthy, issues |-> A \cup B, error |-> FALSE]
    BY <1>5, <1>6 DEF BuiltinCheck
  <2>2. IssuesOf(met, o) \subseteq A
    BY <1>7
  <2> HIDE DEF healthy, A, B
  <2> QED
    BY <2>1, <2>2
<1>9. results[c].issues = {}
  <2>1. ResultsOK(results)
    BY ReportFine
  <2>2. c \in Succeeded(results)
    BY <1>5, <1>8 DEF Succeeded
  <2> QED
    BY <2>1, <2>2, NoIssues
<1>10. IssuesOf(met, o) = {}
  BY <1>8, <1>9
<1> QED
  BY <1>10 DEF met

\* A target is notified as its threshold says: of a cluster below 100 in any case, for
\* its score is below 100 exactly if a critical issue counts.
LEMMA NotifiedAgree ==
  ASSUME NEW results, ResultsOK(results), NEW r
  PROVE  LET notified == Notified(r, Aggregate(results), SecretsIn)
             summary == Summary(results, {})
         IN /\ \A target \in notified :
                 /\ target.onSeverity = "Critical" => summary.score < 100
                 /\ target.onSeverity = "Warning" =>
                      summary.score < 100 \/ summary.counts["Warning"] > 0
            /\ summary.score < 100 =>
                 \A target \in r.notify :
                   target.onCompletion /\ target.url = "https" => target \in notified
<1> DEFINE totals == Aggregate(results)
           notified == Notified(r, totals, SecretsIn)
           summary == Summary(results, {})
<1>1. summary.score < 100 <=> CountUnmuted(results, {}, "Critical") > 0
  BY ScoreAgrees
<1>2. summary.counts["Warning"] = CountUnmuted(results, {}, "Warning")
  <2> DEFINE counts == [s \in {"Critical", "Warning", "Info"} |-> CountUnmuted(results, {}, s)]
  <2>1. summary.counts = counts
    BY SummaryFields
  <2> HIDE DEF summary
  <2> QED
    BY <2>1
<1>3. /\ totals.critical = CountUnmuted(results, {}, "Critical")
      /\ totals.warning = CountUnmuted(results, {}, "Warning")
  BY TotalsAgree
<1> HIDE DEF totals, summary
<1>4. ASSUME NEW target \in notified
      PROVE  SeverityMet(target.onSeverity, totals.critical, totals.warning)
  BY DEF Notified
<1>5. \A target \in notified :
        /\ target.onSeverity = "Critical" => summary.score < 100
        /\ target.onSeverity = "Warning" => summary.score < 100 \/ summary.counts["Warning"] > 0
  <2> HIDE DEF notified
  <2>1. ASSUME NEW target \in notified, target.onSeverity = "Critical" PROVE totals.critical > 0
    BY <1>4, <2>1 DEF SeverityMet
  <2>2. ASSUME NEW target \in notified, target.onSeverity = "Warning"
        PROVE  totals.critical > 0 \/ totals.warning > 0
    BY <1>4, <2>2 DEF SeverityMet
  <2> QED
    BY <1>1, <1>2, <1>3, <2>1, <2>2
<1>6. ASSUME summary.score < 100, NEW target \in r.notify, target.onCompletion,
             target.url = "https"
      PROVE  target \in notified
  <2>1. totals.critical > 0
    BY <1>1, <1>3, <1>6
  <2>2. SeverityMet(target.onSeverity, totals.critical, totals.warning)
    BY <2>1 DEF SeverityMet
  <2>3. Reachable(r, target, SecretsIn)
    BY <1>6 DEF Reachable
  <2> QED
    BY <1>6, <2>2, <2>3 DEF Notified
<1> HIDE DEF notified
<1>7. /\ \A target \in notified :
           /\ target.onSeverity = "Critical" => summary.score < 100
           /\ target.onSeverity = "Warning" => summary.score < 100 \/ summary.counts["Warning"] > 0
      /\ summary.score < 100 =>
           \A target \in r.notify :
             target.onCompletion /\ target.url = "https" => target \in notified
  BY <1>5, <1>6
<1> QED
  BY <1>7 DEF notified, summary, totals

\* ReportAgrees holds in every run, whatever namespaces and checkers a request names:
\* a report and the dashboard agree on the same results, targets are notified as the
\* score says, and a clean report covers what it was asked for.
THEOREM ReportAgreesHolds == Spec => []ReportAgrees
<1>1. IInv => ReportAgrees
  <2> SUFFICES ASSUME IInv, Completed("teamhealth") PROVE ReportAgrees
    BY DEF ReportAgrees
  <2> DEFINE w == report.world
             r == report.request
             out == report.outcome
             summary == Summary(out.results, {})
             ask == IF r.scope.namespaces = <<>>
                    THEN UNION {Selected(Existing, labels) : labels \in r.scope.selector}
                    ELSE ToSet(r.scope.namespaces) \cap {n.name : n \in Existing}
  <2>1. /\ MetOK(w) /\ TeamHealthValid(r) /\ out.phase = "Completed"
        /\ out = TeamHealth(w, Plugins, Existing, SecretsIn, r)
    BY DEF Completed, IInv, ReportOK
  <2>2. /\ out.world = AskedWorld(w, r)
        /\ out.results = [c \in AskedNames(w, r) |-> RunAll(AskedWorld(w, r), Plugins)[c]]
        /\ out.totals = Aggregate(out.results)
        /\ out.notified = Notified(r, out.totals, SecretsIn)
    BY <2>1, ReportFields
  <2>3. ResultsOK(out.results)
    BY <2>1, <2>2, ReportFine
  <2>4. /\ summary.counts["Critical"] = CountUnmuted(out.results, {}, "Critical")
        /\ summary.counts["Warning"] = CountUnmuted(out.results, {}, "Warning")
    <3> DEFINE counts == [s \in {"Critical", "Warning", "Info"} |-> CountUnmuted(out.results, {}, s)]
    <3>1. summary.counts = counts
      BY SummaryFields
    <3> HIDE DEF summary
    <3> QED
      BY <3>1
  <2>5. /\ out.totals.healthy = summary.healthy /\ out.totals.issues = summary.issues
        /\ out.totals.critical = summary.counts["Critical"]
        /\ out.totals.warning = summary.counts["Warning"]
    <3> DEFINE totals == Aggregate(out.results)
    <3>1. /\ totals.healthy = summary.healthy /\ totals.issues = summary.issues
          /\ totals.critical = CountUnmuted(out.results, {}, "Critical")
          /\ totals.warning = CountUnmuted(out.results, {}, "Warning")
      BY TotalsAgree
    <3> HIDE DEF totals, summary
    <3>2. out.totals = totals
      BY <2>2 DEF totals
    <3> QED
      BY <2>4, <3>1, <3>2
  <2>6. /\ \A target \in out.notified :
             /\ target.onSeverity = "Critical" => summary.score < 100
             /\ target.onSeverity = "Warning" => summary.score < 100 \/ summary.counts["Warning"] > 0
        /\ summary.score < 100 =>
             \A target \in r.notify :
               target.onCompletion /\ target.url = "https" => target \in out.notified
    <3> DEFINE notified == Notified(r, Aggregate(out.results), SecretsIn)
    <3>1. /\ \A target \in notified :
               /\ target.onSeverity = "Critical" => summary.score < 100
               /\ target.onSeverity = "Warning" =>
                    summary.score < 100 \/ summary.counts["Warning"] > 0
          /\ summary.score < 100 =>
               \A target \in r.notify :
                 target.onCompletion /\ target.url = "https" => target \in notified
      BY <2>3, NotifiedAgree
    <3>2. out.notified = notified
      BY <2>2
    <3> HIDE DEF notified, summary
    <3> QED
      BY <3>1, <3>2
  <2>7. ASSUME summary.issues = 0, out.world.failed = {}, Cardinality(ask) <= MaxNamespaces,
               NEW o \in w.objects, o.ns \in ask, r.checks \in {{}, DOMAIN BuiltinKinds},
               o.kind \in UNION Range(BuiltinKinds)
        PROVE  IssuesOf(out.world, o) = {}
    <3>1. PICK c \in DOMAIN BuiltinKinds : o.kind \in BuiltinKinds[c]
      BY <2>7 DEF Range
    <3>2. w.failed = {}
      BY <2>2, <2>7 DEF AskedWorld
    <3>3. IssuesOf(AskedWorld(w, r), o) = {}
      BY <2>1, <2>2, <2>7, <3>1, <3>2, CoversObjects
    <3> QED
      BY <2>2, <3>3
  <2> HIDE DEF summary
  <2>8. /\ out.totals.healthy = summary.healthy /\ out.totals.issues = summary.issues
        /\ out.totals.critical = summary.counts["Critical"]
        /\ out.totals.warning = summary.counts["Warning"]
        /\ \A target \in out.notified :
             /\ target.onSeverity = "Critical" => summary.score < 100
             /\ target.onSeverity = "Warning" => summary.score < 100 \/ summary.counts["Warning"] > 0
        /\ summary.score < 100 =>
             \A target \in r.notify :
               target.onCompletion /\ target.url = "https" => target \in out.notified
        /\ summary.issues = 0 /\ out.world.failed = {} /\ Cardinality(ask) <= MaxNamespaces =>
             \A o \in w.objects :
               o.ns \in ask /\ r.checks \in {{}, DOMAIN BuiltinKinds} /\ o.kind \in UNION Range(BuiltinKinds)
                 => IssuesOf(out.world, o) = {}
    BY <2>5, <2>6, <2>7
  <2> QED
    BY <2>8, Zenon DEF ReportAgrees, summary
<1> QED
  BY <1>1, Invariance, PTL

-----------------------------------------------------------------------------
(* Diagnosis and logs of a troubleshooting. *)

\* ListOf goes through the whole set.
LEMMA ListOfType ==
  ASSUME NEW S, IsFiniteSet(S)
  PROVE  /\ Cardinality(S) \in Nat /\ ListOf(S) \in [1 .. Cardinality(S) -> S]
         /\ ListOf(S) \in Seq(S) /\ Len(ListOf(S)) = Cardinality(S)
         /\ \A x \in S : \E i \in 1 .. Cardinality(S) : ListOf(S)[i] = x
<1> DEFINE n == Cardinality(S)
           A == Seq(S \cup {CHOOSE x \in {} : TRUE})
           first[i \in 0 .. Cardinality(S)] == IF i = 0 THEN <<>> ELSE AppendNext(first[i - 1], S)
           step == [i \in 0 .. n |-> [a \in A |-> AppendNext(a, S)]]
<1>1. n \in Nat
  BY FS_CardinalityType
<1>2. ASSUME NEW a \in A PROVE AppendNext(a, S) \in A
  <2> DEFINE rest == S \ ToSet(a)
             x == CHOOSE y \in rest : TRUE
  <2>1. x \in S \cup {CHOOSE y \in {} : TRUE}
    <3>1. CASE rest = {}
      <4>1. x = CHOOSE y \in {} : TRUE
        BY <3>1
      <4> QED
        BY <4>1
    <3>2. CASE rest # {}
      BY <3>2
    <3> QED
      BY <3>1, <3>2
  <2> HIDE DEF x
  <2>2. Append(a, x) \in A
    BY <2>1
  <2> QED
    BY <2>2 DEF AppendNext, x
<1>3. first = [i \in 0 .. n |-> IF i = 0 THEN <<>> ELSE AppendNext(first[i - 1], S)]
  <2>1. <<>> \in A
    OBVIOUS
  <2>2. \A i \in 0 .. n, a \in A : step[i][a] = AppendNext(a, S) /\ step[i][a] \in A
    BY <1>2
  <2> HIDE DEF step, A, n
  <2>3. PICK f : Stepwise(f, 0, n, A, <<>>, step)
    <3>1. 0 \in Nat /\ n \in Nat /\ 0 <= n
      BY <1>1
    <3>2. \A i \in 0 .. n, a \in A : i # 0 => step[i][a] \in A
      BY <2>2
    <3> QED
      BY <2>1, <3>1, <3>2, Recursion
  <2>4. ASSUME NEW i \in 0 .. n
        PROVE  f[i] = IF i = 0 THEN <<>> ELSE AppendNext(f[i - 1], S)
    <3>1. CASE i = 0
      BY <2>3, <3>1 DEF Stepwise
    <3>2. CASE i # 0
      <4>1. i - 1 \in 0 .. n
        BY <1>1, <3>2
      <4> QED
        BY <2>2, <2>3, <3>2, <4>1 DEF Stepwise
    <3> QED
      BY <3>1, <3>2
  <2>5. f = [i \in 0 .. n |-> f[i]]
    BY <2>3 DEF Stepwise
  <2>6. f = [i \in 0 .. n |-> IF i = 0 THEN <<>> ELSE AppendNext(f[i - 1], S)]
    BY <2>4, <2>5
  <2>7. \E g : g = [i \in 0 .. n |-> IF i = 0 THEN <<>> ELSE AppendNext(g[i - 1], S)]
    BY <2>6
  <2> QED
    BY <2>7, Zenon DEF n
<1> HIDE DEF first, A, n
<1> DEFINE Good(i) == /\ first[i] \in Seq(S) /\ Len(first[i]) = i
                      /\ \A j, k \in 1 .. i : first[i][j] = first[i][k] => j = k
           T == {i \in 0 .. n : Good(i)}
<1>4. 0 \in T
  <2>1. first[0] = <<>>
    BY <1>1, <1>3
  <2>2. <<>> \in Seq(S) /\ Len(<<>>) = 0
    BY EmptySeq
  <2>3. 1 .. 0 = {} /\ 0 \in 0 .. n
    BY <1>1
  <2> HIDE DEF n
  <2> QED
    BY <2>1, <2>2, <2>3
<1>5. ASSUME NEW i \in 0 .. n, i \in T, i < n PROVE i + 1 \in T
  <2> DEFINE a == first[i]
             b == first[i + 1]
             x == CHOOSE y \in S \ ToSet(a) : TRUE
  <2>1. i + 1 \in 0 .. n /\ i + 1 # 0 /\ (i + 1) - 1 = i /\ i \in Nat
    BY <1>1, <1>5
  <2>2. b = AppendNext(a, S)
    BY <1>3, <2>1
  <2>3. /\ a \in Seq(S) /\ Len(a) = i
        /\ \A j, k \in 1 .. i : a[j] = a[k] => j = k
    BY <1>5
  <2> HIDE DEF a, b, first
  <2>4. a \in [1 .. i -> S]
    BY <2>3, LenProperties
  <2>5. ToSet(a) = {a[j] : j \in 1 .. i}
    BY <2>3 DEF ToSet
  <2>6. S \ ToSet(a) # {}
    <3> SUFFICES ASSUME S \subseteq ToSet(a) PROVE FALSE
      OBVIOUS
    <3>1. a \in Surjection(1 .. i, S)
      BY <2>4, <2>5 DEF Surjection
    <3>2. ExistsSurjection(1 .. i, S)
      BY <3>1 DEF ExistsSurjection
    <3>3. Cardinality(S) <= i
      BY <2>1, <3>2, FS_SurjCardinalityBound
    <3> QED
      BY <1>1, <1>5, <2>1, <3>3 DEF n
  <2>7. x \in S /\ x \notin ToSet(a)
    BY <2>6
  <2> HIDE DEF x
  <2>8. b = Append(a, x)
    BY <2>2 DEF AppendNext, x
  <2>9. /\ b \in Seq(S) /\ Len(b) = i + 1 /\ b[i + 1] = x
        /\ \A j \in 1 .. i : b[j] = a[j]
    BY <2>1, <2>3, <2>7, <2>8, AppendProperties
  <2>10. ASSUME NEW j \in 1 .. i + 1, NEW k \in 1 .. i + 1, b[j] = b[k] PROVE j = k
    <3>1. \A m \in 1 .. i + 1 : m = i + 1 \/ m \in 1 .. i
      BY <2>1
    <3>2. \A m \in 1 .. i : b[m] # b[i + 1]
      BY <2>5, <2>7, <2>9
    <3> QED
      BY <2>3, <2>9, <2>10, <3>1, <3>2
  <2> QED
    BY <2>1, <2>9, <2>10 DEF b
<1> HIDE DEF T
<1>6. 0 .. n \subseteq T
  <2>1. 0 \in Nat
    OBVIOUS
  <2> QED
    BY <1>1, <1>4, <1>5, <2>1, IntervalInduction
<1>7. n \in 0 .. n
  BY <1>1
<1>8. Good(n)
  BY <1>6, <1>7 DEF T
<1>9. first[n] \in [1 .. n -> S]
  BY <1>8, LenProperties
<1> HIDE DEF Good
<1>10. ListOf(S) = first[n]
  BY DEF ListOf, first, n
<1>11. ListOf(S) \in SetToSeqs(S)
  BY <1>8, <1>10, <1>9 DEF SetToSeqs, Good, n
<1> QED
  BY <1>8, <1>10, <1>11, ListedOnce DEF Good, n

\* What the logs are, of the containers read so far.
LogsOK(acc, names) ==
  /\ acc = [size |-> acc.size, data |-> acc.data]
  /\ acc.size \in Nat /\ acc.size <= MaxTotalSize + MaxPerContainer
  /\ DOMAIN acc.data \subseteq names
  /\ acc.size <= MaxTotalSize => names \subseteq DOMAIN acc.data

\* Any logs with some of these entries.
LogsOf(names, entries) ==
  [size : Nat, data : UNION {[D -> entries] : D \in SUBSET names}]

\* A container is read, unless the limit has been reached.
LEMMA ReadLogKeeps ==
  ASSUME NEW all, NEW entries, NEW acc \in LogsOf(all, entries), NEW pod, NEW c, c.kb \in Nat,
         LogName(pod, c) \in all, <<pod.name, c.name>> \in entries
  PROVE  /\ ReadLog(acc, pod, c) \in LogsOf(all, entries)
         /\ \A names : LogsOK(acc, names) =>
              LogsOK(ReadLog(acc, pod, c), names \cup {LogName(pod, c)})
<1> DEFINE key == LogName(pod, c)
           entry == <<pod.name, c.name>>
           kb == IF c.readable THEN Min({c.kb, MaxPerContainer}) ELSE 0
           data == [name \in DOMAIN acc.data \cup {key} |->
                      IF name = key THEN entry ELSE acc.data[name]]
           next == ReadLog(acc, pod, c)
<1>1. next = IF acc.size > MaxTotalSize THEN acc ELSE [size |-> acc.size + kb, data |-> data]
  BY DEF ReadLog
<1>2. kb \in 0 .. MaxPerContainer
  <2> DEFINE k == c.kb
  <2>1. 64 \in Nat /\ k \in Nat
    OBVIOUS
  <2>2. CASE k <= 64
    <3>1. Min({k, 64}) = k
      BY <2>1, <2>2, MinOfTwo
    <3> QED
      BY <2>1, <2>2, <3>1 DEF MaxPerContainer
  <2>3. CASE ~(k <= 64)
    <3>1. 64 <= k
      BY <2>1, <2>3
    <3>2. Min({64, k}) = 64
      BY <2>1, <3>1, MinOfTwo
    <3>3. {64, k} = {k, 64}
      OBVIOUS
    <3> QED
      BY <3>2, <3>3 DEF MaxPerContainer
  <2> QED
    BY <2>2, <2>3
<1>3. PICK D \in SUBSET all : acc.data \in [D -> entries]
  BY DEF LogsOf
<1>4. acc.size \in Nat /\ acc = [size |-> acc.size, data |-> acc.data] /\ DOMAIN acc.data = D
  BY <1>3 DEF LogsOf
<1>5. data \in [D \cup {key} -> entries] /\ D \cup {key} \in SUBSET all
  BY <1>3, <1>4
<1> HIDE DEF kb, data, key, entry, next
<1>6. DOMAIN data = D \cup {key}
  BY <1>5
<1>7. acc.size + kb \in Nat
  BY <1>2, <1>4 DEF MaxPerContainer
<1>8. next \in LogsOf(all, entries)
  <2>1. data \in UNION {[T -> entries] : T \in SUBSET all}
    BY <1>5
  <2>2. [size |-> acc.size + kb, data |-> data] \in LogsOf(all, entries)
    BY <1>7, <2>1 DEF LogsOf
  <2> QED
    BY <1>1, <2>2
<1>9. ASSUME NEW names, LogsOK(acc, names) PROVE LogsOK(next, names \cup {key})
  <2>1. /\ acc.size <= MaxTotalSize + MaxPerContainer /\ D \subseteq names
        /\ acc.size <= MaxTotalSize => names \subseteq D
    BY <1>4, <1>9 DEF LogsOK
  <2>2. CASE acc.size > MaxTotalSize
    <3>1. next = acc /\ ~(acc.size <= MaxTotalSize)
      BY <1>1, <1>4, <2>2 DEF MaxTotalSize
    <3> QED
      BY <1>4, <2>1, <3>1 DEF LogsOK
  <2>3. CASE ~(acc.size > MaxTotalSize)
    <3>1. next.size = acc.size + kb /\ next.data = data /\ next = [size |-> next.size, data |-> next.data]
      BY <1>1, <2>3
    <3>2. acc.size <= MaxTotalSize
      BY <1>4, <2>3 DEF MaxTotalSize
    <3>3. next.size <= MaxTotalSize + MaxPerContainer /\ next.size \in Nat
      BY <1>2, <1>4, <3>1, <3>2 DEF MaxTotalSize, MaxPerContainer
    <3>4. DOMAIN next.data \subseteq names \cup {key} /\ names \cup {key} \subseteq DOMAIN next.data
      BY <1>6, <2>1, <3>1, <3>2
    <3> QED
      BY <3>1, <3>3, <3>4 DEF LogsOK
  <2> QED
    BY <2>2, <2>3
<1> QED
  BY <1>8, <1>9 DEF next, key

\* The names under which the logs of these containers, or pods, are stored.
NamesIn(pod) == {LogName(pod, c) : c \in pod.containers}
NamesOf(pods) == UNION {NamesIn(p) : p \in pods}

\* The containers of a pod are read, each in turn.
LEMMA ReadPodKeeps ==
  ASSUME NEW all, NEW entries, NEW acc \in LogsOf(all, entries), NEW pod,
         IsFiniteSet(pod.containers),
         \A c \in pod.containers : /\ c.kb \in Nat
                                   /\ LogName(pod, c) \in all /\ <<pod.name, c.name>> \in entries
  PROVE  /\ ReadPod(acc, pod) \in LogsOf(all, entries)
         /\ \A names : LogsOK(acc, names) => LogsOK(ReadPod(acc, pod), names \cup NamesIn(pod))
<1> DEFINE A == LogsOf(all, entries)
           S == pod.containers
           list == ListOf(S)
           n == Len(list)
           after[i \in 0 .. Len(list)] ==
             IF i = 0 THEN acc ELSE ReadLog(after[i - 1], pod, list[i])
           step == [i \in 0 .. n |-> [a \in A |-> ReadLog(a, pod, list[i])]]
           Read(i) == {LogName(pod, list[j]) : j \in 1 .. i}
<1>1. /\ n \in Nat /\ \A i \in 1 .. n : list[i] \in S
      /\ \A c \in S : \E i \in 1 .. n : list[i] = c
  BY ListOfType
<1>2. ASSUME NEW i \in 0 .. n, NEW a \in A, i # 0
      PROVE  /\ ReadLog(a, pod, list[i]) \in A
             /\ \A names : LogsOK(a, names) =>
                  LogsOK(ReadLog(a, pod, list[i]), names \cup {LogName(pod, list[i])})
  <2>1. list[i] \in S
    BY <1>1, <1>2
  <2> HIDE DEF list
  <2> QED
    BY <2>1, ReadLogKeeps
<1> HIDE DEF list
<1>3. after = [i \in 0 .. n |-> IF i = 0 THEN acc ELSE ReadLog(after[i - 1], pod, list[i])]
  <2>1. \A i \in 0 .. n, a \in A : i # 0 => step[i][a] = ReadLog(a, pod, list[i])
                                             /\ step[i][a] \in A
    BY <1>2
  <2> HIDE DEF step, A, n
  <2>2. PICK f : Stepwise(f, 0, n, A, acc, step)
    <3>1. 0 \in Nat /\ n \in Nat /\ 0 <= n /\ acc \in A
      BY <1>1 DEF A
    <3>2. \A i \in 0 .. n, a \in A : i # 0 => step[i][a] \in A
      BY <2>1
    <3> QED
      BY <3>1, <3>2, Recursion
  <2>3. ASSUME NEW i \in 0 .. n
        PROVE  f[i] = IF i = 0 THEN acc ELSE ReadLog(f[i - 1], pod, list[i])
    <3>1. CASE i = 0
      BY <2>2, <3>1 DEF Stepwise
    <3>2. CASE i # 0
      <4>1. i - 1 \in 0 .. n
        BY <1>1, <3>2
      <4> QED
        BY <2>1, <2>2, <3>2, <4>1 DEF Stepwise
    <3> QED
      BY <3>1, <3>2
  <2>4. f = [i \in 0 .. n |-> f[i]]
    BY <2>2 DEF Stepwise
  <2>5. f = [i \in 0 .. n |-> IF i = 0 THEN acc ELSE ReadLog(f[i - 1], pod, list[i])]
    BY <2>3, <2>4
  <2>6. \E g : g = [i \in 0 .. n |-> IF i = 0 THEN acc ELSE ReadLog(g[i - 1], pod, list[i])]
    BY <2>5
  <2> QED
    BY <2>6, Zenon DEF n
<1> HIDE DEF after, A, n
<1> DEFINE Kept(i) == /\ after[i] \in A
                      /\ \A names : LogsOK(acc, names) => LogsOK(after[i], names \cup Read(i))
           T == {i \in 0 .. n : Kept(i)}
<1>4. 0 \in T
  <2>1. after[0] = acc /\ 0 \in 0 .. n
    BY <1>1, <1>3
  <2>2. \A names : names \cup Read(0) = names
    OBVIOUS
  <2>3. acc \in A
    BY DEF A
  <2> HIDE DEF Read
  <2> QED
    BY <2>1, <2>2, <2>3
<1>5. ASSUME NEW i \in 0 .. n, i \in T, i < n PROVE i + 1 \in T
  <2>1. i + 1 \in 0 .. n /\ i + 1 # 0 /\ (i + 1) - 1 = i
    BY <1>1, <1>5
  <2>2. after[i + 1] = ReadLog(after[i], pod, list[i + 1])
    BY <1>3, <2>1
  <2>3. \A names : names \cup Read(i + 1) = (names \cup Read(i)) \cup {LogName(pod, list[i + 1])}
    <3>1. \A j : j \in 1 .. i + 1 <=> j \in 1 .. i \/ j = i + 1
      BY <2>1
    <3> QED
      BY <3>1
  <2> HIDE DEF Read
  <2>4. after[i] \in A
    BY <1>5
  <2>5. after[i + 1] \in A
    BY <1>2, <2>1, <2>2, <2>4
  <2>6. ASSUME NEW names, LogsOK(acc, names) PROVE LogsOK(after[i + 1], names \cup Read(i + 1))
    <3>1. LogsOK(after[i], names \cup Read(i))
      BY <1>5, <2>6
    <3>2. LogsOK(after[i + 1], (names \cup Read(i)) \cup {LogName(pod, list[i + 1])})
      BY <1>2, <2>1, <2>2, <2>4, <3>1
    <3> QED
      BY <2>3, <3>2
  <2> QED
    BY <2>1, <2>5, <2>6
<1> HIDE DEF T
<1>6. 0 .. n \subseteq T
  <2>1. 0 \in Nat
    OBVIOUS
  <2> QED
    BY <1>1, <1>4, <1>5, <2>1, IntervalInduction
<1>7. Kept(n)
  BY <1>1, <1>6 DEF T
<1>8. Read(n) = NamesIn(pod)
  BY <1>1 DEF NamesIn
<1>9. ReadPod(acc, pod) = after[n]
  BY DEF ReadPod, after, list, n
<1> HIDE DEF Read
<1> QED
  BY <1>7, <1>8, <1>9 DEF A

\* The logs stay within the limit and one entry, no name stands for anything but a
\* container of the pods, and none is missing unless the limit was reached.
LEMMA CollectLogsKeeps ==
  ASSUME NEW pods, IsFiniteSet(pods),
         \A p \in pods : IsFiniteSet(p.containers) /\ \A c \in p.containers : c.kb \in Nat
  PROVE  LogsOK(CollectLogs(pods), NamesOf(pods))
<1> DEFINE all == NamesOf(pods)
           entries == UNION {{<<p.name, c.name>> : c \in p.containers} : p \in pods}
           A == LogsOf(all, entries)
           S == pods
           acc == [size |-> 0, data |-> <<>>]
           list == ListOf(S)
           n == Len(list)
           after[i \in 0 .. Len(list)] ==
             IF i = 0 THEN acc ELSE ReadPod(after[i - 1], list[i])
           step == [i \in 0 .. n |-> [a \in A |-> ReadPod(a, list[i])]]
           Read(i) == UNION {NamesIn(list[j]) : j \in 1 .. i}
<1>1. /\ n \in Nat /\ \A i \in 1 .. n : list[i] \in S
      /\ \A c \in S : \E i \in 1 .. n : list[i] = c
  BY ListOfType
<1>2. ASSUME NEW i \in 0 .. n, NEW a \in A, i # 0
      PROVE  /\ ReadPod(a, list[i]) \in A
             /\ \A names : LogsOK(a, names) =>
                  LogsOK(ReadPod(a, list[i]), names \cup NamesIn(list[i]))
  <2> DEFINE p == list[i]
  <2>1. p \in pods
    BY <1>1, <1>2
  <2> HIDE DEF list, p
  <2>2. \A c \in p.containers : LogName(p, c) \in all /\ <<p.name, c.name>> \in entries
    BY <2>1 DEF NamesOf, NamesIn
  <2> HIDE DEF all, entries
  <2> QED
    BY <2>1, <2>2, ReadPodKeeps DEF p
<1>3. acc \in A /\ LogsOK(acc, {})
  <2>1. <<>> \in Seq(entries) /\ Len(<<>>) = 0
    BY EmptySeq
  <2>2. <<>> \in [1 .. 0 -> entries] /\ DOMAIN <<>> = 1 .. 0
    BY <2>1, LenProperties
  <2>3. 1 .. 0 = {}
    OBVIOUS
  <2> HIDE DEF all, entries
  <2>4. <<>> \in UNION {[D -> entries] : D \in SUBSET all}
    BY <2>2, <2>3
  <2>5. acc.size = 0 /\ acc.data = <<>> /\ acc = [size |-> acc.size, data |-> acc.data]
    OBVIOUS
  <2>6. acc \in A
    BY <2>4, <2>5 DEF LogsOf
  <2>7. DOMAIN acc.data = {}
    BY <2>2, <2>3, <2>5
  <2> HIDE DEF acc
  <2>8. LogsOK(acc, {})
    BY <2>5, <2>7 DEF LogsOK, MaxTotalSize, MaxPerContainer
  <2> QED
    BY <2>6, <2>8
<1> HIDE DEF list, acc, all, entries
<1>4. after = [i \in 0 .. n |-> IF i = 0 THEN acc ELSE ReadPod(after[i - 1], list[i])]
  <2>1. \A i \in 0 .. n, a \in A : i # 0 => step[i][a] = ReadPod(a, list[i])
                                             /\ step[i][a] \in A
    BY <1>2
  <2> HIDE DEF step, A, n
  <2>2. PICK f : Stepwise(f, 0, n, A, acc, step)
    <3>1. 0 \in Nat /\ n \in Nat /\ 0 <= n /\ acc \in A
      BY <1>1, <1>3
    <3>2. \A i \in 0 .. n, a \in A : i # 0 => step[i][a] \in A
      BY <2>1
    <3> QED
      BY <3>1, <3>2, Recursion
  <2>3. ASSUME NEW i \in 0 .. n
        PROVE  f[i] = IF i = 0 THEN acc ELSE ReadPod(f[i - 1], list[i])
    <3>1. CASE i = 0
      BY <2>2, <3>1 DEF Stepwise
    <3>2. CASE i # 0
      <4>1. i - 1 \in 0 .. n
        BY <1>1, <3>2
      <4> QED
        BY <2>1, <2>2, <3>2, <4>1 DEF Stepwise
    <3> QED
      BY <3>1, <3>2
  <2>4. f = [i \in 0 .. n |-> f[i]]
    BY <2>2 DEF Stepwise
  <2>5. f = [i \in 0 .. n |-> IF i = 0 THEN acc ELSE ReadPod(f[i - 1], list[i])]
    BY <2>3, <2>4
  <2>6. \E g : g = [i \in 0 .. n |-> IF i = 0 THEN acc ELSE ReadPod(g[i - 1], list[i])]
    BY <2>5
  <2> QED
    BY <2>6, Zenon DEF n
<1> HIDE DEF after, A, n
<1> DEFINE Kept(i) == /\ after[i] \in A
                      /\ \A names : LogsOK(acc, names) => LogsOK(after[i], names \cup Read(i))
           T == {i \in 0 .. n : Kept(i)}
<1>5. 0 \in T
  <2>1. after[0] = acc /\ 0 \in 0 .. n
    BY <1>1, <1>4
  <2>2. \A names : names \cup Read(0) = names
    OBVIOUS
  <2>3. acc \in A
    BY <1>3
  <2> HIDE DEF Read
  <2> QED
    BY <2>1, <2>2, <2>3
<1>6. ASSUME NEW i \in 0 .. n, i \in T, i < n PROVE i + 1 \in T
  <2>1. i + 1 \in 0 .. n /\ i + 1 # 0 /\ (i + 1) - 1 = i
    BY <1>1, <1>6
  <2>2. after[i + 1] = ReadPod(after[i], list[i + 1])
    BY <1>4, <2>1
  <2>3. \A names : names \cup Read(i + 1) = (names \cup Read(i)) \cup NamesIn(list[i + 1])
    <3>1. \A j : j \in 1 .. i + 1 <=> j \in 1 .. i \/ j = i + 1
      BY <2>1
    <3> QED
      BY <3>1
  <2> HIDE DEF Read
  <2>4. after[i] \in A
    BY <1>6
  <2>5. after[i + 1] \in A
    BY <1>2, <2>1, <2>2, <2>4
  <2>6. ASSUME NEW names, LogsOK(acc, names) PROVE LogsOK(after[i + 1], names \cup Read(i + 1))
    <3>1. LogsOK(after[i], names \cup Read(i))
      BY <1>6, <2>6
    <3>2. LogsOK(after[i + 1], (names \cup Read(i)) \cup NamesIn(list[i + 1]))
      BY <1>2, <2>1, <2>2, <2>4, <3>1
    <3> QED
      BY <2>3, <3>2
  <2> QED
    BY <2>1, <2>5, <2>6
<1> HIDE DEF T
<1>7. 0 .. n \subseteq T
  <2>1. 0 \in Nat
    OBVIOUS
  <2> QED
    BY <1>1, <1>5, <1>6, <2>1, IntervalInduction
<1>8. Kept(n)
  <2>1. n \in T
    BY <1>1, <1>7
  <2> HIDE DEF Read
  <2> QED
    BY <2>1 DEF T
<1>9. Read(n) = NamesOf(pods)
  BY <1>1 DEF NamesOf
<1>10. CollectLogs(pods) = after[n]
  BY DEF CollectLogs, after, list, n, acc
<1> HIDE DEF Read
<1>11. LogsOK(after[n], {} \cup Read(n))
  BY <1>8, <1>3
<1>12. {} \cup Read(n) = NamesOf(pods)
  BY <1>9
<1> QED
  BY <1>10, <1>11, <1>12

\* What is found, of those diagnoses that hold.
Finding(d) == [type |-> d.type, severity |-> d.severity, at |-> d.at]
Held(diagnoses) == {Finding(d) : d \in {x \in diagnoses : x.holds}}

\* Issues are the diagnoses that hold.
LEMMA ReportedHeld ==
  ASSUME NEW ns, NEW resource, NEW diagnoses
  PROVE  {Finding(i) : i \in Reported(ns, resource, diagnoses)} = Held(diagnoses)
<1> DEFINE issue == [d \in diagnoses |->
              [type |-> d.type, severity |-> d.severity, ns |-> ns, resource |-> resource,
               at |-> d.at]]
           held == {x \in diagnoses : x.holds}
<1>1. Reported(ns, resource, diagnoses) = {issue[d] : d \in held}
  BY DEF Reported
<1>2. \A d \in held : Finding(issue[d]) = Finding(d)
  BY DEF Finding
<1>3. Held(diagnoses) = {Finding(d) : d \in held}
  BY DEF Held
<1> HIDE DEF held, issue
<1> QED
  BY <1>1, <1>2, <1>3

\* Of a pod, both diagnose the same, except that the phase of a succeeded pod is
\* a problem for one of them only.
Over(p) ==
  IF p.phase = "Succeeded"
  THEN {[type |-> "PodNotRunning", severity |-> "Critical", at |-> p.name]} ELSE {}

LEMMA PodAgrees ==
  ASSUME NEW p
  PROVE  Held(DetailedDiagnoses(p)) = Held(PodDiagnoses(DefaultRestartThreshold, p)) \cup Over(p)
<1> DEFINE there == Diagnosis(p.phase # "Running", "PodNotRunning", "Critical", p.name)
           here == Diagnosis(p.phase \notin {"Running", "Succeeded"}, "PodNotRunning", "Critical", p.name)
           both == {Diagnosis(~p.scheduled, "SchedulingFailed", "Critical", p.name),
                    Diagnosis(p.notReady \notin {"", "ContainersNotReady"}, "PodNotReady", "Warning", p.name)}
           Ours(c) == ContainerStatus(DefaultRestartThreshold, p, c) \cup BestPractices(p, c)
           containers == UNION {Ours(c) : c \in p.containers}
<1>1. PodDiagnoses(DefaultRestartThreshold, p) = {here} \cup both \cup containers
  <2> HIDE DEF containers
  <2>1. PodDiagnoses(DefaultRestartThreshold, p) =
          {here, Diagnosis(~p.scheduled, "SchedulingFailed", "Critical", p.name),
           Diagnosis(p.notReady \notin {"", "ContainersNotReady"}, "PodNotReady", "Warning", p.name)}
          \cup containers
    BY Zenon DEF PodDiagnoses, containers
  <2> HIDE DEF here
  <2> QED
    BY <2>1
<1>2. DetailedDiagnoses(p) = {there} \cup both \cup containers
  <2> DEFINE Theirs(c) ==
        {Diagnosis(c.status = "notReady", "ContainerNotReady", "Critical", p.name \o c.name),
         Diagnosis(c.restarts > HighRestartThreshold, "HighRestartCount", "Warning", p.name \o c.name),
         Diagnosis("memoryLimit" \in c.lacks, "NoMemoryLimit", "Warning", p.name \o c.name),
         Diagnosis("cpuLimit" \in c.lacks, "NoCPULimit", "Info", p.name \o c.name),
         Diagnosis("requests" \in c.lacks, "NoResourceRequests", "Warning", p.name \o c.name),
         Diagnosis("liveness" \in c.lacks, "NoLivenessProbe", "Info", p.name \o c.name),
         Diagnosis("readiness" \in c.lacks, "NoReadinessProbe", "Info", p.name \o c.name)}
  <2>1. \A c \in p.containers : Theirs(c) = Ours(c)
    BY DEF ContainerStatus, BestPractices, HighRestartThreshold, DefaultRestartThreshold
  <2> HIDE DEF Ours, here, there
  <2>2. DetailedDiagnoses(p) =
          {there, Diagnosis(~p.scheduled, "SchedulingFailed", "Critical", p.name),
           Diagnosis(p.notReady \notin {"", "ContainersNotReady"}, "PodNotReady", "Warning", p.name)}
          \cup UNION {Theirs(c) : c \in p.containers}
    BY Zenon DEF DetailedDiagnoses, there
  <2> HIDE DEF Theirs
  <2>3. UNION {Theirs(c) : c \in p.containers} = containers
    BY <2>1
  <2> HIDE DEF containers
  <2> QED
    BY <2>2, <2>3
<1> HIDE DEF both, containers
<1>3. Held({there}) = Held({here}) \cup Over(p)
  <2>1. /\ Held({there}) = IF there.holds THEN {Finding(there)} ELSE {}
        /\ Held({here}) = IF here.holds THEN {Finding(here)} ELSE {}
    <3> HIDE DEF there, here
    <3> QED
      BY DEF Held
  <2>2. /\ there.holds <=> p.phase # "Running"
        /\ here.holds <=> p.phase \notin {"Running", "Succeeded"}
        /\ Finding(there) = [type |-> "PodNotRunning", severity |-> "Critical", at |-> p.name]
        /\ Finding(here) = [type |-> "PodNotRunning", severity |-> "Critical", at |-> p.name]
    BY DEF Diagnosis, Finding
  <2> HIDE DEF there, here
  <2>3. CASE p.phase = "Running"
    BY <2>1, <2>2, <2>3 DEF Over
  <2>4. CASE p.phase = "Succeeded"
    BY <2>1, <2>2, <2>4 DEF Over
  <2>5. CASE p.phase \notin {"Running", "Succeeded"}
    BY <2>1, <2>2, <2>5 DEF Over
  <2> QED
    BY <2>3, <2>4, <2>5
<1> HIDE DEF there, here
<1>4. \A S, T : Held(S \cup T) = Held(S) \cup Held(T)
  BY DEF Held
<1>5. /\ Held(DetailedDiagnoses(p)) = Held({there}) \cup Held(both \cup containers)
      /\ Held(PodDiagnoses(DefaultRestartThreshold, p)) = Held({here}) \cup Held(both \cup containers)
  <2>1. /\ DetailedDiagnoses(p) = {there} \cup (both \cup containers)
        /\ PodDiagnoses(DefaultRestartThreshold, p) = {here} \cup (both \cup containers)
    BY <1>1, <1>2
  <2> QED
    BY <1>4, <2>1
<1> QED
  BY <1>3, <1>5

\* The pods of a target are those that a health check takes for the workload's, and
\* of them both find the same.
LEMMA FindingsAgree ==
  ASSUME NEW w, MetOK(w), w.restartThreshold = DefaultRestartThreshold, NEW r,
         NEW o \in w.objects, o.kind = r.kind, o.kind \in WorkloadKinds, o.ns = r.ns,
         o.name = r.name, TargetPods([w EXCEPT !.namespaces = {r.ns}], r) # {}
  PROVE  LET pods == TargetPods([w EXCEPT !.namespaces = {r.ns}], r)
         IN Findings(pods) = {Finding(i) : i \in IssuesOf(w, o)} \cup UNION {Over(p) : p \in pods}
<1> DEFINE own == [w EXCEPT !.namespaces = {r.ns}]
           pods == TargetPods(own, r)
           targets == {x \in Listed(own, {r.kind}) : x.name = r.name}
<1>1. own.objects = w.objects /\ own.namespaces = {r.ns} /\ own.failed = w.failed
  BY DEF MetOK
<1>2. r.kind # "" /\ r.kind # "pod" /\ r.kind # "event"
  BY DEF WorkloadKinds
<1> HIDE DEF own
<1>3. pods = {p \in Listed(own, {"pod"}) : \E x \in targets : p.app = x.app}
  BY <1>2 DEF TargetPods
<1>4. targets \subseteq {o}
  <2>1. ASSUME NEW x \in targets PROVE x \in w.objects /\ x.kind = o.kind /\ x.ns = o.ns /\ x.name = o.name
    BY <1>1 DEF Listed
  <2> QED
    BY <1>2, <2>1 DEF MetOK, WorldOK
<1>5. targets = {o}
  BY <1>3, <1>4 DEF own
<1> HIDE DEF targets
<1>6. Listed(own, {"pod"}) = PodsIn(w, o.ns)
  BY <1>1 DEF Listed, PodsIn
<1>7. pods = {x \in PodsIn(w, o.ns) : x.app = o.app}
  BY <1>3, <1>5, <1>6
<1> HIDE DEF pods
<1> DEFINE theirs == [p \in pods |-> DetailedDiagnoses(p)]
           ours == [p \in pods |-> PodDiagnoses(DefaultRestartThreshold, p)]
<1>8. Findings(pods) = UNION {Held(theirs[p]) : p \in pods}
  <2>1. Findings(pods) = Held(UNION {theirs[p] : p \in pods})
    BY DEF Findings, Held, Finding
  <2> HIDE DEF theirs
  <2> QED
    BY <2>1 DEF Held
<1>9. {Finding(i) : i \in IssuesOf(w, o)} = UNION {Held(ours[p]) : p \in pods}
  <2>1. DiagnosesOf(w, o) = DiagnosePods(w, o)
    BY DEF DiagnosesOf, WorkloadKinds
  <2>2. DiagnosePods(w, o) = UNION {ours[p] : p \in pods}
    BY <1>7 DEF DiagnosePods
  <2>3. {Finding(i) : i \in IssuesOf(w, o)} = Held(DiagnosesOf(w, o))
    BY ReportedHeld DEF IssuesOf
  <2> HIDE DEF ours
  <2>4. Held(UNION {ours[p] : p \in pods}) = UNION {Held(ours[p]) : p \in pods}
    BY DEF Held
  <2> QED
    BY <2>1, <2>2, <2>3, <2>4
<1>10. \A p \in pods : Held(theirs[p]) = Held(ours[p]) \cup Over(p)
  BY PodAgrees
<1> HIDE DEF theirs, ours
<1>11. UNION {Held(theirs[p]) : p \in pods} =
         (UNION {Held(ours[p]) : p \in pods}) \cup UNION {Over(p) : p \in pods}
  BY <1>10
<1>12. Findings(pods) = {Finding(i) : i \in IssuesOf(w, o)} \cup UNION {Over(p) : p \in pods}
  BY <1>8, <1>9, <1>11
<1> QED
  BY <1>12 DEF pods, own

\* The pods of a target are pods of the cluster: finitely many, with known logs.
LEMMA TargetPodsFine ==
  ASSUME NEW w, MetOK(w), NEW r
  PROVE  LET pods == TargetPods([w EXCEPT !.namespaces = {r.ns}], r)
         IN /\ IsFiniteSet(pods)
            /\ \A p \in pods : /\ IsFiniteSet(p.containers)
                               /\ \A c \in p.containers : c.kb \in Nat
<1> DEFINE own == [w EXCEPT !.namespaces = {r.ns}]
           pods == TargetPods(own, r)
<1>1. own.objects = w.objects
  BY DEF MetOK
<1> HIDE DEF own
<1>2. pods \subseteq Listed(own, {"pod"})
  BY DEF TargetPods
<1>3. Listed(own, {"pod"}) \subseteq {p \in w.objects : p.kind = "pod"}
  BY <1>1 DEF Listed
<1> HIDE DEF pods
<1>4. IsFiniteSet(pods)
  <2>1. pods \subseteq w.objects
    BY <1>2, <1>3
  <2> QED
    BY <2>1, FS_Subset DEF MetOK, WorldOK
<1>5. \A p \in pods : IsFiniteSet(p.containers) /\ \A c \in p.containers : c.kb \in Nat
  BY <1>2, <1>3 DEF MetOK, WorldOK
<1> QED
  BY <1>4, <1>5 DEF pods, own

\* What a completed troubleshooting says of the pods of its target.
LEMMA TroubleshootFields ==
  ASSUME NEW w, NEW r, Troubleshoot(w, r).phase = "Completed"
  PROVE  LET out == Troubleshoot(w, r)
             pods == TargetPods([w EXCEPT !.namespaces = {r.ns}], r)
         IN /\ pods # {} /\ out.pods = pods
            /\ Asked(r, {"diagnose", "all", "describe"}) => out.issues = Findings(pods)
            /\ out.logs \subseteq {CollectLogs(pods)}
<1> DEFINE own == [w EXCEPT !.namespaces = {r.ns}]
           pods == TargetPods(own, r)
           asked == Asked(r, {"diagnose", "all", "describe"})
           found == IF asked THEN Findings(pods) ELSE {}
           logs == IF Asked(r, {"logs", "all", "describe"}) /\ ~Unwritable(w, r)
                   THEN {CollectLogs(pods)} ELSE {}
           out == Troubleshoot(w, r)
<1>1. PICK critical, warning, events, partial :
        out = IF pods = {} THEN Failed
              ELSE [phase |-> "Completed", pods |-> pods, issues |-> found,
                    critical |-> critical, warning |-> warning,
                    logs |-> logs, events |-> events, partial |-> partial]
  BY Zenon DEF Troubleshoot
<1>2. out.phase = "Completed"
  OBVIOUS
<1>3. found = IF asked THEN Findings(pods) ELSE {}
  OBVIOUS
<1>4. logs \subseteq {CollectLogs(pods)}
  OBVIOUS
<1> HIDE DEF out, pods, found, logs, asked
<1>5. pods # {}
  BY <1>1, <1>2 DEF Failed
<1>6. out.pods = pods /\ out.issues = found /\ out.logs = logs
  BY <1>1, <1>5
<1>7. /\ pods # {} /\ out.pods = pods
      /\ asked => out.issues = Findings(pods)
      /\ out.logs \subseteq {CollectLogs(pods)}
  BY <1>3, <1>4, <1>5, <1>6
<1> QED
  BY <1>7 DEF pods, out, asked

\* TroubleshootAgrees holds in every run, for any cluster and any request: the rules
\* for pods, which are there twice, find the same, and the logs that are kept are
\* complete unless the limit was reached.
THEOREM TroubleshootAgreesHolds == Spec => []TroubleshootAgrees
<1>1. IInv => TroubleshootAgrees
  <2> SUFFICES ASSUME IInv, Completed("troubleshoot") PROVE TroubleshootAgrees
    BY DEF TroubleshootAgrees
  <2> DEFINE w == report.world
             r == report.request
             out == report.outcome
             pods == TargetPods([w EXCEPT !.namespaces = {r.ns}], r)
             ended == {[type |-> "PodNotRunning", severity |-> "Critical", at |-> p.name] :
                       p \in {x \in pods : x.phase = "Succeeded"}}
  <2>1. /\ MetOK(w) /\ w.restartThreshold = DefaultRestartThreshold
        /\ out = Troubleshoot(w, r) /\ out.phase = "Completed"
    BY DEF IInv, ReportOK, Completed
  <2>2. /\ pods # {} /\ out.pods = pods
        /\ Asked(r, {"diagnose", "all", "describe"}) => out.issues = Findings(pods)
        /\ out.logs \subseteq {CollectLogs(pods)}
    <3> HIDE DEF w, r, out
    <3> QED
      BY <2>1, TroubleshootFields
  <2>3. UNION {Over(p) : p \in pods} = ended
    <3> HIDE DEF pods
    <3> QED
      BY DEF Over
  <2> HIDE DEF ended
  <2>4. ASSUME NEW o \in w.objects, o.kind = r.kind, o.kind \in WorkloadKinds, o.ns = r.ns,
               o.name = r.name
        PROVE  Findings(pods) = {Finding(i) : i \in IssuesOf(w, o)} \cup ended
    <3> HIDE DEF w, r
    <3> QED
      BY <2>1, <2>2, <2>3, <2>4, FindingsAgree
  <2>5. {"diagnose", "describe", "all"} = {"diagnose", "all", "describe"}
    OBVIOUS
  <2>6. Asked(r, {"diagnose", "describe", "all"}) =>
          \A o \in w.objects :
            o.kind = r.kind /\ o.kind \in WorkloadKinds /\ o.ns = r.ns /\ o.name = r.name =>
              out.issues = {Finding(i) : i \in IssuesOf(w, o)} \cup ended
    <3> HIDE DEF w, r, out, pods
    <3> QED
      BY <2>2, <2>4, <2>5
  <2>7. LogsOK(CollectLogs(pods), NamesOf(pods))
    <3>1. /\ IsFiniteSet(pods)
          /\ \A p \in pods : IsFiniteSet(p.containers) /\ \A c \in p.containers : c.kb \in Nat
      <4> HIDE DEF w, r
      <4> QED
        BY <2>1, TargetPodsFine
    <3> HIDE DEF pods
    <3> QED
      BY <3>1, CollectLogsKeeps
  <2>8. \A logs \in out.logs :
          /\ logs.size <= MaxTotalSize + MaxPerContainer
          /\ DOMAIN logs.data \subseteq NamesOf(pods)
          /\ logs.size <= MaxTotalSize =>
               \A p \in pods : \A c \in p.containers : LogName(p, c) \in DOMAIN logs.data
    <3> HIDE DEF pods, out
    <3>1. \A p \in pods : \A c \in p.containers : LogName(p, c) \in NamesOf(pods)
      BY DEF NamesOf, NamesIn
    <3>2. \A logs \in out.logs : LogsOK(logs, NamesOf(pods))
      BY <2>2, <2>7
    <3> QED
      BY <3>1, <3>2 DEF LogsOK
  <2>9. NamesOf(pods) = UNION {{LogName(p, c) : c \in p.containers} : p \in pods}
    BY DEF NamesOf, NamesIn
  <2> HIDE DEF pods
  <2> QED
    BY <2>2, <2>6, <2>8, <2>9 DEF TroubleshootAgrees, Finding, ended
<1> QED
  BY <1>1, Invariance, PTL

-----------------------------------------------------------------------------
(* The ring buffer. *)

\* The remainder of a number below twice the divisor.
LEMMA ModTwice ==
  ASSUME NEW h \in Nat \ {0}, NEW a \in 0 .. 2 * h - 1
  PROVE  a % h = IF a < h THEN a ELSE a - h
<1>1. a = h * (a \div h) + (a % h) /\ a % h \in 0 .. h - 1 /\ a \div h \in Int
  OBVIOUS
<1>2. CASE a \div h < 0
  <2>1. h * (a \div h) <= -h
    BY <1>1, <1>2
  <2> QED
    BY <1>1, <2>1
<1>3. CASE a \div h = 0
  BY <1>1, <1>3
<1>4. CASE a \div h = 1
  BY <1>1, <1>4
<1>5. CASE a \div h > 1
  <2>1. h * (a \div h) >= 2 * h
    BY <1>1, <1>5
  <2> QED
    BY <1>1, <2>1
<1> QED
  BY <1>1, <1>2, <1>3, <1>4, <1>5

Snapshots == [time : Int, score : Int, issues : Int]

\* The slot j before the head.
Back(head, j, h) == IF j <= head THEN head - j ELSE head - j + h

\* A ring of h slots holds the newest snapshots, as many as it can.
RingHolds(r, h, all) ==
  /\ r = [buf |-> r.buf, head |-> r.head, count |-> r.count]
  /\ r.buf \in [0 .. h - 1 -> Snapshots] /\ r.head \in 0 .. h - 1
  /\ r.count = IF Len(all) < h THEN Len(all) ELSE h
  /\ \A j \in 1 .. r.count : r.buf[Back(r.head, j, h)] = all[Len(all) - j + 1]

\* Its capacity.
LEMMA RingCapacity ==
  ASSUME NEW h \in Nat \ {0}, NEW r, NEW all, RingHolds(r, h, all)
  PROVE  Capacity(r) = h
<1>1. DOMAIN r.buf = 0 .. h - 1
  BY DEF RingHolds
<1>2. Cardinality(0 .. h - 1) = h
  <2>1. 0 \in Int /\ h - 1 \in Int
    OBVIOUS
  <2>2. Cardinality(0 .. h - 1) = IF 0 > h - 1 THEN 0 ELSE (h - 1) - 0 + 1
    BY <2>1, FS_Interval
  <2> QED
    BY <2>2
<1> QED
  BY <1>1, <1>2 DEF Capacity

\* A new snapshot takes the place of the oldest one if there is no other.
LEMMA AddKeepsNewest ==
  ASSUME NEW h \in Nat \ {0}, NEW r, NEW all \in Seq(Snapshots), RingHolds(r, h, all),
         NEW s \in Snapshots
  PROVE  RingHolds(AddSnapshot(r, s), h, Append(all, s))
<1> DEFINE next == AddSnapshot(r, s)
           more == Append(all, s)
           n == Len(all)
<1>1. n \in Nat /\ Len(more) = n + 1 /\ more[n + 1] = s /\ \A i \in 1 .. n : more[i] = all[i]
  BY AppendProperties, LenProperties
<1>2. /\ r.buf \in [0 .. h - 1 -> Snapshots] /\ r.head \in 0 .. h - 1
      /\ r.count = IF n < h THEN n ELSE h
      /\ \A j \in 1 .. r.count : r.buf[Back(r.head, j, h)] = all[n - j + 1]
  BY DEF RingHolds
<1>3. Capacity(r) = h
  BY RingCapacity
<1>4. next = [buf |-> [r.buf EXCEPT ![r.head] = s], head |-> (r.head + 1) % h,
              count |-> Min({r.count + 1, h})]
  BY <1>3 DEF AddSnapshot
<1>5. (r.head + 1) % h = IF r.head + 1 < h THEN r.head + 1 ELSE 0
  <2> DEFINE a == r.head + 1
  <2>1. a \in 0 .. 2 * h - 1
    BY <1>2
  <2> HIDE DEF a
  <2>2. a % h = IF a < h THEN a ELSE a - h
    BY <2>1, ModTwice
  <2> QED
    BY <1>2, <2>2 DEF a
<1>6. Min({r.count + 1, h}) = IF n + 1 < h THEN n + 1 ELSE h
  <2>1. CASE r.count + 1 <= h
    <3>1. Min({r.count + 1, h}) = r.count + 1
      <4>1. r.count + 1 \in Nat
        BY <1>1, <1>2
      <4> QED
        BY <2>1, <4>1, MinOfTwo
    <3> QED
      BY <1>1, <1>2, <2>1, <3>1
  <2>2. CASE ~(r.count + 1 <= h)
    <3>1. Min({h, r.count + 1}) = h
      <4>1. r.count + 1 \in Nat /\ h <= r.count + 1
        BY <1>1, <1>2, <2>2
      <4> QED
        BY <4>1, MinOfTwo
    <3>2. {h, r.count + 1} = {r.count + 1, h}
      OBVIOUS
    <3>3. ~(n + 1 < h)
      BY <1>1, <1>2, <2>2
    <3>4. (IF n + 1 < h THEN n + 1 ELSE h) = h
      BY <3>3
    <3> QED
      BY <3>1, <3>2, <3>4
  <2> QED
    BY <2>1, <2>2
<1> HIDE DEF next, more, n
<1>7. /\ next.buf = [r.buf EXCEPT ![r.head] = s]
      /\ next.head = IF r.head + 1 < h THEN r.head + 1 ELSE 0
      /\ next.count = IF n + 1 < h THEN n + 1 ELSE h
      /\ next = [buf |-> next.buf, head |-> next.head, count |-> next.count]
  BY <1>4, <1>5, <1>6
<1>8. next.buf \in [0 .. h - 1 -> Snapshots] /\ next.head \in 0 .. h - 1
  BY <1>2, <1>7
<1>9. ASSUME NEW j \in 1 .. next.count
      PROVE  next.buf[Back(next.head, j, h)] = more[(n + 1) - j + 1]
  <2>1. j \in 1 .. h /\ j <= n + 1
    BY <1>1, <1>7
  <2>2. CASE j = 1
    <3>1. Back(next.head, 1, h) = r.head
      BY <1>2, <1>7 DEF Back
    <3>2. (n + 1) - 1 + 1 = n + 1
      BY <1>1
    <3> QED
      BY <1>1, <1>2, <1>7, <2>2, <3>1, <3>2
  <2>3. CASE j # 1
    <3>1. j - 1 \in 1 .. r.count
      BY <1>1, <1>2, <1>7, <2>1, <2>3
    <3>2. Back(next.head, j, h) = Back(r.head, j - 1, h)
      BY <1>2, <1>7, <2>1, <2>3 DEF Back
    <3>3. Back(r.head, j - 1, h) \in 0 .. h - 1 /\ Back(r.head, j - 1, h) # r.head
      BY <1>2, <2>1, <2>3 DEF Back
    <3>4. next.buf[Back(r.head, j - 1, h)] = r.buf[Back(r.head, j - 1, h)]
      BY <1>2, <1>7, <3>3
    <3>5. r.buf[Back(r.head, j - 1, h)] = all[n - (j - 1) + 1]
      BY <1>2, <3>1
    <3>6. n - (j - 1) + 1 = (n + 1) - j + 1 /\ (n + 1) - j + 1 \in 1 .. n
      BY <1>1, <2>1, <2>3
    <3> QED
      BY <1>1, <3>2, <3>4, <3>5, <3>6
  <2> QED
    BY <2>2, <2>3
<1>10. RingHolds(next, h, more)
  BY <1>1, <1>7, <1>8, <1>9 DEF RingHolds
<1> QED
  BY <1>10 DEF next, more

\* What is read are the newest snapshots, oldest first.
LEMMA LastAreNewest ==
  ASSUME NEW h \in Nat \ {0}, NEW r, NEW all \in Seq(Snapshots), RingHolds(r, h, all), NEW n \in Nat
  PROVE  LET window == LastSnapshots(r, n)
             m == Len(window)
         IN /\ window = SubSeq(all, Len(all) - m + 1, Len(all))
            /\ m \in {n, h, Len(all)} /\ m <= n /\ m <= h /\ m <= Len(all) /\ m \in Nat
            /\ window \in Seq(Snapshots)
            /\ \A i \in 1 .. m : window[i] = all[Len(all) - m + i]
<1> DEFINE m == Min({n, r.count})
           start == (r.head - m + Capacity(r)) % Capacity(r)
           window == [i \in 1 .. m |-> r.buf[(start + i - 1) % Capacity(r)]]
           len == Len(all)
<1>1. len \in Nat
  BY LenProperties
<1>2. /\ r.buf \in [0 .. h - 1 -> Snapshots] /\ r.head \in 0 .. h - 1
      /\ r.count = IF len < h THEN len ELSE h
      /\ \A j \in 1 .. r.count : r.buf[Back(r.head, j, h)] = all[len - j + 1]
  BY DEF RingHolds
<1>3. Capacity(r) = h
  BY RingCapacity
<1>4. m = IF n <= r.count THEN n ELSE r.count
  <2>1. r.count \in Nat
    BY <1>1, <1>2
  <2>2. CASE n <= r.count
    BY <2>1, <2>2, MinOfTwo
  <2>3. CASE ~(n <= r.count)
    <3>1. Min({r.count, n}) = r.count
      BY <2>1, <2>3, MinOfTwo
    <3>2. {r.count, n} = {n, r.count}
      OBVIOUS
    <3> QED
      BY <2>3, <3>1, <3>2
  <2> QED
    BY <2>2, <2>3
<1> HIDE DEF len
<1>5. m \in Nat /\ m <= n /\ m <= r.count /\ m <= h /\ m <= len /\ m \in {n, h, len}
  BY <1>1, <1>2, <1>4
<1> HIDE DEF m
<1>6. start = IF m <= r.head THEN r.head - m ELSE r.head - m + h
  <2> DEFINE a == r.head - m + h
  <2>1. a \in 0 .. 2 * h - 1
    BY <1>2, <1>5
  <2> HIDE DEF a
  <2>2. a % h = IF a < h THEN a ELSE a - h
    BY <2>1, ModTwice
  <2> QED
    BY <1>2, <1>3, <1>5, <2>2 DEF a, start
<1> HIDE DEF start
<1>7. start \in 0 .. h - 1 /\ (start = r.head - m \/ start = r.head - m + h)
  BY <1>2, <1>5, <1>6
<1>8. ASSUME NEW i \in 1 .. m
      PROVE  window[i] = all[len - m + i] /\ len - m + i \in 1 .. len
  <2> DEFINE j == m - i + 1
  <2>1. j \in 1 .. r.count /\ j \in 1 .. m
    BY <1>1, <1>2, <1>5
  <2> DEFINE a == start + i - 1
  <2>2. a \in 0 .. 2 * h - 1
    BY <1>5, <1>7
  <2>3. a % h = Back(r.head, j, h)
    <3>1. a % h = IF a < h THEN a ELSE a - h
      <4> HIDE DEF a
      <4> QED
        BY <2>2, ModTwice
    <3>2. a % h \in 0 .. h - 1
      BY <2>2, <3>1
    <3>3. r.head - j = a \/ r.head - j = a - h
      BY <1>2, <1>5, <1>7
    <3> DEFINE d == r.head - j
               k == a % h
    <3>4. d \in Int /\ d < h
      BY <1>2, <1>5
    <3>5. a \in Int
      BY <2>2
    <3> HIDE DEF a, d, k
    <3>6. d = k \/ d = k - h
      BY <3>1, <3>3, <3>4, <3>5 DEF d, k
    <3>7. k = r.head - j \/ k = r.head - j + h
      BY <1>2, <1>5, <3>2, <3>6 DEF d, k
    <3>8. k = Back(r.head, j, h)
      BY <1>2, <1>5, <3>2, <3>7 DEF Back, k
    <3> QED
      BY <3>8 DEF k
  <2>4. window[i] = r.buf[Back(r.head, j, h)]
    BY <1>3, <2>3
  <2>5. len - j + 1 = len - m + i
    BY <1>1, <1>5
  <2>6. len - m + i \in 1 .. len
    BY <1>1, <1>5
  <2> HIDE DEF j, window
  <2> QED
    BY <1>2, <2>1, <2>4, <2>5, <2>6
<1>9. ASSUME NEW i \in 1 .. m PROVE all[len - m + i] \in Snapshots
  BY <1>8, ElementOfSeq DEF len
<1>10. DOMAIN window = 1 .. m /\ window = [i \in 1 .. m |-> window[i]]
  OBVIOUS
<1> HIDE DEF window
<1>11. window = [i \in 1 .. m |-> all[len - m + i]]
  BY <1>8, <1>10
<1>12. window \in Seq(Snapshots) /\ Len(window) = m
  <2>1. window \in [1 .. m -> Snapshots]
    BY <1>9, <1>11
  <2> QED
    BY <1>5, <2>1
<1>13. window = SubSeq(all, len - m + 1, len)
  <2> DEFINE sub == SubSeq(all, len - m + 1, len)
  <2>1. /\ sub \in Seq(Snapshots)
        /\ Len(sub) = IF len - m + 1 <= len THEN len - (len - m + 1) + 1 ELSE 0
        /\ \A i \in 1 .. len - (len - m + 1) + 1 : sub[i] = all[(len - m + 1) + i - 1]
    <3>1. len - m + 1 \in Int /\ len \in Int
      BY <1>1, <1>5
    <3>2. \A i \in len - m + 1 .. len : all[i] \in Snapshots
      <4>1. \A i \in len - m + 1 .. len : i \in 1 .. len
        BY <1>1, <1>5
      <4> QED
        BY <4>1, ElementOfSeq DEF len
    <3> QED
      BY <3>1, <3>2, SubSeqProperties
  <2> HIDE DEF sub
  <2>2. Len(sub) = m /\ \A i \in 1 .. m : sub[i] = all[len - m + i]
    BY <1>1, <1>5, <2>1
  <2>3. sub = window
    BY <1>8, <1>12, <2>1, <2>2, SeqEqual
  <2> QED
    BY <2>3 DEF sub
<1>14. LastSnapshots(r, n) = window
  BY DEF LastSnapshots, window, start, m
<1> QED
  BY <1>5, <1>8, <1>12, <1>13, <1>14 DEF len


\* A ring that snapshots are added to, one after the other, holds the newest of them.
LEMMA RingOfHolds ==
  ASSUME NEW capacity \in Int, NEW none \in Snapshots, NEW s \in Seq(Snapshots)
  PROVE  LET h == IF capacity < 1 THEN 1 ELSE capacity
         IN RingHolds(RingOf(capacity, none, s), h, s)
<1> DEFINE h == IF capacity < 1 THEN 1 ELSE capacity
           n == Len(s)
           base == NewRing(capacity, none)
           Rings == [buf : [0 .. h - 1 -> Snapshots], head : 0 .. h - 1, count : Nat]
           A == {r \in Rings : \E q \in Seq(Snapshots) : RingHolds(r, h, q)}
           after[i \in 0 .. Len(s)] ==
             IF i = 0 THEN NewRing(capacity, none) ELSE AddSnapshot(after[i - 1], s[i])
           step == [i \in 0 .. n |-> [a \in A |-> AddSnapshot(a, s[i])]]
           First(i) == [j \in 1 .. i |-> s[j]]
<1>1. h \in Nat \ {0} /\ n \in Nat /\ \A i \in 1 .. n : s[i] \in Snapshots
  BY LenProperties, ElementOfSeq
<1>2. base = [buf |-> [i \in 0 .. h - 1 |-> none], head |-> 0, count |-> 0]
  BY DEF NewRing
<1> HIDE DEF h, n, base
<1>3. ASSUME NEW r, NEW q \in Seq(Snapshots), RingHolds(r, h, q) PROVE r \in Rings
  <2>1. Len(q) \in Nat
    BY LenProperties
  <2>2. r.count \in Nat
    BY <1>1, <1>3, <2>1 DEF RingHolds
  <2> QED
    BY <1>3, <2>2 DEF RingHolds
<1> HIDE DEF Rings
<1>4. RingHolds(base, h, <<>>) /\ <<>> \in Seq(Snapshots)
  <2>1. <<>> \in Seq(Snapshots) /\ Len(<<>>) = 0
    BY EmptySeq
  <2>2. base.buf \in [0 .. h - 1 -> Snapshots] /\ base.head \in 0 .. h - 1 /\ base.count = 0
    BY <1>1, <1>2
  <2>3. 1 .. 0 = {}
    OBVIOUS
  <2>4. 0 < h
    BY <1>1
  <2> QED
    BY <1>2, <2>1, <2>2, <2>3, <2>4 DEF RingHolds
<1>5. base \in A
  BY <1>3, <1>4
<1>6. ASSUME NEW i \in 0 .. n, NEW a \in A, i # 0 PROVE AddSnapshot(a, s[i]) \in A
  <2>1. PICK q \in Seq(Snapshots) : RingHolds(a, h, q)
    OBVIOUS
  <2>2. s[i] \in Snapshots
    BY <1>1, <1>6
  <2>3. RingHolds(AddSnapshot(a, s[i]), h, Append(q, s[i]))
    BY <1>1, <2>1, <2>2, AddKeepsNewest
  <2>4. Append(q, s[i]) \in Seq(Snapshots)
    BY <2>1, <2>2, AppendProperties
  <2> QED
    BY <1>3, <2>3, <2>4
<1> HIDE DEF A
<1>7. after = [i \in 0 .. n |-> IF i = 0 THEN base ELSE AddSnapshot(after[i - 1], s[i])]
  <2>1. \A i \in 0 .. n, a \in A : i # 0 => step[i][a] = AddSnapshot(a, s[i]) /\ step[i][a] \in A
    BY <1>6
  <2> HIDE DEF step
  <2>2. PICK f : Stepwise(f, 0, n, A, base, step)
    <3>1. 0 \in Nat /\ n \in Nat /\ 0 <= n
      BY <1>1
    <3>2. \A i \in 0 .. n, a \in A : i # 0 => step[i][a] \in A
      BY <2>1
    <3> QED
      BY <1>5, <3>1, <3>2, Recursion
  <2>3. ASSUME NEW i \in 0 .. n
        PROVE  f[i] = IF i = 0 THEN base ELSE AddSnapshot(f[i - 1], s[i])
    <3>1. CASE i = 0
      BY <2>2, <3>1 DEF Stepwise
    <3>2. CASE i # 0
      <4>1. i - 1 \in 0 .. n
        BY <1>1, <3>2
      <4> QED
        BY <2>1, <2>2, <3>2, <4>1 DEF Stepwise
    <3> QED
      BY <3>1, <3>2
  <2>4. f = [i \in 0 .. n |-> f[i]]
    BY <2>2 DEF Stepwise
  <2>5. f = [i \in 0 .. n |-> IF i = 0 THEN base ELSE AddSnapshot(f[i - 1], s[i])]
    BY <2>3, <2>4
  <2>6. \E g : g = [i \in 0 .. n |-> IF i = 0 THEN base ELSE AddSnapshot(g[i - 1], s[i])]
    BY <2>5
  <2> QED
    BY <2>6, Zenon DEF n, base
<1> HIDE DEF after
<1> DEFINE T == {i \in 0 .. n : First(i) \in Seq(Snapshots) /\ RingHolds(after[i], h, First(i))}
<1>8. First(0) = <<>>
  <2>1. 1 .. 0 = {}
    OBVIOUS
  <2> QED
    BY <2>1
<1>9. 0 \in T
  <2>1. after[0] = base
    BY <1>1, <1>7
  <2>2. 0 \in 0 .. n
    BY <1>1
  <2> HIDE DEF First
  <2> QED
    BY <1>4, <1>8, <2>1, <2>2
<1>10. ASSUME NEW i \in 0 .. n, i \in T, i < n PROVE i + 1 \in T
  <2>1. i + 1 \in 0 .. n /\ i + 1 # 0 /\ (i + 1) - 1 = i /\ s[i + 1] \in Snapshots
    BY <1>1, <1>10
  <2>2. after[i + 1] = AddSnapshot(after[i], s[i + 1])
    BY <1>7, <2>1
  <2>3. First(i) \in Seq(Snapshots) /\ RingHolds(after[i], h, First(i))
    BY <1>10
  <2>4. First(i + 1) = Append(First(i), s[i + 1])
    <3>1. Len(First(i)) = i
      BY <1>1, <2>1
    <3> QED
      BY <1>1, <2>1, <3>1
  <2> HIDE DEF First
  <2>5. RingHolds(after[i + 1], h, First(i + 1))
    BY <1>1, <2>1, <2>2, <2>3, <2>4, AddKeepsNewest
  <2>6. First(i + 1) \in Seq(Snapshots)
    BY <2>1, <2>3, <2>4, AppendProperties
  <2> QED
    BY <2>1, <2>5, <2>6
<1> HIDE DEF T
<1>11. 0 .. n \subseteq T
  <2>1. 0 \in Nat
    OBVIOUS
  <2> QED
    BY <1>1, <1>9, <1>10, <2>1, IntervalInduction
<1>12. RingHolds(after[n], h, First(n))
  BY <1>1, <1>11 DEF T
<1>13. First(n) = s
  BY LenProperties DEF n
<1>14. RingOf(capacity, none, s) = after[n]
  BY DEF RingOf, after, n
<1> QED
  BY <1>12, <1>13, <1>14 DEF h


-----------------------------------------------------------------------------
(* The trend: a sum over pairs of snapshots, of which a score that never falls *)
(* makes each nonnegative.                                                     *)

\* The sums of the first values of a sequence of numbers.
Sums(T, f, n) ==
  /\ T \in [0 .. n -> Int]
  /\ T[0] = 0 /\ \A i \in 1 .. n : T[i] = T[i - 1] + f[i]

\* The total of n values is the last of them.
LEMMA TotalIsSum ==
  ASSUME NEW n \in Nat, NEW f \in [1 .. n -> Int]
  PROVE  \E T : Sums(T, f, n) /\ Total(f) = T[n]
<1> DEFINE sum[i \in 0 .. Len(f)] == IF i = 0 THEN 0 ELSE sum[i - 1] + f[i]
           step == [i \in 0 .. n |-> [a \in Int |-> a + f[i]]]
<1>1. Len(f) = n
  OBVIOUS
<1>2. sum = [i \in 0 .. n |-> IF i = 0 THEN 0 ELSE sum[i - 1] + f[i]]
  <2>1. \A i \in 0 .. n, a \in Int : i # 0 => step[i][a] = a + f[i] /\ step[i][a] \in Int
    OBVIOUS
  <2> HIDE DEF step
  <2>2. PICK g : Stepwise(g, 0, n, Int, 0, step)
    <3>1. 0 \in Nat /\ 0 <= n /\ 0 \in Int
      OBVIOUS
    <3>2. \A i \in 0 .. n, a \in Int : i # 0 => step[i][a] \in Int
      BY <2>1
    <3> QED
      BY <3>1, <3>2, Recursion
  <2>3. ASSUME NEW i \in 0 .. n PROVE g[i] = IF i = 0 THEN 0 ELSE g[i - 1] + f[i]
    <3>1. CASE i = 0
      BY <2>2, <3>1 DEF Stepwise
    <3>2. CASE i # 0
      <4>1. i - 1 \in 0 .. n
        BY <3>2
      <4> QED
        BY <2>1, <2>2, <3>2, <4>1 DEF Stepwise
    <3> QED
      BY <3>1, <3>2
  <2>4. g = [i \in 0 .. n |-> g[i]]
    BY <2>2 DEF Stepwise
  <2>5. g = [i \in 0 .. n |-> IF i = 0 THEN 0 ELSE g[i - 1] + f[i]]
    BY <2>3, <2>4
  <2>6. \E h : h = [i \in 0 .. n |-> IF i = 0 THEN 0 ELSE h[i - 1] + f[i]]
    BY <2>5
  <2>7. \E h : h = [i \in 0 .. Len(f) |-> IF i = 0 THEN 0 ELSE h[i - 1] + f[i]]
    BY <1>1, <2>6
  <2>8. sum = [i \in 0 .. Len(f) |-> IF i = 0 THEN 0 ELSE sum[i - 1] + f[i]]
    BY <2>7, Zenon
  <2> HIDE DEF sum
  <2> QED
    BY <1>1, <2>8
<1> HIDE DEF sum
<1>3. sum[0] = 0 /\ \A i \in 1 .. n : sum[i] = sum[i - 1] + f[i]
  <2>1. \A i \in 1 .. n : i \in 0 .. n /\ i # 0
    OBVIOUS
  <2>2. 0 \in 0 .. n
    OBVIOUS
  <2> QED
    BY <1>2, <2>1, <2>2
<1>4. \A i \in 0 .. n : sum[i] \in Int
  <2> DEFINE S == {i \in 0 .. n : sum[i] \in Int}
  <2>1. 0 \in S
    BY <1>3
  <2>2. ASSUME NEW i \in 0 .. n, i \in S, i < n PROVE i + 1 \in S
    <3>1. i + 1 \in 1 .. n /\ (i + 1) - 1 = i /\ f[i + 1] \in Int
      BY <2>2
    <3>2. sum[i + 1] = sum[i] + f[i + 1]
      BY <1>3, <3>1
    <3> QED
      BY <2>2, <3>1, <3>2
  <2> HIDE DEF S
  <2>3. 0 .. n \subseteq S
    <3>1. 0 \in Nat
      OBVIOUS
    <3> QED
      BY <2>1, <2>2, <3>1, IntervalInduction
  <2> QED
    BY <2>3 DEF S
<1>5. sum \in [0 .. n -> Int]
  BY <1>2, <1>4
<1>6. Total(f) = sum[n]
  BY <1>1 DEF Total, sum
<1> QED
  BY <1>3, <1>5, <1>6 DEF Sums

\* What one more point adds to the sum over the pairs, and to that of one point with
\* the others.
LEMMA OneMorePoint ==
  ASSUME NEW m \in Int, NEW x \in Int, NEW y \in Int, NEW a \in Int, NEW b \in Int,
         NEW sx \in Int, NEW sy \in Int, NEW sxy \in Int
  PROVE  /\ (m + 1) * (sxy + x * y) - (sx + x) * (sy + y)
              = (m * sxy - sx * sy) + (sxy - x * sy - y * sx + m * (x * y))
         /\ (sxy + a * b) - x * (sy + b) - y * (sx + a) + (m + 1) * (x * y)
              = (sxy - x * sy - y * sx + m * (x * y)) + (a - x) * (b - y)
OBVIOUS

\* The values 0, 1, 2, ... and their products with others.
Ticks(n) == [i \in 1 .. n |-> i - 1]
Products(n, a, b) == [i \in 1 .. n |-> a[i] * b[i]]

\* Scores that never fall have a slope of at least what their rise alone would give.
LEMMA RisingSlope ==
  ASSUME NEW n \in Nat, n >= 1, NEW Y \in [1 .. n -> Int], \A i \in 2 .. n : Y[i - 1] <= Y[i],
         NEW SX, Sums(SX, Ticks(n), n), NEW SY, Sums(SY, Y, n),
         NEW SXY, Sums(SXY, Products(n, Ticks(n), Y), n)
  PROVE  /\ 2 * (n * SXY[n] - SX[n] * SY[n]) >= (n * (n - 1)) * (Y[n] - Y[1])
         /\ Y[n] >= Y[1]
<1> DEFINE Pairs(m) == m * SXY[m] - SX[m] * SY[m]
           With(m, x, y) == SXY[m] - x * SY[m] - y * SX[m] + m * (x * y)
<1>1. ASSUME NEW m \in 0 .. n PROVE SX[m] \in Int /\ SY[m] \in Int /\ SXY[m] \in Int
  BY DEF Sums
<1>2. ASSUME NEW m \in 0 .. n, m < n
      PROVE  /\ Y[m + 1] \in Int /\ m + 1 \in 1 .. n /\ m \in Nat
             /\ SX[m + 1] = SX[m] + m /\ SY[m + 1] = SY[m] + Y[m + 1]
             /\ SXY[m + 1] = SXY[m] + m * Y[m + 1]
  <2>1. m + 1 \in 1 .. n /\ (m + 1) - 1 = m /\ m \in Nat
    BY <1>2
  <2>2. Ticks(n)[m + 1] = m
    BY <2>1 DEF Ticks
  <2>3. Products(n, Ticks(n), Y)[m + 1] = m * Y[m + 1]
    BY <2>1, <2>2 DEF Products
  <2> QED
    BY <2>1, <2>2, <2>3 DEF Sums
<1>3. SX[0] = 0 /\ SY[0] = 0 /\ SXY[0] = 0
  BY DEF Sums
<1>4. SX[1] = 0 /\ SY[1] = Y[1] /\ SXY[1] = 0
  <2>1. 0 \in 0 .. n /\ 0 < n /\ 0 + 1 = 1
    OBVIOUS
  <2>2. Y[1] \in Int /\ SX[1] = SX[0] + 0 /\ SY[1] = SY[0] + Y[1] /\ SXY[1] = SXY[0] + 0 * Y[1]
    BY <1>2, <2>1
  <2> QED
    BY <1>3, <2>2
<1>5. \A m \in 1 .. n : \A i \in 1 .. m : Y[i] <= Y[m]
  <2> DEFINE S == {m \in 1 .. n : \A i \in 1 .. m : Y[i] <= Y[m]}
  <2>1. 1 \in S
    OBVIOUS
  <2>2. ASSUME NEW m \in 1 .. n, m \in S, m < n PROVE m + 1 \in S
    <3>1. m + 1 \in 2 .. n /\ (m + 1) - 1 = m
      BY <2>2
    <3>2. Y[m] <= Y[m + 1]
      BY <3>1
    <3>3. ASSUME NEW i \in 1 .. m + 1 PROVE Y[i] <= Y[m + 1]
      <4>1. CASE i = m + 1
        BY <3>1, <4>1
      <4>2. CASE i # m + 1
        <5>1. i \in 1 .. m /\ Y[i] \in Int /\ Y[m] \in Int /\ Y[m + 1] \in Int
          BY <3>1, <4>2
        <5>2. Y[i] <= Y[m]
          BY <2>2, <5>1
        <5> QED
          BY <3>2, <5>1, <5>2
      <4> QED
        BY <4>1, <4>2
    <3> QED
      BY <3>1, <3>3
  <2> HIDE DEF S
  <2>3. 1 .. n \subseteq S
    <3>1. 1 \in Nat
      OBVIOUS
    <3> QED
      BY <2>1, <2>2, <3>1, IntervalInduction
  <2> QED
    BY <2>3 DEF S
<1>6. ASSUME NEW m \in 1 .. n, m < n
      PROVE  2 * With(m, m, Y[m + 1]) >= (m * (m + 1)) * (Y[m + 1] - Y[m]) + (2 * m) * (Y[m] - Y[1])
  <2> DEFINE y == Y[m + 1]
             z == Y[m]
             w == Y[1]
             S == {j \in 1 .. m : 2 * With(j, m, y) >= (j * (2 * m + 1 - j)) * (y - z) + (2 * m) * (z - w)}
  <2>1. y \in Int /\ z \in Int /\ w \in Int /\ m \in Nat
    BY <1>6
  <2>2. 1 \in S
    <3>1. With(1, m, y) = 0 - m * w - y * 0 + 1 * (m * y)
      BY <1>4
    <3> HIDE DEF y, z, w, With
    <3>2. 2 * With(1, m, y) = (1 * (2 * m + 1 - 1)) * (y - z) + (2 * m) * (z - w)
      BY <2>1, <3>1
    <3>3. 1 \in 1 .. m
      BY <1>6
    <3> QED
      BY <2>1, <3>2, <3>3
  <2>3. ASSUME NEW j \in 1 .. m, j \in S, j < m PROVE j + 1 \in S
    <3> DEFINE b == Y[j + 1]
    <3>1. j \in 0 .. n /\ j < n /\ j \in Nat /\ j + 1 \in 1 .. m
      BY <1>6, <2>3
    <3>2. /\ b \in Int /\ SX[j + 1] = SX[j] + j /\ SY[j + 1] = SY[j] + b /\ SXY[j + 1] = SXY[j] + j * b
          /\ SX[j] \in Int /\ SY[j] \in Int /\ SXY[j] \in Int
      BY <1>1, <1>2, <3>1
    <3>3. b <= z
      BY <1>5, <1>6, <3>1
    <3> DEFINE sx == SX[j]
               sy == SY[j]
               sxy == SXY[j]
               now == With(j, m, y)
               next == With(j + 1, m, y)
    <3>4. /\ now = sxy - m * sy - y * sx + j * (m * y)
          /\ next = (sxy + j * b) - m * (sy + b) - y * (sx + j) + (j + 1) * (m * y)
          /\ sx \in Int /\ sy \in Int /\ sxy \in Int
      BY <3>2
    <3>5. 2 * now >= (j * (2 * m + 1 - j)) * (y - z) + (2 * m) * (z - w)
      BY <2>3
    <3> HIDE DEF y, z, w, b, sx, sy, sxy, now, next
    <3>6. next = now + (j - m) * (b - y) /\ now \in Int
      BY <2>1, <3>1, <3>2, <3>4, OneMorePoint
    <3>7. (j - m) * (b - y) >= (m - j) * (y - z)
      <4>1. (j - m) * (b - y) = (m - j) * (y - z) + (m - j) * (z - b)
        BY <2>1, <3>1, <3>2
      <4>2. m - j >= 0 /\ z - b >= 0 /\ m - j \in Int /\ z - b \in Int
        BY <2>1, <2>3, <3>1, <3>2, <3>3
      <4>3. (m - j) * (z - b) >= 0
        BY <4>2
      <4>4. (m - j) * (y - z) \in Int /\ (m - j) * (z - b) \in Int
        BY <2>1, <3>1, <3>2
      <4> QED
        BY <4>1, <4>3, <4>4
    <3> DEFINE p == (j * (2 * m + 1 - j)) * (y - z)
               q == (m - j) * (y - z)
               r == (2 * m) * (z - w)
               t == (j - m) * (b - y)
    <3>8. ((j + 1) * (2 * m + 1 - (j + 1))) * (y - z) = p + 2 * q
      BY <2>1, <3>1
    <3>9. p \in Int /\ q \in Int /\ r \in Int /\ t \in Int
      BY <2>1, <3>1, <3>2
    <3>10. 2 * next >= ((j + 1) * (2 * m + 1 - (j + 1))) * (y - z) + r
      <4>1. 2 * now >= p + r /\ next = now + t /\ t >= q
        BY <3>5, <3>6, <3>7
      <4> HIDE DEF p, q, r, t
      <4>2. 2 * next >= (p + 2 * q) + r
        BY <3>6, <3>9, <4>1
      <4> QED
        BY <3>8, <4>2
    <3> QED
      BY <3>1, <3>10 DEF next
  <2> HIDE DEF S
  <2>4. 1 .. m \subseteq S
    <3>1. 1 \in Nat
      OBVIOUS
    <3> QED
      BY <2>1, <2>2, <2>3, <3>1, IntervalInduction
  <2>5. m \in S
    BY <1>6, <2>4
  <2> HIDE DEF With, y, z, w
  <2>6. 2 * With(m, m, y) >= (m * (2 * m + 1 - m)) * (y - z) + (2 * m) * (z - w)
    BY <2>5 DEF S
  <2>7. 2 * m + 1 - m = m + 1
    BY <2>1
  <2> QED
    BY <2>6, <2>7 DEF y, z, w
<1> DEFINE S == {m \in 1 .. n : 2 * Pairs(m) >= (m * (m - 1)) * (Y[m] - Y[1])}
<1>7. 1 \in S
  <2>1. Pairs(1) = 1 * 0 - 0 * Y[1] /\ Y[1] \in Int /\ 1 \in 1 .. n
    BY <1>4
  <2> HIDE DEF Pairs
  <2> QED
    BY <2>1
<1>8. ASSUME NEW m \in 1 .. n, m \in S, m < n PROVE m + 1 \in S
  <2> DEFINE y == Y[m + 1]
             z == Y[m]
             w == Y[1]
  <2>1. m \in 0 .. n /\ m \in Nat /\ y \in Int /\ z \in Int /\ w \in Int /\ m + 1 \in 1 .. n
    BY <1>8
  <2> DEFINE sx == SX[m]
             sy == SY[m]
             sxy == SXY[m]
             now == Pairs(m)
             next == Pairs(m + 1)
             more == With(m, m, y)
  <2>2. /\ now = m * sxy - sx * sy
        /\ more = sxy - m * sy - y * sx + m * (m * y)
        /\ next = (m + 1) * (sxy + m * y) - (sx + m) * (sy + y)
        /\ sx \in Int /\ sy \in Int /\ sxy \in Int
    BY <1>1, <1>2, <1>8, <2>1
  <2>3. 2 * more >= (m * (m + 1)) * (y - z) + (2 * m) * (z - w)
    BY <1>6, <1>8
  <2>4. 2 * now >= (m * (m - 1)) * (z - w)
    BY <1>8
  <2> HIDE DEF y, z, w, sx, sy, sxy, now, next, more
  <2>5. next = now + more /\ now \in Int /\ more \in Int
    BY <2>1, <2>2, OneMorePoint
  <2> DEFINE p == (m * (m - 1)) * (z - w)
             q == (m * (m + 1)) * (y - z)
             r == (2 * m) * (z - w)
  <2>6. p + (q + r) = ((m + 1) * ((m + 1) - 1)) * (y - w)
    BY <2>1
  <2>7. p \in Int /\ q \in Int /\ r \in Int
    BY <2>1
  <2>8. 2 * now >= p /\ 2 * more >= q + r
    BY <2>3, <2>4
  <2> HIDE DEF p, q, r
  <2>9. 2 * next >= ((m + 1) * ((m + 1) - 1)) * (y - w)
    BY <2>5, <2>6, <2>7, <2>8
  <2> QED
    BY <2>1, <2>9 DEF y, w, next
<1> HIDE DEF S
<1>9. 1 .. n \subseteq S
  <2>1. 1 \in Nat
    OBVIOUS
  <2> QED
    BY <1>7, <1>8, <2>1, IntervalInduction
<1>10. n \in S
  BY <1>9
<1>11. Y[1] <= Y[n] /\ Y[1] \in Int /\ Y[n] \in Int
  <2>1. n \in 1 .. n /\ 1 \in 1 .. n
    OBVIOUS
  <2> QED
    BY <1>5, <2>1
<1> QED
  BY <1>10, <1>11 DEF S


\* What the times of consecutive checks spread.
LEMMA SpreadOfTicks ==
  ASSUME NEW n \in Nat, NEW SX, Sums(SX, Ticks(n), n),
         NEW SXX, Sums(SXX, Products(n, Ticks(n), Ticks(n)), n)
  PROVE  12 * (n * SXX[n] - SX[n] * SX[n]) = (n * (n - 1)) * (n * (n + 1))
<1> DEFINE S == {m \in 0 .. n : /\ 2 * SX[m] = m * (m - 1)
                                /\ 6 * SXX[m] = (m * (m - 1)) * (2 * m - 1)}
<1>1. ASSUME NEW m \in 0 .. n PROVE SX[m] \in Int /\ SXX[m] \in Int
  BY DEF Sums
<1>2. 0 \in S
  <2>1. SX[0] = 0 /\ SXX[0] = 0 /\ 0 \in 0 .. n
    BY DEF Sums
  <2> QED
    BY <2>1
<1>3. ASSUME NEW m \in 0 .. n, m \in S, m < n PROVE m + 1 \in S
  <2> DEFINE sx == SX[m]
             sxx == SXX[m]
  <2>1. m + 1 \in 1 .. n /\ (m + 1) - 1 = m /\ m \in Nat /\ m + 1 \in 0 .. n
    BY <1>3
  <2>2. Ticks(n)[m + 1] = m
    BY <2>1 DEF Ticks
  <2>3. Products(n, Ticks(n), Ticks(n))[m + 1] = m * m
    BY <2>1, <2>2 DEF Products
  <2>4. SX[m + 1] = sx + m /\ SXX[m + 1] = sxx + m * m /\ sx \in Int /\ sxx \in Int
    BY <1>1, <2>1, <2>2, <2>3 DEF Sums
  <2>5. 2 * sx = m * (m - 1) /\ 6 * sxx = (m * (m - 1)) * (2 * m - 1)
    BY <1>3
  <2> HIDE DEF sx, sxx
  <2>6. 2 * (sx + m) = (m + 1) * ((m + 1) - 1)
    BY <2>1, <2>4, <2>5
  <2>7. 6 * (sxx + m * m) = ((m + 1) * ((m + 1) - 1)) * (2 * (m + 1) - 1)
    BY <2>1, <2>4, <2>5
  <2> QED
    BY <2>1, <2>4, <2>6, <2>7
<1> HIDE DEF S
<1>4. 0 .. n \subseteq S
  <2>1. 0 \in Nat
    OBVIOUS
  <2> QED
    BY <1>2, <1>3, <2>1, IntervalInduction
<1>5. n \in S /\ n \in 0 .. n
  BY <1>4
<1> DEFINE sx == SX[n]
           sxx == SXX[n]
<1>6. 2 * sx = n * (n - 1) /\ 6 * sxx = (n * (n - 1)) * (2 * n - 1) /\ sx \in Int /\ sxx \in Int
  BY <1>1, <1>5 DEF S
<1> HIDE DEF sx, sxx
<1>7. 12 * (n * sxx) = 2 * (n * (6 * sxx)) /\ 12 * (sx * sx) = 3 * ((2 * sx) * (2 * sx))
  BY <1>6
<1>8. 12 * (n * sxx - sx * sx)
        = 2 * (n * ((n * (n - 1)) * (2 * n - 1))) - 3 * ((n * (n - 1)) * (n * (n - 1)))
  BY <1>6, <1>7
<1>9. 2 * (n * ((n * (n - 1)) * (2 * n - 1))) - 3 * ((n * (n - 1)) * (n * (n - 1)))
        = (n * (n - 1)) * (n * (n + 1))
  OBVIOUS
<1> QED
  BY <1>8, <1>9 DEF sx, sxx

\* A rise by 50 points is steep enough for a trend, over as many checks as are looked at.
LEMMA SteepEnough ==
  ASSUME NEW n \in MinDataPoints .. TrendWindow, NEW num \in Int, NEW denom \in Int,
         NEW rise \in Int, 2 * num >= (n * (n - 1)) * rise, rise >= 50,
         12 * denom = (n * (n - 1)) * (n * (n + 1))
  PROVE  denom > 0 /\ num > 0 /\ 2 * TicksPerHour * num >= denom
<1> DEFINE k == n * (n - 1)
           l == n * (n + 1)
<1>1. n \in 5 .. 50
  BY DEF MinDataPoints, TrendWindow
<1>2. k \in Nat /\ k >= 20
  <2>1. k = 4 * n + n * (n - 5) /\ n * (n - 5) >= 0 /\ n * (n - 5) \in Int
    BY <1>1
  <2> QED
    BY <1>1, <2>1
<1>3. l \in Nat /\ l > 0 /\ l <= 2550
  <2>1. n * n <= 50 * n /\ n * n \in Int /\ n * n >= 0
    BY <1>1
  <2>2. l = n * n + n
    BY <1>1
  <2> QED
    BY <1>1, <2>1, <2>2
<1> HIDE DEF k, l
<1>4. 12 * denom = k * l /\ 2 * num >= k * rise
  BY DEF k, l
<1>5. k * l > 0 /\ k * l <= k * 2550 /\ k * rise >= k * 50 /\ k * l \in Int /\ k * rise \in Int
  BY <1>2, <1>3
<1>6. denom > 0 /\ 12 * denom <= 2550 * k /\ 2 * num >= 50 * k
  BY <1>2, <1>4, <1>5
<1> QED
  BY <1>2, <1>6 DEF TicksPerHour

\* The direction of a trend over consecutive checks.
LEMMA DirectionFollows ==
  ASSUME NEW w \in Seq(Snapshots), Len(w) >= MinDataPoints, Len(w) <= TrendWindow,
         \A i \in 1 .. Len(w) : w[i].time - w[1].time = i - 1
  PROVE  LET direction == TrendDirection(w)
             rise == w[Len(w)].score - w[1].score
         IN /\ Rising(w) => direction # "degrading"
            /\ Rising(w) /\ rise >= 50 => direction = "improving"
            /\ Falling(w) => direction # "improving"
            /\ Falling(w) /\ rise <= -50 => direction = "degrading"
<1> DEFINE n == Len(w)
           X == [i \in 1 .. n |-> w[i].time - w[1].time]
           Y == [i \in 1 .. n |-> w[i].score]
           XY == Products(n, Ticks(n), Y)
           XX == Products(n, Ticks(n), Ticks(n))
<1>1. n \in MinDataPoints .. TrendWindow /\ n \in Nat /\ n >= 1 /\ n \in 1 .. n /\ 1 \in 1 .. n
  <2>1. Len(w) \in Nat
    BY LenProperties
  <2>2. n >= 5 /\ n <= 50 /\ MinDataPoints = 5 /\ TrendWindow = 50
    BY DEF MinDataPoints, TrendWindow
  <2>3. n \in Nat
    BY <2>1
  <2> HIDE DEF n
  <2> QED
    BY <2>2, <2>3
<1>2. \A i \in 1 .. n : w[i].score \in Int
  <2>1. \A i \in 1 .. n : w[i] \in Snapshots
    BY ElementOfSeq
  <2> QED
    BY <2>1 DEF Snapshots
<1>3. X = Ticks(n) /\ Ticks(n) \in [1 .. n -> Int]
  BY <1>1 DEF Ticks
<1>4. Y \in [1 .. n -> Int]
  BY <1>2
<1> HIDE DEF n, X, Y
<1>5. XY \in [1 .. n -> Int] /\ XX \in [1 .. n -> Int]
  <2>1. \A i \in 1 .. n : Ticks(n)[i] \in Int /\ Y[i] \in Int
    BY <1>3, <1>4
  <2> QED
    BY <2>1 DEF Products
<1>6. PICK SX, SY, SXY, SXX : /\ Sums(SX, Ticks(n), n) /\ Total(Ticks(n)) = SX[n]
                              /\ Sums(SY, Y, n) /\ Total(Y) = SY[n]
                              /\ Sums(SXY, XY, n) /\ Total(XY) = SXY[n]
                              /\ Sums(SXX, XX, n) /\ Total(XX) = SXX[n]
  <2> HIDE DEF XY, XX
  <2>1. \E T : Sums(T, Ticks(n), n) /\ Total(Ticks(n)) = T[n]
    BY <1>1, <1>3, TotalIsSum
  <2>2. \E T : Sums(T, Y, n) /\ Total(Y) = T[n]
    BY <1>1, <1>4, TotalIsSum
  <2>3. \E T : Sums(T, XY, n) /\ Total(XY) = T[n]
    BY <1>1, <1>5, TotalIsSum
  <2>4. \E T : Sums(T, XX, n) /\ Total(XX) = T[n]
    BY <1>1, <1>5, TotalIsSum
  <2> QED
    BY <2>1, <2>2, <2>3, <2>4
<1> DEFINE num == n * SXY[n] - SX[n] * SY[n]
           denom == n * SXX[n] - SX[n] * SX[n]
           rise == Y[n] - Y[1]
<1>7. Regression(w) = [num |-> num, denom |-> denom]
  <2>1. Regression(w) = [num   |-> n * Total(Products(n, X, Y)) - Total(X) * Total(Y),
                         denom |-> n * Total(Products(n, X, X)) - Total(X) * Total(X)]
    BY Zenon DEF Regression, Products, n, X, Y
  <2> QED
    BY <1>3, <1>6, <2>1
<1>8. SX[n] \in Int /\ SY[n] \in Int /\ SXY[n] \in Int /\ SXX[n] \in Int /\ Y[n] \in Int /\ Y[1] \in Int
  BY <1>1, <1>4, <1>6 DEF Sums
<1>9. /\ num \in Int /\ denom \in Int /\ rise \in Int
      /\ -num = n * (-SXY[n]) - SX[n] * (-SY[n]) /\ -rise = -Y[n] - (-Y[1])
  <2> DEFINE sx == SX[n]
             sy == SY[n]
             sxy == SXY[n]
             sxx == SXX[n]
             last == Y[n]
             first == Y[1]
  <2>1. sx \in Int /\ sy \in Int /\ sxy \in Int /\ sxx \in Int /\ last \in Int /\ first \in Int
    BY <1>8
  <2> HIDE DEF sx, sy, sxy, sxx, last, first
  <2>2. /\ n * sxy - sx * sy \in Int /\ n * sxx - sx * sx \in Int /\ last - first \in Int
        /\ -(n * sxy - sx * sy) = n * (-sxy) - sx * (-sy)
        /\ -(last - first) = -last - (-first)
    BY <1>1, <2>1
  <2> QED
    BY <2>2 DEF sx, sy, sxy, sxx, last, first
<1>10. 12 * denom = (n * (n - 1)) * (n * (n + 1))
  BY <1>1, <1>6, SpreadOfTicks
<1>11. Rising(w) => 2 * num >= (n * (n - 1)) * rise /\ rise >= 0
  <2> SUFFICES ASSUME Rising(w) PROVE 2 * num >= (n * (n - 1)) * rise /\ Y[n] >= Y[1]
    BY <1>8
  <2>1. \A i \in 2 .. n : Y[i - 1] <= Y[i]
    <3>1. \A i \in 2 .. n : i - 1 \in 1 .. n /\ i \in 1 .. n
      BY <1>1
    <3> QED
      BY <3>1 DEF Rising, Y, n
  <2> QED
    BY <1>1, <1>4, <1>6, <2>1, RisingSlope
<1>12. Falling(w) => 2 * (-num) >= (n * (n - 1)) * (-rise) /\ -rise >= 0
  <2> SUFFICES ASSUME Falling(w) PROVE 2 * (-num) >= (n * (n - 1)) * (-rise) /\ -rise >= 0
    OBVIOUS
  <2> DEFINE Z == [i \in 1 .. n |-> -Y[i]]
             SZ == [i \in 0 .. n |-> -SY[i]]
             SXZ == [i \in 0 .. n |-> -SXY[i]]
  <2>1. Z \in [1 .. n -> Int] /\ \A i \in 2 .. n : Z[i - 1] <= Z[i]
    <3>1. \A i \in 2 .. n : i - 1 \in 1 .. n /\ i \in 1 .. n
      BY <1>1
    <3>2. \A i \in 2 .. n : Y[i - 1] >= Y[i]
      BY <3>1 DEF Falling, Y, n
    <3>3. \A i \in 1 .. n : Y[i] \in Int
      BY <1>4
    <3> QED
      BY <3>1, <3>2, <3>3
  <2>2. Sums(SZ, Z, n)
    <3>1. SZ \in [0 .. n -> Int] /\ SZ[0] = 0
      <4>1. 0 \in 0 .. n /\ SY[0] = 0 /\ \A i \in 0 .. n : SY[i] \in Int
        BY <1>1, <1>6 DEF Sums
      <4>2. \A i \in 0 .. n : -SY[i] \in Int
        BY <4>1
      <4> QED
        BY <4>1, <4>2
    <3>2. ASSUME NEW i \in 1 .. n PROVE SZ[i] = SZ[i - 1] + Z[i]
      <4>1. i \in 0 .. n /\ i - 1 \in 0 .. n
        BY <1>1
      <4>2. SY[i] = SY[i - 1] + Y[i] /\ SY[i - 1] \in Int /\ Y[i] \in Int
        BY <1>4, <1>6, <4>1 DEF Sums
      <4> QED
        BY <4>1, <4>2
    <3> HIDE DEF SZ, Z
    <3> QED
      BY <3>1, <3>2 DEF Sums
  <2>3. Sums(SXZ, Products(n, Ticks(n), Z), n)
    <3>1. SXZ \in [0 .. n -> Int] /\ SXZ[0] = 0
      <4>1. 0 \in 0 .. n /\ SXY[0] = 0 /\ \A i \in 0 .. n : SXY[i] \in Int
        BY <1>1, <1>6 DEF Sums
      <4>2. \A i \in 0 .. n : -SXY[i] \in Int
        BY <4>1
      <4> QED
        BY <4>1, <4>2
    <3>2. ASSUME NEW i \in 1 .. n PROVE SXZ[i] = SXZ[i - 1] + Products(n, Ticks(n), Z)[i]
      <4>1. i \in 0 .. n /\ i - 1 \in 0 .. n
        BY <1>1
      <4>2. SXY[i] = SXY[i - 1] + XY[i] /\ SXY[i - 1] \in Int
        BY <1>6, <4>1 DEF Sums
      <4>3. XY[i] = Ticks(n)[i] * Y[i] /\ Products(n, Ticks(n), Z)[i] = Ticks(n)[i] * (-Y[i])
        BY DEF Products
      <4>4. Ticks(n)[i] \in Int /\ Y[i] \in Int
        BY <1>3, <1>4
      <4>5. Ticks(n)[i] * (-Y[i]) = -(Ticks(n)[i] * Y[i]) /\ Ticks(n)[i] * Y[i] \in Int
        BY <4>4
      <4> HIDE DEF XY, Z
      <4> QED
        BY <4>1, <4>2, <4>3, <4>5
    <3> HIDE DEF SXZ, Z
    <3> QED
      BY <3>1, <3>2 DEF Sums
  <2>4. SZ[n] = -SY[n] /\ SXZ[n] = -SXY[n] /\ Z[n] = -Y[n] /\ Z[1] = -Y[1]
    BY <1>1
  <2> HIDE DEF Z, SZ, SXZ
  <2>5. 2 * (n * SXZ[n] - SX[n] * SZ[n]) >= (n * (n - 1)) * (Z[n] - Z[1]) /\ Z[n] >= Z[1]
    BY <1>1, <1>6, <2>1, <2>2, <2>3, RisingSlope
  <2>6. n * SXZ[n] - SX[n] * SZ[n] = -num /\ Z[n] - Z[1] = -rise
    BY <1>9, <2>4
  <2>7. -rise >= 0
    BY <1>8, <2>4, <2>5
  <2> QED
    BY <2>5, <2>6, <2>7
<1>13. TrendDirection(w) = IF denom = 0 \/ 2 * TicksPerHour * (IF num < 0 THEN -num ELSE num) < denom
                           THEN "stable" ELSE IF num > 0 THEN "improving" ELSE "degrading"
  <2> DEFINE reg == Regression(w)
  <2>1. reg.num = num /\ reg.denom = denom
    BY <1>7
  <2> HIDE DEF reg, num, denom
  <2>2. TrendDirection(w) =
          IF reg.denom = 0 \/ 2 * TicksPerHour * (IF reg.num < 0 THEN -reg.num ELSE reg.num) < reg.denom
          THEN "stable" ELSE IF reg.num > 0 THEN "improving" ELSE "degrading"
    BY DEF TrendDirection, reg
  <2> QED
    BY <2>1, <2>2
<1>14. w[Len(w)].score - w[1].score = rise
  BY <1>1 DEF Y, n
<1> HIDE DEF num, denom, rise
<1> DEFINE k == n * (n - 1)
<1>15. k \in Nat
  <2>1. n - 1 >= 0
    BY <1>1
  <2> QED
    BY <1>1, <2>1
<1>16. \A r \in Int : r >= 0 => k * r >= 0
  BY <1>15
<1>17. (Rising(w) => num >= 0) /\ (Falling(w) => -num >= 0)
  <2>1. ASSUME Rising(w) PROVE num >= 0
    <3>1. k * rise >= 0 /\ 2 * num >= k * rise /\ k * rise \in Int
      BY <1>9, <1>11, <1>15, <1>16, <2>1
    <3> QED
      BY <1>9, <3>1
  <2>2. ASSUME Falling(w) PROVE -num >= 0
    <3>1. -rise \in Int
      BY <1>9
    <3>2. k * (-rise) >= 0 /\ 2 * (-num) >= k * (-rise) /\ k * (-rise) \in Int
      BY <1>12, <1>15, <1>16, <2>2, <3>1
    <3> QED
      BY <1>9, <3>2
  <2> QED
    BY <2>1, <2>2
<1>18. Rising(w) /\ rise >= 50 => denom > 0 /\ num > 0 /\ 2 * TicksPerHour * num >= denom
  BY <1>1, <1>9, <1>10, <1>11, SteepEnough
<1>19. Falling(w) /\ rise <= -50 => denom > 0 /\ -num > 0 /\ 2 * TicksPerHour * (-num) >= denom
  <2> DEFINE fall == -rise
             down == -num
  <2> SUFFICES ASSUME Falling(w), rise <= -50
               PROVE  denom > 0 /\ down > 0 /\ 2 * TicksPerHour * down >= denom
    OBVIOUS
  <2>1. fall \in Int /\ down \in Int /\ fall >= 50
    BY <1>9
  <2>2. 2 * down >= (n * (n - 1)) * fall
    BY <1>12
  <2> HIDE DEF fall, down
  <2> QED
    BY <1>1, <1>9, <1>10, <2>1, <2>2, SteepEnough
<1> HIDE DEF k
<1>20. denom >= 0
  <2>1. (n * (n - 1)) * (n * (n + 1)) >= 0
    <3>1. n * (n - 1) \in Nat /\ n * (n + 1) \in Nat
      BY <1>1, <1>15 DEF k
    <3> DEFINE l == n * (n + 1)
    <3>2. k \in Nat /\ l \in Nat
      BY <3>1 DEF k
    <3> HIDE DEF k, l
    <3>3. k * l >= 0
      BY <3>2
    <3> QED
      BY <3>3 DEF k, l
  <2>2. 12 * denom >= 0
    BY <1>10, <2>1
  <2> QED
    BY <1>9, <2>2
<1>21. ASSUME TrendDirection(w) = "improving" PROVE num > 0
  BY <1>9, <1>13, <1>21
<1>22. ASSUME TrendDirection(w) = "degrading" PROVE num < 0
  <2>1. ~(num > 0) /\ denom # 0 /\ ~(2 * TicksPerHour * (IF num < 0 THEN -num ELSE num) < denom)
    BY <1>13, <1>22
  <2>2. CASE num = 0
    <3>1. ~(2 * TicksPerHour * 0 < denom)
      BY <2>1, <2>2
    <3>2. denom < 0
      BY <1>9, <2>1, <3>1 DEF TicksPerHour
    <3> QED
      BY <1>9, <1>20, <3>2
  <2> QED
    BY <1>9, <2>1, <2>2
<1>23. Rising(w) /\ rise >= 50 => TrendDirection(w) = "improving"
  <2> SUFFICES ASSUME Rising(w), rise >= 50 PROVE TrendDirection(w) = "improving"
    OBVIOUS
  <2>1. denom > 0 /\ num > 0 /\ 2 * TicksPerHour * num >= denom
    BY <1>18
  <2>2. denom # 0 /\ ~(num < 0) /\ ~(2 * TicksPerHour * num < denom)
    BY <1>9, <2>1 DEF TicksPerHour
  <2> QED
    BY <1>13, <2>1, <2>2
<1>24. Falling(w) /\ rise <= -50 => TrendDirection(w) = "degrading"
  <2> SUFFICES ASSUME Falling(w), rise <= -50 PROVE TrendDirection(w) = "degrading"
    OBVIOUS
  <2>1. denom > 0 /\ -num > 0 /\ 2 * TicksPerHour * (-num) >= denom
    BY <1>19
  <2>2. denom # 0 /\ num < 0 /\ ~(num > 0) /\ ~(2 * TicksPerHour * (-num) < denom)
    BY <1>9, <2>1 DEF TicksPerHour
  <2> QED
    BY <1>13, <2>2
<1>25. (Rising(w) => TrendDirection(w) # "degrading") /\ (Falling(w) => TrendDirection(w) # "improving")
  BY <1>9, <1>17, <1>21, <1>22
<1> QED
  BY <1>14, <1>23, <1>24, <1>25

-----------------------------------------------------------------------------
(* The history: the ring buffer holds the newest of all snapshots, which were *)
(* recorded one after the other, each of an update that was shown.            *)

RingSize == IF HistorySize < 1 THEN 1 ELSE HistorySize

HistoryOK ==
  /\ published \in Seq(Snapshots)
  /\ \A i \in 1 .. Len(published) : published[i].time = i
  /\ RingHolds(ring, RingSize, published)
  /\ check.pc = "record" => latest.shown

\* The scores of earlier checks are in the ring buffer.
LEMMA HistoryStarts ==
  ASSUME Init
  PROVE  HistoryOK
<1>1. PICK start \in Starts :
        published = [i \in DOMAIN start.scores |-> Snapshot(i, start.scores[i], 100 - start.scores[i])]
  BY DEF Init
<1> DEFINE n == Len(start.scores)
<1>2. n \in Nat /\ DOMAIN start.scores = 1 .. n /\ \A i \in 1 .. n : start.scores[i] \in Int
  <2>1. start.scores \in Seq(Int)
    BY StartsAssumption
  <2> QED
    BY <2>1, LenProperties, ElementOfSeq
<1> HIDE DEF n
<1>3. published = [i \in 1 .. n |-> Snapshot(i, start.scores[i], 100 - start.scores[i])]
  BY <1>1, <1>2
<1>4. \A i \in 1 .. n : /\ Snapshot(i, start.scores[i], 100 - start.scores[i]) \in Snapshots
                        /\ Snapshot(i, start.scores[i], 100 - start.scores[i]).time = i
  BY <1>2 DEF Snapshot, Snapshots
<1>5. published \in [1 .. n -> Snapshots] /\ \A i \in 1 .. n : published[i].time = i
  BY <1>3, <1>4
<1>6. published \in Seq(Snapshots) /\ Len(published) = n
  BY <1>2, <1>5
<1>7. NoSnapshot \in Snapshots
  BY DEF NoSnapshot, Snapshot, Snapshots
<1>8. RingHolds(ring, RingSize, published)
  <2>1. ring = RingOf(HistorySize, NoSnapshot, published)
    BY DEF Init
  <2> QED
    BY <1>6, <1>7, <2>1, HistorySizeAssumption, RingOfHolds DEF RingSize
<1>9. check.pc # "record"
  BY DEF Init, Idle
<1> QED
  BY <1>5, <1>6, <1>8, <1>9 DEF HistoryOK

\* The numbers that a snapshot records.
LEMMA SummaryNumbers ==
  ASSUME NEW results, ResultsOK(results), NEW muted
  PROVE  Summary(results, muted).score \in Int /\ Summary(results, muted).issues \in Int
<1>1. Summary(results, muted).score \in Nat
  BY ScoreAgrees
<1>2. Summary(results, muted).issues = Sum(Succeeded(results), IssuesPer(results))
  BY SummaryFields
<1>3. Sum(Succeeded(results), IssuesPer(results)) \in Nat
  <2>1. IsFiniteSet(Succeeded(results))
    BY FS_Subset DEF ResultsOK, Succeeded
  <2>2. \A c \in Succeeded(results) : IssuesPer(results)[c] \in Nat
    BY FS_CardinalityType DEF ResultsOK, Fine, Succeeded, IssuesPer
  <2> QED
    BY <2>1, <2>2, SumType
<1> QED
  BY <1>1, <1>2, <1>3

\* A snapshot is recorded of the update that was published before.
LEMMA RecordAdds ==
  ASSUME IInv, HistoryOK, Record
  PROVE  HistoryOK'
<1> DEFINE s == Snapshot(Len(published) + 1, latest.summary.score, latest.summary.issues)
           n == Len(published)
<1>1. /\ ring' = AddSnapshot(ring, s) /\ published' = Append(published, s)
      /\ check.pc = "record" /\ check' = Idle
  BY DEF Record
<1>2. latest.shown
  BY <1>1 DEF HistoryOK
<1>3. latest # NoUpdate
  BY <1>2 DEF NoUpdate
<1>4. Computed(latest) /\ latest.summary = Summary(latest.results, latest.muted)
  BY <1>3 DEF IInv, LatestOK
<1>5. ResultsOK(latest.results)
  BY <1>4, RunFine DEF Computed, MetOK
<1>6. latest.summary.score \in Int /\ latest.summary.issues \in Int
  BY <1>4, <1>5, SummaryNumbers
<1>7. n \in Nat /\ published \in Seq(Snapshots) /\ RingHolds(ring, RingSize, published)
  BY LenProperties DEF HistoryOK
<1>8. s \in Snapshots /\ s.time = n + 1
  BY <1>6, <1>7 DEF Snapshot, Snapshots
<1> HIDE DEF s
<1>9. RingSize \in Nat \ {0}
  BY HistorySizeAssumption DEF RingSize
<1>10. RingHolds(ring', RingSize, published')
  BY <1>1, <1>7, <1>8, <1>9, AddKeepsNewest
<1>11. /\ published' \in Seq(Snapshots) /\ Len(published') = n + 1 /\ published'[n + 1] = s
       /\ \A i \in 1 .. n : published'[i] = published[i]
  BY <1>1, <1>7, <1>8, AppendProperties
<1>12. \A i \in 1 .. n + 1 : published'[i].time = i
  <2>1. \A i \in 1 .. n : published[i].time = i
    BY DEF HistoryOK
  <2>2. \A i \in 1 .. n + 1 : i \in 1 .. n \/ i = n + 1
    BY <1>7
  <2> QED
    BY <1>8, <1>11, <2>1, <2>2
<1>13. check'.pc # "record"
  BY <1>1 DEF Idle
<1>14. RingSize' = RingSize
  BY DEF RingSize
<1> HIDE DEF n
<1> QED
  BY <1>10, <1>11, <1>12, <1>13, <1>14 DEF HistoryOK

\* HistoryOK holds in every run, for any capacity and any scores before it.
THEOREM HistoryInvariance == Spec => []HistoryOK
<1>1. Init => HistoryOK
  BY HistoryStarts
<1>2. IInv /\ HistoryOK /\ [Next]_vars => HistoryOK'
  <2> SUFFICES ASSUME IInv, HistoryOK, [Next]_vars PROVE HistoryOK'
    OBVIOUS
  <2>1. ASSUME UNCHANGED <<ring, published>>, check'.pc = "record" => latest'.shown
        PROVE  HistoryOK'
    BY <2>1 DEF HistoryOK, RingSize
  <2>2. check.pc = "record" => latest.shown
    BY DEF HistoryOK
  <2>3. ASSUME NEW s, SetStates(s) PROVE HistoryOK'
    <3>1. check' = Observed(check, s) /\ UNCHANGED <<latest, ring, published>>
      BY <2>3 DEF SetStates
    <3>2. check'.pc = check.pc
      <4>1. CASE check.pc = "read"
        <5>1. check = [pc |-> "read", world |-> check.world, results |-> check.results,
                       groups |-> check.groups, hit |-> check.hit, active |-> check.active,
                       held |-> check.held, seen |-> check.seen]
          BY <4>1 DEF IInv, CheckOK
        <5>2. check' = [check EXCEPT !.held = @ \cap ActiveKeys(s), !.seen = @ \cup ActiveKeys(s)]
          BY <3>1, <4>1 DEF Observed
        <5> QED
          BY <5>1, <5>2
      <4>2. CASE check.pc # "read"
        BY <3>1, <4>2 DEF Observed
      <4> QED
        BY <4>1, <4>2
    <3> QED
      BY <2>1, <2>2, <3>1, <3>2
  <2>4. ASSUME NEW request \in cluster.requests, Serve(request) PROVE HistoryOK'
    BY <2>1, <2>2, <2>4 DEF Serve
  <2>5. ASSUME NEW o \in cluster.all, Change(o) PROVE HistoryOK'
    BY <2>1, <2>2, <2>5 DEF Change
  <2>6. ASSUME NEW k, NEW action, Mute(k, action) PROVE HistoryOK'
    BY <2>3, <2>6 DEF Mute
  <2>7. ASSUME NEW k, Unmute(k) \/ Expire(k) PROVE HistoryOK'
    BY <2>3, <2>7 DEF Unmute, Expire
  <2>8. CASE Prune
    BY <2>3, <2>8 DEF Prune
  <2>9. CASE Collect
    <3>1. check'.pc = "collected" /\ UNCHANGED <<ring, published>>
      <4>1. \E world, results, groups :
              check' = [pc |-> "collected", world |-> world, results |-> results, groups |-> groups]
        BY <2>9 DEF Collect
      <4> QED
        BY <2>9, <4>1 DEF Collect
    <3> QED
      BY <2>1, <3>1
  <2>10. CASE ReadStates
    <3>1. check'.pc = "read" /\ UNCHANGED <<ring, published>>
      BY <2>10 DEF ReadStates
    <3> QED
      BY <2>1, <3>1
  <2>11. CASE Publish
    <3>1. latest'.shown /\ UNCHANGED <<ring, published>>
      BY <2>11 DEF Publish
    <3> QED
      BY <2>1, <3>1
  <2>12. CASE Analyze
    BY <2>1, <2>2, <2>12 DEF Analyze
  <2>13. CASE Enrich
    BY <2>1, <2>13 DEF Enrich
  <2>14. CASE UNCHANGED vars
    BY <2>1, <2>2, <2>14 DEF vars
  <2> QED
    BY <2>4, <2>5, <2>6, <2>7, <2>8, <2>9, <2>10, <2>11, <2>12, <2>13, <2>14, RecordAdds DEF Next
<1> QED
  BY <1>1, <1>2, Invariance, PTL DEF Spec

\* TrendFollows holds in every run, for any capacity of the ring buffer and any scores:
\* however often it has wrapped around, what is read are the newest snapshots in their
\* order, and the direction of the regression line is that of a score that only rose
\* or only fell.
THEOREM TrendFollowsHolds == Spec => []TrendFollows
<1>1. HistoryOK => TrendFollows
  <2> SUFFICES ASSUME HistoryOK PROVE TrendFollows
    OBVIOUS
  <2> DEFINE window == LastSnapshots(ring, TrendWindow)
             n == Len(window)
             len == Len(published)
             trend == Prediction(window)
             rise == window[n].score - window[1].score
  <2>1. /\ RingSize \in Nat \ {0} /\ TrendWindow \in Nat /\ len \in Nat
        /\ published \in Seq(Snapshots) /\ RingHolds(ring, RingSize, published)
    BY HistorySizeAssumption, LenProperties DEF HistoryOK, RingSize, TrendWindow
  <2>2. Capacity(ring) = RingSize
    BY <2>1, RingCapacity
  <2>3. /\ window = SubSeq(published, len - n + 1, len)
        /\ n \in {TrendWindow, RingSize, len} /\ n <= TrendWindow /\ n <= RingSize /\ n <= len
        /\ n \in Nat /\ window \in Seq(Snapshots)
        /\ \A i \in 1 .. n : window[i] = published[len - n + i]
    BY <2>1, LastAreNewest
  <2> HIDE DEF window, len
  <2>4. \A i \in 1 .. n : window[i].time - window[1].time = i - 1
    <3> SUFFICES ASSUME NEW i \in 1 .. n PROVE window[i].time - window[1].time = i - 1
      OBVIOUS
    <3>1. 1 \in 1 .. n /\ len - n + i \in 1 .. len /\ len - n + 1 \in 1 .. len
      BY <2>1, <2>3
    <3>2. window[i].time = len - n + i /\ window[1].time = len - n + 1
      BY <2>3, <3>1 DEF HistoryOK, len
    <3> QED
      BY <2>1, <2>3, <3>2
  <2>5. ASSUME trend.status = "ok"
        PROVE  /\ Rising(window) => trend.direction # "degrading"
               /\ Rising(window) /\ rise >= 50 => trend.direction = "improving"
               /\ Falling(window) => trend.direction # "improving"
               /\ Falling(window) /\ rise <= -50 => trend.direction = "degrading"
    <3>1. n >= MinDataPoints
      <4>1. CASE n < MinDataPoints
        BY <2>5, <4>1 DEF Prediction
      <4> QED
        BY <2>3, <4>1 DEF MinDataPoints
    <3>2. trend.direction = TrendDirection(window)
      <4>1. ~(n < MinDataPoints)
        BY <2>3, <3>1 DEF MinDataPoints
      <4>2. trend = [status |-> "ok", direction |-> TrendDirection(window),
                     trajectory |-> Trajectory(window)]
        BY <4>1, Zenon DEF Prediction
      <4> QED
        BY <4>2
    <3> HIDE DEF trend
    <3> QED
      BY <2>3, <2>4, <3>1, <3>2, DirectionFollows
  <2> HIDE DEF trend, n
  <2> QED
    BY <2>2, <2>3, <2>5 DEF TrendFollows, window, len, n, trend
<1> QED
  BY <1>1, HistoryInvariance, PTL
-----------------------------------------------------------------------------
(* The batch for the AI: what is cut, and what it adds up to. *)

\* The values that add up to the total; two sums of the same values are equal.
LEMMA SumsAgree ==
  ASSUME NEW n \in Nat, NEW f \in [1 .. n -> Int], NEW S, Sums(S, f, n), NEW T, Sums(T, f, n)
  PROVE  \A i \in 0 .. n : S[i] = T[i]
<1> DEFINE A == {i \in 0 .. n : S[i] = T[i]}
<1>1. 0 \in A
  BY DEF Sums
<1>2. ASSUME NEW i \in 0 .. n, i \in A, i < n PROVE i + 1 \in A
  <2>1. i + 1 \in 1 .. n /\ (i + 1) - 1 = i
    BY <1>2
  <2> QED
    BY <1>2, <2>1 DEF Sums
<1> HIDE DEF A
<1>3. 0 .. n \subseteq A
  <2>1. 0 \in Nat
    OBVIOUS
  <2> QED
    BY <1>1, <1>2, <2>1, IntervalInduction
<1> QED
  BY <1>3 DEF A

\* Any sums give the total.
LEMMA TotalFrom ==
  ASSUME NEW n \in Nat, NEW f \in [1 .. n -> Int], NEW T, Sums(T, f, n)
  PROVE  Total(f) = T[n]
<1>1. PICK S : Sums(S, f, n) /\ Total(f) = S[n]
  BY TotalIsSum
<1>2. S[n] = T[n]
  BY <1>1, SumsAgree
<1> QED
  BY <1>1, <1>2

\* A total of natural numbers is one, and it is 0 if they are.
LEMMA TotalType ==
  ASSUME NEW n \in Nat, NEW f \in [1 .. n -> Nat]
  PROVE  Total(f) \in Nat /\ ((\A i \in 1 .. n : f[i] = 0) => Total(f) = 0)
<1>1. PICK T : Sums(T, f, n) /\ Total(f) = T[n]
  <2>1. f \in [1 .. n -> Int]
    OBVIOUS
  <2> QED
    BY <2>1, TotalIsSum
<1> DEFINE zero == \A i \in 1 .. n : f[i] = 0
           A == {i \in 0 .. n : T[i] \in Nat /\ (zero => T[i] = 0)}
<1>2. 0 \in A
  BY <1>1 DEF Sums
<1>3. ASSUME NEW i \in 0 .. n, i \in A, i < n PROVE i + 1 \in A
  <2>1. i + 1 \in 1 .. n /\ (i + 1) - 1 = i /\ i + 1 \in 0 .. n /\ f[i + 1] \in Nat
    BY <1>3
  <2>2. T[i + 1] = T[i] + f[i + 1]
    BY <1>1, <2>1 DEF Sums
  <2> QED
    BY <1>3, <2>1, <2>2
<1> HIDE DEF A
<1>4. 0 .. n \subseteq A
  <2>1. 0 \in Nat
    OBVIOUS
  <2> QED
    BY <1>2, <1>3, <2>1, IntervalInduction
<1> QED
  BY <1>1, <1>4 DEF A

\* Another value at one place.
LEMMA TotalUpdate ==
  ASSUME NEW n \in Nat, NEW f \in [1 .. n -> Int], NEW g \in [1 .. n -> Int], NEW j \in 1 .. n,
         \A i \in 1 .. n : i # j => g[i] = f[i]
  PROVE  Total(g) + f[j] = Total(f) + g[j]
<1>1. PICK T : Sums(T, f, n) /\ Total(f) = T[n]
  BY TotalIsSum
<1> DEFINE d == g[j] - f[j]
           S == [i \in 0 .. n |-> IF i < j THEN T[i] ELSE T[i] + d]
<1>2. f[j] \in Int /\ g[j] \in Int /\ d \in Int
  OBVIOUS
<1>3. Sums(S, g, n)
  <2>1. T \in [0 .. n -> Int] /\ T[0] = 0 /\ 0 \in 0 .. n /\ 0 < j
    BY <1>1 DEF Sums
  <2>2. \A i \in 0 .. n : T[i] \in Int
    BY <2>1
  <2>3. S \in [0 .. n -> Int] /\ S[0] = 0
    <3> HIDE DEF d
    <3> QED
      BY <1>2, <2>1, <2>2
  <2>4. ASSUME NEW i \in 1 .. n PROVE S[i] = S[i - 1] + g[i]
    <3>1. i \in 0 .. n /\ i - 1 \in 0 .. n /\ T[i] \in Int /\ T[i - 1] \in Int /\ f[i] \in Int
      BY <2>2
    <3>2. T[i] = T[i - 1] + f[i]
      BY <1>1 DEF Sums
    <3>3. CASE i < j
      BY <3>1, <3>2, <3>3
    <3>4. CASE i = j
      BY <1>2, <3>1, <3>2, <3>4
    <3>5. CASE i > j
      <4>1. S[i] = T[i] + d /\ S[i - 1] = T[i - 1] + d /\ g[i] = f[i]
        BY <3>1, <3>5
      <4> HIDE DEF d, S
      <4> QED
        BY <1>2, <3>1, <3>2, <4>1
    <3> QED
      BY <3>3, <3>4, <3>5
  <2> HIDE DEF S
  <2> QED
    BY <2>3, <2>4 DEF Sums
<1>4. Total(g) = S[n]
  <2> HIDE DEF S
  <2> QED
    BY <1>3, TotalFrom
<1>5. T[n] \in Int /\ S[n] = T[n] + d
  BY <1>1 DEF Sums
<1> HIDE DEF S
<1> QED
  BY <1>1, <1>2, <1>4, <1>5

\* Without the last value, and without the first.
LEMMA TotalShorter ==
  ASSUME NEW n \in Nat, NEW f \in [1 .. n + 1 -> Int]
  PROVE  /\ Total([i \in 1 .. n |-> f[i]]) + f[n + 1] = Total(f)
         /\ Total([i \in 1 .. n |-> f[i + 1]]) + f[1] = Total(f)
<1> DEFINE front == [i \in 1 .. n |-> f[i]]
           tail == [i \in 1 .. n |-> f[i + 1]]
<1>1. PICK T : Sums(T, f, n + 1) /\ Total(f) = T[n + 1]
  BY TotalIsSum
<1>2. T \in [0 .. n + 1 -> Int] /\ T[0] = 0 /\ \A i \in 1 .. n + 1 : T[i] = T[i - 1] + f[i]
  BY <1>1 DEF Sums
<1>3. \A i \in 0 .. n + 1 : T[i] \in Int
  BY <1>2
<1>4. front \in [1 .. n -> Int] /\ tail \in [1 .. n -> Int] /\ f[1] \in Int /\ f[n + 1] \in Int
  OBVIOUS
<1> DEFINE A == [i \in 0 .. n |-> T[i]]
           B == [i \in 0 .. n |-> T[i + 1] - f[1]]
<1>5. Sums(A, front, n)
  <2>1. A \in [0 .. n -> Int] /\ A[0] = 0
    BY <1>2, <1>3
  <2>2. ASSUME NEW i \in 1 .. n PROVE A[i] = A[i - 1] + front[i]
    <3>1. i \in 0 .. n /\ i - 1 \in 0 .. n /\ i \in 1 .. n + 1
      OBVIOUS
    <3> QED
      BY <1>2, <3>1
  <2> HIDE DEF A, front
  <2> QED
    BY <2>1, <2>2 DEF Sums
<1>6. Sums(B, tail, n)
  <2>1. B \in [0 .. n -> Int] /\ B[0] = 0
    <3>1. \A i \in 0 .. n : i + 1 \in 0 .. n + 1
      OBVIOUS
    <3>2. 1 \in 1 .. n + 1 /\ 0 \in 0 .. n /\ 0 + 1 = 1 /\ 1 - 1 = 0
      OBVIOUS
    <3>3. T[1] = f[1]
      BY <1>2, <1>4, <3>2
    <3>4. B \in [0 .. n -> Int]
      BY <1>3, <1>4, <3>1
    <3>5. B[0] = T[1] - f[1]
      BY <3>2
    <3> QED
      BY <1>4, <3>3, <3>4, <3>5
  <2>2. ASSUME NEW i \in 1 .. n PROVE B[i] = B[i - 1] + tail[i]
    <3>1. i \in 0 .. n /\ i - 1 \in 0 .. n /\ i + 1 \in 1 .. n + 1 /\ (i + 1) - 1 = i
          /\ (i - 1) + 1 = i /\ i \in 0 .. n + 1
      OBVIOUS
    <3>2. T[i + 1] = T[i] + f[i + 1] /\ T[i] \in Int /\ f[i + 1] \in Int
      BY <1>2, <1>3, <3>1
    <3>3. B[i] = T[i + 1] - f[1] /\ B[i - 1] = T[i] - f[1] /\ tail[i] = f[i + 1]
      BY <3>1
    <3> HIDE DEF B, tail
    <3> QED
      BY <1>4, <3>2, <3>3
  <2> HIDE DEF B, tail
  <2> QED
    BY <2>1, <2>2 DEF Sums
<1>7. A[n] = T[n] /\ B[n] = T[n + 1] - f[1]
  OBVIOUS
<1> HIDE DEF A, B, front, tail
<1>8. Total(front) = A[n] /\ Total(tail) = B[n]
  BY <1>4, <1>5, <1>6, TotalFrom
<1>9. T[n + 1] = T[n] + f[n + 1] /\ T[n] \in Int
  <2>1. n + 1 \in 1 .. n + 1 /\ (n + 1) - 1 = n /\ n \in 0 .. n + 1
    OBVIOUS
  <2> QED
    BY <1>2, <1>3, <2>1
<1> QED
  BY <1>1, <1>4, <1>7, <1>8, <1>9 DEF front, tail

\* Events with sizes.
Sized(E) == \A e \in E : e.size \in Nat

\* Issues with their events and logs, of these issues and events.
Contexts(I, E) == [issue : I, events : Seq(E), logs : Seq(Nat)]

\* What may be left of a context: its newest events, which come first, and its newest
\* lines, which come last.
Part(g, c) ==
  /\ c.issue = g.issue /\ Len(c.events) <= Len(g.events) /\ Len(c.logs) <= Len(g.logs)
  /\ \A j \in 1 .. Len(c.events) : c.events[j] = g.events[j]
  /\ \A j \in 1 .. Len(c.logs) : c.logs[j] = g.logs[Len(g.logs) - Len(c.logs) + j]

\* The sizes of the last event and of the last line that went.
LastGone(g, c) ==
  (IF Len(c.events) = Len(g.events) THEN {} ELSE {g.events[Len(c.events) + 1].size})
  \cup (IF Len(c.logs) = Len(g.logs) THEN {} ELSE {g.logs[Len(g.logs) - Len(c.logs)]})

\* Without its oldest event, which comes last, and without its oldest line.
EventGone(c) == [c EXCEPT !.events = [j \in 1 .. Len(c.events) - 1 |-> c.events[j]]]
LineGone(c) == [c EXCEPT !.logs = [j \in 1 .. Len(c.logs) - 1 |-> c.logs[j + 1]]]

\* A context has a size.
LEMMA CharsOfType ==
  ASSUME NEW I, NEW E, Sized(E), NEW c \in Contexts(I, E)
  PROVE  /\ Len(c.events) \in Nat /\ Len(c.logs) \in Nat
         /\ [n \in 1 .. Len(c.events) |-> c.events[n].size] \in [1 .. Len(c.events) -> Nat]
         /\ c.logs \in [1 .. Len(c.logs) -> Nat]
         /\ CharsOf(c) \in Nat
         /\ c.events = <<>> /\ c.logs = <<>> => CharsOf(c) = 0
<1> DEFINE n == Len(c.events)
           m == Len(c.logs)
           sizes == [k \in 1 .. n |-> c.events[k].size]
<1>1. c.events \in Seq(E) /\ c.logs \in Seq(Nat)
  BY DEF Contexts
<1>2. n \in Nat /\ m \in Nat /\ \A k \in 1 .. n : c.events[k] \in E
  BY <1>1, LenProperties, ElementOfSeq
<1>3. sizes \in [1 .. n -> Nat]
  BY <1>2 DEF Sized
<1>4. c.logs \in [1 .. m -> Nat]
  BY <1>1, LenProperties
<1> HIDE DEF n, m, sizes
<1>5. Total(sizes) \in Nat /\ ((\A i \in 1 .. n : sizes[i] = 0) => Total(sizes) = 0)
  BY <1>2, <1>3, TotalType
<1>6. Total(c.logs) \in Nat /\ ((\A i \in 1 .. m : c.logs[i] = 0) => Total(c.logs) = 0)
  BY <1>2, <1>4, TotalType
<1>7. CharsOf(c) = Total(sizes) + Total(c.logs)
  BY Zenon DEF CharsOf, sizes, n
<1>8. ASSUME c.events = <<>>, c.logs = <<>> PROVE CharsOf(c) = 0
  <2>1. n = 0 /\ m = 0
    BY <1>8, EmptySeq DEF n, m
  <2>2. Total(sizes) = 0 /\ Total(c.logs) = 0
    BY <1>5, <1>6, <2>1
  <2> QED
    BY <1>7, <2>2
<1>9. CharsOf(c) \in Nat
  BY <1>5, <1>6, <1>7
<1> QED
  BY <1>2, <1>3, <1>4, <1>8, <1>9 DEF n, m, sizes

\* Without its oldest event a context is smaller by that.
LEMMA WithoutEvent ==
  ASSUME NEW I, NEW E, Sized(E), NEW g \in Contexts(I, E),
         NEW c \in Contexts(I, E), Part(g, c), Len(c.events) # 0
  PROVE  LET d == EventGone(c)
         IN
         /\ d \in Contexts(I, E) /\ Part(g, d)
         /\ Len(d.events) = Len(c.events) - 1 /\ d.logs = c.logs
         /\ \E size \in LastGone(g, d) : CharsOf(d) + size = CharsOf(c)
<1> DEFINE d == EventGone(c)
           n == Len(c.events)
           front == [j \in 1 .. n - 1 |-> c.events[j]]
           sizes == [k \in 1 .. n |-> c.events[k].size]
<1>1. /\ n \in Nat /\ n >= 1 /\ sizes \in [1 .. n -> Nat] /\ c.logs \in [1 .. Len(c.logs) -> Nat]
      /\ Len(c.logs) \in Nat
  BY CharsOfType
<1>2. \A k \in 1 .. n : c.events[k] \in E
  BY ElementOfSeq DEF Contexts
<1>3. front \in [1 .. n - 1 -> E] /\ n - 1 \in Nat
  BY <1>1, <1>2
<1>4. front \in Seq(E) /\ Len(front) = n - 1
  BY <1>3
<1> HIDE DEF d, n, front
<1>5. d = [issue |-> c.issue, events |-> front, logs |-> c.logs]
  <2>1. c = [issue |-> c.issue, events |-> c.events, logs |-> c.logs]
    BY DEF Contexts
  <2>2. d = [c EXCEPT !.events = front]
    BY DEF EventGone, d, n, front
  <2> QED
    BY <2>1, <2>2
<1>6. d \in Contexts(I, E)
  <2>1. c.issue \in I /\ c.logs \in Seq(Nat)
    BY DEF Contexts
  <2>2. [issue |-> c.issue, events |-> front, logs |-> c.logs] \in [issue : I, events : Seq(E), logs : Seq(Nat)]
    BY <1>4, <2>1
  <2> QED
    BY <1>5, <2>2 DEF Contexts
<1>7. \A j \in 1 .. n - 1 : front[j] = c.events[j] /\ j \in 1 .. n
  BY <1>1 DEF front
<1>8. Part(g, d)
  <2>1. d.issue = c.issue /\ d.events = front /\ d.logs = c.logs
    BY <1>5
  <2>2. n <= Len(g.events) /\ Len(g.events) \in Nat
    BY CharsOfType DEF Part, n
  <2>3. n - 1 <= Len(g.events)
    BY <1>1, <2>2
  <2> QED
    BY <1>4, <1>7, <2>1, <2>3 DEF Part, n
<1> DEFINE size == c.events[n].size
           less == [i \in 1 .. n - 1 |-> sizes[i]]
<1>9. Total(less) + size = Total(sizes)
  <2> DEFINE m == n - 1
  <2>1. m \in Nat /\ n = m + 1
    BY <1>1
  <2>2. sizes \in [1 .. m + 1 -> Int]
    BY <1>1, <2>1
  <2>3. sizes[n] = size
    BY <1>1
  <2> HIDE DEF m, sizes, size
  <2>4. Total([i \in 1 .. m |-> sizes[i]]) + sizes[m + 1] = Total(sizes)
    BY <2>1, <2>2, TotalShorter
  <2> QED
    BY <2>1, <2>3, <2>4 DEF m
<1>10. CharsOf(c) = Total(sizes) + Total(c.logs)
  BY Zenon DEF CharsOf, n
<1>11. CharsOf(d) = Total(less) + Total(c.logs)
  <2>1. [i \in 1 .. Len(d.events) |-> d.events[i].size] = less
    BY <1>1, <1>4, <1>5, <1>7
  <2>2. CharsOf(d) = Total([i \in 1 .. Len(d.events) |-> d.events[i].size]) + Total(d.logs)
    BY Zenon DEF CharsOf
  <2>3. d.logs = c.logs
    BY <1>5
  <2> QED
    BY <2>1, <2>2, <2>3
<1>12. size \in LastGone(g, d)
  <2>1. Len(d.events) = n - 1 /\ Len(d.events) # Len(g.events)
    <3>1. n <= Len(g.events) /\ Len(g.events) \in Nat
      BY CharsOfType DEF Part, n
    <3> QED
      BY <1>1, <1>4, <1>5, <3>1
  <2>2. g.events[n] = c.events[n] /\ (n - 1) + 1 = n
    BY <1>1 DEF Part, n
  <2> QED
    BY <2>1, <2>2 DEF LastGone
<1>13. Total(less) \in Int /\ size \in Int /\ Total(sizes) \in Int /\ Total(c.logs) \in Int
  <2>1. less \in [1 .. n - 1 -> Nat] /\ n - 1 \in Nat /\ size \in Nat
    BY <1>1
  <2> HIDE DEF less, sizes, size
  <2>2. Total(less) \in Nat /\ Total(sizes) \in Nat /\ Total(c.logs) \in Nat
    BY <1>1, <2>1, TotalType
  <2> QED
    BY <2>1, <2>2
<1> HIDE DEF sizes, less, size
<1>14. CharsOf(d) + size = CharsOf(c)
  BY <1>9, <1>10, <1>11, <1>13
<1>15. Len(d.events) = n - 1 /\ d.logs = c.logs
  BY <1>4, <1>5
<1> QED
  BY <1>6, <1>8, <1>12, <1>14, <1>15 DEF n, d

\* Without its oldest line a context is smaller by that.
LEMMA WithoutLine ==
  ASSUME NEW I, NEW E, Sized(E), NEW g \in Contexts(I, E),
         NEW c \in Contexts(I, E), Part(g, c), Len(c.logs) # 0
  PROVE  LET d == LineGone(c)
         IN
         /\ d \in Contexts(I, E) /\ Part(g, d)
         /\ Len(d.logs) = Len(c.logs) - 1 /\ d.events = c.events
         /\ \E size \in LastGone(g, d) : CharsOf(d) + size = CharsOf(c)
<1> DEFINE d == LineGone(c)
           n == Len(c.logs)
           tail == [j \in 1 .. n - 1 |-> c.logs[j + 1]]
<1>1. n \in Nat /\ n >= 1 /\ c.logs \in [1 .. n -> Nat]
  BY CharsOfType
<1>2. tail \in [1 .. n - 1 -> Nat] /\ n - 1 \in Nat
  <2>1. \A j \in 1 .. n - 1 : j + 1 \in 1 .. n
    BY <1>1
  <2> QED
    BY <1>1, <2>1
<1>3. tail \in Seq(Nat) /\ Len(tail) = n - 1
  <2> DEFINE k == n - 1
  <2>1. tail \in [1 .. k -> Nat] /\ k \in Nat
    BY <1>2
  <2> HIDE DEF tail, k
  <2>2. tail \in Seq(Nat) /\ Len(tail) = k
    BY <2>1
  <2> QED
    BY <2>2 DEF k
<1> HIDE DEF d, n, tail
<1>4. d = [issue |-> c.issue, events |-> c.events, logs |-> tail]
  <2>1. c = [issue |-> c.issue, events |-> c.events, logs |-> c.logs]
    BY DEF Contexts
  <2>2. d = [c EXCEPT !.logs = tail]
    BY DEF LineGone, d, n, tail
  <2> QED
    BY <2>1, <2>2
<1>5. d \in Contexts(I, E)
  <2>1. c.issue \in I /\ c.events \in Seq(E)
    BY DEF Contexts
  <2>2. [issue |-> c.issue, events |-> c.events, logs |-> tail] \in [issue : I, events : Seq(E), logs : Seq(Nat)]
    BY <1>3, <2>1
  <2> QED
    BY <1>4, <2>2 DEF Contexts
<1>6. \A j \in 1 .. n - 1 : tail[j] = c.logs[j + 1] /\ j + 1 \in 1 .. n
  BY <1>1 DEF tail
<1> DEFINE m == Len(g.logs)
<1>7. m \in Nat /\ n <= m
  BY CharsOfType DEF Part, n
<1>8. \A j \in 1 .. n : c.logs[j] = g.logs[m - n + j]
  BY DEF Part, n
<1>9. Part(g, d)
  <2>1. d.issue = c.issue /\ d.events = c.events /\ d.logs = tail
    BY <1>4
  <2>2. n - 1 <= m
    BY <1>1, <1>7
  <2>3. ASSUME NEW j \in 1 .. n - 1 PROVE tail[j] = g.logs[m - (n - 1) + j]
    <3>1. m - n + (j + 1) = m - (n - 1) + j
      <4> HIDE DEF m
      <4> QED
        BY <1>1, <1>7
    <3> QED
      BY <1>6, <1>8, <3>1
  <2> HIDE DEF m
  <2> QED
    BY <1>3, <2>1, <2>2, <2>3 DEF Part, m
<1>10. Total(tail) + c.logs[1] = Total(c.logs)
  <2> DEFINE k == n - 1
             f == c.logs
  <2>1. k \in Nat /\ f \in [1 .. k + 1 -> Int]
    BY <1>1
  <2>2. tail = [j \in 1 .. k |-> f[j + 1]]
    BY DEF tail
  <2> HIDE DEF k, f
  <2>3. Total([j \in 1 .. k |-> f[j + 1]]) + f[1] = Total(f)
    BY <2>1, TotalShorter
  <2> QED
    BY <2>2, <2>3 DEF f
<1> DEFINE sizes == [k \in 1 .. Len(c.events) |-> c.events[k].size]
<1>11. CharsOf(c) = Total(sizes) + Total(c.logs)
  BY Zenon DEF CharsOf
<1>12. CharsOf(d) = Total(sizes) + Total(tail)
  <2>1. CharsOf(d) = Total([i \in 1 .. Len(d.events) |-> d.events[i].size]) + Total(d.logs)
    BY Zenon DEF CharsOf
  <2>2. d.logs = tail /\ d.events = c.events
    BY <1>4
  <2>3. [i \in 1 .. Len(d.events) |-> d.events[i].size] = sizes
    BY <2>2
  <2> HIDE DEF sizes
  <2> QED
    BY <2>1, <2>2, <2>3
<1>13. c.logs[1] \in LastGone(g, d)
  <2>1. Len(d.logs) = n - 1 /\ Len(d.logs) # m
    BY <1>1, <1>3, <1>4, <1>7
  <2>2. c.logs[1] = g.logs[m - n + 1] /\ m - n + 1 = m - (n - 1)
    BY <1>1, <1>7, <1>8
  <2> HIDE DEF m
  <2> QED
    BY <2>1, <2>2 DEF LastGone, m
<1>14. Total(tail) \in Int /\ c.logs[1] \in Int /\ Total(c.logs) \in Int /\ Total(sizes) \in Int
  <2>1. sizes \in [1 .. Len(c.events) -> Nat] /\ Len(c.events) \in Nat
    BY CharsOfType
  <2> HIDE DEF sizes
  <2>2. Total(tail) \in Nat /\ Total(c.logs) \in Nat /\ Total(sizes) \in Nat
    BY <1>1, <1>2, <2>1, TotalType
  <2> QED
    BY <1>1, <2>2
<1> HIDE DEF sizes, m
<1>15. CharsOf(d) + c.logs[1] = CharsOf(c)
  BY <1>10, <1>11, <1>12, <1>14
<1>16. Len(d.logs) = n - 1 /\ d.events = c.events
  BY <1>3, <1>4
<1> QED
  BY <1>5, <1>9, <1>13, <1>15, <1>16 DEF n, d

\* What one cut takes from a context: nothing, or its oldest event or line.
Lighter(g, c, d) == d = c \/ \E size \in LastGone(g, d) : CharsOf(d) + size = CharsOf(c)

\* One of several events, or of several lines, goes.
LEMMA TrimOne ==
  ASSUME NEW I, NEW E, Sized(E), NEW g \in Contexts(I, E),
         NEW c \in Contexts(I, E), Part(g, c)
  PROVE  /\ LET d == Trim(c, "event")
            IN /\ d \in Contexts(I, E) /\ Part(g, d) /\ Lighter(g, c, d) /\ d.logs = c.logs
               /\ IF Len(c.events) <= 1 THEN d = c ELSE Len(d.events) = Len(c.events) - 1
         /\ LET d == Trim(c, "line")
            IN /\ d \in Contexts(I, E) /\ Part(g, d) /\ Lighter(g, c, d) /\ d.events = c.events
               /\ IF Len(c.logs) <= 1 THEN d = c ELSE Len(d.logs) = Len(c.logs) - 1
<1>1. /\ Len(c.events) \in Nat /\ Len(c.logs) \in Nat /\ c.events \in Seq(E) /\ c.logs \in Seq(Nat)
  BY CharsOfType DEF Contexts
<1> DEFINE d == Trim(c, "event")
           e == Trim(c, "line")
<1>2. /\ d \in Contexts(I, E) /\ Part(g, d) /\ Lighter(g, c, d) /\ d.logs = c.logs
      /\ IF Len(c.events) <= 1 THEN d = c ELSE Len(d.events) = Len(c.events) - 1
  <2>1. CASE Len(c.events) > 1
    <3>1. d = [c EXCEPT !.events = Front(@)]
      BY <2>1 DEF Trim
    <3>2. Front(c.events) = [j \in 1 .. Len(c.events) - 1 |-> c.events[j]]
      BY <1>1, <2>1 DEF Front
    <3>3. d = EventGone(c)
      BY <3>1, <3>2 DEF EventGone
    <3>4. Len(c.events) # 0 /\ ~(Len(c.events) <= 1)
      BY <1>1, <2>1
    <3> HIDE DEF d
    <3>5. /\ d \in Contexts(I, E) /\ Part(g, d) /\ Len(d.events) = Len(c.events) - 1 /\ d.logs = c.logs
          /\ \E size \in LastGone(g, d) : CharsOf(d) + size = CharsOf(c)
      BY <3>3, <3>4, WithoutEvent, Zenon
    <3> QED
      BY <3>4, <3>5, Zenon DEF Lighter
  <2>2. CASE ~(Len(c.events) > 1)
    <3>1. d = c
      BY <2>2 DEF Trim
    <3>2. Len(c.events) <= 1
      BY <1>1, <2>2
    <3> HIDE DEF d
    <3> QED
      BY <3>1, <3>2 DEF Lighter
  <2> QED
    BY <2>1, <2>2
<1>3. /\ e \in Contexts(I, E) /\ Part(g, e) /\ Lighter(g, c, e) /\ e.events = c.events
      /\ IF Len(c.logs) <= 1 THEN e = c ELSE Len(e.logs) = Len(c.logs) - 1
  <2>1. CASE Len(c.logs) > 1
    <3>1. e = [c EXCEPT !.logs = Tail(@)]
      BY <2>1 DEF Trim
    <3>2. Tail(c.logs) = [j \in 1 .. Len(c.logs) - 1 |-> c.logs[j + 1]]
      BY <1>1, <2>1
    <3>3. e = LineGone(c)
      BY <3>1, <3>2 DEF LineGone
    <3>4. Len(c.logs) # 0 /\ ~(Len(c.logs) <= 1)
      BY <1>1, <2>1
    <3> HIDE DEF e
    <3>5. /\ e \in Contexts(I, E) /\ Part(g, e) /\ Len(e.logs) = Len(c.logs) - 1 /\ e.events = c.events
          /\ \E size \in LastGone(g, e) : CharsOf(e) + size = CharsOf(c)
      BY <3>3, <3>4, WithoutLine, Zenon
    <3> QED
      BY <3>4, <3>5, Zenon DEF Lighter
  <2>2. CASE ~(Len(c.logs) > 1)
    <3>1. e = c
      BY <2>2 DEF Trim
    <3>2. Len(c.logs) <= 1
      BY <1>1, <2>2
    <3> HIDE DEF e
    <3> QED
      BY <3>1, <3>2 DEF Lighter
  <2> QED
    BY <2>1, <2>2
<1> QED
  BY <1>2, <1>3

\* The only event, and the only line, goes.
LEMMA TrimLast ==
  ASSUME NEW I, NEW E, Sized(E), NEW g \in Contexts(I, E),
         NEW c \in Contexts(I, E), Part(g, c)
  PROVE  /\ Len(c.events) <= 1 =>
              LET d == Trim(c, "events")
              IN d \in Contexts(I, E) /\ Part(g, d) /\ Lighter(g, c, d) /\ d.logs = c.logs /\ d.events = <<>>
         /\ Len(c.logs) <= 1 =>
              LET d == Trim(c, "lines")
              IN d \in Contexts(I, E) /\ Part(g, d) /\ Lighter(g, c, d) /\ d.events = c.events /\ d.logs = <<>>
<1>1. /\ Len(c.events) \in Nat /\ Len(c.logs) \in Nat /\ c.events \in Seq(E) /\ c.logs \in Seq(Nat)
      /\ c = [issue |-> c.issue, events |-> c.events, logs |-> c.logs]
  BY CharsOfType DEF Contexts
<1> DEFINE d == Trim(c, "events")
           e == Trim(c, "lines")
<1>2. ASSUME Len(c.events) <= 1
      PROVE  d \in Contexts(I, E) /\ Part(g, d) /\ Lighter(g, c, d) /\ d.logs = c.logs /\ d.events = <<>>
  <2>1. d = [c EXCEPT !.events = <<>>]
    BY DEF Trim
  <2>2. d.logs = c.logs /\ d.events = <<>>
    BY <1>1, <2>1
  <2>3. CASE Len(c.events) = 0
    <3>1. c.events = <<>>
      BY <1>1, <2>3, EmptySeq
    <3>2. d = c
      BY <1>1, <2>1, <3>1
    <3> HIDE DEF d
    <3> QED
      BY <2>2, <3>2 DEF Lighter
  <2>4. CASE Len(c.events) = 1
    <3>1. [j \in 1 .. Len(c.events) - 1 |-> c.events[j]] = <<>>
      BY <2>4
    <3>2. d = EventGone(c)
      BY <2>1, <3>1 DEF EventGone
    <3>3. Len(c.events) # 0
      BY <2>4
    <3> HIDE DEF d
    <3>4. /\ d \in Contexts(I, E) /\ Part(g, d)
          /\ \E size \in LastGone(g, d) : CharsOf(d) + size = CharsOf(c)
      BY <3>2, <3>3, WithoutEvent, Zenon
    <3> QED
      BY <2>2, <3>4, Zenon DEF Lighter
  <2>5. Len(c.events) = 0 \/ Len(c.events) = 1
    <3> DEFINE n == Len(c.events)
    <3>1. n \in Nat /\ n <= 1
      BY <1>1, <1>2
    <3> HIDE DEF n
    <3>2. n = 0 \/ n = 1
      BY <3>1
    <3> QED
      BY <3>2 DEF n
  <2> QED
    BY <2>3, <2>4, <2>5, Zenon
<1>3. ASSUME Len(c.logs) <= 1
      PROVE  e \in Contexts(I, E) /\ Part(g, e) /\ Lighter(g, c, e) /\ e.events = c.events /\ e.logs = <<>>
  <2>1. e = [c EXCEPT !.logs = <<>>]
    BY DEF Trim
  <2>2. e.events = c.events /\ e.logs = <<>>
    BY <1>1, <2>1
  <2>3. CASE Len(c.logs) = 0
    <3>1. c.logs = <<>>
      BY <1>1, <2>3, EmptySeq
    <3>2. e = c
      BY <1>1, <2>1, <3>1
    <3> HIDE DEF e
    <3> QED
      BY <2>2, <3>2 DEF Lighter
  <2>4. CASE Len(c.logs) = 1
    <3>1. [j \in 1 .. Len(c.logs) - 1 |-> c.logs[j + 1]] = <<>>
      BY <2>4
    <3>2. e = LineGone(c)
      BY <2>1, <3>1 DEF LineGone
    <3>3. Len(c.logs) # 0
      BY <2>4
    <3> HIDE DEF e
    <3>4. /\ e \in Contexts(I, E) /\ Part(g, e)
          /\ \E size \in LastGone(g, e) : CharsOf(e) + size = CharsOf(c)
      BY <3>2, <3>3, WithoutLine, Zenon
    <3> QED
      BY <2>2, <3>4, Zenon DEF Lighter
  <2>5. Len(c.logs) = 0 \/ Len(c.logs) = 1
    <3> DEFINE n == Len(c.logs)
    <3>1. n \in Nat /\ n <= 1
      BY <1>1, <1>3
    <3> HIDE DEF n
    <3>2. n = 0 \/ n = 1
      BY <3>1
    <3> QED
      BY <3>2 DEF n
  <2> QED
    BY <2>3, <2>4, <2>5, Zenon
<1> QED
  BY <1>2, <1>3


\* What went last has a size.
LEMMA LastGoneType ==
  ASSUME NEW I, NEW E, Sized(E), NEW g \in Contexts(I, E), NEW d \in Contexts(I, E), Part(g, d)
  PROVE  LastGone(g, d) \subseteq Nat
<1> DEFINE a == Len(d.events)
           b == Len(g.events)
           x == Len(d.logs)
           y == Len(g.logs)
<1>1. a \in Nat /\ b \in Nat /\ x \in Nat /\ y \in Nat
  BY CharsOfType
<1>2. a <= b /\ x <= y
  BY DEF Part
<1>3. g.events \in Seq(E) /\ g.logs \in Seq(Nat)
  BY DEF Contexts
<1>4. ASSUME a # b PROVE g.events[a + 1].size \in Nat
  <2>1. a + 1 \in 1 .. b
    <3> HIDE DEF a, b
    <3> QED
      BY <1>1, <1>2, <1>4
  <2>2. g.events[a + 1] \in E
    BY <1>3, <2>1, ElementOfSeq
  <2> QED
    BY <2>2 DEF Sized
<1>5. ASSUME x # y PROVE g.logs[y - x] \in Nat
  <2>1. y - x \in 1 .. y
    <3> HIDE DEF x, y
    <3> QED
      BY <1>1, <1>2, <1>5
  <2> QED
    BY <1>3, <2>1, ElementOfSeq
<1>6. LastGone(g, d) = (IF a = b THEN {} ELSE {g.events[a + 1].size})
                       \cup (IF x = y THEN {} ELSE {g.logs[y - x]})
  BY DEF LastGone
<1> HIDE DEF a, b, x, y
<1> QED
  BY <1>4, <1>5, <1>6

\* A batch of n contexts.
Batches(n, I, E) == [1 .. n -> Contexts(I, E)]

\* A batch has a size; without events and lines it is 0.
LEMMA CharsType ==
  ASSUME NEW I, NEW E, Sized(E), NEW n \in Nat, NEW a \in Batches(n, I, E)
  PROVE  /\ Chars(a) \in Nat /\ Len(a) = n
         /\ (\A k \in 1 .. n : a[k].events = <<>> /\ a[k].logs = <<>>) => Chars(a) = 0
<1> DEFINE sizes == [k \in 1 .. n |-> CharsOf(a[k])]
<1>1. a \in [1 .. n -> Contexts(I, E)] /\ Len(a) = n
  <2>1. a \in [1 .. n -> Contexts(I, E)]
    BY DEF Batches
  <2> QED
    BY <2>1
<1>2. \A k \in 1 .. n : /\ CharsOf(a[k]) \in Nat
                        /\ a[k].events = <<>> /\ a[k].logs = <<>> => CharsOf(a[k]) = 0
  <2>1. \A k \in 1 .. n : a[k] \in Contexts(I, E)
    BY <1>1
  <2> QED
    BY <2>1, CharsOfType
<1>3. Chars(a) = Total(sizes)
  BY <1>1 DEF Chars
<1>4. sizes \in [1 .. n -> Nat]
  BY <1>2
<1>5. (\A k \in 1 .. n : a[k].events = <<>> /\ a[k].logs = <<>>) => \A k \in 1 .. n : sizes[k] = 0
  BY <1>2
<1> HIDE DEF sizes
<1> QED
  BY <1>1, <1>3, <1>4, <1>5, TotalType

\* Another context at one place.
LEMMA CharsUpdate ==
  ASSUME NEW I, NEW E, Sized(E), NEW n \in Nat, NEW a \in Batches(n, I, E), NEW i \in 1 .. n,
         NEW d \in Contexts(I, E)
  PROVE  LET b == [a EXCEPT ![i] = d]
         IN b \in Batches(n, I, E) /\ Chars(b) + CharsOf(a[i]) = Chars(a) + CharsOf(d)
<1> DEFINE b == [a EXCEPT ![i] = d]
           f == [k \in 1 .. n |-> CharsOf(a[k])]
           h == [k \in 1 .. n |-> CharsOf(b[k])]
<1>1. /\ a \in [1 .. n -> Contexts(I, E)] /\ b \in [1 .. n -> Contexts(I, E)]
      /\ b[i] = d /\ \A k \in 1 .. n : k # i => b[k] = a[k]
  BY DEF Batches
<1> HIDE DEF b
<1>2. b \in Batches(n, I, E)
  BY <1>1 DEF Batches
<1>3. Len(a) = n /\ Len(b) = n
  BY <1>2, CharsType
<1>4. Chars(a) = Total(f) /\ Chars(b) = Total(h)
  BY <1>3 DEF Chars
<1>5. \A k \in 1 .. n : CharsOf(a[k]) \in Int /\ CharsOf(b[k]) \in Int
  <2>1. \A k \in 1 .. n : a[k] \in Contexts(I, E) /\ b[k] \in Contexts(I, E)
    BY <1>1
  <2>2. \A k \in 1 .. n : CharsOf(a[k]) \in Nat /\ CharsOf(b[k]) \in Nat
    BY <2>1, CharsOfType
  <2> QED
    BY <2>2
<1>6. f \in [1 .. n -> Int] /\ h \in [1 .. n -> Int] /\ \A k \in 1 .. n : i # k => h[k] = f[k]
  BY <1>1, <1>5
<1>7. f[i] = CharsOf(a[i]) /\ h[i] = CharsOf(d)
  BY <1>1
<1> HIDE DEF f, h
<1>8. Total(h) + f[i] = Total(f) + h[i]
  BY <1>6, TotalUpdate
<1> QED
  BY <1>2, <1>4, <1>7, <1>8 DEF b

\* What the cuts have left of a batch is parts of its contexts, and had the last cut
\* not been made it would be too large.
TooLarge(a) == Chars(a) > MaxTotalChars
Pieces(n, G, a) ==
  /\ \A k \in 1 .. n : Part(G[k], a[k])
  /\ a # G => \E k \in 1 .. n : \E size \in LastGone(G[k], a[k]) : Chars(a) + size > MaxTotalChars

\* A cut of too large a batch leaves such parts.
LEMMA CutPieces ==
  ASSUME NEW I, NEW E, Sized(E), NEW n \in Nat, NEW G \in Batches(n, I, E),
         NEW a \in Batches(n, I, E), Pieces(n, G, a), TooLarge(a), NEW i \in 1 .. n,
         NEW d \in Contexts(I, E), Part(G[i], d), Lighter(G[i], a[i], d)
  PROVE  LET b == [a EXCEPT ![i] = d]
         IN /\ b \in Batches(n, I, E) /\ Pieces(n, G, b)
            /\ b[i] = d /\ \A k \in 1 .. n : k # i => b[k] = a[k]
<1> DEFINE b == [a EXCEPT ![i] = d]
<1>1. /\ a \in [1 .. n -> Contexts(I, E)] /\ b \in [1 .. n -> Contexts(I, E)]
      /\ b[i] = d /\ \A k \in 1 .. n : k # i => b[k] = a[k]
  BY DEF Batches
<1>2. b \in Batches(n, I, E) /\ Chars(b) + CharsOf(a[i]) = Chars(a) + CharsOf(d)
  BY CharsUpdate
<1>3. \A k \in 1 .. n : Part(G[k], b[k])
  BY <1>1 DEF Pieces
<1>4. CASE d = a[i]
  <2>1. b = a
    BY <1>1, <1>4
  <2> HIDE DEF b
  <2> QED
    BY <1>1, <1>2, <2>1 DEF b
<1>5. CASE d # a[i]
  <2> HIDE DEF b
  <2>1. PICK size \in LastGone(G[i], d) : CharsOf(d) + size = CharsOf(a[i])
    BY <1>5 DEF Lighter
  <2>2. size \in Nat
    <3>1. G[i] \in Contexts(I, E)
      BY DEF Batches
    <3> QED
      BY <2>1, <3>1, LastGoneType
  <2>3. CharsOf(d) \in Nat /\ CharsOf(a[i]) \in Nat /\ Chars(a) \in Nat /\ Chars(b) \in Nat
    BY <1>1, <1>2, CharsOfType, CharsType
  <2>4. Chars(b) + size = Chars(a)
    BY <1>2, <2>1, <2>2, <2>3
  <2>5. Chars(b) + size > MaxTotalChars
    BY <2>4 DEF TooLarge
  <2>6. \E k \in 1 .. n : \E s \in LastGone(G[k], b[k]) : Chars(b) + s > MaxTotalChars
    BY <1>1, <2>1, <2>5
  <2>7. Pieces(n, G, b)
    BY <1>3, <2>6 DEF Pieces
  <2> QED
    BY <1>1, <1>2, <2>7 DEF b
<1> QED
  BY <1>4, <1>5

\* No context has lost its last event; lines go when there is at most one event of
\* each issue, and the last events when there is at most one line.
NoneLost(n, G, a) == \A k \in 1 .. n : a[k].events = <<>> => G[k].events = <<>>
AllSingle(n, a) == \A k \in 1 .. n : Len(a[k].events) <= 1
AllShort(n, a) == \A k \in 1 .. n : Len(a[k].logs) <= 1
EventsFirst(n, G, a) == (\E k \in 1 .. n : a[k].logs # G[k].logs) => AllSingle(n, a)
LinesFirst(n, G, a) ==
  (\E k \in 1 .. n : a[k].events = <<>> /\ G[k].events # <<>>) => AllShort(n, a)

\* What holds while events, lines and the rest are cut: a batch that is still too large
\* has been through all of the cuts before.
Kept(what, n, G, a) ==
  CASE what = "event" -> NoneLost(n, G, a) /\ \A k \in 1 .. n : a[k].logs = G[k].logs
    [] what = "line"  -> NoneLost(n, G, a) /\ EventsFirst(n, G, a) /\ (TooLarge(a) => AllSingle(n, a))
    [] what = "rest"  -> /\ EventsFirst(n, G, a) /\ LinesFirst(n, G, a)
                         /\ TooLarge(a) => AllSingle(n, a) /\ AllShort(n, a)
Fitting(what, n, I, E, G) == {a \in Batches(n, I, E) : Pieces(n, G, a) /\ Kept(what, n, G, a)}

\* What r rounds have done to a context.
Done(what, c, r) ==
  CASE what = "event" -> Len(c.events) <= 1 \/ Len(c.events) + r <= MaxEvents
    [] what = "line"  -> Len(c.logs) <= 1 \/ Len(c.logs) + r <= MaxLines
    [] what = "rest"  -> r >= 1 => c.events = <<>> /\ c.logs = <<>>

\* The changes of one context of a batch that is too large, and of one that is not.
OneCut(what, n, a, b, i) ==
  TooLarge(b) => /\ TooLarge(a) /\ \A k \in 1 .. n : k # i => b[k] = a[k]
             /\ \A r \in Nat : Done(what, a[i], r) => Done(what, b[i], r + 1)

\* First the oldest of several events goes (first pass of capTokenBudget).
LEMMA CutEventKeeps ==
  ASSUME NEW I, NEW E, Sized(E), NEW n \in Nat, NEW G \in Batches(n, I, E),
         NEW a \in Fitting("event", n, I, E, G), NEW i \in 1 .. n, TooLarge(a)
  PROVE  LET b == Cut(a, i, "event")
         IN b \in Fitting("event", n, I, E, G) /\ OneCut("event", n, a, b, i)
<1> DEFINE d == Trim(a[i], "event")
           b == [a EXCEPT ![i] = d]
<1>1. /\ a \in Batches(n, I, E) /\ Pieces(n, G, a)
      /\ NoneLost(n, G, a) /\ \A k \in 1 .. n : a[k].logs = G[k].logs
  BY DEF Fitting, Kept
<1>2. a[i] \in Contexts(I, E) /\ G[i] \in Contexts(I, E) /\ Part(G[i], a[i])
  BY <1>1 DEF Batches, Pieces
<1>3. /\ d \in Contexts(I, E) /\ Part(G[i], d) /\ Lighter(G[i], a[i], d) /\ d.logs = a[i].logs
      /\ IF Len(a[i].events) <= 1 THEN d = a[i] ELSE Len(d.events) = Len(a[i].events) - 1
  BY <1>2, TrimOne
<1> HIDE DEF d
<1>4. /\ b \in Batches(n, I, E) /\ Pieces(n, G, b)
      /\ b[i] = d /\ \A k \in 1 .. n : k # i => b[k] = a[k]
  BY <1>1, <1>3, CutPieces
<1>5. Cut(a, i, "event") = b
  <2>1. Chars(a) \in Nat /\ MaxTotalChars \in Nat
    BY <1>1, CharsType, LimitsAssumption
  <2>2. ~(Chars(a) <= MaxTotalChars)
    BY <2>1 DEF TooLarge
  <2> QED
    BY <2>2 DEF Cut, d
<1> HIDE DEF b
<1>6. Len(a[i].events) \in Nat /\ Len(d.events) \in Nat
  BY <1>2, <1>3, CharsOfType
<1>7. d.events = <<>> => a[i].events = <<>>
  <2>1. CASE Len(a[i].events) <= 1
    BY <1>3, <2>1
  <2>2. CASE ~(Len(a[i].events) <= 1)
    <3>1. Len(d.events) # 0
      BY <1>3, <1>6, <2>2
    <3>2. Len(<<>>) = 0
      OBVIOUS
    <3> QED
      BY <3>1, <3>2
  <2> QED
    BY <2>1, <2>2
<1>8. Kept("event", n, G, b)
  <2>1. NoneLost(n, G, b)
    BY <1>1, <1>4, <1>7 DEF NoneLost
  <2>2. \A k \in 1 .. n : b[k].logs = G[k].logs
    BY <1>1, <1>3, <1>4
  <2> QED
    BY <2>1, <2>2 DEF Kept
<1>9. ASSUME NEW r \in Nat, Done("event", a[i], r) PROVE Done("event", d, r + 1)
  <2>1. Len(a[i].events) <= 1 \/ Len(a[i].events) + r <= MaxEvents
    BY <1>9 DEF Done
  <2>2. MaxEvents \in Nat
    BY LimitsAssumption
  <2>3. Len(d.events) <= 1 \/ Len(d.events) + (r + 1) <= MaxEvents
    <3> DEFINE x == Len(a[i].events)
               y == Len(d.events)
    <3>1. x \in Nat /\ y \in Nat /\ (x <= 1 \/ x + r <= MaxEvents) /\ (x <= 1 => y <= 1)
          /\ (~(x <= 1) => y = x - 1)
      BY <1>3, <1>6, <2>1
    <3> HIDE DEF x, y
    <3>2. y <= 1 \/ y + (r + 1) <= MaxEvents
      BY <2>2, <3>1
    <3> QED
      BY <3>2 DEF y
  <2> QED
    BY <2>3 DEF Done
<1> QED
  BY <1>4, <1>5, <1>8, <1>9 DEF Fitting, OneCut

\* Then, when no issue has two events, the oldest of several lines (second pass).
LEMMA CutLineKeeps ==
  ASSUME NEW I, NEW E, Sized(E), NEW n \in Nat, NEW G \in Batches(n, I, E),
         NEW a \in Fitting("line", n, I, E, G), NEW i \in 1 .. n, TooLarge(a)
  PROVE  LET b == Cut(a, i, "line")
         IN b \in Fitting("line", n, I, E, G) /\ OneCut("line", n, a, b, i)
<1> DEFINE d == Trim(a[i], "line")
           b == [a EXCEPT ![i] = d]
<1>1. a \in Batches(n, I, E) /\ Pieces(n, G, a) /\ NoneLost(n, G, a) /\ AllSingle(n, a)
  BY DEF Fitting, Kept
<1>2. a[i] \in Contexts(I, E) /\ G[i] \in Contexts(I, E) /\ Part(G[i], a[i])
  BY <1>1 DEF Batches, Pieces
<1>3. /\ d \in Contexts(I, E) /\ Part(G[i], d) /\ Lighter(G[i], a[i], d) /\ d.events = a[i].events
      /\ IF Len(a[i].logs) <= 1 THEN d = a[i] ELSE Len(d.logs) = Len(a[i].logs) - 1
  BY <1>2, TrimOne
<1> HIDE DEF d
<1>4. /\ b \in Batches(n, I, E) /\ Pieces(n, G, b)
      /\ b[i] = d /\ \A k \in 1 .. n : k # i => b[k] = a[k]
  BY <1>1, <1>3, CutPieces
<1>5. Cut(a, i, "line") = b
  <2>1. Chars(a) \in Nat /\ MaxTotalChars \in Nat
    BY <1>1, CharsType, LimitsAssumption
  <2>2. ~(Chars(a) <= MaxTotalChars)
    BY <2>1 DEF TooLarge
  <2> QED
    BY <2>2 DEF Cut, d
<1> HIDE DEF b
<1>6. Len(a[i].logs) \in Nat /\ Len(d.logs) \in Nat
  BY <1>2, <1>3, CharsOfType
<1>7. \A k \in 1 .. n : b[k].events = a[k].events
  BY <1>3, <1>4
<1>8. Kept("line", n, G, b)
  <2>1. NoneLost(n, G, b)
    BY <1>1, <1>7 DEF NoneLost
  <2>2. AllSingle(n, b)
    BY <1>1, <1>7 DEF AllSingle
  <2> QED
    BY <2>1, <2>2 DEF Kept, EventsFirst
<1>9. ASSUME NEW r \in Nat, Done("line", a[i], r) PROVE Done("line", d, r + 1)
  <2>1. Len(a[i].logs) <= 1 \/ Len(a[i].logs) + r <= MaxLines
    BY <1>9 DEF Done
  <2>2. MaxLines \in Nat
    BY LimitsAssumption
  <2>3. Len(d.logs) <= 1 \/ Len(d.logs) + (r + 1) <= MaxLines
    <3> DEFINE x == Len(a[i].logs)
               y == Len(d.logs)
    <3>1. x \in Nat /\ y \in Nat /\ (x <= 1 \/ x + r <= MaxLines) /\ (x <= 1 => y <= 1)
          /\ (~(x <= 1) => y = x - 1)
      BY <1>3, <1>6, <2>1
    <3> HIDE DEF x, y
    <3>2. y <= 1 \/ y + (r + 1) <= MaxLines
      BY <2>2, <3>1
    <3> QED
      BY <3>2 DEF y
  <2> QED
    BY <2>3 DEF Done
<1> QED
  BY <1>4, <1>5, <1>8, <1>9 DEF Fitting, OneCut

\* At last all that is left of the events, or of the lines, of one issue goes, when it
\* is one of each at most (final pass).
AllCut(what, n, a, b, i) ==
  /\ \A k \in 1 .. n : k # i => b[k] = a[k]
  /\ IF what = "events" THEN b[i].events = <<>> ELSE b[i].events = a[i].events /\ b[i].logs = <<>>

LEMMA CutAllKeeps ==
  ASSUME NEW I, NEW E, Sized(E), NEW n \in Nat, NEW G \in Batches(n, I, E),
         NEW a \in Fitting("rest", n, I, E, G), NEW i \in 1 .. n, TooLarge(a),
         NEW what \in {"events", "lines"}
  PROVE  Cut(a, i, what) \in Fitting("rest", n, I, E, G) /\ AllCut(what, n, a, Cut(a, i, what), i)
<1> DEFINE d == Trim(a[i], what)
           b == [a EXCEPT ![i] = d]
<1>1. a \in Batches(n, I, E) /\ Pieces(n, G, a) /\ AllSingle(n, a) /\ AllShort(n, a)
  BY DEF Fitting, Kept
<1>2. a[i] \in Contexts(I, E) /\ G[i] \in Contexts(I, E) /\ Part(G[i], a[i])
  BY <1>1 DEF Batches, Pieces
<1>3. /\ d \in Contexts(I, E) /\ Part(G[i], d) /\ Lighter(G[i], a[i], d)
      /\ IF what = "events" THEN d.events = <<>> /\ d.logs = a[i].logs
         ELSE d.events = a[i].events /\ d.logs = <<>>
  <2>1. Len(a[i].events) <= 1 /\ Len(a[i].logs) <= 1
    BY <1>1 DEF AllSingle, AllShort
  <2>2. CASE what = "events"
    <3> DEFINE e == Trim(a[i], "events")
    <3>1. /\ e \in Contexts(I, E) /\ Part(G[i], e) /\ Lighter(G[i], a[i], e)
          /\ e.logs = a[i].logs /\ e.events = <<>>
      BY <1>2, <2>1, TrimLast
    <3>2. d = e
      BY <2>2
    <3> HIDE DEF d, e
    <3> QED
      BY <2>2, <3>1, <3>2
  <2>3. CASE what = "lines"
    <3> DEFINE e == Trim(a[i], "lines")
    <3>1. /\ e \in Contexts(I, E) /\ Part(G[i], e) /\ Lighter(G[i], a[i], e)
          /\ e.events = a[i].events /\ e.logs = <<>>
      BY <1>2, <2>1, TrimLast
    <3>2. d = e
      BY <2>3
    <3> HIDE DEF d, e
    <3> QED
      BY <2>3, <3>1, <3>2
  <2> QED
    BY <2>2, <2>3
<1> HIDE DEF d
<1>4. /\ b \in Batches(n, I, E) /\ Pieces(n, G, b)
      /\ b[i] = d /\ \A k \in 1 .. n : k # i => b[k] = a[k]
  BY <1>1, <1>3, CutPieces
<1>5. Cut(a, i, what) = b
  <2>1. Chars(a) \in Nat /\ MaxTotalChars \in Nat
    BY <1>1, CharsType, LimitsAssumption
  <2>2. ~(Chars(a) <= MaxTotalChars)
    BY <2>1 DEF TooLarge
  <2> QED
    BY <2>2 DEF Cut, d
<1> HIDE DEF b
<1>6. AllSingle(n, b) /\ AllShort(n, b)
  <2>1. Len(<<>>) = 0 /\ 0 <= 1
    OBVIOUS
  <2>2. Len(d.events) <= 1 /\ Len(d.logs) <= 1
    BY <1>1, <1>3, <2>1 DEF AllSingle, AllShort
  <2> QED
    BY <1>1, <1>4, <2>2 DEF AllSingle, AllShort
<1>7. Kept("rest", n, G, b)
  BY <1>6 DEF Kept, EventsFirst, LinesFirst
<1> QED
  BY <1>3, <1>4, <1>5, <1>7 DEF Fitting, AllCut

\* A cut leaves a batch fitting, and only one that is still too large has more to lose.
LEMMA CutOneKeeps ==
  ASSUME NEW I, NEW E, Sized(E), NEW n \in Nat, NEW G \in Batches(n, I, E),
         NEW what \in {"event", "line", "rest"}, NEW a \in Fitting(what, n, I, E, G), NEW i \in 1 .. n
  PROVE  LET b == CutOne(a, i, what)
         IN b \in Fitting(what, n, I, E, G) /\ OneCut(what, n, a, b, i)
<1>1. Chars(a) \in Nat /\ MaxTotalChars \in Nat
  BY CharsType, LimitsAssumption DEF Fitting
<1>2. CASE ~TooLarge(a)
  <2>1. Chars(a) <= MaxTotalChars
    BY <1>1, <1>2 DEF TooLarge
  <2>2. \A w : Cut(a, i, w) = a
    BY <2>1 DEF Cut
  <2>3. CutOne(a, i, what) = a
    BY <2>2 DEF CutOne
  <2> QED
    BY <1>2, <2>3 DEF OneCut
<1>3. CASE TooLarge(a)
  <2>1. CASE what = "event"
    BY <1>3, <2>1, CutEventKeeps DEF CutOne
  <2>2. CASE what = "line"
    BY <1>3, <2>2, CutLineKeeps DEF CutOne
  <2>3. CASE what = "rest"
    <3> DEFINE b == Cut(a, i, "events")
               c == Cut(b, i, "lines")
    <3>1. /\ b \in Fitting("rest", n, I, E, G) /\ b[i].events = <<>>
          /\ \A k \in 1 .. n : k # i => b[k] = a[k]
      <4>1. a \in Fitting("rest", n, I, E, G) /\ "events" \in {"events", "lines"}
        BY <2>3
      <4>2. b \in Fitting("rest", n, I, E, G) /\ AllCut("events", n, a, b, i)
        BY <1>3, <4>1, CutAllKeeps
      <4> HIDE DEF b
      <4> QED
        BY <4>2 DEF AllCut
    <3>2. CutOne(a, i, what) = c
      BY <2>3 DEF CutOne
    <3> HIDE DEF b
    <3>3. CASE TooLarge(b)
      <4>1. /\ c \in Fitting("rest", n, I, E, G) /\ \A k \in 1 .. n : k # i => c[k] = b[k]
            /\ c[i].events = b[i].events /\ c[i].logs = <<>>
        <5>1. "lines" \in {"events", "lines"}
          OBVIOUS
        <5>2. c \in Fitting("rest", n, I, E, G) /\ AllCut("lines", n, b, c, i)
          BY <3>1, <3>3, <5>1, CutAllKeeps
        <5> HIDE DEF c
        <5> QED
          BY <5>2 DEF AllCut
      <4> HIDE DEF c
      <4>2. \A r \in Nat : Done("rest", c[i], r + 1)
        BY <3>1, <4>1 DEF Done
      <4> QED
        BY <1>3, <2>3, <3>1, <3>2, <4>1, <4>2 DEF OneCut
    <3>4. CASE ~TooLarge(b)
      <4>1. Chars(b) <= MaxTotalChars
        <5>1. Chars(b) \in Nat
          BY <3>1, CharsType DEF Fitting
        <5> QED
          BY <1>1, <3>4, <5>1 DEF TooLarge
      <4>2. c = b
        BY <4>1 DEF Cut
      <4> QED
        BY <2>3, <3>1, <3>2, <3>4, <4>2 DEF OneCut
    <3> QED
      BY <3>3, <3>4
  <2> QED
    BY <2>1, <2>2, <2>3
<1> QED
  BY <1>2, <1>3

\* A batch that is still too large after r rounds.
AllDone(what, n, a, r) == TooLarge(a) => \A k \in 1 .. n : Done(what, a[k], r)

\* A round goes over all issues; if it leaves too large a batch, each was cut.
LEMMA RoundKeeps ==
  ASSUME NEW I, NEW E, Sized(E), NEW n \in Nat, NEW G \in Batches(n, I, E),
         NEW what \in {"event", "line", "rest"}, NEW a \in Fitting(what, n, I, E, G)
  PROVE  /\ Round(a, what) \in Fitting(what, n, I, E, G)
         /\ \A r \in Nat : AllDone(what, n, a, r) => AllDone(what, n, Round(a, what), r + 1)
<1> DEFINE A == Fitting(what, n, I, E, G)
           after[i \in 0 .. Len(a)] == IF i = 0 THEN a ELSE CutOne(after[i - 1], i, what)
           step == [i \in 0 .. n |-> [b \in A |-> CutOne(b, i, what)]]
<1>1. Len(a) = n
  BY CharsType DEF Fitting
<1>2. Round(a, what) = after[n]
  BY <1>1 DEF Round
<1>3. \A i \in 1 .. n, b \in A : CutOne(b, i, what) \in A /\ OneCut(what, n, b, CutOne(b, i, what), i)
  BY CutOneKeeps
<1>4. \E f : f = [i \in 0 .. Len(a) |-> IF i = 0 THEN a ELSE CutOne(f[i - 1], i, what)]
  <2>1. \A i \in 0 .. n, b \in A : step[i][b] = CutOne(b, i, what)
    OBVIOUS
  <2> HIDE DEF step, A, after
  <2>2. \A i \in 0 .. n, b \in A : i # 0 => step[i][b] \in A
    <3> SUFFICES ASSUME NEW i \in 0 .. n, NEW b \in A, i # 0 PROVE step[i][b] \in A
      OBVIOUS
    <3>1. i \in 1 .. n
      OBVIOUS
    <3> QED
      BY <1>3, <2>1, <3>1
  <2>3. 0 \in Nat /\ 0 <= n /\ a \in A
    BY DEF A
  <2>4. PICK f : Stepwise(f, 0, n, A, a, step)
    BY <2>2, <2>3, Recursion
  <2>5. ASSUME NEW i \in 0 .. n
        PROVE  f[i] = IF i = 0 THEN a ELSE CutOne(f[i - 1], i, what)
    <3>1. CASE i = 0
      BY <2>4, <3>1 DEF Stepwise
    <3>2. CASE i # 0
      <4>1. i - 1 \in 0 .. n
        BY <3>2
      <4>2. f[i] = step[i][f[i - 1]] /\ f[i - 1] \in A
        BY <2>4, <3>2, <4>1 DEF Stepwise
      <4> QED
        BY <2>1, <3>2, <4>2
    <3> QED
      BY <3>1, <3>2
  <2>6. f = [i \in 0 .. n |-> f[i]]
    BY <2>4 DEF Stepwise
  <2>7. f = [i \in 0 .. n |-> IF i = 0 THEN a ELSE CutOne(f[i - 1], i, what)]
    BY <2>5, <2>6
  <2> QED
    BY <1>1, <2>7
<1>5. after = [i \in 0 .. n |-> IF i = 0 THEN a ELSE CutOne(after[i - 1], i, what)]
  BY <1>1, <1>4, Zenon
<1> HIDE DEF after, step
<1> DEFINE Progress(i) ==
             \A r \in Nat : AllDone(what, n, a, r) /\ TooLarge(after[i]) =>
               \A k \in 1 .. n : IF k <= i THEN Done(what, after[i][k], r + 1)
                                 ELSE Done(what, after[i][k], r)
           S == {i \in 0 .. n : after[i] \in A /\ Progress(i)}
<1>6. 0 \in S
  <2>1. 0 \in 0 .. n /\ after[0] = a /\ a \in A
    BY <1>5
  <2>2. \A k \in 1 .. n : ~(k <= 0)
    OBVIOUS
  <2>3. Progress(0)
    BY <2>1, <2>2 DEF AllDone
  <2> HIDE DEF Progress, A
  <2> QED
    BY <2>1, <2>3
<1>7. ASSUME NEW i \in 0 .. n, i \in S, i < n PROVE i + 1 \in S
  <2>1. i + 1 \in 1 .. n /\ i + 1 \in 0 .. n /\ i + 1 # 0 /\ (i + 1) - 1 = i
    BY <1>7
  <2> DEFINE b == after[i]
             c == after[i + 1]
  <2>2. c = CutOne(b, i + 1, what)
    BY <1>5, <2>1
  <2>3. b \in A /\ Progress(i)
    BY <1>7
  <2>4. c \in A /\ OneCut(what, n, b, c, i + 1)
    BY <1>3, <2>1, <2>2, <2>3
  <2>5. ASSUME NEW r \in Nat, AllDone(what, n, a, r), TooLarge(c), NEW k \in 1 .. n
        PROVE  IF k <= i + 1 THEN Done(what, c[k], r + 1) ELSE Done(what, c[k], r)
    <3> HIDE DEF b, c
    <3>1. /\ TooLarge(b)
          /\ k # i + 1 => c[k] = b[k]
          /\ Done(what, b[i + 1], r) => Done(what, c[i + 1], r + 1)
      BY <2>4, <2>5 DEF OneCut
    <3>2. \A m \in 1 .. n : IF m <= i THEN Done(what, b[m], r + 1) ELSE Done(what, b[m], r)
      <4>1. TooLarge(after[i])
        BY <3>1 DEF b
      <4> QED
        BY <2>3, <2>5, <4>1, Zenon DEF b
    <3>3. CASE k = i + 1
      <4>1. ~(k <= i) /\ k <= i + 1
        BY <3>3
      <4> QED
        BY <3>1, <3>2, <3>3, <4>1
    <3>4. CASE k # i + 1
      <4>1. CASE k <= i
        <5>1. k <= i + 1
          BY <4>1
        <5>2. Done(what, b[k], r + 1)
          BY <3>2, <4>1
        <5> QED
          BY <3>1, <3>4, <5>1, <5>2
      <4>2. CASE ~(k <= i)
        <5>1. ~(k <= i + 1)
          BY <3>4, <4>2
        <5>2. Done(what, b[k], r)
          BY <3>2, <4>2
        <5> QED
          BY <3>1, <3>4, <5>1, <5>2
      <4> QED
        BY <4>1, <4>2
    <3> QED
      BY <3>3, <3>4
  <2>6. Progress(i + 1)
    BY <2>5
  <2> HIDE DEF Progress, A
  <2> QED
    BY <2>1, <2>4, <2>6
<1>8. 0 .. n \subseteq S
  <2> HIDE DEF S
  <2>1. 0 \in Nat
    OBVIOUS
  <2> QED
    BY <1>6, <1>7, <2>1, IntervalInduction
<1>9. after[n] \in A /\ Progress(n)
  <2>1. n \in 0 .. n
    OBVIOUS
  <2> HIDE DEF Progress, A
  <2> QED
    BY <1>8, <2>1
<1>10. \A k \in 1 .. n : k <= n
  OBVIOUS
<1>11. \A r \in Nat : AllDone(what, n, a, r) => AllDone(what, n, after[n], r + 1)
  BY <1>9, <1>10 DEF AllDone
<1> QED
  BY <1>2, <1>9, <1>11

\* Several rounds.
LEMMA RoundsKeep ==
  ASSUME NEW I, NEW E, Sized(E), NEW n \in Nat, NEW G \in Batches(n, I, E),
         NEW what \in {"event", "line", "rest"}, NEW a \in Fitting(what, n, I, E, G),
         AllDone(what, n, a, 0), NEW m \in Nat
  PROVE  /\ Rounds(a, what, m) \in Fitting(what, n, I, E, G)
         /\ AllDone(what, n, Rounds(a, what, m), m)
<1> DEFINE A == Fitting(what, n, I, E, G)
           after[r \in 0 .. m] == IF r = 0 THEN a ELSE Round(after[r - 1], what)
           step == [r \in 0 .. m |-> [b \in A |-> Round(b, what)]]
<1>1. Rounds(a, what, m) = after[m]
  BY DEF Rounds
<1>2. \A b \in A : /\ Round(b, what) \in A
                   /\ \A r \in Nat : AllDone(what, n, b, r) => AllDone(what, n, Round(b, what), r + 1)
  BY RoundKeeps
<1>3. \E f : f = [r \in 0 .. m |-> IF r = 0 THEN a ELSE Round(f[r - 1], what)]
  <2>1. \A r \in 0 .. m, b \in A : step[r][b] = Round(b, what)
    OBVIOUS
  <2> HIDE DEF step, A, after
  <2>2. \A r \in 0 .. m, b \in A : r # 0 => step[r][b] \in A
    BY <1>2, <2>1
  <2>3. 0 \in Nat /\ 0 <= m /\ a \in A
    BY DEF A
  <2>4. PICK f : Stepwise(f, 0, m, A, a, step)
    BY <2>2, <2>3, Recursion
  <2>5. ASSUME NEW r \in 0 .. m
        PROVE  f[r] = IF r = 0 THEN a ELSE Round(f[r - 1], what)
    <3>1. CASE r = 0
      BY <2>4, <3>1 DEF Stepwise
    <3>2. CASE r # 0
      <4>1. r - 1 \in 0 .. m
        BY <3>2
      <4>2. f[r] = step[r][f[r - 1]] /\ f[r - 1] \in A
        BY <2>4, <3>2, <4>1 DEF Stepwise
      <4> QED
        BY <2>1, <3>2, <4>2
    <3> QED
      BY <3>1, <3>2
  <2>6. f = [r \in 0 .. m |-> f[r]]
    BY <2>4 DEF Stepwise
  <2>7. f = [r \in 0 .. m |-> IF r = 0 THEN a ELSE Round(f[r - 1], what)]
    BY <2>5, <2>6
  <2> QED
    BY <2>7
<1>4. after = [r \in 0 .. m |-> IF r = 0 THEN a ELSE Round(after[r - 1], what)]
  BY <1>3, Zenon
<1> HIDE DEF after, step, A
<1> DEFINE S == {r \in 0 .. m : after[r] \in A /\ AllDone(what, n, after[r], r)}
<1>5. 0 \in S
  <2>1. 0 \in 0 .. m /\ after[0] = a /\ a \in A
    BY <1>4 DEF A
  <2> QED
    BY <2>1
<1>6. ASSUME NEW r \in 0 .. m, r \in S, r < m PROVE r + 1 \in S
  <2>1. r + 1 \in 0 .. m /\ r + 1 # 0 /\ (r + 1) - 1 = r /\ r \in Nat
    BY <1>6
  <2>2. after[r + 1] = Round(after[r], what)
    BY <1>4, <2>1
  <2> QED
    BY <1>2, <1>6, <2>1, <2>2
<1>7. 0 .. m \subseteq S
  <2> HIDE DEF S
  <2>1. 0 \in Nat
    OBVIOUS
  <2> QED
    BY <1>5, <1>6, <2>1, IntervalInduction
<1>8. m \in S
  BY <1>7
<1> QED
  BY <1>1, <1>8 DEF A

\* What the cuts leave is within the limit, and is left in the right order.
LEMMA BudgetKept ==
  ASSUME NEW I, NEW E, Sized(E), NEW n \in Nat, NEW G \in Batches(n, I, E),
         \A k \in 1 .. n : Len(G[k].events) <= MaxEvents /\ Len(G[k].logs) <= MaxLines
  PROVE  LET b == CapTokenBudget(G)
         IN /\ b \in Batches(n, I, E) /\ Chars(b) <= MaxTotalChars /\ Pieces(n, G, b)
            /\ EventsFirst(n, G, b) /\ LinesFirst(n, G, b)
<1> DEFINE b1 == Rounds(G, "event", MaxEvents)
           b2 == Rounds(b1, "line", MaxLines)
           b3 == Rounds(b2, "rest", 1)
<1>1. MaxEvents \in Nat /\ MaxLines \in Nat /\ MaxTotalChars \in Nat /\ 1 \in Nat
  BY LimitsAssumption
<1>2. CapTokenBudget(G) = b3
  BY DEF CapTokenBudget
<1>3. "event" \in {"event", "line", "rest"} /\ "line" \in {"event", "line", "rest"}
      /\ "rest" \in {"event", "line", "rest"}
  OBVIOUS
<1>4. \A a \in Batches(n, I, E), k \in 1 .. n :
        a[k] \in Contexts(I, E) /\ Len(a[k].events) \in Nat /\ Len(a[k].logs) \in Nat
  <2> SUFFICES ASSUME NEW a \in Batches(n, I, E), NEW k \in 1 .. n
               PROVE  a[k] \in Contexts(I, E) /\ Len(a[k].events) \in Nat /\ Len(a[k].logs) \in Nat
    OBVIOUS
  <2>1. a[k] \in Contexts(I, E)
    BY DEF Batches
  <2> QED
    BY <2>1, CharsOfType
<1>5. G \in Fitting("event", n, I, E, G) /\ AllDone("event", n, G, 0)
  <2>1. Pieces(n, G, G)
    <3>1. ASSUME NEW k \in 1 .. n PROVE Part(G[k], G[k])
      <4> DEFINE x == Len(G[k].events)
                 y == Len(G[k].logs)
      <4>1. x \in Nat /\ y \in Nat
        BY <1>4
      <4>2. \A j \in 1 .. y : (y - y) + j = j
        <5> HIDE DEF x, y
        <5> QED
          BY <4>1
      <4>3. x <= x /\ y <= y
        <5> HIDE DEF x, y
        <5> QED
          BY <4>1
      <4> QED
        BY <4>2, <4>3 DEF Part
    <3> QED
      BY <3>1 DEF Pieces
  <2>2. Kept("event", n, G, G)
    BY DEF Kept, NoneLost
  <2>3. AllDone("event", n, G, 0)
    <3>1. \A k \in 1 .. n : Len(G[k].events) + 0 <= MaxEvents
      BY <1>4
    <3> QED
      BY <3>1 DEF AllDone, Done
  <2> QED
    BY <2>1, <2>2, <2>3 DEF Fitting
<1>6. b1 \in Fitting("event", n, I, E, G) /\ AllDone("event", n, b1, MaxEvents)
  BY <1>1, <1>3, <1>5, RoundsKeep
<1> HIDE DEF b1
<1>7. b1 \in Batches(n, I, E) /\ Pieces(n, G, b1)
      /\ NoneLost(n, G, b1) /\ \A k \in 1 .. n : b1[k].logs = G[k].logs
  BY <1>6 DEF Fitting, Kept
<1>8. ASSUME TooLarge(b1) PROVE AllSingle(n, b1)
  <2>1. ASSUME NEW k \in 1 .. n PROVE Len(b1[k].events) <= 1
    <3> DEFINE x == Len(b1[k].events)
    <3>1. x \in Nat
      BY <1>4, <1>7
    <3>2. x <= 1 \/ x + MaxEvents <= MaxEvents
      BY <1>6, <1>8 DEF AllDone, Done
    <3> HIDE DEF x
    <3>3. x <= 1
      BY <1>1, <3>1, <3>2
    <3> QED
      BY <3>3 DEF x
  <2> QED
    BY <2>1 DEF AllSingle
<1>9. b1 \in Fitting("line", n, I, E, G) /\ AllDone("line", n, b1, 0)
  <2>1. EventsFirst(n, G, b1)
    BY <1>7 DEF EventsFirst
  <2>2. Kept("line", n, G, b1)
    BY <1>7, <1>8, <2>1 DEF Kept
  <2>3. AllDone("line", n, b1, 0)
    <3>1. \A k \in 1 .. n : Len(b1[k].logs) + 0 <= MaxLines
      BY <1>4, <1>7
    <3> QED
      BY <3>1 DEF AllDone, Done
  <2> QED
    BY <1>7, <2>2, <2>3 DEF Fitting
<1>10. b2 \in Fitting("line", n, I, E, G) /\ AllDone("line", n, b2, MaxLines)
  BY <1>1, <1>3, <1>9, RoundsKeep
<1> HIDE DEF b2
<1>11. b2 \in Batches(n, I, E) /\ Pieces(n, G, b2) /\ NoneLost(n, G, b2)
       /\ EventsFirst(n, G, b2) /\ (TooLarge(b2) => AllSingle(n, b2))
  BY <1>10 DEF Fitting, Kept
<1>12. ASSUME TooLarge(b2) PROVE AllShort(n, b2)
  <2>1. ASSUME NEW k \in 1 .. n PROVE Len(b2[k].logs) <= 1
    <3> DEFINE x == Len(b2[k].logs)
    <3>1. x \in Nat
      BY <1>4, <1>11
    <3>2. x <= 1 \/ x + MaxLines <= MaxLines
      BY <1>10, <1>12 DEF AllDone, Done
    <3> HIDE DEF x
    <3>3. x <= 1
      BY <1>1, <3>1, <3>2
    <3> QED
      BY <3>3 DEF x
  <2> QED
    BY <2>1 DEF AllShort
<1>13. b2 \in Fitting("rest", n, I, E, G) /\ AllDone("rest", n, b2, 0)
  <2>1. LinesFirst(n, G, b2)
    BY <1>11 DEF LinesFirst, NoneLost
  <2>2. Kept("rest", n, G, b2)
    BY <1>11, <1>12, <2>1 DEF Kept
  <2>3. AllDone("rest", n, b2, 0)
    <3>1. ~(0 >= 1)
      OBVIOUS
    <3> QED
      BY <3>1 DEF AllDone, Done
  <2> QED
    BY <1>11, <2>2, <2>3 DEF Fitting
<1>14. b3 \in Fitting("rest", n, I, E, G) /\ AllDone("rest", n, b3, 1)
  BY <1>1, <1>3, <1>13, RoundsKeep
<1> HIDE DEF b3
<1>15. b3 \in Batches(n, I, E) /\ Pieces(n, G, b3) /\ EventsFirst(n, G, b3) /\ LinesFirst(n, G, b3)
  BY <1>14 DEF Fitting, Kept
<1>16. Chars(b3) \in Nat
  BY <1>15, CharsType
<1>17. ASSUME TooLarge(b3) PROVE FALSE
  <2>1. \A k \in 1 .. n : b3[k].events = <<>> /\ b3[k].logs = <<>>
    <3>1. 1 >= 1
      OBVIOUS
    <3> QED
      BY <1>14, <1>17, <3>1 DEF AllDone, Done
  <2>2. Chars(b3) = 0
    BY <1>15, <2>1, CharsType
  <2>3. 0 > MaxTotalChars
    BY <1>17, <2>2 DEF TooLarge
  <2> QED
    BY <1>1, <2>3
<1>18. Chars(b3) <= MaxTotalChars
  BY <1>1, <1>16, <1>17 DEF TooLarge
<1> QED
  BY <1>2, <1>15, <1>18

-----------------------------------------------------------------------------
(* The batch for the AI: which issues are in it, and with what. *)

\* The first values of a sequence, and the last.
LEMMA AtMostType ==
  ASSUME NEW E, NEW s \in Seq(E), NEW n \in Nat
  PROVE  /\ AtMost(s, n) \in Seq(E) /\ Len(AtMost(s, n)) <= n
         /\ \A j \in 1 .. Len(s) : j <= n => j \in 1 .. Len(AtMost(s, n)) /\ AtMost(s, n)[j] = s[j]
         /\ \A j \in 1 .. Len(AtMost(s, n)) : j \in 1 .. Len(s) /\ j <= n /\ AtMost(s, n)[j] = s[j]
         /\ LastOf(s, n) \in Seq(E) /\ Len(LastOf(s, n)) <= n
<1> DEFINE len == Len(s)
           m == Min({len, n})
           first == [j \in 1 .. m |-> s[j]]
           last == [j \in 1 .. m |-> s[len - m + j]]
<1>1. len \in Nat /\ \A j \in 1 .. len : s[j] \in E
  BY LenProperties, ElementOfSeq
<1>2. m \in Nat /\ m <= len /\ m <= n /\ (m = len \/ m = n)
  <2>1. CASE len <= n
    <3>1. m = len
      <4> HIDE DEF len
      <4> QED
        BY <1>1, <2>1, MinOfTwo
    <3> HIDE DEF len, m
    <3> QED
      BY <1>1, <2>1, <3>1
  <2>2. CASE n <= len
    <3>1. Min({n, len}) = n
      <4> HIDE DEF len
      <4> QED
        BY <1>1, <2>2, MinOfTwo
    <3>2. {len, n} = {n, len}
      OBVIOUS
    <3>3. m = n
      BY <3>1, <3>2
    <3> HIDE DEF len, m
    <3> QED
      BY <1>1, <2>2, <3>3
  <2>3. len <= n \/ n <= len
    <3> HIDE DEF len
    <3> QED
      BY <1>1
  <2> QED
    BY <2>1, <2>2, <2>3
<1>3. AtMost(s, n) = SubSeq(s, 1, m) /\ LastOf(s, n) = SubSeq(s, len - m + 1, len)
  BY Zenon DEF AtMost, LastOf, m, len
<1> HIDE DEF m
<1>4. SubSeq(s, 1, m) = first
  BY <1>1, <1>2
<1>5. SubSeq(s, len - m + 1, len) = last
  <2> DEFINE k == len - m
  <2> HIDE DEF len
  <2>1. k + 1 \in Nat /\ len \in Nat /\ (len - (k + 1)) + 1 = m
        /\ \A j \in 1 .. m : ((k + 1) + j) - 1 = k + j
    BY <1>1, <1>2
  <2> HIDE DEF k
  <2>2. \A i, j \in Int : SubSeq(s, i, j) = [l \in 1 .. 1 + j - i |-> s[i + l - 1]]
    OBVIOUS
  <2>3. SubSeq(s, k + 1, len) = [l \in 1 .. 1 + len - (k + 1) |-> s[(k + 1) + l - 1]]
    BY <2>1, <2>2
  <2>4. 1 + len - (k + 1) = m /\ k \in Int
    BY <1>1, <1>2, <2>1 DEF k
  <2>5. SubSeq(s, k + 1, len) = [l \in 1 .. m |-> s[k + l]]
    BY <2>1, <2>3, <2>4
  <2> QED
    BY <2>5 DEF k
<1>6. \A j \in 1 .. m : len - m + j \in 1 .. len /\ j \in 1 .. len
  <2> HIDE DEF len
  <2> QED
    BY <1>1, <1>2
<1> HIDE DEF len
<1>7. first \in [1 .. m -> E] /\ last \in [1 .. m -> E]
  BY <1>1, <1>6
<1>8. /\ first \in Seq(E) /\ last \in Seq(E) /\ Len(first) = m /\ Len(last) = m
      /\ \A j \in 1 .. m : first[j] = s[j]
  BY <1>2, <1>7
<1>9. \A j \in 1 .. len : j <= n => j \in 1 .. m
  BY <1>1, <1>2
<1>10. \A j \in 1 .. m : j <= n
  BY <1>1, <1>2
<1> HIDE DEF first, last
<1> QED
  BY <1>2, <1>3, <1>4, <1>5, <1>6, <1>8, <1>9, <1>10 DEF len

\* The issues of one severity: no others, and all of them.
LEMMA OfSeverityType ==
  ASSUME NEW X, NEW issues \in Seq(X), NEW severity
  PROVE  LET these == OfSeverity(issues, severity)
         IN /\ these \in Seq({x \in X : x.severity = severity})
            /\ \A i \in 1 .. Len(issues) : issues[i].severity = severity =>
                 \E j \in 1 .. Len(these) : these[j] = issues[i]
<1> DEFINE n == Len(issues)
           Y == {x \in X : x.severity = severity}
           A == Seq(Y)
           among[k \in 0 .. n] ==
             IF k = 0 THEN <<>>
             ELSE IF issues[k].severity = severity THEN Append(among[k - 1], issues[k]) ELSE among[k - 1]
           step == [k \in 0 .. n |-> [a \in A |->
                     IF issues[k].severity = severity THEN Append(a, issues[k]) ELSE a]]
<1>1. n \in Nat /\ \A k \in 1 .. n : issues[k] \in X
  BY LenProperties, ElementOfSeq
<1>2. OfSeverity(issues, severity) = among[n]
  BY DEF OfSeverity
<1>3. \A k \in 0 .. n, a \in A :
        step[k][a] = IF issues[k].severity = severity THEN Append(a, issues[k]) ELSE a
  <2> HIDE DEF n, A
  <2> QED
    OBVIOUS
<1> HIDE DEF n, step
<1>4. \A k \in 0 .. n, a \in A : k # 0 => step[k][a] \in A
  <2> SUFFICES ASSUME NEW k \in 0 .. n, NEW a \in A, k # 0 PROVE step[k][a] \in A
    OBVIOUS
  <2>1. issues[k] \in X
    BY <1>1
  <2>2. issues[k].severity = severity => Append(a, issues[k]) \in A
    BY <2>1
  <2> QED
    BY <1>3, <2>2
<1>5. \E f : f = [k \in 0 .. n |->
        IF k = 0 THEN <<>>
        ELSE IF issues[k].severity = severity THEN Append(f[k - 1], issues[k]) ELSE f[k - 1]]
  <2>1. 0 \in Nat /\ 0 <= n /\ <<>> \in A
    BY <1>1
  <2> HIDE DEF A
  <2>2. PICK f : Stepwise(f, 0, n, A, <<>>, step)
    BY <1>1, <1>4, <2>1, Recursion
  <2>3. ASSUME NEW k \in 0 .. n
        PROVE  f[k] = IF k = 0 THEN <<>>
                      ELSE IF issues[k].severity = severity THEN Append(f[k - 1], issues[k]) ELSE f[k - 1]
    <3>1. CASE k = 0
      BY <2>2, <3>1 DEF Stepwise
    <3>2. CASE k # 0
      <4>1. k - 1 \in 0 .. n
        BY <1>1, <3>2
      <4>2. f[k] = step[k][f[k - 1]] /\ f[k - 1] \in A
        BY <2>2, <3>2, <4>1 DEF Stepwise
      <4> QED
        BY <1>3, <3>2, <4>2
    <3> QED
      BY <3>1, <3>2
  <2>4. f = [k \in 0 .. n |-> f[k]]
    BY <2>2 DEF Stepwise
  <2> QED
    BY <2>3, <2>4
<1>6. among = [k \in 0 .. n |->
        IF k = 0 THEN <<>>
        ELSE IF issues[k].severity = severity THEN Append(among[k - 1], issues[k]) ELSE among[k - 1]]
  BY <1>5, Zenon
<1> HIDE DEF among, A
<1> DEFINE In(k, i) == \E j \in 1 .. Len(among[k]) : among[k][j] = issues[i]
           S == {k \in 0 .. n : /\ among[k] \in A
                                /\ \A i \in 1 .. k : issues[i].severity = severity => In(k, i)}
<1>7. 0 \in S
  <2>1. 0 \in 0 .. n /\ among[0] = <<>> /\ <<>> \in A
    BY <1>1, <1>6 DEF A
  <2>2. 1 .. 0 = {}
    OBVIOUS
  <2> HIDE DEF In
  <2> QED
    BY <2>1, <2>2
<1>8. ASSUME NEW k \in 0 .. n, k \in S, k < n PROVE k + 1 \in S
  <2> DEFINE a == among[k]
             b == among[k + 1]
             x == issues[k + 1]
  <2>1. k + 1 \in 0 .. n /\ k + 1 \in 1 .. n /\ k + 1 # 0 /\ (k + 1) - 1 = k
    BY <1>1, <1>8
  <2>2. b = IF x.severity = severity THEN Append(a, x) ELSE a
    BY <1>6, <2>1
  <2>3. x \in X /\ a \in A
    BY <1>1, <1>8, <2>1
  <2>4. \A i \in 1 .. k : issues[i].severity = severity => \E j \in 1 .. Len(a) : a[j] = issues[i]
    BY <1>8
  <2> HIDE DEF a, b, x
  <2>5. CASE x.severity = severity
    <3>1. x \in Y /\ a \in Seq(Y)
      BY <2>3, <2>5 DEF A
    <3> HIDE DEF Y
    <3>2. /\ Append(a, x) \in Seq(Y) /\ Len(Append(a, x)) = Len(a) + 1 /\ Len(a) \in Nat
          /\ Append(a, x)[Len(a) + 1] = x /\ \A j \in 1 .. Len(a) : Append(a, x)[j] = a[j]
      BY <3>1, AppendProperties, LenProperties
    <3>3. \A j \in 1 .. Len(a) : j \in 1 .. Len(b) /\ b[j] = a[j]
      BY <2>2, <2>5, <3>2
    <3>4. Len(a) + 1 \in 1 .. Len(b) /\ b[Len(a) + 1] = x
      BY <2>2, <2>5, <3>2
    <3>5. b \in A
      BY <2>2, <2>5, <3>2 DEF A
    <3>6. ASSUME NEW i \in 1 .. k + 1, issues[i].severity = severity
          PROVE  \E j \in 1 .. Len(b) : b[j] = issues[i]
      <4>1. CASE i = k + 1
        BY <3>4, <4>1 DEF x
      <4>2. CASE i # k + 1
        <5>1. i \in 1 .. k
          BY <4>2
        <5> QED
          BY <2>4, <3>3, <3>6, <5>1
      <4> QED
        BY <4>1, <4>2
    <3> QED
      BY <2>1, <3>5, <3>6 DEF b
  <2>6. CASE x.severity # severity
    <3>1. ASSUME NEW i \in 1 .. k + 1, issues[i].severity = severity
          PROVE  \E j \in 1 .. Len(b) : b[j] = issues[i]
      <4>1. i # k + 1
        BY <2>6, <3>1 DEF x
      <4>2. i \in 1 .. k
        BY <4>1
      <4> QED
        BY <2>2, <2>4, <2>6, <3>1, <4>2
    <3>2. b \in A
      BY <2>2, <2>3, <2>6
    <3> QED
      BY <2>1, <3>1, <3>2 DEF b
  <2> QED
    BY <2>5, <2>6
<1>9. 0 .. n \subseteq S
  <2> HIDE DEF S
  <2>1. 0 \in Nat
    OBVIOUS
  <2> QED
    BY <1>1, <1>7, <1>8, <2>1, IntervalInduction
<1>10. n \in S
  <2>1. n \in 0 .. n
    BY <1>1
  <2> HIDE DEF S
  <2> QED
    BY <1>9, <2>1
<1> QED
  BY <1>2, <1>10 DEF n, A

\* Each issue has a representative, which is one of the issues.
LEMMA RepresentativesType ==
  ASSUME NEW X, NEW issues \in Seq(X)
  PROVE  LET these == Representatives(issues)
         IN /\ these \in Seq(X)
            /\ \A i \in 1 .. Len(issues) :
                 \E j \in 1 .. Len(these) : Signature(these[j]) = Signature(issues[i])
<1> DEFINE n == Len(issues)
           A == Seq(X)
           among[k \in 0 .. n] ==
             IF k = 0 THEN <<>> ELSE Represented(among[k - 1], issues[k])
           step == [k \in 0 .. n |-> [a \in A |-> Represented(a, issues[k])]]
<1>1. n \in Nat /\ \A k \in 1 .. n : issues[k] \in X
  BY LenProperties, ElementOfSeq
<1>2. Representatives(issues) = among[n]
  BY DEF Representatives
<1>3. \A k \in 0 .. n, a \in A : step[k][a] = Represented(a, issues[k])
  <2> HIDE DEF n, A
  <2> QED
    OBVIOUS
<1> HIDE DEF n, step
\* One more issue.
<1>4. ASSUME NEW a \in A, NEW x \in X
      PROVE  LET b == Represented(a, x)
             IN /\ b \in A /\ \A j \in 1 .. Len(a) : j \in 1 .. Len(b) /\ b[j] = a[j]
                /\ \E j \in 1 .. Len(b) : Signature(b[j]) = Signature(x)
  <2>1. CASE \E k \in DOMAIN a : Signature(a[k]) = Signature(x)
    <3>1. Represented(a, x) = a
      BY <2>1, Zenon DEF Represented
    <3>2. DOMAIN a = 1 .. Len(a)
      BY LenProperties
    <3> QED
      BY <2>1, <3>1, <3>2
  <2>2. CASE ~ \E k \in DOMAIN a : Signature(a[k]) = Signature(x)
    <3>1. Represented(a, x) = Append(a, x)
      BY <2>2, Zenon DEF Represented
    <3>2. /\ Append(a, x) \in Seq(X) /\ Len(Append(a, x)) = Len(a) + 1 /\ Len(a) \in Nat
          /\ Append(a, x)[Len(a) + 1] = x /\ \A j \in 1 .. Len(a) : Append(a, x)[j] = a[j]
      BY AppendProperties, LenProperties
    <3> DEFINE b == Append(a, x)
               m == Len(a)
    <3> HIDE DEF b, m
    <3>3. b \in A /\ Len(b) = m + 1 /\ m \in Nat /\ b[m + 1] = x /\ \A j \in 1 .. m : b[j] = a[j]
      BY <3>2 DEF b, m
    <3>4. m + 1 \in 1 .. Len(b) /\ \A j \in 1 .. m : j \in 1 .. Len(b)
      BY <3>3
    <3>5. \E j \in 1 .. Len(b) : Signature(b[j]) = Signature(x)
      BY <3>3, <3>4
    <3> QED
      BY <3>1, <3>3, <3>4, <3>5 DEF b, m
  <2> QED
    BY <2>1, <2>2
<1>5. \E f : f = [k \in 0 .. n |-> IF k = 0 THEN <<>> ELSE Represented(f[k - 1], issues[k])]
  <2>1. 0 \in Nat /\ 0 <= n /\ <<>> \in A
    BY <1>1
  <2> HIDE DEF A
  <2>2. \A k \in 0 .. n, a \in A : k # 0 => step[k][a] \in A
    <3> SUFFICES ASSUME NEW k \in 0 .. n, NEW a \in A, k # 0 PROVE step[k][a] \in A
      OBVIOUS
    <3>1. issues[k] \in X
      BY <1>1
    <3> QED
      BY <1>3, <1>4, <3>1
  <2>3. PICK f : Stepwise(f, 0, n, A, <<>>, step)
    BY <1>1, <2>1, <2>2, Recursion
  <2>4. ASSUME NEW k \in 0 .. n
        PROVE  f[k] = IF k = 0 THEN <<>> ELSE Represented(f[k - 1], issues[k])
    <3>1. CASE k = 0
      BY <2>3, <3>1 DEF Stepwise
    <3>2. CASE k # 0
      <4>1. k - 1 \in 0 .. n
        BY <1>1, <3>2
      <4>2. f[k] = step[k][f[k - 1]] /\ f[k - 1] \in A
        BY <2>3, <3>2, <4>1 DEF Stepwise
      <4> QED
        BY <1>3, <3>2, <4>2
    <3> QED
      BY <3>1, <3>2
  <2>5. f = [k \in 0 .. n |-> f[k]]
    BY <2>3 DEF Stepwise
  <2> QED
    BY <2>4, <2>5
<1>6. among = [k \in 0 .. n |-> IF k = 0 THEN <<>> ELSE Represented(among[k - 1], issues[k])]
  BY <1>5, Zenon
<1> HIDE DEF among, A
<1> DEFINE Has(a, i) == \E j \in 1 .. Len(a) : Signature(a[j]) = Signature(issues[i])
           S == {k \in 0 .. n : among[k] \in A /\ \A i \in 1 .. k : Has(among[k], i)}
<1>7. 0 \in S
  <2>1. 0 \in 0 .. n /\ among[0] = <<>> /\ <<>> \in A
    BY <1>1, <1>6 DEF A
  <2>2. 1 .. 0 = {}
    OBVIOUS
  <2> HIDE DEF Has
  <2> QED
    BY <2>1, <2>2
<1>8. ASSUME NEW k \in 0 .. n, k \in S, k < n PROVE k + 1 \in S
  <2> DEFINE a == among[k]
             b == among[k + 1]
             x == issues[k + 1]
  <2>1. k + 1 \in 0 .. n /\ k + 1 \in 1 .. n /\ k + 1 # 0 /\ (k + 1) - 1 = k
    BY <1>1, <1>8
  <2>2. b = Represented(a, x)
    BY <1>6, <2>1
  <2>3. x \in X /\ a \in A /\ \A i \in 1 .. k : Has(a, i)
    BY <1>1, <1>8, <2>1
  <2>4. /\ b \in A /\ \A j \in 1 .. Len(a) : j \in 1 .. Len(b) /\ b[j] = a[j]
        /\ \E j \in 1 .. Len(b) : Signature(b[j]) = Signature(x)
    <3> HIDE DEF a, b, x, Has
    <3> QED
      BY <1>4, <2>2, <2>3
  <2> HIDE DEF a, b
  <2>5. ASSUME NEW i \in 1 .. k + 1 PROVE Has(b, i)
    <3>1. CASE i = k + 1
      BY <2>4, <3>1 DEF x
    <3>2. CASE i # k + 1
      <4>1. i \in 1 .. k
        BY <3>2
      <4> QED
        BY <2>3, <2>4, <4>1
    <3> QED
      BY <3>1, <3>2
  <2> HIDE DEF Has
  <2> QED
    BY <2>1, <2>4, <2>5 DEF b
<1>9. 0 .. n \subseteq S
  <2> HIDE DEF S
  <2>1. 0 \in Nat
    OBVIOUS
  <2> QED
    BY <1>1, <1>7, <1>8, <2>1, IntervalInduction
<1>10. n \in S
  <2>1. n \in 0 .. n
    BY <1>1
  <2> HIDE DEF S
  <2> QED
    BY <1>9, <2>1
<1> QED
  BY <1>2, <1>10 DEF n, A

\* What is sent with an issue: events that were met, and lines, not too many of either.
EventsOf(w) == {o \in w.objects : o.kind = "event"}

\* The events and lines of an issue (enrichEvents, enrichLogs).
LEMMA ContextType ==
  ASSUME NEW w, WorldOK(w), NEW I, NEW i \in I
  PROVE  LET c == Context(w, i)
         IN /\ c \in Contexts(I, EventsOf(w)) /\ c.issue = i
            /\ Len(c.events) <= MaxEvents /\ Len(c.logs) <= MaxLines
<1>1. MaxEvents \in Nat /\ MaxLines \in Nat
  BY LimitsAssumption
<1>2. EventsFor(w, i) \in Seq(EventsOf(w)) /\ Len(EventsFor(w, i)) <= MaxEvents
  <2> DEFINE events == {e \in w.objects : e.kind = "event" /\ e.ns = i.ns /\ <<e.about, e.name>> = i.resource}
             old == {e \in events : EventAge(e) = "longAgo"}
             listed == SetToSeq(events \ old) \o SetToSeq(old)
             E == EventsOf(w)
  <2>1. EventsFor(w, i) = IF <<"event", i.ns>> \in w.failed THEN <<>> ELSE AtMost(listed, MaxEvents)
    BY Zenon DEF EventsFor
  <2>2. old \subseteq events /\ events \subseteq E /\ E \subseteq w.objects
    BY DEF EventsOf
  <2> HIDE DEF old, events, E
  <2>3. IsFiniteSet(events \ old) /\ IsFiniteSet(old)
    <3>1. IsFiniteSet(events)
      BY <2>2, FS_Subset DEF WorldOK
    <3>2. events \ old \subseteq events
      OBVIOUS
    <3> QED
      BY <2>2, <3>1, <3>2, FS_Subset
  <2>4. SetToSeq(events \ old) \in Seq(events \ old) /\ SetToSeq(old) \in Seq(old)
    BY <2>3, SetToSeqType
  <2>5. Seq(events \ old) \subseteq Seq(E) /\ Seq(old) \subseteq Seq(E)
    <3>1. events \ old \subseteq E /\ old \subseteq E
      BY <2>2
    <3> QED
      BY <3>1
  <2>6. listed \in Seq(E)
    BY <2>4, <2>5
  <2> HIDE DEF listed
  <2>7. AtMost(listed, MaxEvents) \in Seq(E) /\ Len(AtMost(listed, MaxEvents)) <= MaxEvents
    BY <1>1, <2>6, AtMostType
  <2>8. <<>> \in Seq(E) /\ Len(<<>>) <= MaxEvents
    BY <1>1
  <2> QED
    BY <2>1, <2>7, <2>8 DEF E
<1>3. LogsFor(w, i) \in Seq(Nat) /\ Len(LogsFor(w, i)) <= MaxLines
  <2> DEFINE pods == LogPods(w, i)
             p == CHOOSE x \in pods : TRUE
             containers == p.containers
             c == CHOOSE x \in containers : TRUE
             lines == [n \in 1 .. c.kb |-> 1 + (n % 2)]
             none == i.type \notin PodCrashTypes \/ pods = {}
             refused == Cardinality(containers) # 1 \/ \E x \in containers : ~x.readable
  <2>1. LogsFor(w, i) = IF none THEN <<>> ELSE IF refused THEN <<>> ELSE LastOf(lines, MaxLines)
    BY Zenon DEF LogsFor
  <2>2. <<>> \in Seq(Nat) /\ Len(<<>>) <= MaxLines
    BY <1>1
  <2>3. ASSUME ~none, ~refused
        PROVE  LastOf(lines, MaxLines) \in Seq(Nat) /\ Len(LastOf(lines, MaxLines)) <= MaxLines
    <3>1. pods \subseteq {x \in w.objects : x.kind = "pod"}
      BY DEF LogPods, PodsIn
    <3>2. p \in pods
      BY <2>3
    <3>3. p \in w.objects /\ p.kind = "pod"
      BY <3>1, <3>2
    <3>4. \A x \in containers : x.kb \in Nat
      BY <3>3 DEF WorldOK
    <3>5. containers # {}
      BY <2>3, FS_EmptySet
    <3>6. c \in containers
      BY <3>5
    <3>7. c.kb \in Nat
      BY <3>4, <3>6
    <3> HIDE DEF c
    <3>8. \A n \in 1 .. c.kb : 1 + (n % 2) \in Nat
      BY <3>7
    <3>9. lines \in [1 .. c.kb -> Nat]
      BY <3>8
    <3> HIDE DEF lines
    <3>10. lines \in Seq(Nat)
      BY <3>7, <3>9
    <3> QED
      BY <1>1, <3>10, AtMostType
  <2> HIDE DEF none, refused, lines
  <2> QED
    BY <2>1, <2>2, <2>3
<1> DEFINE c == Context(w, i)
<1>4. c = [issue |-> i, events |-> EventsFor(w, i), logs |-> LogsFor(w, i)]
  BY DEF Context
<1>5. c \in Contexts(I, EventsOf(w))
  <2>1. [issue |-> i, events |-> EventsFor(w, i), logs |-> LogsFor(w, i)]
          \in [issue : I, events : Seq(EventsOf(w)), logs : Seq(Nat)]
    BY <1>2, <1>3
  <2> QED
    BY <1>4, <2>1 DEF Contexts
<1>6. c.issue = i /\ c.events = EventsFor(w, i) /\ c.logs = LogsFor(w, i)
  BY <1>4
<1> HIDE DEF c
<1> QED
  BY <1>2, <1>3, <1>5, <1>6 DEF c

\* The issues collected are critical or warnings.
Sendable(results) ==
  {i \in UNION {results[c].issues : c \in DOMAIN results} : i.severity \in {"Critical", "Warning"}}

\* What is collected are such issues (collectIssuesForAI).
LEMMA CollectedType ==
  ASSUME NEW results, ResultsOK(results)
  PROVE  Collected(results) \in Seq(Sendable(results))
<1> DEFINE E == Sendable(results)
           others == DOMAIN results \ DOMAIN BuiltinKinds
           first == <<"gitrepositories", "helmreleases", "kustomizations", "networkpolicies">>
           last == <<"pvcs", "quotas", "secrets", "workloads">>
           checkers == first \o SetToSeq(others) \o last
           Sent(c) == IF c \notin Succeeded(results) THEN <<>>
                      ELSE SetToSeq({i \in results[c].issues : i.severity # "Info"})
           seqs == [n \in DOMAIN checkers |-> Sent(checkers[n])]
<1>1. Collected(results) = FlattenSeq(seqs)
  BY Zenon DEF Collected
<1>2. \E m \in Nat : DOMAIN checkers = 1 .. m
  <2> DEFINE T == others \cup {first[j] : j \in 1 .. 4} \cup {last[j] : j \in 1 .. 4}
  <2>1. first \in Seq(T) /\ last \in Seq(T)
    <3>1. first \in [1 .. 4 -> T] /\ last \in [1 .. 4 -> T]
      <4>1. \A j \in 1 .. 4 : first[j] \in T /\ last[j] \in T
        OBVIOUS
      <4>2. first = [j \in 1 .. 4 |-> first[j]] /\ last = [j \in 1 .. 4 |-> last[j]]
        OBVIOUS
      <4> HIDE DEF first, last, T
      <4> QED
        BY <4>1, <4>2
    <3>2. 4 \in Nat
      OBVIOUS
    <3> HIDE DEF first, last, T
    <3>3. \A m \in Nat : [1 .. m -> T] \subseteq Seq(T)
      OBVIOUS
    <3> QED
      BY <3>1, <3>2, <3>3
  <2>2. SetToSeq(others) \in Seq(T)
    <3>1. IsFiniteSet(others)
      <4>1. others \subseteq DOMAIN results
        OBVIOUS
      <4> HIDE DEF others
      <4> QED
        BY <4>1, FS_Subset DEF ResultsOK
    <3>2. others \subseteq T
      OBVIOUS
    <3> HIDE DEF others, T
    <3>3. SetToSeq(others) \in Seq(others)
      BY <3>1, SetToSeqType
    <3> QED
      BY <3>2, <3>3
  <2> HIDE DEF T, first, last, others
  <2>3. checkers \in Seq(T)
    BY <2>1, <2>2
  <2> HIDE DEF checkers
  <2>4. Len(checkers) \in Nat /\ DOMAIN checkers = 1 .. Len(checkers)
    BY <2>3, LenProperties
  <2> QED
    BY <2>4
<1>3. PICK m \in Nat : DOMAIN checkers = 1 .. m
  BY <1>2
<1>4. ASSUME NEW c PROVE Sent(c) \in Seq(E)
  <2>1. CASE c \notin Succeeded(results)
    BY <2>1
  <2>2. CASE c \in Succeeded(results)
    <3> DEFINE these == {i \in results[c].issues : i.severity # "Info"}
    <3>1. c \in DOMAIN results /\ Fine(results[c].issues)
      BY <2>2 DEF ResultsOK, Succeeded
    <3>2. these \subseteq results[c].issues
      OBVIOUS
    <3>3. these \subseteq E
      BY <3>1 DEF Fine, Severities, Sendable
    <3> HIDE DEF these, E
    <3>4. IsFiniteSet(these)
      BY <3>1, <3>2, FS_Subset DEF Fine
    <3>5. SetToSeq(these) \in Seq(these)
      BY <3>4, SetToSeqType
    <3>6. SetToSeq(these) \in Seq(E)
      BY <3>3, <3>5
    <3> QED
      BY <2>2, <3>6 DEF these
  <2> QED
    BY <2>1, <2>2
<1> HIDE DEF Sent, checkers, E
<1>5. seqs \in [1 .. m -> Seq(E)]
  BY <1>3, <1>4
<1> QED
  BY <1>1, <1>5, FlattenType DEF E

\* Only issues at most as severe as all that are sent are left out.
LEMMA CappedRight ==
  ASSUME NEW X, \A x \in X : x.severity \in {"Critical", "Warning"}, NEW issues \in Seq(X)
  PROVE  LET these == Capped(issues)
         IN /\ these \in Seq(X)
            /\ \A i \in 1 .. Len(issues) :
                 \/ \E j \in 1 .. Len(these) : these[j] = issues[i]
                 \/ \A j \in 1 .. Len(these) : SevRank(issues[i].severity) <= SevRank(these[j].severity)
<1>1. MaxIssues \in Nat
  BY LimitsAssumption
<1>2. Len(issues) \in Nat /\ \A i \in 1 .. Len(issues) : issues[i] \in X
  BY LenProperties, ElementOfSeq
<1>3. CASE Len(issues) <= MaxIssues
  <2>1. Capped(issues) = issues
    BY <1>3 DEF Capped
  <2> QED
    BY <2>1
<1>4. CASE ~(Len(issues) <= MaxIssues)
  <2> DEFINE crit == OfSeverity(issues, "Critical")
             warn == OfSeverity(issues, "Warning")
             sorted == crit \o warn
             these == AtMost(sorted, MaxIssues)
             C == {x \in X : x.severity = "Critical"}
             W == {x \in X : x.severity = "Warning"}
             nc == Len(crit)
             nw == Len(warn)
  <2>1. Capped(issues) = these
    BY <1>4 DEF Capped
  <2>2. /\ crit \in Seq(C) /\ warn \in Seq(W)
        /\ \A i \in 1 .. Len(issues) : issues[i].severity = "Critical" =>
             \E j \in 1 .. nc : crit[j] = issues[i]
    BY OfSeverityType
  <2> HIDE DEF crit, warn, nc, nw
  <2>3. nc \in Nat /\ (\A j \in 1 .. nc : crit[j] \in C)
    BY <2>2, LenProperties, ElementOfSeq DEF nc
  <2>4. crit \in Seq(X) /\ warn \in Seq(X)
    <3>1. C \subseteq X /\ W \subseteq X
      OBVIOUS
    <3> HIDE DEF C, W
    <3> QED
      BY <2>2, <3>1
  <2>5. /\ sorted \in Seq(X) /\ Len(sorted) = nc + nw /\ nw \in Nat
        /\ \A j \in 1 .. nc : sorted[j] = crit[j]
    BY <2>4, ConcatProperties, LenProperties DEF nc, nw
  <2> HIDE DEF sorted
  <2>6. /\ these \in Seq(X)
        /\ \A j \in 1 .. Len(sorted) : j <= MaxIssues => j \in 1 .. Len(these) /\ these[j] = sorted[j]
        /\ \A j \in 1 .. Len(these) : j \in 1 .. Len(sorted) /\ j <= MaxIssues /\ these[j] = sorted[j]
    BY <1>1, <2>5, AtMostType
  <2> HIDE DEF these
  <2>7. \A j \in 1 .. Len(these) : these[j] \in X /\ these[j].severity \in {"Critical", "Warning"}
    <3>1. \A j \in 1 .. Len(these) : these[j] \in X
      BY <2>6, ElementOfSeq
    <3> QED
      BY <3>1
  <2>8. SevRank("Critical") = 3 /\ SevRank("Warning") = 2
    BY DEF SevRank
  <2>9. ASSUME NEW i \in 1 .. Len(issues)
        PROVE  \/ \E j \in 1 .. Len(these) : these[j] = issues[i]
               \/ \A j \in 1 .. Len(these) : SevRank(issues[i].severity) <= SevRank(these[j].severity)
    <3>1. CASE issues[i].severity = "Warning"
      <4>1. \A j \in 1 .. Len(these) : SevRank(these[j].severity) \in {2, 3}
        BY <2>7, <2>8
      <4>2. SevRank(issues[i].severity) = 2 /\ \A x \in {2, 3} : 2 <= x
        BY <2>8, <3>1
      <4> QED
        BY <4>1, <4>2
    <3>2. CASE issues[i].severity = "Critical"
      <4>1. PICK j \in 1 .. nc : crit[j] = issues[i]
        BY <2>2, <3>2
      <4>2. j \in 1 .. Len(sorted) /\ sorted[j] = issues[i]
        BY <2>3, <2>5, <4>1
      <4>3. CASE j <= MaxIssues
        BY <2>6, <4>2, <4>3
      <4>4. CASE ~(j <= MaxIssues)
        <5>1. ASSUME NEW k \in 1 .. Len(these) PROVE these[k].severity = "Critical"
          <6>1. k \in 1 .. Len(sorted) /\ k <= MaxIssues /\ these[k] = sorted[k]
            BY <2>6
          <6>2. k \in 1 .. nc
            BY <1>1, <2>3, <2>5, <4>4, <6>1
          <6> QED
            BY <2>3, <2>5, <6>1, <6>2
        <5>2. 3 <= 3
          OBVIOUS
        <5> QED
          BY <2>8, <3>2, <5>1, <5>2
      <4> QED
        BY <4>3, <4>4
    <3>3. issues[i].severity \in {"Critical", "Warning"}
      BY <1>2
    <3> QED
      BY <3>1, <3>2, <3>3
  <2> QED
    BY <2>1, <2>6, <2>9
<1> QED
  BY <1>3, <1>4

\* The batch, before the cuts.
LEMMA BatchRight ==
  ASSUME NEW w, WorldOK(w), NEW results, ResultsOK(results)
  PROVE  LET given == Batch(w, results)
             collected == Collected(results)
         IN /\ \E n \in Nat : /\ given \in Batches(n, Sendable(results), EventsOf(w))
                              /\ \A k \in 1 .. n : /\ Len(given[k].events) <= MaxEvents
                                                   /\ Len(given[k].logs) <= MaxLines
            /\ \A i \in ToSet(collected) :
                 Signature(i) \notin {Signature(given[k].issue) : k \in DOMAIN given} =>
                   \A k \in DOMAIN given : SevRank(i.severity) <= SevRank(given[k].issue.severity)
<1> DEFINE X == Sendable(results)
           collected == Collected(results)
           capped == Capped(collected)
           issues == Representatives(capped)
           given == Batch(w, results)
           n == Len(issues)
           C == {capped[j] : j \in 1 .. Len(capped)}
<1>1. collected \in Seq(X)
  BY CollectedType
<1>2. /\ capped \in Seq(X)
      /\ \A i \in 1 .. Len(collected) :
           \/ \E j \in 1 .. Len(capped) : capped[j] = collected[i]
           \/ \A j \in 1 .. Len(capped) : SevRank(collected[i].severity) <= SevRank(capped[j].severity)
  <2>1. \A x \in X : x.severity \in {"Critical", "Warning"}
    BY DEF Sendable
  <2> HIDE DEF X, collected
  <2> QED
    BY <1>1, <2>1, CappedRight
<1> HIDE DEF X, collected, capped
<1>3. capped \in Seq(C) /\ C \subseteq X
  <2>1. capped \in [1 .. Len(capped) -> C] /\ Len(capped) \in Nat
    BY <1>2, LenProperties
  <2>2. C \subseteq X
    BY <1>2, ElementOfSeq
  <2> QED
    BY <2>1, <2>2
<1>4. /\ issues \in Seq(C)
      /\ \A i \in 1 .. Len(capped) : \E j \in 1 .. n : Signature(issues[j]) = Signature(capped[i])
  <2> HIDE DEF C
  <2> QED
    BY <1>3, RepresentativesType
<1>5. given = [k \in DOMAIN issues |-> Context(w, issues[k])]
  BY DEF Batch, capped, collected
<1> HIDE DEF issues, given
<1>6. n \in Nat /\ DOMAIN issues = 1 .. n /\ \A k \in 1 .. n : issues[k] \in C /\ issues[k] \in X
  BY <1>3, <1>4, LenProperties, ElementOfSeq
<1>7. \A k \in 1 .. n : /\ given[k] \in Contexts(X, EventsOf(w)) /\ given[k].issue = issues[k]
                        /\ Len(given[k].events) <= MaxEvents /\ Len(given[k].logs) <= MaxLines
  <2> SUFFICES ASSUME NEW k \in 1 .. n
               PROVE  /\ given[k] \in Contexts(X, EventsOf(w)) /\ given[k].issue = issues[k]
                      /\ Len(given[k].events) <= MaxEvents /\ Len(given[k].logs) <= MaxLines
    OBVIOUS
  <2>1. given[k] = Context(w, issues[k]) /\ issues[k] \in X
    BY <1>5, <1>6
  <2> QED
    BY <2>1, ContextType
<1>8. given \in [1 .. n -> Contexts(X, EventsOf(w))] /\ DOMAIN given = 1 .. n
  BY <1>5, <1>6, <1>7
<1>9. ASSUME NEW i \in ToSet(collected),
             Signature(i) \notin {Signature(given[k].issue) : k \in DOMAIN given},
             NEW k \in DOMAIN given
      PROVE  SevRank(i.severity) <= SevRank(given[k].issue.severity)
  <2>1. PICK m \in 1 .. Len(collected) : collected[m] = i
    BY <1>1, LenProperties DEF ToSet
  <2>2. \A j \in 1 .. Len(capped) : capped[j] # i
    <3> SUFFICES ASSUME NEW j \in 1 .. Len(capped), capped[j] = i PROVE FALSE
      OBVIOUS
    <3>1. PICK l \in 1 .. n : Signature(issues[l]) = Signature(capped[j])
      BY <1>4
    <3>2. l \in DOMAIN given /\ Signature(given[l].issue) = Signature(i)
      BY <1>7, <1>8, <3>1
    <3> QED
      BY <1>9, <3>2
  <2>3. \A j \in 1 .. Len(capped) : SevRank(i.severity) <= SevRank(capped[j].severity)
    BY <1>2, <2>1, <2>2
  <2>4. k \in 1 .. n /\ given[k].issue \in C
    BY <1>6, <1>7, <1>8
  <2>5. PICK j \in 1 .. Len(capped) : given[k].issue = capped[j]
    BY <2>4
  <2> QED
    BY <2>3, <2>5
<1>10. given \in Batches(n, X, EventsOf(w))
  BY <1>8 DEF Batches
<1> QED
  BY <1>6, <1>7, <1>9, <1>10 DEF X, collected, given

\* The parts that are left are the first events and the last lines.
LEMMA PartEnds ==
  ASSUME NEW I, NEW E, Sized(E), NEW g \in Contexts(I, E), NEW c \in Contexts(I, E), Part(g, c)
  PROVE  IsPrefix(c.events, g.events) /\ IsSuffix(c.logs, g.logs)
<1> DEFINE n == Len(c.events)
           m == Len(g.events)
           x == Len(c.logs)
           y == Len(g.logs)
<1>1. n \in Nat /\ m \in Nat /\ x \in Nat /\ y \in Nat
  BY CharsOfType
<1>2. n <= m /\ x <= y /\ (\A j \in 1 .. n : c.events[j] = g.events[j])
      /\ \A j \in 1 .. x : c.logs[j] = g.logs[y - x + j]
  BY DEF Part
<1>3. /\ c.events \in Seq(E) /\ g.events \in Seq(E) /\ c.logs \in Seq(Nat) /\ g.logs \in Seq(Nat)
  BY DEF Contexts
\* A sequence that begins alike.
<1>4. ASSUME NEW S, NEW s \in Seq(S), NEW t \in Seq(S), Len(s) <= Len(t),
             \A j \in 1 .. Len(s) : s[j] = t[j]
      PROVE  IsPrefix(s, t)
  <2>1. Len(s) \in Nat /\ Len(t) \in Nat
    BY LenProperties
  <2> DEFINE k == Len(s)
  <2>2. SubSeq(s, 1, k) = [j \in 1 .. k |-> s[j]] /\ SubSeq(t, 1, k) = [j \in 1 .. k |-> t[j]]
    BY <2>1
  <2>3. [j \in 1 .. k |-> s[j]] = [j \in 1 .. k |-> t[j]]
    BY <1>4
  <2> QED
    BY <1>4, <2>2, <2>3, Zenon DEF IsPrefix
<1>5. IsPrefix(c.events, g.events)
  BY <1>2, <1>3, <1>4
<1>6. IsPrefix(Reverse(c.logs), Reverse(g.logs))
  <2> DEFINE s == Reverse(c.logs)
             t == Reverse(g.logs)
  <2>1. s = [i \in 1 .. x |-> c.logs[(x - i) + 1]] /\ t = [i \in 1 .. y |-> g.logs[(y - i) + 1]]
    BY DEF Reverse
  <2>2. /\ \A i \in 1 .. x : (x - i) + 1 \in 1 .. x /\ i \in 1 .. y
                             /\ y - x + ((x - i) + 1) = (y - i) + 1
        /\ \A i \in 1 .. y : (y - i) + 1 \in 1 .. y
    <3> HIDE DEF x, y
    <3> QED
      BY <1>1, <1>2
  <2>3. (\A i \in 1 .. x : c.logs[i] \in Nat) /\ (\A i \in 1 .. y : g.logs[i] \in Nat)
    BY <1>3, ElementOfSeq
  <2> HIDE DEF x, y, s, t
  <2>4. s \in [1 .. x -> Nat] /\ t \in [1 .. y -> Nat]
    BY <2>1, <2>2, <2>3
  <2>5. s \in Seq(Nat) /\ t \in Seq(Nat) /\ Len(s) = x /\ Len(t) = y
    BY <1>1, <2>4
  <2>6. \A i \in 1 .. x : s[i] = t[i]
    BY <1>2, <2>1, <2>2
  <2>7. IsPrefix(s, t)
    BY <1>2, <1>4, <2>5, <2>6
  <2> QED
    BY <2>7 DEF s, t
<1> QED
  BY <1>5, <1>6 DEF IsSuffix

\* What is sent to the AI is within the limits, leaves out the less severe and the
\* oldest, and no more than it takes (collectIssuesForAI, capTokenBudget).
THEOREM ContextFitsHolds == Spec => []ContextFits
<1>1. IInv => ContextFits
  <2> SUFFICES ASSUME IInv, report.request.type = "analysis" PROVE ContextFits
    BY DEF ContextFits
  <2> DEFINE given == report.given
             sent == report.sent
             results == report.results
             I == Sendable(results)
             E == EventsOf(report.world)
  <2>1. MetOK(report.world) /\ ResultsOK(results)
        /\ given = Batch(report.world, results) /\ sent = CapTokenBudget(given)
    BY DEF IInv, ReportOK
  <2>2. WorldOK(report.world) /\ Sized(E)
    BY <2>1 DEF MetOK, Sized, EventsOf
  <2>3. /\ \E n \in Nat : /\ given \in Batches(n, I, E)
                          /\ \A k \in 1 .. n : /\ Len(given[k].events) <= MaxEvents
                                               /\ Len(given[k].logs) <= MaxLines
        /\ \A i \in ToSet(Collected(results)) :
             Signature(i) \notin {Signature(given[k].issue) : k \in DOMAIN given} =>
               \A k \in DOMAIN given : SevRank(i.severity) <= SevRank(given[k].issue.severity)
    BY <2>1, <2>2, BatchRight, Zenon
  <2>4. PICK n \in Nat : /\ given \in Batches(n, I, E)
                         /\ \A k \in 1 .. n : /\ Len(given[k].events) <= MaxEvents
                                              /\ Len(given[k].logs) <= MaxLines
    BY <2>3
  <2> HIDE DEF I, E
  <2>5. /\ sent \in Batches(n, I, E) /\ Chars(sent) <= MaxTotalChars /\ Pieces(n, given, sent)
        /\ EventsFirst(n, given, sent) /\ LinesFirst(n, given, sent)
    BY <2>1, <2>2, <2>4, BudgetKept
  <2> HIDE DEF given, sent, results
  <2>6. DOMAIN given = 1 .. n /\ DOMAIN sent = 1 .. n
    BY <2>4, <2>5 DEF Batches
  <2>7. \A k \in 1 .. n : /\ given[k] \in Contexts(I, E) /\ sent[k] \in Contexts(I, E)
                          /\ Part(given[k], sent[k])
    BY <2>4, <2>5 DEF Batches, Pieces
  <2>8. \A k \in 1 .. n : sent[k].issue = given[k].issue
    BY <2>7 DEF Part
  <2>9. \A i \in ToSet(Collected(results)) :
          Signature(i) \notin {Signature(sent[k].issue) : k \in DOMAIN sent} =>
            \A k \in DOMAIN sent : SevRank(i.severity) <= SevRank(sent[k].issue.severity)
    <3>1. {Signature(sent[k].issue) : k \in DOMAIN sent} = {Signature(given[k].issue) : k \in DOMAIN given}
      BY <2>6, <2>8
    <3> QED
      BY <2>3, <2>6, <2>8, <3>1
  <2>10. \A k \in DOMAIN sent : /\ IsPrefix(sent[k].events, given[k].events)
                                /\ IsSuffix(sent[k].logs, given[k].logs)
    BY <2>2, <2>6, <2>7, PartEnds
  <2>11. \A j, k \in DOMAIN sent :
           /\ sent[k].logs # given[k].logs => Len(sent[j].events) <= 1
           /\ sent[k].events = <<>> /\ given[k].events # <<>> => Len(sent[j].logs) <= 1
    BY <2>5, <2>6 DEF EventsFirst, LinesFirst, AllSingle, AllShort
  <2>12. sent # given => \E k \in DOMAIN sent :
           \E size \in LastGone(given[k], sent[k]) : Chars(sent) + size > MaxTotalChars
    BY <2>5, <2>6 DEF Pieces
  <2> QED
    BY <2>5, <2>9, <2>10, <2>11, <2>12 DEF ContextFits, LastGone, given, sent, results
<1> QED
  BY <1>1, Invariance, PTL
=============================================================================
