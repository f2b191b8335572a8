------------------------------ MODULE AIContext ------------------------------
(***************************************************************************)
(* The issues of a check as they are sent to the AI in one batch            *)
(* (EnhanceAllWithAI, checker.go) with the events and the logs that belong  *)
(* to them (context_builder.go).                                            *)
(*                                                                          *)
(* An event has a size; a container's log is the sequence of the sizes of   *)
(* its lines, kb of them.  A workload's pods are those it selects: for      *)
(* these pods owner references say the same.                                *)
(***************************************************************************)
EXTENDS Naturals, Sequences, FiniteSets, SequencesExt, Checkers, HealthSummary, HealthReports

CONSTANTS
  MaxIssues,      \* 15 in the code (--ai-max-issues)
  MaxEvents,      \* 10
  MaxLines,       \* 50
  MaxTotalChars   \* 30000

\* Where the configuration has no positive number, the code takes these instead.
ASSUME LimitsAssumption ==
  {MaxIssues, MaxEvents, MaxLines, MaxTotalChars} \subseteq Nat

\* collectIssuesForAI: the checkers by their names, Info issues left out.
Collected(results) ==
  LET plugins == SetToSeq(DOMAIN results \ DOMAIN BuiltinKinds)
      checkers == <<"gitrepositories", "helmreleases", "kustomizations", "networkpolicies">>
                  \o plugins \o <<"pvcs", "quotas", "secrets", "workloads">>
      Sent(c) == IF c \notin Succeeded(results) THEN <<>>
                 ELSE SetToSeq({i \in results[c].issues : i.severity # "Info"})
  IN FlattenSeq([n \in DOMAIN checkers |-> Sent(checkers[n])])

AtMost(s, n) == SubSeq(s, 1, Min({Len(s), n}))
LastOf(s, n) == SubSeq(s, Len(s) - Min({Len(s), n}) + 1, Len(s))

\* The issues of one severity, in their order.
OfSeverity(issues, severity) ==
  LET among[n \in 0..Len(issues)] ==
        IF n = 0 THEN <<>>
        ELSE IF issues[n].severity = severity THEN Append(among[n - 1], issues[n]) ELSE among[n - 1]
  IN among[Len(issues)]

\* Too many issues: the most severe ones, otherwise in their order.
Capped(issues) ==
  IF Len(issues) <= MaxIssues THEN issues
  ELSE AtMost(OfSeverity(issues, "Critical") \o OfSeverity(issues, "Warning"), MaxIssues)

\* What tells the texts of two issues of one type apart: a container, a pod
\* (but not its hash), the object, or nothing.
AboutContainers == {"ContainerNotReady", "HighRestartCount", "NoMemoryLimit", "NoResourceRequests"}
AboutPods == {"PodNotRunning", "SchedulingFailed", "PodNotReady"}
Nameless == {"StaleReconciliation", "NoArtifact", "NoAuthentication", "PVCNoCapacity",
             "InvalidCertificate", "CertExpired", "CertExpiringSoon", "CertNotYetValid"}
Message(i) ==
  CASE i.type \in AboutContainers -> <<Last(i.at)>>
    [] i.type \in AboutPods -> IF i.resource[1] = "statefulset" THEN i.at ELSE i.resource[2]
    [] i.type \in Nameless -> <<>>
    [] OTHER -> <<i.resource[2], i.at>>

\* normalizeIssueSignature; the namespace is not passed to it.
Signature(i) == <<i.type, i.severity, Message(i)>>

\* The first issue of each signature stands for all of them.
Represented(first, issue) ==
  IF \E k \in DOMAIN first : Signature(first[k]) = Signature(issue) THEN first
  ELSE Append(first, issue)
Representatives(issues) ==
  LET among[n \in 0..Len(issues)] ==
        IF n = 0 THEN <<>> ELSE Represented(among[n - 1], issues[n])
  IN among[Len(issues)]

-----------------------------------------------------------------------------
(* ContextBuilder.Enrich. *)

\* enrichEvents: by the kind and the name of the object they are about, newest
\* first; an event without a time counts from its creation, which is recent.
EventsFor(world, i) ==
  LET events == {e \in world.objects : e.kind = "event" /\ e.ns = i.ns /\ <<e.about, e.name>> = i.resource}
      old == {e \in events : EventAge(e) = "longAgo"}
  IN IF <<"event", i.ns>> \in world.failed THEN <<>>
     ELSE AtMost(SetToSeq(events \ old) \o SetToSeq(old), MaxEvents)

PodCrashTypes == {"CrashLoopBackOff", "OOMKilled", "Error"}

\* The pod itself or, through findOwnedPods, those of a workload.
LogPods(world, i) ==
  CASE i.resource[1] = "pod" -> {p \in world.objects : p.kind = "pod" /\ p.ns = i.ns /\ p.name = i.resource[2]}
    [] i.resource[1] \in WorkloadKinds \cup {"replicaset"} ->
         {p \in PodsIn(world, i.ns) : \E o \in world.objects :
            o.kind = i.resource[1] /\ o.ns = i.ns /\ o.name = i.resource[2] /\ o.app = p.app}
    [] OTHER -> {}

\* enrichLogs: the log of the first pod.  No container is named, so the API
\* server refuses the log of a pod with several.
LogsFor(world, i) ==
  LET pods == LogPods(world, i)
      containers == (CHOOSE p \in pods : TRUE).containers
  IN IF i.type \notin PodCrashTypes \/ pods = {} THEN <<>>
     ELSE IF Cardinality(containers) # 1 \/ \E c \in containers : ~c.readable THEN <<>>
     ELSE LastOf([n \in 1..(CHOOSE c \in containers : TRUE).kb |-> 1 + (n % 2)], MaxLines)

Context(world, i) == [issue |-> i, events |-> EventsFor(world, i), logs |-> LogsFor(world, i)]

\* contextChars.
CharsOf(c) == Total([n \in 1..Len(c.events) |-> c.events[n].size]) + Total(c.logs)
Chars(contexts) == Total([k \in 1..Len(contexts) |-> CharsOf(contexts[k])])

\* Mutation: the newest event goes first.
TrimNewest(c, what) ==
  CASE what = "event" /\ Len(c.events) > 1 -> [c EXCEPT !.events = Tail(@)]
    [] what = "line" /\ Len(c.logs) > 1    -> [c EXCEPT !.logs = Tail(@)]
    [] what = "events"                 -> [c EXCEPT !.events = <<>>]
    [] what = "lines"                  -> [c EXCEPT !.logs = <<>>]
    [] OTHER                               -> c

\* The oldest event, the oldest line, all that is left of either.
Trim(c, what) ==
  CASE what = "event" /\ Len(c.events) > 1 -> [c EXCEPT !.events = Front(@)]
    [] what = "line" /\ Len(c.logs) > 1    -> [c EXCEPT !.logs = Tail(@)]
    [] what = "events"                 -> [c EXCEPT !.events = <<>>]
    [] what = "lines"                  -> [c EXCEPT !.logs = <<>>]
    [] OTHER                               -> c

\* Something of one issue goes, unless all fits.
Cut(contexts, i, what) ==
  IF Chars(contexts) <= MaxTotalChars THEN contexts ELSE [contexts EXCEPT ![i] = Trim(@, what)]
CutOne(contexts, i, what) ==
  IF what = "rest" THEN Cut(Cut(contexts, i, "events"), i, "lines") ELSE Cut(contexts, i, what)

\* A round over the issues, and several rounds.  The code repeats a round until
\* nothing goes any more, which is after as many rounds as there are entries.
Round(contexts, what) ==
  LET after[i \in 0..Len(contexts)] ==
        IF i = 0 THEN contexts ELSE CutOne(after[i - 1], i, what)
  IN after[Len(contexts)]
Rounds(contexts, what, n) ==
  LET after[r \in 0..n] == IF r = 0 THEN contexts ELSE Round(after[r - 1], what)
  IN after[n]

\* capTokenBudget: one event of each issue, round by round; then one line of
\* each; at last all that is left.
CapTokenBudget(contexts) ==
  Rounds(Rounds(Rounds(contexts, "event", MaxEvents), "line", MaxLines), "rest", 1)

\* The batch, before and after it is cut to its budget.
Batch(world, results) ==
  LET issues == Representatives(Capped(Collected(results)))
  IN [i \in DOMAIN issues |-> Context(world, issues[i])]
=============================================================================
