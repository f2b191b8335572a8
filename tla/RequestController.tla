-------------------------- MODULE RequestController --------------------------
(***************************************************************************)
(* The controllers of TeamHealthRequest and TroubleshootRequest            *)
(* (internal/controller): a request is claimed by writing its phase        *)
(* Running, worked on, and finished by a second write; a finished one is   *)
(* deleted when its TTL is over.                                           *)
(*                                                                         *)
(* Around them is what the code takes from Kubernetes: the API server      *)
(* keeps the versions of an object, the manager's cache (mgr.GetClient     *)
(* reads from it) lags behind them, the work queue hands out a name to one *)
(* worker per controller.  A write may fail before or after it took        *)
(* effect, and the operator may stop at any point.                         *)
(*                                                                         *)
(* The two controllers differ in the first write: TeamHealthRequest sends  *)
(* a merge patch, which is applied to whatever the server has, and         *)
(* TroubleshootRequest an update, which the server refuses when the        *)
(* object has changed since it was read.                                   *)
(***************************************************************************)
EXTENDS Integers, Sequences

CONSTANTS
  Health,          \* names of TeamHealthRequests
  Troubleshoot,    \* names of TroubleshootRequests
  NotifyCapacity,  \* --notify-sem-capacity
  MaxCreates,      \* bound on the requests made
  MaxEdits,        \* bound on other writes of users
  MaxFaults        \* bound on failed writes and on restarts

ASSUME NamesAssumption == Health \cap Troubleshoot = {}
ASSUME CapacityAssumption == NotifyCapacity \in Nat \ {0}
ASSUME BoundsAssumption == MaxCreates \in Nat /\ MaxEdits \in Nat /\ MaxFaults \in Nat

Names == Health \cup Troubleshoot
Controllers == {Health, Troubleshoot}
ControllerOf(n) == IF n \in Health THEN Health ELSE Troubleshoot

VARIABLES
  log,        \* per name the versions the API server has had of the object
  seen,       \* per name the version in the manager's cache
  queue,      \* names in the work queues
  delayed,    \* names to be queued again: RequeueAfter, or back-off after an error
  due,        \* completions whose TTL is over, as pairs of name and CompletedAt
  worker,     \* per controller its worker goroutine
  notifying,  \* notification goroutines, each with a slot of NotifySem
  executed,   \* per name and request: how often it was worked on (an observation)
  creates,    \* the requests made so far
  edits, faults

serverVars == <<log, seen, due>>
queueVars == <<queue, delayed>>
userVars == <<creates, edits>>
vars == <<serverVars, queueVars, worker, notifying, executed, userVars, faults>>

\* A version of an object.  CompletedAt is the number of the version it came with,
\* 0 when it is not set.
Absent == [phase |-> "absent", startedAt |-> FALSE, completedAt |-> 0,
           ttl |-> FALSE, uid |-> 0]
Request(uid, ttl) ==
  [phase |-> "Pending", startedAt |-> FALSE, completedAt |-> 0, ttl |-> ttl, uid |-> uid]

Latest(n) == log[n][Len(log[n])]
Cached(n) == log[n][seen[n]]
Exists(n) == Latest(n).phase # "absent"
Finished(obj) == obj.phase \in {"Completed", "Failed"}

IdleWorker == [pc |-> "idle", name |-> "none", rv |-> 0, result |-> "none"]

Init ==
  /\ log = [n \in Names |-> <<Absent>>]
  /\ seen = [n \in Names |-> 1]
  /\ queue = {} /\ delayed = {} /\ due = {}
  /\ worker = [c \in Controllers |-> IdleWorker]
  /\ notifying = 0
  /\ executed = [n \in Names |-> [u \in 1 .. MaxCreates |-> 0]]
  /\ creates = 0 /\ edits = 0 /\ faults = 0

-----------------------------------------------------------------------------
(* The API server, its users, the cache and the work queue. *)

Write(n, obj) == log' = [log EXCEPT ![n] = Append(@, obj)]

Create(n) ==
  /\ ~Exists(n)
  /\ creates < MaxCreates
  /\ \E ttl \in BOOLEAN : Write(n, Request(creates + 1, ttl))
  /\ creates' = creates + 1
  /\ UNCHANGED <<seen, due, queueVars, worker, notifying, executed, edits, faults>>

\* A label, an annotation, the spec: nothing the phases depend on.  (A change of a
\* ConfigMap that a TroubleshootRequest owns queues its name just so.)
Edit(n) ==
  /\ Exists(n)
  /\ edits < MaxEdits
  /\ Write(n, Latest(n))
  /\ edits' = edits + 1
  /\ UNCHANGED <<seen, due, queueVars, worker, notifying, executed, creates, faults>>

UserDeletes(n) ==
  /\ Exists(n)
  /\ Write(n, Absent)
  /\ UNCHANGED <<seen, due, queueVars, worker, notifying, executed, userVars, faults>>

\* The watch brings the next version to the cache and its name to the queue.
Observe(n) ==
  /\ seen[n] < Len(log[n])
  /\ seen' = [seen EXCEPT ![n] = @ + 1]
  /\ queue' = queue \cup {n}
  /\ UNCHANGED <<log, due, delayed, worker, notifying, executed, userVars, faults>>

Requeue(n) ==
  /\ n \in delayed
  /\ delayed' = delayed \ {n}
  /\ queue' = queue \cup {n}
  /\ UNCHANGED <<serverVars, worker, notifying, executed, userVars, faults>>

TTLEnds(n) ==
  LET done == <<n, Latest(n).completedAt>> IN
  /\ Finished(Latest(n)) /\ Latest(n).ttl /\ done \notin due
  /\ due' = due \cup {done}
  /\ UNCHANGED <<log, seen, queueVars, worker, notifying, executed, userVars, faults>>

\* The operator stops and starts again: its cache is filled anew, and every object
\* that exists is queued.
Restart ==
  /\ faults < MaxFaults
  /\ faults' = faults + 1
  /\ seen' = [n \in Names |-> Len(log[n])]
  /\ queue' = {n \in Names : Exists(n)}
  /\ delayed' = {}
  /\ worker' = [c \in Controllers |-> IdleWorker]
  /\ notifying' = 0
  /\ UNCHANGED <<log, due, executed, userVars>>

-----------------------------------------------------------------------------
(* Reconcile.  Each API call is a step of its own. *)

WorkerOf(n) == worker[ControllerOf(n)]
At(n, pc) == WorkerOf(n).name = n /\ WorkerOf(n).pc = pc
Become(n, new) == worker' = [worker EXCEPT ![ControllerOf(n)] = new]
Goto(n, pc) == Become(n, [WorkerOf(n) EXCEPT !.pc = pc])
Return(n) == Become(n, IdleWorker)

\* Reconcile returns an error: the name is queued again after a while.
ReturnError(n) == Return(n) /\ delayed' = delayed \cup {n}

\* A write fails, or its answer is lost: the handler sees an error.
WriteFails(n, accepted, obj) ==
  /\ faults < MaxFaults
  /\ faults' = faults + 1
  /\ \/ UNCHANGED log
     \/ accepted /\ Write(n, obj)
  /\ ReturnError(n)

\* Mutation: a running request is run again.
ToStartUnguarded(obj) == obj.phase \in {"Pending", "Running"}
\* Neither finished nor Running with StartedAt set.
ToStart(obj) == obj.phase = "Pending"

\* Mutation: a request that is not due is not looked at again.
AwaitTTLNever(n) == UNCHANGED delayed
\* RequeueAfter: remaining.
AwaitTTL(n) == delayed' = delayed \cup {n}

\* Reconcile up to its first write.
Fetch(n) ==
  LET obj == Cached(n)
      expired == <<n, obj.completedAt>> \in due
      at(pc) == [pc |-> pc, name |-> n, rv |-> seen[n], result |-> "none"]
  IN
  /\ WorkerOf(n).pc = "idle"
  /\ n \in queue
  /\ queue' = queue \ {n}
  /\ \/ /\ obj.phase = "absent" \/ (Finished(obj) /\ ~obj.ttl)
        /\ UNCHANGED <<worker, delayed>>
     \/ Finished(obj) /\ obj.ttl /\ ~expired /\ AwaitTTL(n) /\ UNCHANGED worker
     \/ Finished(obj) /\ obj.ttl /\ expired /\ Become(n, at("delete")) /\ UNCHANGED delayed
     \/ ToStart(obj) /\ Become(n, at("claim")) /\ UNCHANGED delayed
     \/ /\ obj.phase = "Running" /\ ~ToStart(obj)
        /\ delayed' = delayed \cup {n}
        /\ UNCHANGED worker
  /\ UNCHANGED <<serverVars, notifying, executed, userVars, faults>>

\* Mutation: the first write of a TroubleshootRequest is a patch as well.
AcceptsPatch(n) == Exists(n)
\* Whether the server takes the write of Running: a patch of whatever exists, an
\* update of the version that was read.
Accepts(n) == Exists(n) /\ (n \in Troubleshoot => WorkerOf(n).rv = Len(log[n]))

Started(obj) == [obj EXCEPT !.phase = "Running", !.startedAt = TRUE]
Claimed(w, rv) == [w EXCEPT !.pc = "work", !.rv = rv]

\* Phase Running and StartedAt are persisted; the answer is what the handler works
\* with from here on.
Claim(n) ==
  LET running == Started(Latest(n)) IN
  /\ At(n, "claim")
  /\ \/ /\ Accepts(n)
        /\ Write(n, running)
        /\ Become(n, Claimed(WorkerOf(n), Len(log[n]) + 1))
        /\ UNCHANGED <<delayed, faults>>
     \/ ~Accepts(n) /\ ReturnError(n) /\ UNCHANGED <<log, faults>>
     \/ WriteFails(n, Accepts(n), running)
  /\ UNCHANGED <<seen, due, queue, notifying, executed, userVars>>

Worked(w, result) == [w EXCEPT !.pc = "finish", !.result = result]

\* The checks, or the diagnosis of the pods: done, or setFailed.
Work(n) ==
  /\ At(n, "work")
  /\ \E result \in {"Completed", "Failed"} :
       Become(n, Worked(WorkerOf(n), result))
  /\ executed' = [executed EXCEPT ![n][log[n][WorkerOf(n).rv].uid] = @ + 1]
  /\ UNCHANGED <<serverVars, queueVars, notifying, userVars, faults>>

\* Mutation: a failure is described but the phase is not changed.
FinalPhaseRunning(result) == IF result = "Failed" THEN "Running" ELSE result
FinalPhase(result) == result

Ended(obj, phase, version) == [obj EXCEPT !.phase = phase, !.completedAt = version]

\* The final status patch; TeamHealthRequest goes on to the notifications.
Finish(n) ==
  LET result == WorkerOf(n).result
      finished == Ended(Latest(n), FinalPhase(result), Len(log[n]) + 1)
  IN
  /\ At(n, "finish")
  /\ \/ /\ Exists(n)
        /\ Write(n, finished)
        /\ IF n \in Health /\ result = "Completed" THEN Goto(n, "notify") ELSE Return(n)
        /\ UNCHANGED <<delayed, faults>>
     \/ ~Exists(n) /\ ReturnError(n) /\ UNCHANGED <<log, faults>>
     \/ WriteFails(n, Exists(n), finished)
  /\ UNCHANGED <<seen, due, queue, notifying, executed, userVars>>

HasSlot == notifying < NotifyCapacity

\* launchNotifications, when the request asks for any: skipped without a slot.
LaunchNotifications(n) ==
  /\ At(n, "notify")
  /\ \/ HasSlot /\ notifying' = notifying + 1
     \/ UNCHANGED notifying
  /\ Return(n)
  /\ UNCHANGED <<serverVars, queueVars, executed, userVars, faults>>

\* A notification goroutine ends, at the latest by its timeout.
NotificationEnds ==
  /\ notifying > 0
  /\ notifying' = notifying - 1
  /\ UNCHANGED <<serverVars, queueVars, worker, executed, userVars, faults>>

\* The TTL is over: the object of this name is deleted.
DeleteExpired(n) ==
  /\ At(n, "delete")
  /\ \/ Exists(n) /\ Write(n, Absent) /\ Return(n) /\ UNCHANGED <<delayed, faults>>
     \/ ~Exists(n) /\ ReturnError(n) /\ UNCHANGED <<log, faults>>
     \/ WriteFails(n, Exists(n), Absent)
  /\ UNCHANGED <<seen, due, queue, notifying, executed, userVars>>

ReconcileStep(n) ==
  Claim(n) \/ Work(n) \/ Finish(n) \/ LaunchNotifications(n) \/ DeleteExpired(n)

-----------------------------------------------------------------------------
Next ==
  \/ \E n \in Names : \/ Create(n) \/ Edit(n) \/ UserDeletes(n)
                      \/ Observe(n) \/ Requeue(n) \/ TTLEnds(n)
                      \/ Fetch(n) \/ ReconcileStep(n)
  \/ NotificationEnds
  \/ Restart

(***************************************************************************)
(* Fairness: the watch delivers, delays and TTLs end, the workers run and  *)
(* their calls return.  Users, failures and restarts are not forced.       *)
(***************************************************************************)
Fairness ==
  /\ \A n \in Names :
       /\ WF_vars(Observe(n)) /\ WF_vars(Requeue(n)) /\ WF_vars(TTLEnds(n))
       /\ WF_vars(Fetch(n)) /\ WF_vars(ReconcileStep(n))
  /\ WF_vars(NotificationEnds)

Spec == Init /\ [][Next]_vars
FairSpec == Spec /\ Fairness

-----------------------------------------------------------------------------
Phases == {"absent", "Pending", "Running", "Completed", "Failed"}
Objects ==
  {o \in [phase : Phases, startedAt : BOOLEAN, completedAt : Nat, ttl : BOOLEAN,
           uid : 0 .. MaxCreates] : o.phase = "absent" <=> o.uid = 0}

Workers ==
  {IdleWorker} \cup
  [pc : {"claim", "work", "finish", "notify", "delete"}, name : Names, rv : Nat,
   result : {"none", "Completed", "Failed"}]

\* A busy worker has a name of its own controller, and holds a version that
\* existed.
BusyOK(w, c) ==
  w.pc # "idle" =>
    /\ w.name \in c
    /\ w.rv \in 1 .. Len(log[w.name]) /\ log[w.name][w.rv].uid # 0
    /\ w.pc = "finish" => w.result # "none"

TypeOK ==
  /\ log \in [Names -> Seq(Objects)]
  /\ seen \in [Names -> Nat]
  /\ \A n \in Names : seen[n] \in 1 .. Len(log[n])
  /\ queue \subseteq Names /\ delayed \subseteq Names
  /\ worker \in [Controllers -> Workers]
  /\ \A c \in Controllers : BusyOK(worker[c], c)
  /\ notifying \in 0 .. NotifyCapacity
  /\ executed \in [Names -> [1 .. MaxCreates -> Nat]]
  /\ creates \in 0 .. MaxCreates

\* The phases of a TroubleshootRequest follow its life cycle, whatever the cache
\* misses, the API server refuses or a restart interrupts (the update of
\* troubleshootrequest_controller.go:112 and the guard at :104).
Life == INSTANCE RequestLifecycle WITH
          Names <- Troubleshoot,
          phase <- [n \in Troubleshoot |-> Latest(n).phase]
TroubleshootLifecycle == Life!Spec

\* A TroubleshootRequest is diagnosed at most once: "skip duplicate execution"
\* (troubleshootrequest_controller_test.go), a restart or a lost answer included.
ExecutedOnce == \A n \in Troubleshoot : \A u \in DOMAIN executed[n] : executed[n][u] <= 1

\* As long as no write fails and the operator is not restarted, every request is
\* finished, stale reads and conflicts notwithstanding.
EndsUnlessFault ==
  \A n \in Names : (Exists(n) /\ faults = 0) ~> (Finished(Latest(n)) \/ ~Exists(n) \/ faults > 0)

\* A finished request with a TTL does not stay, failed deletions and restarts
\* included.
TTLRemoves == \A n \in Names : (Finished(Latest(n)) /\ Latest(n).ttl) ~> ~Finished(Latest(n))

\* "Running --> Failed: Error during reconciliation"
\* (docs/architecture/01-reconciliation-flows.md): Running is always left.
RunningEnds == \A n \in Names : Latest(n).phase = "Running" ~> Latest(n).phase # "Running"
=============================================================================
