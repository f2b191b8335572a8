----------------------- MODULE DashboardPipelineProofs -----------------------
(***************************************************************************)
(* Proofs about DashboardPipeline, for any clusters, issues, AI            *)
(* configurations, goroutines, channel capacity and bounds, with requests  *)
(* served during the startup run or not: no theorem has a hypothesis.      *)
(***************************************************************************)
EXTENDS DashboardPipeline, TLAPS

-----------------------------------------------------------------------------
(***************************************************************************)
(* The inductive invariant.  Suggestions match the issues shown because    *)
(* cs.currentIssueHash always is the hash of what cs.latest shows, so that *)
(* the post-flight check compares a result with what it will be patched    *)
(* into, and because what a check holds from the cache is about the issues *)
(* the check found.  The rest of it are types.                             *)
(***************************************************************************)
Shown == {u \in Updates : u.enh # NoHash => u.enh = u.hash}

CheckLocals ==
  [pc : {"idle", "collect", "settings", "number", "lookup", "decide", "publish",
         "enqueue", "degrade"},
   hash : Hashes \cup {NoHash}, enabled : BOOLEAN, gen : Nat, cached : Caches,
   model : Configs \cup {NoConfig}, ai : {"none", "pending", "done"},
   version : (Configs \cup {NoConfig}) \X (Configs \cup {NoConfig})]

SoundLocals ==
  {k \in CheckLocals :
     /\ k.pc \notin {"idle", "collect"} => k.hash \in Hashes
     /\ k.pc \in {"decide", "publish"} =>
          k.model \in Configs /\ (k.cached.result = "enhanced" => k.cached.hash = k.hash)
     /\ k.pc = "enqueue" => k.version \in Versions}

HandlerLocals ==
  [pc : {"idle", "preflight", "call", "calling", "result", "done"},
   by : Configs \cup {NoConfig}, outcome : {"none", "enhanced", "empty", "error"}]

PosterLocals ==
  {k \in [pc : {"idle", "reconfigure", "enable", "commit", "trigger"},
          config : Configs \cup {NoConfig}, enabled : BOOLEAN] :
     k.pc # "idle" => k.config \in Configs}

QueueInv ==
  /\ ch \in Seq(Requests) /\ Len(ch) <= Capacity
  /\ pending \in [Clusters -> Requests \cup {NoRequest}]
  /\ inflight \subseteq Clusters
  /\ worker \in Requests \cup {NoRequest}

HandlerInv ==
  /\ handler \in HandlerLocals
  /\ worker = NoRequest <=> handler.pc = "idle"
  /\ handler.pc = "result" => handler.outcome # "none"

ClusterInv ==
  /\ latest \in [Clusters -> Shown]
  /\ currentIssueHash = [c \in Clusters |-> latest[c].hash]
  /\ aiCache \in [Clusters -> Caches]
  /\ checkCounter \in [Clusters -> Nat]

ServerInv ==
  /\ manager \in [config : Configs, enabled : BOOLEAN]
  /\ aiConfig \in Configs /\ aiEnabled \in BOOLEAN

RunInv ==
  /\ check \in [Runs -> [Clusters -> SoundLocals]]
  /\ running \subseteq Runs
  /\ checkInFlight \in BOOLEAN
  /\ checkInFlight <=> running \cap Guarded # {}
  /\ \A r, q \in running \cap Guarded : r = q

PosterInv == poster \in [Posters -> PosterLocals]

IInv == QueueInv /\ HandlerInv /\ ClusterInv /\ ServerInv /\ RunInv /\ PosterInv

-----------------------------------------------------------------------------
\* The state in which Start launches the startup run has the invariant.
LEMMA InitInv == Init => IInv
<1> SUFFICES ASSUME Init PROVE IInv
  OBVIOUS
<1> USE DEF Init
<1>1. QueueInv
  BY CapacityAssumption DEF QueueInit, QueueInv
<1>2. HandlerInv
  BY DEF QueueInit, HandlerInv, HandlerLocals, IdleHandler
<1>3. ClusterInv
  <2>1. NoUpdate \in Shown /\ NoUpdate.hash = NoHash
    BY DEF NoUpdate, Shown, Updates
  <2>2. NoCache \in Caches
    BY DEF NoCache, Caches
  <2>3. QED
    BY <2>1, <2>2 DEF ClusterInv
<1>4. ServerInv
  BY DEF ServerInv
<1>5. RunInv
  <2>1. NoCache \in Caches
    BY DEF NoCache, Caches
  <2>2. IdleCheck \in SoundLocals /\ [IdleCheck EXCEPT !.pc = "collect"] \in SoundLocals
    BY <2>1 DEF IdleCheck, SoundLocals, CheckLocals
  <2>3. check \in [Runs -> [Clusters -> SoundLocals]]
    BY <2>2
  <2>4. QED
    BY <2>3, GuardedAssumption DEF RunInv, Runs
<1>6. PosterInv
  BY DEF PosterInv, PosterLocals, IdlePoster
<1>7. QED
  BY <1>1, <1>2, <1>3, <1>4, <1>5, <1>6 DEF IInv

-----------------------------------------------------------------------------
(* The queue's methods. *)

\* dispatchPendingLocked moves requests from pending to the channel and does not
\* fill it beyond its capacity.
LEMMA DispatchTypes ==
  ASSUME NEW p \in [Clusters -> Requests \cup {NoRequest}],
         NEW f \in SUBSET Clusters,
         ch \in Seq(Requests), Len(ch) <= Capacity,
         Dispatch(ch, p, f)
  PROVE  /\ ch' \in Seq(Requests) /\ Len(ch') <= Capacity
         /\ pending' \in [Clusters -> Requests \cup {NoRequest}]
         /\ inflight' \subseteq Clusters
<1>1. PICK k, order :
        /\ k \in 0 .. (Capacity - Len(ch))
        /\ order \in [1 .. k -> Waiting(p, f)]
        /\ \A i, j \in 1 .. k : i # j => order[i] # order[j]
        /\ \/ k = Capacity - Len(ch)
           \/ {order[i] : i \in 1 .. k} = Waiting(p, f)
        /\ ch' = ch \o [i \in 1 .. k |-> p[order[i]]]
        /\ pending' = [c \in Clusters |->
                         IF c \in {order[i] : i \in 1 .. k} THEN NoRequest ELSE p[c]]
        /\ inflight' = f \cup {order[i] : i \in 1 .. k}
  BY DEF Dispatch, Promotable, Room, Remaining
<1> DEFINE t == [i \in 1 .. k |-> p[order[i]]]
<1>2. k \in Nat /\ Capacity \in Nat /\ Len(ch) \in Nat /\ Len(ch) + k <= Capacity
  BY <1>1, CapacityAssumption
<1>3. \A i \in 1 .. k : order[i] \in Clusters /\ p[order[i]] \in Requests
  BY <1>1 DEF Waiting
<1>4. t \in Seq(Requests) /\ Len(t) = k
  BY <1>2, <1>3
<1>5. ch' \in Seq(Requests) /\ Len(ch') = Len(ch) + k
  BY <1>1, <1>2, <1>4
<1>6. QED
  BY <1>1, <1>2, <1>3, <1>5

\* Enqueue, accepting or refusing a request, keeps the queue well typed and
\* leaves the worker alone.
LEMMA EnqueueTypes ==
  ASSUME QueueInv, NEW req \in Requests, Enqueue(req) \/ EnqueueFull(req)
  PROVE  QueueInv' /\ UNCHANGED worker
<1> USE DEF QueueInv
<1>1. req.clusterID \in Clusters
  BY DEF Requests
<1>2. [pending EXCEPT ![req.clusterID] = req] \in [Clusters -> Requests \cup {NoRequest}]
  BY <1>1
<1>3. CASE Coalesce(req)
  BY <1>2, <1>3 DEF Coalesce
<1>4. CASE ReplacePending(req)
  BY <1>2, <1>4, DispatchTypes DEF ReplacePending
<1>5. CASE Send(req)
  <2>1. Len(ch) \in Nat /\ Capacity \in Nat /\ Len(Append(ch, req)) = Len(ch) + 1
    BY CapacityAssumption
  <2>2. QED
    BY <1>1, <1>5, <2>1 DEF Send
<1>6. CASE EnqueueFull(req)
  BY <1>6 DEF EnqueueFull, queueVars
<1>7. QED
  BY <1>3, <1>4, <1>5, <1>6 DEF Enqueue

-----------------------------------------------------------------------------
(* Runs and checks. *)

Fresh == [c \in Clusters |-> [IdleCheck EXCEPT !.pc = "collect"]]

\* A goroutine that was idle begins the run.
LEMMA BeginPicks ==
  ASSUME BeginGuardedRun
  PROVE  \E r \in Guarded : /\ r \notin running
                             /\ running' = running \cup {r}
                             /\ check' = [check EXCEPT ![r] = Fresh]
<1> DEFINE idle == CHOOSE r \in Guarded : r \notin running
<1>1. /\ \E r \in Guarded : r \notin running
      /\ running' = running \cup {idle}
      /\ check' = [check EXCEPT ![idle] = Fresh]
  BY DEF BeginGuardedRun, Fresh
<1>2. idle \in Guarded /\ idle \notin running
  BY <1>1
<1> QED
  BY <1>1, <1>2

\* A goroutine that takes checkInFlight starts with fresh locals, and is the only
\* one that has it.
LEMMA BeginRun ==
  ASSUME RunInv, BeginGuardedRun, ~checkInFlight
  PROVE  RunInv'
<1>1. NoCache \in Caches
  BY DEF NoCache, Caches
<1>2. Fresh \in [Clusters -> SoundLocals]
  BY <1>1 DEF Fresh, IdleCheck, SoundLocals, CheckLocals
<1>3. PICK r \in Guarded : /\ r \notin running
                           /\ running' = running \cup {r}
                           /\ check' = [check EXCEPT ![r] = Fresh]
  BY BeginPicks
<1>4. running \cap Guarded = {} /\ running' \cap Guarded = {r}
  BY <1>3 DEF RunInv
<1>5. check' \in [Runs -> [Clusters -> SoundLocals]] /\ running' \subseteq Runs
  BY <1>2, <1>3 DEF RunInv, Runs
<1>6. checkInFlight' = TRUE
  BY DEF BeginGuardedRun
<1> QED
  BY <1>4, <1>5, <1>6 DEF RunInv

\* A check that moves on with sound locals leaves those of the others sound.
LEMMA LocalKeeps ==
  ASSUME RunInv, NEW r \in Runs, NEW c \in Clusters, NEW k \in SoundLocals,
         Local(r, c, k), UNCHANGED <<running, checkInFlight>>
  PROVE  RunInv'
BY DEF Local, RunInv

\* Showing the phase (broadcastPhase) changes no hash and no suggestion.
LEMMA PhaseKeeps ==
  ASSUME ClusterInv, NEW c \in Clusters, PhaseShown(c) \/ UNCHANGED latest,
         UNCHANGED <<currentIssueHash, aiCache, checkCounter>>
  PROVE  ClusterInv'
<1>1. CASE UNCHANGED latest
  BY <1>1 DEF ClusterInv
<1>2. CASE latest' = [latest EXCEPT ![c].ai = "blank"]
  <2>1. [latest[c] EXCEPT !.ai = "blank"] \in Shown
    BY DEF ClusterInv, Shown, Updates
  <2>2. [latest[c] EXCEPT !.ai = "blank"].hash = latest[c].hash
    BY DEF ClusterInv, Shown, Updates
  <2>3. QED
    BY <1>2, <2>1, <2>2 DEF ClusterInv
<1>3. QED
  BY <1>1, <1>2 DEF PhaseShown

\* A step of a check that shows the phase at most and leaves the queue, the
\* server and the other goroutines alone.
LEMMA QuietCheck ==
  ASSUME IInv, NEW r \in Runs, NEW c \in Clusters, NEW k \in SoundLocals,
         Local(r, c, k), PhaseShown(c) \/ UNCHANGED latest, UnchangedButLatest
  PROVE  IInv'
<1> USE DEF IInv, UnchangedButLatest, serverVars, postVars, queueVars
<1>1. RunInv'
  BY LocalKeeps
<1>2. ClusterInv'
  BY PhaseKeeps
<1>3. QueueInv' /\ HandlerInv' /\ ServerInv' /\ PosterInv'
  BY DEF QueueInv, HandlerInv, ServerInv, PosterInv
<1>4. QED
  BY <1>1, <1>2, <1>3

\* The locals of a check are sound.
LEMMA LocalsSound ==
  ASSUME RunInv, NEW r \in Runs, NEW c \in Clusters
  PROVE  check[r][c] \in SoundLocals /\ IdleCheck \in SoundLocals
<1>1. NoCache \in Caches
  BY DEF NoCache, Caches
<1>2. IdleCheck \in SoundLocals
  BY <1>1 DEF IdleCheck, SoundLocals, CheckLocals
<1>3. QED
  BY <1>2 DEF RunInv

\* runCheckForCluster up to the decision: what a check takes from the cache is
\* about the issues it found (ai_analysis.go:391).
LEMMA BeforePublish ==
  ASSUME IInv, NEW r \in Runs, NEW c \in Clusters,
         \/ SkipCluster(r, c) \/ Collect(r, c) \/ ReadSettings(r, c) \/ Number(r, c)
         \/ ReadCache(r, c) \/ Decide(r, c)
  PROVE  IInv'
<1> DEFINE k == check[r][c]
<1>1. k \in SoundLocals /\ k \in CheckLocals
  BY LocalsSound DEF IInv, SoundLocals
<1>2. ASSUME Collect(r, c) PROVE IInv'
  <2>1. PICK h \in Hashes : Local(r, c, [k EXCEPT !.pc = "settings", !.hash = h])
    BY <1>2 DEF Collect
  <2>2. [k EXCEPT !.pc = "settings", !.hash = h] \in SoundLocals
    BY <1>1 DEF SoundLocals, CheckLocals
  <2>3. QED
    BY <1>2, <2>1, <2>2, QuietCheck DEF Collect
<1>3. ASSUME ReadSettings(r, c) PROVE IInv'
  <2>1. k.pc = "settings" /\ aiEnabled \in BOOLEAN
    BY <1>3 DEF ReadSettings, At, IInv, ServerInv
  <2>2. [k EXCEPT !.pc = "number", !.enabled = aiEnabled] \in SoundLocals
    BY <1>1, <2>1 DEF SoundLocals, CheckLocals
  <2>3. QED
    BY <1>3, <2>2, QuietCheck DEF ReadSettings
<1>4. ASSUME Number(r, c) PROVE IInv'
  <2>1. k.pc = "number" /\ checkCounter[c] + 1 \in Nat
    BY <1>4 DEF Number, At, IInv, ClusterInv
  <2>2. [k EXCEPT !.pc = "lookup", !.gen = checkCounter[c] + 1] \in SoundLocals
    BY <1>1, <2>1 DEF SoundLocals, CheckLocals
  <2>3. RunInv'
    BY <1>4, <2>2, LocalKeeps DEF Number, IInv, serverVars
  <2>4. ClusterInv'
    BY <1>4 DEF Number, IInv, ClusterInv
  <2>5. QueueInv' /\ HandlerInv' /\ ServerInv' /\ PosterInv'
    BY <1>4 DEF Number, IInv, QueueInv, HandlerInv, ServerInv, PosterInv, queueVars,
                serverVars, postVars
  <2>6. QED
    BY <2>3, <2>4, <2>5 DEF IInv
<1>5. ASSUME ReadCache(r, c) PROVE IInv'
  <2> DEFINE cached == Lookup(c, k.hash)
  <2>1. k.pc = "lookup" /\ aiConfig \in Configs
    BY <1>5 DEF ReadCache, At, IInv, ServerInv
  <2>2. cached \in Caches /\ (cached.result = "enhanced" => cached.hash = k.hash)
    BY DEF Lookup, NoCache, Caches, IInv, ClusterInv
  <2>3. [k EXCEPT !.pc = "decide", !.cached = cached, !.model = aiConfig]
          \in SoundLocals
    BY <1>1, <2>1, <2>2 DEF SoundLocals, CheckLocals
  <2>4. UnchangedButLatest /\ UNCHANGED latest
    BY <1>5 DEF ReadCache, UnchangedButLatest, clusterVars
  <2>5. QED
    BY <1>5, <2>3, <2>4, QuietCheck DEF ReadCache
<1>6. ASSUME Decide(r, c) PROVE IInv'
  <2>1. k.pc = "decide"
    BY <1>6 DEF Decide, At
  <2>2. PICK ai \in {"none", "pending", "done"} :
          Local(r, c, [k EXCEPT !.pc = "publish", !.ai = ai])
    BY <1>6 DEF Decide
  <2>3. [k EXCEPT !.pc = "publish", !.ai = ai] \in SoundLocals
    BY <1>1, <2>1 DEF SoundLocals, CheckLocals
  <2>4. QED
    BY <1>6, <2>2, <2>3, QuietCheck DEF Decide
<1>7. ASSUME SkipCluster(r, c) PROVE IInv'
  BY <1>7, LocalsSound, QuietCheck DEF SkipCluster, IInv
<1>8. QED
  BY <1>2, <1>3, <1>4, <1>5, <1>6, <1>7

\* The update a check publishes shows the suggestions of a cache hit on the issues
\* the check found, and becomes what currentIssueHash stands for
\* (ai_analysis.go:457).
LEMMA PublishKeeps ==
  ASSUME IInv, NEW r \in Runs, NEW c \in Clusters, Publish(r, c)
  PROVE  IInv'
<1> DEFINE k == check[r][c]
           version == <<manager.config, k.model>>
           enh == IF k.ai = "done" /\ k.cached.result = "enhanced"
                  THEN k.cached.hash ELSE NoHash
           u == [hash |-> k.hash, ai |-> k.ai, enh |-> enh, gen |-> k.gen]
<1>1. k \in SoundLocals /\ k \in CheckLocals /\ IdleCheck \in SoundLocals
  BY LocalsSound DEF IInv, SoundLocals
<1>2. k.pc = "publish"
  BY DEF Publish, At
<1>3. u \in Shown
  <2>1. enh \in {NoHash, k.hash}
    BY <1>1, <1>2 DEF SoundLocals
  <2>2. k.hash \in Hashes /\ k.gen \in Nat /\ k.ai \in {"none", "pending", "done"}
    BY <1>1, <1>2 DEF SoundLocals, CheckLocals
  <2>3. QED
    BY <2>1, <2>2 DEF Shown, Updates
<1>4. ClusterInv'
  <2>1. latest' = [latest EXCEPT ![c] = u]
        /\ currentIssueHash' = [currentIssueHash EXCEPT ![c] = k.hash]
        /\ UNCHANGED <<aiCache, checkCounter>>
    BY DEF Publish
  <2>2. u.hash = k.hash
    OBVIOUS
  <2>3. latest' \in [Clusters -> Shown]
    BY <2>1, <1>3 DEF IInv, ClusterInv
  <2>4. currentIssueHash' = [d \in Clusters |-> latest'[d].hash]
    BY <2>1, <2>2 DEF IInv, ClusterInv
  <2>5. QED
    BY <2>1, <2>3, <2>4 DEF IInv, ClusterInv
<1>5. RunInv'
  <2>1. version \in Versions
    BY <1>1, <1>2 DEF SoundLocals, Versions, IInv, ServerInv
  <2>2. [k EXCEPT !.pc = "enqueue", !.version = version] \in SoundLocals
    BY <1>1, <1>2, <2>1 DEF SoundLocals, CheckLocals, Versions
  <2>3. PICK new \in SoundLocals : Local(r, c, new)
    BY <1>1, <2>2 DEF Publish
  <2>4. QED
    BY <2>3, LocalKeeps DEF Publish, IInv, serverVars
<1>6. QueueInv' /\ HandlerInv' /\ ServerInv' /\ PosterInv'
  BY DEF Publish, IInv, QueueInv, HandlerInv, ServerInv, PosterInv, queueVars,
         serverVars, postVars
<1>7. QED
  BY <1>4, <1>5, <1>6 DEF IInv

\* Queueing the request, and showing its refusal, change no hash and no
\* suggestion (ai_analysis.go:502 to 530).
LEMMA AfterPublish ==
  ASSUME IInv, NEW r \in Runs, NEW c \in Clusters,
         EnqueueRequest(r, c) \/ Degrade(r, c)
  PROVE  IInv'
<1> DEFINE k == check[r][c]
<1>1. k \in SoundLocals /\ k \in CheckLocals /\ IdleCheck \in SoundLocals
  BY LocalsSound DEF IInv, SoundLocals
<1>2. ASSUME EnqueueRequest(r, c) PROVE IInv'
  <2>1. k.pc = "enqueue"
    BY <1>2 DEF EnqueueRequest, At
  <2>2. RequestOf(r, c) \in Requests
    BY <1>1, <2>1 DEF RequestOf, Requests, SoundLocals, CheckLocals
  <2>3. QueueInv' /\ UNCHANGED worker
    BY <1>2, <2>2, EnqueueTypes DEF EnqueueRequest, IInv
  <2>4. [k EXCEPT !.pc = "degrade"] \in SoundLocals
    BY <1>1, <2>1 DEF SoundLocals, CheckLocals
  <2>5. RunInv'
    BY <1>1, <1>2, <2>4, LocalKeeps DEF EnqueueRequest, AfterDrop, IInv, serverVars
  <2>6. ClusterInv' /\ HandlerInv' /\ ServerInv' /\ PosterInv'
    BY <1>2, <2>3 DEF EnqueueRequest, IInv, ClusterInv, HandlerInv, ServerInv,
                      PosterInv, clusterVars, serverVars, postVars
  <2>7. QED
    BY <2>3, <2>5, <2>6 DEF IInv
<1>3. ASSUME Degrade(r, c) PROVE IInv'
  <2>1. RunInv'
    BY <1>1, <1>3, LocalKeeps DEF Degrade, UnchangedButLatest, IInv, serverVars
  <2>2. [latest[c] EXCEPT !.ai = "failed"] \in Shown
        /\ [latest[c] EXCEPT !.ai = "failed"].hash = latest[c].hash
    BY DEF IInv, ClusterInv, Shown, Updates
  <2>3. ClusterInv'
    <3>1. CASE UNCHANGED latest
      BY <1>3, <3>1 DEF Degrade, UnchangedButLatest, IInv, ClusterInv
    <3>2. CASE latest' = [latest EXCEPT ![c].ai = "failed"]
      BY <1>3, <2>2, <3>2 DEF Degrade, UnchangedButLatest, IInv, ClusterInv
    <3>3. QED
      BY <1>3, <3>1, <3>2 DEF Degrade
  <2>4. QueueInv' /\ HandlerInv' /\ ServerInv' /\ PosterInv'
    BY <1>3 DEF Degrade, UnchangedButLatest, IInv, QueueInv, HandlerInv, ServerInv,
                PosterInv, queueVars, serverVars, postVars
  <2>5. QED
    BY <2>1, <2>3, <2>4 DEF IInv
<1>4. QED
  BY <1>2, <1>3

-----------------------------------------------------------------------------
(* The worker. *)

\* The steps of handleEnrichmentResult that touch no cluster: the pre-flight
\* check and the AI call.
LEMMA HandlerKeeps ==
  ASSUME IInv, PreFlight \/ CallAI \/ AIReturns
  PROVE  IInv'
<1> USE DEF IInv
<1>1. HandlerInv'
  <2>1. handler \in HandlerLocals /\ manager.config \in Configs /\ handler.pc # "idle"
    BY DEF HandlerInv, ServerInv, PreFlight, CallAI, AIReturns
  <2>2. UNCHANGED worker
    BY DEF PreFlight, CallAI, AIReturns, queueVars
  <2>3. CASE PreFlight
    BY <2>1, <2>2, <2>3 DEF PreFlight, HandlerInv, HandlerLocals
  <2>4. CASE CallAI
    BY <2>1, <2>2, <2>4 DEF CallAI, HandlerInv, HandlerLocals
  <2>5. CASE AIReturns
    BY <2>1, <2>2, <2>5 DEF AIReturns, HandlerInv, HandlerLocals
  <2>6. QED
    BY <2>3, <2>4, <2>5
<1>2. UNCHANGED <<queueVars, clusterVars, serverVars, runVars, postVars>>
  BY DEF PreFlight, CallAI, AIReturns
<1>3. QueueInv' /\ ClusterInv' /\ ServerInv' /\ RunInv' /\ PosterInv'
  BY <1>2 DEF QueueInv, ClusterInv, ServerInv, RunInv, PosterInv, queueVars,
              clusterVars, serverVars, runVars, postVars
<1>4. QED
  BY <1>1, <1>3

\* The worker takes a request with its handler, and loses both together.
LEMMA WorkerKeeps ==
  ASSUME IInv, StartHandler \/ FinishHandler
  PROVE  IInv'
<1> USE DEF IInv
<1>1. ASSUME StartHandler PROVE QueueInv' /\ HandlerInv'
  <2>1. ch \in Seq(Requests) /\ Len(ch) <= Capacity /\ ch # << >>
    BY <1>1 DEF StartHandler, Receive, QueueInv
  <2>2. Head(ch) \in Requests /\ Tail(ch) \in Seq(Requests)
        /\ Len(Tail(ch)) = Len(ch) - 1 /\ Len(ch) \in Nat /\ Capacity \in Nat
    BY <2>1, CapacityAssumption
  <2>3. Head(ch) # NoRequest
    BY <2>2, NoRequestAssumption DEF Requests, Versions
  <2>4. QueueInv'
    BY <1>1, <2>1, <2>2 DEF StartHandler, Receive, QueueInv
  <2>5. HandlerInv'
    BY <1>1, <2>3 DEF StartHandler, Receive, HandlerInv, HandlerLocals
  <2>6. QED
    BY <2>4, <2>5
<1>2. ASSUME FinishHandler PROVE QueueInv' /\ HandlerInv'
  <2> DEFINE f == inflight \ {worker.clusterID}
  <2>1. f \in SUBSET Clusters /\ Dispatch(ch, pending, f) /\ worker' = NoRequest
    BY <1>2 DEF FinishHandler, MarkDone, QueueInv
  <2>2. QueueInv'
    BY <2>1, DispatchTypes DEF QueueInv
  <2>3. HandlerInv'
    BY <1>2, <2>1 DEF FinishHandler, IdleHandler, HandlerInv, HandlerLocals
  <2>4. QED
    BY <2>2, <2>3
<1>3. UNCHANGED <<clusterVars, serverVars, runVars, postVars>>
  BY DEF StartHandler, FinishHandler
<1>4. ClusterInv' /\ ServerInv' /\ RunInv' /\ PosterInv'
  BY <1>3 DEF ClusterInv, ServerInv, RunInv, PosterInv, clusterVars, serverVars,
              runVars, postVars
<1>5. QED
  BY <1>1, <1>2, <1>4

\* A result is patched into the published update only when the hash of its
\* request is currentIssueHash, which is the hash of the update; a failure
\* changes no suggestion (ai_analysis.go:904 to 954).
LEMMA ResultKeeps ==
  ASSUME IInv, ShowFailure \/ Commit
  PROVE  IInv'
<1> DEFINE c == worker.clusterID
<1> USE DEF IInv
<1>1. /\ worker \in Requests /\ c \in Clusters /\ worker.issueHash \in Hashes
      /\ handler \in HandlerLocals
      /\ UNCHANGED <<queueVars, currentIssueHash, checkCounter, serverVars, runVars,
                     postVars>>
      /\ handler' = [IdleHandler EXCEPT !.pc = "done"]
  <2>1. handler.pc = "result"
    BY DEF ShowFailure, Commit
  <2>2. worker \in Requests
    BY <2>1 DEF HandlerInv, QueueInv
  <2>3. QED
    BY <2>2 DEF ShowFailure, Commit, Requests, HandlerInv
<1>2. ASSUME ShowFailure PROVE ClusterInv'
  <2>1. [latest[c] EXCEPT !.ai = "failed"] \in Shown
        /\ [latest[c] EXCEPT !.ai = "failed"].hash = latest[c].hash
    BY <1>1 DEF ClusterInv, Shown, Updates
  <2>2. UNCHANGED aiCache
    BY <1>2 DEF ShowFailure
  <2>3. CASE UNCHANGED latest
    BY <1>1, <2>2, <2>3 DEF ClusterInv
  <2>4. CASE latest' = [latest EXCEPT ![c].ai = "failed"]
    BY <1>1, <2>1, <2>2, <2>4 DEF ClusterInv
  <2>5. QED
    BY <1>2, <2>3, <2>4 DEF ShowFailure
<1>3. ASSUME Commit PROVE ClusterInv'
  <2>1. CASE UNCHANGED <<aiCache, latest>>
    BY <1>1, <2>1 DEF ClusterInv
  <2>2. CASE Current(worker) /\ latest[c] # NoUpdate
    <3> DEFINE enhanced == handler.outcome = "enhanced"
               u == [latest[c] EXCEPT !.ai = IF enhanced THEN "done" ELSE "failed",
                                      !.enh = IF enhanced THEN worker.issueHash ELSE @]
               entry == [hash |-> worker.issueHash, result |-> handler.outcome,
                         by |-> handler.by]
    <3>1. latest[c].hash = worker.issueHash
      BY <1>1, <2>2 DEF Current, SameIssues, ClusterInv
    <3>2. u \in Shown /\ u.hash = latest[c].hash
      BY <1>1, <3>1 DEF ClusterInv, Shown, Updates
    <3>3. latest' = [latest EXCEPT ![c] = u] /\ aiCache' = [aiCache EXCEPT ![c] = entry]
      BY <1>1, <1>3, <2>2 DEF Commit, ClusterInv, Shown, Updates
    <3>4. entry \in Caches
      BY <1>1, <1>3 DEF Commit, Caches, HandlerInv, HandlerLocals
    <3>5. QED
      BY <1>1, <3>2, <3>3, <3>4 DEF ClusterInv
  <2>3. QED
    BY <1>3, <2>1, <2>2 DEF Commit
<1>4. HandlerInv'
  BY <1>1, NoRequestAssumption
     DEF IdleHandler, HandlerInv, HandlerLocals, queueVars, Requests, Versions
<1>5. QueueInv' /\ ServerInv' /\ RunInv' /\ PosterInv'
  BY <1>1 DEF QueueInv, ServerInv, RunInv, PosterInv, queueVars, serverVars, runVars,
              postVars
<1>6. QED
  BY <1>2, <1>3, <1>4, <1>5

-----------------------------------------------------------------------------
(* Settings. *)

\* What handlePostAISettings does to the shared manager, the settings and the
\* published updates changes no hash and no suggestion.
LEMMA PosterKeeps ==
  ASSUME IInv, NEW p \in Posters, StageSettings(p) \/ PostStep(p)
  PROVE  IInv'
<1> USE DEF IInv
<1>1. poster[p] \in PosterLocals
  BY DEF PosterInv
<1>2. UNCHANGED <<queueVars, currentIssueHash, checkCounter, handler>>
  BY DEF StageSettings, PostStep, Reconfigure, SetEnabled, CommitSettings,
         TriggerAfterSettings, clusterVars
<1>3. QueueInv' /\ HandlerInv'
  BY <1>2 DEF QueueInv, HandlerInv, queueVars
<1>4. ASSUME StageSettings(p) PROVE IInv'
  <2>1. PosterInv'
    BY <1>4 DEF StageSettings, PosterInv, PosterLocals
  <2>2. ClusterInv' /\ ServerInv' /\ RunInv'
    BY <1>4 DEF StageSettings, ClusterInv, ServerInv, RunInv, clusterVars, serverVars,
                runVars
  <2>3. QED
    BY <1>3, <2>1, <2>2
<1>5. ASSUME Reconfigure(p) \/ SetEnabled(p) PROVE IInv'
  <2>1. PosterInv'
    <3>1. IdlePoster \in PosterLocals
      BY DEF IdlePoster, PosterLocals
    <3>2. \A pc \in {"enable", "commit"} :
            poster[p].pc # "idle" => [poster[p] EXCEPT !.pc = pc] \in PosterLocals
      BY <1>1 DEF PosterLocals
    <3>3. PICK k \in PosterLocals : poster' = [poster EXCEPT ![p] = k]
      BY <1>5, <3>1, <3>2 DEF Reconfigure, SetEnabled
    <3>4. QED
      BY <3>3 DEF PosterInv
  <2>2. ServerInv'
    <3>1. CASE Reconfigure(p)
      <4>1. poster[p].config \in Configs
        BY <1>1, <3>1 DEF Reconfigure, PosterLocals
      <4>2. /\ \/ manager' = [config |-> poster[p].config, enabled |-> TRUE]
               \/ UNCHANGED manager
            /\ UNCHANGED <<aiConfig, aiEnabled>>
        BY <3>1 DEF Reconfigure
      <4>3. manager \in [config : Configs, enabled : BOOLEAN]
        BY DEF ServerInv
      <4>4. [config |-> poster[p].config, enabled |-> TRUE]
              \in [config : Configs, enabled : BOOLEAN]
        BY <4>1
      <4>5. manager' \in [config : Configs, enabled : BOOLEAN]
        BY <4>2, <4>3, <4>4, Zenon
      <4>6. QED
        BY <4>2, <4>5 DEF ServerInv
    <3>2. CASE SetEnabled(p)
      <4>1. poster[p].enabled \in BOOLEAN
        BY <1>1 DEF PosterLocals
      <4>2. manager' = [manager EXCEPT !.enabled = poster[p].enabled]
            /\ UNCHANGED <<aiConfig, aiEnabled>>
        BY <3>2 DEF SetEnabled
      <4>3. QED
        BY <4>1, <4>2 DEF ServerInv
    <3>3. QED
      BY <1>5, <3>1, <3>2
  <2>3. ClusterInv' /\ RunInv'
    BY <1>5 DEF Reconfigure, SetEnabled, ClusterInv, RunInv, clusterVars, runVars
  <2>4. QED
    BY <1>3, <2>1, <2>2, <2>3
<1>6. ASSUME CommitSettings(p) PROVE IInv'
  <2>1. PosterInv'
    BY <1>1, <1>6 DEF CommitSettings, PosterInv, PosterLocals
  <2>2. ServerInv'
    BY <1>1, <1>6 DEF CommitSettings, ServerInv, PosterLocals
  <2>3. RunInv'
    BY <1>6 DEF CommitSettings, RunInv, runVars
  <2>4. ClusterInv'
    <3>1. NoCache \in Caches
      BY DEF NoCache, Caches
    <3>2. \A c \in Clusters :
            /\ latest'[c] = latest[c] \/ latest'[c] = [latest[c] EXCEPT !.ai = "reset"]
            /\ latest[c] \in Shown
      BY <1>6 DEF CommitSettings, ClusterInv
    <3>3. \A c \in Clusters : latest'[c] \in Shown /\ latest'[c].hash = latest[c].hash
      BY <3>2 DEF Shown, Updates
    <3>4. latest' = [c \in Clusters |-> latest'[c]]
      BY <1>6 DEF CommitSettings
    <3>5. latest' \in [Clusters -> Shown]
      BY <3>3, <3>4
    <3>6. QED
      BY <1>2, <1>6, <3>1, <3>3, <3>5 DEF CommitSettings, CacheReset, ClusterInv
  <2>5. QED
    BY <1>3, <2>1, <2>2, <2>3, <2>4
<1>7. ASSUME TriggerAfterSettings(p) PROVE IInv'
  <2>1. PosterInv'
    BY <1>7 DEF TriggerAfterSettings, PosterInv, PosterLocals, IdlePoster
  <2>2. ClusterInv' /\ ServerInv'
    BY <1>7 DEF TriggerAfterSettings, ClusterInv, ServerInv, clusterVars
  <2>3. RunInv'
    <3>1. CASE UNCHANGED <<checkInFlight, runVars>>
      BY <3>1 DEF RunInv, runVars
    <3>2. CASE BeginGuardedRun /\ Free
      BY <3>2, BeginRun DEF Free
    <3>3. QED
      BY <1>7, <3>1, <3>2 DEF TriggerAfterSettings
  <2>4. QED
    BY <1>3, <2>1, <2>2, <2>3
<1>8. QED
  BY <1>4, <1>5, <1>6, <1>7 DEF PostStep

\* Beginning and ending a run touch neither clusters nor settings.
LEMMA RunKeeps ==
  ASSUME IInv, TriggerCheck \/ Tick \/ \E r \in Runs : EndRun(r)
  PROVE  IInv'
<1> USE DEF IInv
<1>1. RunInv'
  <2>1. CASE TriggerCheck \/ Tick
    BY <2>1, BeginRun DEF TriggerCheck, Tick, Free
  <2>2. ASSUME NEW r \in Runs, EndRun(r) PROVE RunInv'
    <3>1. CASE r \in Guarded
      <4>1. running \cap Guarded = {r} /\ running' \cap Guarded = {}
        BY <2>2, <3>1 DEF EndRun, RunInv
      <4> QED
        BY <2>2, <3>1, <4>1 DEF EndRun, RunInv
    <3>2. CASE r \notin Guarded
      <4>1. running' \cap Guarded = running \cap Guarded
        BY <2>2, <3>2 DEF EndRun
      <4> QED
        BY <2>2, <3>2, <4>1 DEF EndRun, RunInv
    <3> QED
      BY <3>1, <3>2
  <2>3. QED
    BY <2>1, <2>2
<1>2. QueueInv' /\ HandlerInv' /\ ClusterInv' /\ ServerInv' /\ PosterInv'
  BY DEF TriggerCheck, Tick, EndRun, QueueInv, HandlerInv, ClusterInv, ServerInv,
         PosterInv, queueVars, clusterVars, postVars
<1>3. QED
  BY <1>1, <1>2

-----------------------------------------------------------------------------
\* Every step of the pipeline keeps the invariant.
LEMMA NextInv == IInv /\ [Next]_vars => IInv'
<1> SUFFICES ASSUME IInv, [Next]_vars PROVE IInv'
  OBVIOUS
<1>1. CASE TriggerCheck \/ Tick \/ \E r \in Runs : EndRun(r)
  BY <1>1, RunKeeps
<1>2. ASSUME NEW r \in Runs, NEW c \in Clusters, CheckStep(r, c) PROVE IInv'
  BY <1>2, BeforePublish, PublishKeeps, AfterPublish DEF CheckStep
<1>3. CASE HandlerStep \/ AIReturns
  BY <1>3, HandlerKeeps, WorkerKeeps, ResultKeeps DEF HandlerStep
<1>4. ASSUME NEW p \in Posters, StageSettings(p) \/ PostStep(p) PROVE IInv'
  BY <1>4, PosterKeeps
<1>5. CASE UNCHANGED vars
  BY <1>5 DEF IInv, QueueInv, HandlerInv, ClusterInv, ServerInv, RunInv, PosterInv,
              vars, queueVars, clusterVars, serverVars, runVars, postVars
<1>6. QED
  BY <1>1, <1>2, <1>3, <1>4, <1>5 DEF Next

\* The inductive invariant holds in every reachable state of the pipeline, whatever
\* checks, enrichments and settings changes overlap.
THEOREM Invariance == Spec => []IInv
BY InitInv, NextInv, PTL DEF Spec

\* The pipeline's data keep their types: a request is with the worker exactly while
\* the handler runs, and checkInFlight is set exactly while a guarded run works.
THEOREM TypeCorrect == Spec => []TypeOK
<1>1. IInv => TypeOK
  BY DEF IInv, QueueInv, HandlerInv, ClusterInv, ServerInv, RunInv, TypeOK, Shown
<1>2. QED
  BY <1>1, Invariance, PTL

\* AI suggestions are only ever shown on the issues they were made for (the cache
\* lookup, ai_analysis.go:391, and the post-flight check, ai_analysis.go:923).
THEOREM EnhancementMatchesHolds == Spec => []EnhancementMatches
<1>1. IInv => EnhancementMatches
  BY DEF IInv, ClusterInv, Shown, EnhancementMatches
<1>2. QED
  BY <1>1, Invariance, PTL

-----------------------------------------------------------------------------
(***************************************************************************)
(* The order of a cluster's checks, updates and requests.  checkInFlight   *)
(* keeps the guarded runs apart, but the startup run can work beside one   *)
(* of them, and their checks of a cluster can then publish and ask in any  *)
(* order.  A check that is numbered while no other is at work puts an end  *)
(* to that: from then on, and until two overlap again, everything that is  *)
(* not the newest check's is older than the update shown.                  *)
(***************************************************************************)
RestInv == \A r \in Runs \ running, c \in Clusters : check[r][c].pc = "idle"

Unpublished == {"lookup", "decide", "publish"}
Unsent == {"enqueue", "degrade"}

\* A check that has a number has the newest, which is above that of the update
\* shown until the check publishes its own.  Of one that overlaps another no more
\* is known than that its number is not shown before it publishes.
Ordered(r, c) ==
  /\ Numbered(r, c) => check[r][c].gen <= checkCounter[c]
  /\ check[r][c].pc \in Unpublished =>
       /\ check[r][c].gen # latest[c].gen
       /\ ~raced[c] => check[r][c].gen = checkCounter[c] /\ latest[c].gen < checkCounter[c]
  /\ check[r][c].pc \in Unsent /\ ~raced[c] =>
       /\ check[r][c].gen = checkCounter[c] /\ latest[c].gen = checkCounter[c]
       /\ check[r][c].hash = latest[c].hash
       /\ check[r][c].pc = "enqueue" => check[r][c].version = aiConfigVersion[c]

\* Two checks of a cluster that both have a number have different ones.
Apart(r, q, c) ==
  Numbered(r, c) /\ Numbered(q, c) => raced[c] /\ check[r][c].gen # check[q][c].gen

OrderInv ==
  /\ raced \in [Clusters -> BOOLEAN]
  /\ aiConfigVersion = [c \in Clusters |-> aiConfigVersion[c]]
  /\ \A c \in Clusters :
       /\ latest[c].gen <= checkCounter[c]
       /\ \A r \in Runs : Ordered(r, c)
       /\ \A r, q \in Runs : r # q => Apart(r, q, c)

\* The requests in the channel and in pending.
WaitingRequests ==
  {ch[i] : i \in 1 .. Len(ch)} \cup ({pending[c] : c \in Clusters} \ {NoRequest})
HeldRequests == WaitingRequests \cup ({worker} \ {NoRequest})

PendingOwn == \A c \in Clusters : pending[c] # NoRequest => pending[c].clusterID = c

\* A request of the newest check is about the update shown and the configuration it
\* was published under.
OwnUpdate(q) ==
  LET c == q.clusterID IN
  /\ latest[c].gen = checkCounter[c]
  /\ q.issueHash = latest[c].hash
  /\ q.configVersion = aiConfigVersion[c]

RequestInv ==
  \A q \in HeldRequests :
    /\ q.generation <= checkCounter[q.clusterID]
    /\ SameGeneration(q) /\ ~raced[q.clusterID] => OwnUpdate(q)

CycleInv == RestInv /\ OrderInv /\ PendingOwn /\ RequestInv

-----------------------------------------------------------------------------
(* What the queue holds. *)

\* What is held are requests.
LEMMA HeldTyped ==
  ASSUME QueueInv
  PROVE  HeldRequests \subseteq Requests
<1>1. \A i \in 1 .. Len(ch) : ch[i] \in Requests
  BY DEF QueueInv
<1>2. \A c \in Clusters : pending[c] # NoRequest => pending[c] \in Requests
  BY DEF QueueInv
<1>3. worker # NoRequest => worker \in Requests
  BY DEF QueueInv
<1> QED
  BY <1>1, <1>2, <1>3 DEF HeldRequests, WaitingRequests

\* A dispatch loses no request and makes none.
LEMMA DispatchHolds ==
  ASSUME QueueInv,
         NEW p \in [Clusters -> Requests \cup {NoRequest}], NEW f \in SUBSET Clusters,
         \A c \in Clusters : p[c] # NoRequest => p[c].clusterID = c,
         Dispatch(ch, p, f)
  PROVE  /\ WaitingRequests' = {ch[i] : i \in 1 .. Len(ch)} \cup ({p[c] : c \in Clusters} \ {NoRequest})
         /\ PendingOwn'
<1>1. PICK k, order :
        /\ k \in 0 .. (Capacity - Len(ch))
        /\ order \in [1 .. k -> Waiting(p, f)]
        /\ ch' = ch \o [i \in 1 .. k |-> p[order[i]]]
        /\ pending' = [c \in Clusters |->
                         IF c \in {order[i] : i \in 1 .. k} THEN NoRequest ELSE p[c]]
  BY DEF Dispatch, Promotable, Room, Remaining
<1> DEFINE t == [i \in 1 .. k |-> p[order[i]]]
           inCh == {ch[i] : i \in 1 .. Len(ch)}
           inP == {p[c] : c \in Clusters} \ {NoRequest}
<1>2. k \in Nat /\ Len(ch) \in Nat /\ ch \in Seq(Requests)
  BY <1>1, CapacityAssumption DEF QueueInv
<1>3. \A i \in 1 .. k : order[i] \in Clusters /\ p[order[i]] \in Requests /\ p[order[i]] # NoRequest
  BY <1>1 DEF Waiting
<1>4. t \in Seq(Requests) /\ Len(t) = k /\ \A i \in 1 .. k : t[i] = p[order[i]]
  BY <1>2, <1>3
<1> HIDE DEF t
<1>5. /\ Len(ch') = Len(ch) + k
      /\ \A i \in 1 .. Len(ch) : ch'[i] = ch[i]
      /\ \A i \in 1 .. k : ch'[Len(ch) + i] = p[order[i]]
  <2>1. ch' = ch \o t
    BY <1>1 DEF t
  <2>2. Len(ch') = Len(ch) + k
    BY <1>2, <1>4, <2>1
  <2>3. ASSUME NEW i \in 1 .. Len(ch) PROVE ch'[i] = ch[i]
    <3>1. i \in 1 .. (Len(ch) + Len(t)) /\ i <= Len(ch)
      BY <1>2, <1>4
    <3> QED
      BY <1>2, <1>4, <2>1, <3>1
  <2>4. ASSUME NEW i \in 1 .. k PROVE ch'[Len(ch) + i] = t[i]
    <3>1. Len(ch) + i \in 1 .. (Len(ch) + Len(t)) /\ ~(Len(ch) + i <= Len(ch))
          /\ (Len(ch) + i) - Len(ch) = i
      BY <1>2, <1>4
    <3>2. ch'[Len(ch) + i] = t[(Len(ch) + i) - Len(ch)]
      BY <1>2, <1>4, <2>1, <3>1
    <3> QED
      BY <3>1, <3>2
  <2> QED
    BY <1>4, <2>2, <2>3, <2>4
<1>6. ASSUME NEW q \in WaitingRequests' PROVE q \in inCh \cup inP
  <2>1. CASE q \in {ch'[i] : i \in 1 .. Len(ch')}
    <3> PICK i \in 1 .. Len(ch') : q = ch'[i]
      BY <2>1
    <3>1. CASE i <= Len(ch)
      BY <3>1, <1>2, <1>5
    <3>2. CASE i > Len(ch)
      <4>1. i - Len(ch) \in 1 .. k /\ i = Len(ch) + (i - Len(ch))
        BY <3>2, <1>2, <1>5
      <4> QED
        BY <4>1, <1>3, <1>5
    <3> QED
      BY <3>1, <3>2, <1>2
  <2>2. CASE q \in {pending'[c] : c \in Clusters} \ {NoRequest}
    BY <2>2, <1>1
  <2> QED
    BY <2>1, <2>2 DEF WaitingRequests
<1>7. ASSUME NEW q \in inCh PROVE q \in WaitingRequests'
  <2> PICK i \in 1 .. Len(ch) : q = ch[i]
    OBVIOUS
  <2>1. i \in 1 .. Len(ch') /\ q = ch'[i]
    BY <1>2, <1>5
  <2> QED
    BY <2>1 DEF WaitingRequests
<1>8. ASSUME NEW q \in inP PROVE q \in WaitingRequests'
  <2> PICK c \in Clusters : q = p[c] /\ q # NoRequest
    OBVIOUS
  <2>1. CASE c \in {order[i] : i \in 1 .. k}
    <3> PICK i \in 1 .. k : c = order[i]
      BY <2>1
    <3>1. Len(ch) + i \in 1 .. Len(ch') /\ ch'[Len(ch) + i] = q
      BY <1>2, <1>5
    <3> QED
      BY <3>1 DEF WaitingRequests
  <2>2. CASE c \notin {order[i] : i \in 1 .. k}
    <3>1. pending'[c] = q
      BY <2>2, <1>1
    <3> QED
      BY <3>1 DEF WaitingRequests
  <2> QED
    BY <2>1, <2>2
<1>9. PendingOwn'
  BY <1>1 DEF PendingOwn
<1> QED
  BY <1>6, <1>7, <1>8, <1>9

\* An accepted request waits, and only a request of its cluster gave way to it.
LEMMA EnqueueHolds ==
  ASSUME QueueInv, PendingOwn, NEW req \in Requests, Enqueue(req)
  PROVE  /\ WaitingRequests' \subseteq WaitingRequests \cup {req}
         /\ req \in WaitingRequests'
         /\ \A q \in WaitingRequests : q.clusterID # req.clusterID => q \in WaitingRequests'
         /\ PendingOwn'
<1> DEFINE p == [pending EXCEPT ![req.clusterID] = req]
<1>1. req.clusterID \in Clusters /\ req # NoRequest
  BY NoRequestAssumption DEF Requests, Versions
<1>2. /\ p \in [Clusters -> Requests \cup {NoRequest}]
      /\ p[req.clusterID] = req
      /\ \A c \in Clusters \ {req.clusterID} : p[c] = pending[c]
      /\ \A c \in Clusters : p[c] # NoRequest => p[c].clusterID = c
  BY <1>1 DEF QueueInv, PendingOwn
<1> DEFINE inP == {ch[i] : i \in 1 .. Len(ch)} \cup ({p[c] : c \in Clusters} \ {NoRequest})
<1>3. /\ inP \subseteq WaitingRequests \cup {req}
      /\ req \in inP
      /\ \A q \in WaitingRequests : q.clusterID # req.clusterID => q \in inP
  <2>1. \A c \in Clusters : p[c] \in {pending[c], req}
    BY <1>2
  <2>2. \A c \in Clusters : pending[c] # NoRequest /\ pending[c].clusterID # req.clusterID
          => pending[c] = p[c]
    BY <1>2 DEF PendingOwn
  <2> HIDE DEF p
  <2> QED
    BY <1>1, <1>2, <2>1, <2>2 DEF WaitingRequests
<1>4. CASE Coalesce(req)
  <2>1. WaitingRequests' = inP /\ PendingOwn'
    BY <1>2, <1>4 DEF Coalesce, WaitingRequests, PendingOwn
  <2> QED
    BY <1>3, <2>1
<1>5. CASE ReplacePending(req)
  <2>1. WaitingRequests' = inP /\ PendingOwn'
    <3>1. Dispatch(ch, p, inflight) /\ inflight \in SUBSET Clusters
      BY <1>5 DEF ReplacePending, QueueInv
    <3> HIDE DEF p
    <3> QED
      BY <1>2, <3>1, DispatchHolds
  <2> QED
    BY <1>3, <2>1
<1>6. CASE Send(req)
  <2>1. /\ ch' = Append(ch, req) /\ UNCHANGED pending
        /\ Len(ch) \in Nat /\ ch \in Seq(Requests)
    BY <1>6 DEF Send, QueueInv
  <2>2. /\ Len(ch') = Len(ch) + 1 /\ ch'[Len(ch) + 1] = req
        /\ \A i \in 1 .. Len(ch) : ch'[i] = ch[i]
    BY <2>1
  <2>3. {ch'[i] : i \in 1 .. Len(ch')} = {ch[i] : i \in 1 .. Len(ch)} \cup {req}
    <3>1. 1 .. Len(ch') = (1 .. Len(ch)) \cup {Len(ch) + 1}
      BY <2>1, <2>2
    <3> QED
      BY <2>2, <3>1
  <2> QED
    BY <2>1, <2>3 DEF WaitingRequests, PendingOwn
<1> QED
  BY <1>4, <1>5, <1>6 DEF Enqueue

\* What the worker receives had waited.
LEMMA ReceiveHolds ==
  ASSUME QueueInv, PendingOwn, Receive
  PROVE  /\ WaitingRequests = WaitingRequests' \cup {worker'}
         /\ worker' \in Requests /\ PendingOwn'
<1>1. /\ ch \in Seq(Requests) /\ ch # << >> /\ ch' = Tail(ch) /\ worker' = Head(ch)
      /\ UNCHANGED pending
  BY DEF Receive, QueueInv
<1>2. /\ Len(ch) \in Nat \ {0} /\ Len(ch') = Len(ch) - 1 /\ worker' = ch[1]
      /\ \A i \in 1 .. Len(ch') : ch'[i] = ch[i + 1]
  BY <1>1
<1>3. {ch[i] : i \in 1 .. Len(ch)} = {ch'[i] : i \in 1 .. Len(ch')} \cup {worker'}
  <2>1. ASSUME NEW i \in 1 .. Len(ch) PROVE ch[i] \in {ch'[j] : j \in 1 .. Len(ch')} \cup {worker'}
    <3>1. CASE i = 1
      BY <3>1, <1>2
    <3>2. CASE i # 1
      <4>1. i - 1 \in 1 .. Len(ch') /\ (i - 1) + 1 = i
        BY <3>2, <1>2
      <4>2. ch'[i - 1] = ch[i]
        BY <4>1, <1>2
      <4> QED
        BY <4>1, <4>2
    <3> QED
      BY <3>1, <3>2
  <2>2. ASSUME NEW i \in 1 .. Len(ch') PROVE ch'[i] \in {ch[j] : j \in 1 .. Len(ch)}
    <3>1. i + 1 \in 1 .. Len(ch) /\ ch'[i] = ch[i + 1]
      BY <1>2
    <3> QED
      BY <3>1
  <2>3. worker' \in {ch[j] : j \in 1 .. Len(ch)}
    BY <1>2
  <2> QED
    BY <2>1, <2>2, <2>3
<1>4. worker' \in Requests
  BY <1>1, <1>2
<1> QED
  BY <1>1, <1>3, <1>4 DEF WaitingRequests, PendingOwn

\* MarkDone sends a held request on: the same requests wait as before.
LEMMA MarkDoneHolds ==
  ASSUME QueueInv, PendingOwn, MarkDone
  PROVE  WaitingRequests' = WaitingRequests /\ PendingOwn'
<1>1. inflight \ {worker.clusterID} \in SUBSET Clusters /\ Dispatch(ch, pending, inflight \ {worker.clusterID})
  BY DEF MarkDone, QueueInv
<1> QED
  BY <1>1, DispatchHolds DEF QueueInv, PendingOwn, WaitingRequests

-----------------------------------------------------------------------------
(* Every step keeps the order. *)

\* The step leaves what the order of cluster c speaks of.
SameShown(c) ==
  /\ latest'[c].gen = latest[c].gen /\ latest'[c].hash = latest[c].hash
  /\ checkCounter'[c] = checkCounter[c] /\ raced'[c] = raced[c]
  /\ aiConfigVersion'[c] = aiConfigVersion[c]

\* Only numbered checks are before or after their publication.
LEMMA NumberedPhases ==
  \A r \in Runs, c \in Clusters :
    Numbered(r, c) <=> check[r][c].pc \in Unpublished \/ check[r][c].pc \in Unsent
BY DEF Numbered, Unpublished, Unsent

\* Requests stay in order when none is added and their clusters do not change.
LEMMA SameRequests ==
  ASSUME IInv, RequestInv, \A c \in Clusters : SameShown(c), HeldRequests' \subseteq HeldRequests
  PROVE  RequestInv'
<1>1. \A q \in HeldRequests : q.clusterID \in Clusters
  BY HeldTyped DEF IInv, Requests
<1> QED
  BY <1>1 DEF RequestInv, SameShown, SameGeneration, OwnUpdate

\* Nothing but the requests and the handler changes.
LEMMA RequestsMove ==
  ASSUME IInv, CycleInv, RestInv', PendingOwn', \A c \in Clusters : SameShown(c),
         UNCHANGED <<check, raced, aiConfigVersion>>, HeldRequests' \subseteq HeldRequests
  PROVE  CycleInv'
<1>1. OrderInv'
  BY DEF CycleInv, OrderInv, Ordered, Apart, Numbered, SameShown
<1>2. RequestInv'
  BY SameRequests DEF CycleInv
<1> QED
  BY <1>1, <1>2 DEF CycleInv

\* A check of cluster c moves on: those of the other clusters are as they were.
LEMMA CheckMoves ==
  ASSUME IInv, CycleInv, NEW r \in Runs, NEW c \in Clusters, NEW new, Local(r, c, new),
         check[r][c].pc # "idle", UNCHANGED running,
         \A d \in Clusters \ {c} : SameShown(d),
         raced' \in [Clusters -> BOOLEAN],
         aiConfigVersion' = [d \in Clusters |-> aiConfigVersion'[d]],
         latest'[c].gen <= checkCounter'[c], Ordered(r, c)',
         \A q \in Runs \ {r} : Ordered(q, c)' /\ Apart(r, q, c)',
         \A q, s \in Runs \ {r} : q # s => Apart(q, s, c)'
  PROVE  RestInv' /\ OrderInv'
<1>1. \A q \in Runs, d \in Clusters : (q # r \/ d # c) => check'[q][d] = check[q][d]
  BY DEF Local, IInv, RunInv
<1>2. RestInv'
  <2>1. r \in running
    BY DEF CycleInv, RestInv
  <2> QED
    BY <1>1, <2>1 DEF CycleInv, RestInv
<1>3. ASSUME NEW d \in Clusters \ {c}
      PROVE  /\ latest'[d].gen <= checkCounter'[d]
             /\ \A q \in Runs : Ordered(q, d)'
             /\ \A q, s \in Runs : q # s => Apart(q, s, d)'
  <2>1. /\ \A q \in Runs : check'[q][d] = check[q][d]
        /\ SameShown(d)
    BY <1>1
  <2> QED
    BY <2>1 DEF CycleInv, OrderInv, Ordered, Apart, Numbered, SameShown
<1>4. \A q, s \in Runs : q # s => Apart(q, s, c)'
  <2>1. \A q \in Runs \ {r} : Apart(q, r, c)'
    BY DEF Apart
  <2> QED
    BY <2>1
<1>5. \A q \in Runs : Ordered(q, c)'
  OBVIOUS
<1> QED
  BY <1>2, <1>3, <1>4, <1>5 DEF OrderInv

\* A check that has its number already, or does not take it, leaves the checks of
\* its cluster in order.
LEMMA OthersKept ==
  ASSUME IInv, CycleInv, NEW r \in Runs, NEW c \in Clusters, NEW new, Local(r, c, new),
         checkCounter'[c] = checkCounter[c], raced'[c] = raced[c],
         Numbered(r, c)' => Numbered(r, c) /\ new.gen = check[r][c].gen,
         SameShown(c) \/ (Numbered(r, c) /\ latest'[c].gen = check[r][c].gen)
  PROVE  /\ \A q \in Runs \ {r} : Ordered(q, c)' /\ Apart(r, q, c)'
         /\ \A q, s \in Runs \ {r} : q # s => Apart(q, s, c)'
<1>1. /\ \A q \in Runs \ {r} : check'[q][c] = check[q][c]
      /\ check'[r][c] = new
  BY DEF Local, IInv, RunInv
<1>2. \A q \in Runs \ {r} : Ordered(q, c) /\ Apart(r, q, c)
  BY DEF CycleInv, OrderInv
<1>3. ASSUME NEW q \in Runs \ {r} PROVE Apart(r, q, c)'
  BY <1>1, <1>2 DEF Apart, Numbered
<1>4. ASSUME NEW q \in Runs \ {r} PROVE Ordered(q, c)'
  <2>1. CASE ~Numbered(q, c)
    BY <1>1, <2>1 DEF Ordered, Numbered, Unpublished, Unsent
  <2>2. CASE SameShown(c)
    BY <1>1, <1>2, <2>2 DEF Ordered, Numbered, SameShown
  <2>3. CASE Numbered(q, c) /\ Numbered(r, c) /\ latest'[c].gen = check[r][c].gen
    <3>1. raced'[c] /\ check[q][c].gen # latest'[c].gen
      BY <1>2, <2>3 DEF Apart
    <3> QED
      BY <1>1, <1>2, <2>3, <3>1 DEF Ordered, Numbered
  <2> QED
    BY <2>1, <2>2, <2>3
<1>5. ASSUME NEW q \in Runs \ {r}, NEW s \in Runs \ {r}, q # s PROVE Apart(q, s, c)'
  <2>1. Apart(q, s, c)
    BY <1>5 DEF CycleInv, OrderInv
  <2> QED
    BY <1>1, <2>1 DEF Apart, Numbered
<1> QED
  BY <1>3, <1>4, <1>5

\* A goroutine that takes checkInFlight has no number yet.
LEMMA BeginOrder ==
  ASSUME IInv, CycleInv, BeginGuardedRun, UNCHANGED <<queueVars, clusterVars>>
  PROVE  CycleInv'
<1>1. PICK r \in Guarded : /\ r \notin running
                           /\ running' = running \cup {r}
                           /\ check' = [check EXCEPT ![r] = Fresh]
  BY BeginPicks
<1>2. /\ r \in Runs
      /\ \A c \in Clusters : check'[r][c].pc = "collect"
      /\ \A q \in Runs \ {r} : check'[q] = check[q]
  BY <1>1 DEF IInv, RunInv, Runs, Fresh, IdleCheck
<1>3. RestInv'
  BY <1>1, <1>2 DEF CycleInv, RestInv
<1>4. OrderInv'
  <2>1. UNCHANGED <<latest, checkCounter, raced, aiConfigVersion>>
    BY DEF clusterVars
  <2>2. ASSUME NEW c \in Clusters, NEW q \in Runs PROVE Ordered(q, c)'
    <3>1. CASE q = r
      BY <1>2, <3>1 DEF Ordered, Numbered, Unpublished, Unsent
    <3>2. CASE q # r
      BY <1>2, <2>1, <3>2 DEF CycleInv, OrderInv, Ordered, Numbered
    <3> QED
      BY <3>1, <3>2
  <2>3. ASSUME NEW c \in Clusters, NEW q \in Runs, NEW s \in Runs, q # s PROVE Apart(q, s, c)'
    <3>1. CASE q = r \/ s = r
      BY <1>2, <3>1 DEF Apart, Numbered
    <3>2. CASE q # r /\ s # r
      BY <1>2, <2>1, <2>3, <3>2 DEF CycleInv, OrderInv, Apart, Numbered
    <3> QED
      BY <3>1, <3>2
  <2> QED
    BY <2>1, <2>2, <2>3 DEF CycleInv, OrderInv
<1>5. PendingOwn' /\ RequestInv'
  BY DEF CycleInv, PendingOwn, RequestInv, HeldRequests, WaitingRequests, OwnUpdate,
         SameGeneration, queueVars, clusterVars
<1> QED
  BY <1>3, <1>4, <1>5 DEF CycleInv

\* Runs begin without numbers, and end idle.
LEMMA RunOrder ==
  ASSUME IInv, CycleInv, TriggerCheck \/ Tick \/ \E r \in Runs : EndRun(r)
  PROVE  CycleInv'
<1>1. CASE TriggerCheck \/ Tick
  BY <1>1, BeginOrder DEF TriggerCheck, Tick
<1>2. ASSUME NEW r \in Runs, EndRun(r) PROVE CycleInv'
  <2>1. UNCHANGED <<queueVars, clusterVars, check>> /\ running' = running \ {r}
    BY <1>2 DEF EndRun
  <2>2. RestInv'
    BY <1>2, <2>1 DEF EndRun, CycleInv, RestInv
  <2>3. PendingOwn' /\ HeldRequests' = HeldRequests
    BY <2>1 DEF CycleInv, PendingOwn, HeldRequests, WaitingRequests, queueVars
  <2>4. \A c \in Clusters : SameShown(c)
    BY <2>1 DEF SameShown, clusterVars
  <2> QED
    BY <2>1, <2>2, <2>3, <2>4, RequestsMove DEF clusterVars
<1> QED
  BY <1>1, <1>2

\* The phase of a check shows no other check.
LEMMA PhaseShows ==
  ASSUME IInv, NEW c \in Clusters, PhaseShown(c) \/ UNCHANGED latest,
         UNCHANGED <<checkCounter, raced, aiConfigVersion>>
  PROVE  \A d \in Clusters : SameShown(d)
BY DEF PhaseShown, SameShown, IInv, ClusterInv, Shown, Updates

\* A check takes its number: it is alone, or the cluster is marked.
LEMMA NumberOrder ==
  ASSUME IInv, CycleInv, NEW r \in Runs, NEW c \in Clusters, Number(r, c)
  PROVE  CycleInv'
<1> DEFINE k == check[r][c]
           beside == \E q \in Runs \ {r} : "startup" \in {q, r} /\ Numbered(q, c)
           new == [k EXCEPT !.pc = "lookup", !.gen = checkCounter[c] + 1]
<1>1. /\ k \in CheckLocals /\ check \in [Runs -> [Clusters -> SoundLocals]]
      /\ k.pc = "number" /\ latest[c].gen <= checkCounter[c]
      /\ latest[c].gen \in Nat /\ checkCounter[c] \in Nat
  BY LocalsSound DEF IInv, RunInv, SoundLocals, CycleInv, OrderInv, ClusterInv, Shown, Updates,
                     Number, At
<1>2. /\ raced' = [raced EXCEPT ![c] = beside]
      /\ checkCounter' = [checkCounter EXCEPT ![c] = @ + 1]
      /\ Local(r, c, new)
      /\ UNCHANGED <<queueVars, latest, aiConfigVersion, running>>
  BY DEF Number
<1>3. beside \in BOOLEAN
  OBVIOUS
<1>4. ASSUME NEW q \in Runs \ {r}, Numbered(q, c) PROVE beside
  <2>1. q \in running /\ r \in running
    BY <1>1, <1>4 DEF CycleInv, RestInv, Numbered
  <2>2. "startup" \in {q, r}
    BY <2>1 DEF IInv, RunInv, Runs
  <2> QED
    BY <1>4, <2>2
<1> HIDE DEF beside
<1>5. /\ raced' \in [Clusters -> BOOLEAN] /\ raced'[c] = beside
      /\ checkCounter'[c] = checkCounter[c] + 1
      /\ \A d \in Clusters \ {c} : SameShown(d)
  BY <1>2, <1>3 DEF CycleInv, OrderInv, SameShown, IInv, ClusterInv
<1>6. /\ new.pc = "lookup" /\ new.gen = checkCounter[c] + 1
      /\ check'[r][c] = new
      /\ \A q \in Runs \ {r} : check'[q][c] = check[q][c]
  BY <1>1, <1>2 DEF Local, CheckLocals
<1> HIDE DEF new
<1>7. Ordered(r, c)' /\ latest'[c].gen <= checkCounter'[c]
  BY <1>1, <1>2, <1>5, <1>6 DEF Ordered, Unpublished, Unsent, Numbered
<1>8. ASSUME NEW q \in Runs \ {r} PROVE Ordered(q, c)' /\ Apart(r, q, c)'
  <2>1. Ordered(q, c) /\ check[q][c].gen \in Nat
    BY <1>1 DEF CycleInv, OrderInv, SoundLocals, CheckLocals
  <2>2. CASE ~Numbered(q, c)
    BY <1>6, <2>2 DEF Ordered, Apart, Numbered, Unpublished, Unsent
  <2>3. CASE Numbered(q, c)
    <3>1. raced'[c]
      BY <1>4, <1>5, <2>3
    <3>2. check[q][c].gen <= checkCounter[c]
      BY <2>1, <2>3 DEF Ordered
    <3>3. Ordered(q, c)'
      BY <1>1, <1>2, <1>5, <1>6, <2>1, <3>1, <3>2 DEF Ordered, Numbered
    <3>4. Apart(r, q, c)'
      BY <1>1, <1>6, <2>1, <3>1, <3>2 DEF Apart
    <3> QED
      BY <3>3, <3>4
  <2> QED
    BY <2>2, <2>3
<1>9. ASSUME NEW q \in Runs \ {r}, NEW s \in Runs \ {r}, q # s PROVE Apart(q, s, c)'
  <2>1. Apart(q, s, c) /\ (Numbered(q, c) => raced'[c])
    BY <1>4, <1>5, <1>9 DEF CycleInv, OrderInv
  <2> QED
    BY <1>6, <2>1 DEF Apart, Numbered
<1>10. RestInv' /\ OrderInv'
  BY <1>1, <1>2, <1>5, <1>7, <1>8, <1>9, CheckMoves DEF CycleInv, OrderInv
<1>11. PendingOwn' /\ HeldRequests' = HeldRequests
  BY <1>2 DEF CycleInv, PendingOwn, HeldRequests, WaitingRequests, queueVars
<1>12. RequestInv'
  <2> SUFFICES ASSUME NEW q \in HeldRequests
               PROVE  /\ q.generation <= checkCounter'[q.clusterID]
                      /\ SameGeneration(q)' /\ ~raced'[q.clusterID] => OwnUpdate(q)'
    BY <1>11 DEF RequestInv
  <2>1. /\ q.clusterID \in Clusters /\ q.generation \in Nat
        /\ q.generation <= checkCounter[q.clusterID]
        /\ SameGeneration(q) /\ ~raced[q.clusterID] => OwnUpdate(q)
    BY HeldTyped DEF IInv, Requests, CycleInv, RequestInv
  <2>2. CASE q.clusterID = c
    BY <1>1, <1>5, <2>1, <2>2 DEF SameGeneration
  <2>3. CASE q.clusterID # c
    BY <1>5, <2>1, <2>3 DEF SameGeneration, OwnUpdate, SameShown
  <2> QED
    BY <2>2, <2>3
<1> QED
  BY <1>10, <1>11, <1>12 DEF CycleInv

\* A check up to its decision: it shows nothing of its own yet.
LEMMA BeforePublishOrder ==
  ASSUME IInv, CycleInv, NEW r \in Runs, NEW c \in Clusters,
         \/ SkipCluster(r, c) \/ Collect(r, c) \/ ReadSettings(r, c)
         \/ ReadCache(r, c) \/ Decide(r, c)
  PROVE  CycleInv'
<1> DEFINE k == check[r][c]
<1>1. /\ k \in CheckLocals /\ check \in [Runs -> [Clusters -> SoundLocals]]
      /\ Ordered(r, c) /\ latest[c].gen <= checkCounter[c]
  BY LocalsSound DEF IInv, RunInv, SoundLocals, CycleInv, OrderInv
<1>2. /\ UNCHANGED <<queueVars, running, checkCounter, raced, aiConfigVersion>>
      /\ k.pc # "idle"
  BY DEF SkipCluster, Collect, ReadSettings, ReadCache, Decide, At, UnchangedButLatest, clusterVars
<1>3. PendingOwn' /\ HeldRequests' = HeldRequests
  BY <1>2 DEF CycleInv, PendingOwn, HeldRequests, WaitingRequests, queueVars
<1>4. PICK new : Local(r, c, new)
  BY DEF SkipCluster, Collect, ReadSettings, ReadCache, Decide
<1>5. \A local : Local(r, c, local) => check'[r][c] = local
  BY <1>1 DEF Local
<1>6. \A d \in Clusters : SameShown(d)
  <2>1. PhaseShown(c) \/ UNCHANGED latest
    BY DEF SkipCluster, Collect, ReadSettings, ReadCache, Decide, clusterVars
  <2> QED
    BY <1>2, <2>1, PhaseShows
<1>7. /\ k.pc \in {"collect", "settings"} => check'[r][c].pc \in {"idle", "settings", "number"}
      /\ k.pc \in {"lookup", "decide"} => check'[r][c].pc \in Unpublished /\ check'[r][c].gen = k.gen
      /\ k.pc \in {"collect", "settings", "lookup", "decide"}
  <2>1. CASE SkipCluster(r, c)
    BY <1>5, <2>1 DEF SkipCluster, At, IdleCheck
  <2>2. CASE Collect(r, c)
    <3> PICK h \in Hashes : Local(r, c, [k EXCEPT !.pc = "settings", !.hash = h])
      BY <2>2 DEF Collect
    <3>1. check'[r][c].pc = "settings" /\ k.pc = "collect"
      BY <1>1, <1>5, <2>2 DEF Collect, At, CheckLocals
    <3> QED
      BY <3>1
  <2>3. CASE ReadSettings(r, c)
    BY <1>1, <1>5, <2>3 DEF ReadSettings, At, CheckLocals
  <2>4. CASE ReadCache(r, c)
    BY <1>1, <1>5, <2>4 DEF ReadCache, At, CheckLocals, Unpublished
  <2>5. CASE Decide(r, c)
    BY <1>1, <1>5, <2>5 DEF Decide, At, CheckLocals, Unpublished
  <2> QED
    BY <2>1, <2>2, <2>3, <2>4, <2>5
<1>8. Numbered(r, c)' => Numbered(r, c) /\ check'[r][c].gen = k.gen
  BY <1>7 DEF Numbered
<1>9. Ordered(r, c)'
  BY <1>1, <1>6, <1>7 DEF Ordered, Numbered, SameShown, Unpublished, Unsent
<1>10. new = check'[r][c]
  BY <1>4, <1>5
<1>11. /\ \A q \in Runs \ {r} : Ordered(q, c)' /\ Apart(r, q, c)'
       /\ \A q, s \in Runs \ {r} : q # s => Apart(q, s, c)'
  BY <1>2, <1>4, <1>6, <1>8, <1>10, OthersKept
<1>12. RestInv' /\ OrderInv'
  <2>1. latest'[c].gen <= checkCounter'[c]
    BY <1>1, <1>6 DEF SameShown
  <2>2. /\ raced' \in [Clusters -> BOOLEAN]
        /\ aiConfigVersion' = [d \in Clusters |-> aiConfigVersion'[d]]
    BY <1>2 DEF CycleInv, OrderInv
  <2> QED
    BY <1>2, <1>4, <1>6, <1>9, <1>11, <2>1, <2>2, CheckMoves
<1>13. RequestInv'
  BY <1>3, <1>6, SameRequests DEF CycleInv
<1> QED
  BY <1>3, <1>12, <1>13 DEF CycleInv

\* A published update is as new as the check that publishes it: newer than the one
\* it replaces and than every request, if the check is alone.
LEMMA PublishOrder ==
  ASSUME IInv, CycleInv, NEW r \in Runs, NEW c \in Clusters, Publish(r, c)
  PROVE  /\ CycleInv'
         /\ latest'[c].gen # latest[c].gen
         /\ ~raced[c] => latest'[c].gen = checkCounter[c] /\ latest[c].gen < checkCounter[c]
         /\ \A d \in Clusters \ {c} : latest'[d] = latest[d]
<1> DEFINE k == check[r][c]
           version == <<manager.config, k.model>>
<1>1. /\ k \in CheckLocals /\ check \in [Runs -> [Clusters -> SoundLocals]]
      /\ Ordered(r, c) /\ k.pc = "publish" /\ Numbered(r, c)
      /\ k.gen <= checkCounter[c] /\ k.gen # latest[c].gen
      /\ ~raced[c] => k.gen = checkCounter[c] /\ latest[c].gen < checkCounter[c]
      /\ latest[c].gen \in Nat /\ checkCounter[c] \in Nat
  BY LocalsSound DEF IInv, RunInv, SoundLocals, CycleInv, OrderInv, ClusterInv, Shown, Updates,
                     Publish, At, Ordered, Unpublished, Numbered
<1>2. /\ latest'[c].gen = k.gen /\ latest'[c].hash = k.hash
      /\ \A d \in Clusters \ {c} : latest'[d] = latest[d] /\ SameShown(d)
      /\ UNCHANGED <<queueVars, running, checkCounter, raced>>
      /\ aiConfigVersion' = [aiConfigVersion EXCEPT ![c] = version]
  BY DEF Publish, IInv, ClusterInv, SameShown, CycleInv, OrderInv
<1>3. /\ aiConfigVersion'[c] = version
      /\ aiConfigVersion' = [d \in Clusters |-> aiConfigVersion'[d]]
  BY <1>2 DEF CycleInv, OrderInv
<1>4. PICK new : /\ Local(r, c, new) /\ new = check'[r][c]
                 /\ new = IdleCheck \/ new = [k EXCEPT !.pc = "enqueue", !.version = version]
  BY <1>1 DEF Publish, Local
<1> HIDE DEF version
<1>5. \/ new.pc = "idle"
      \/ new.pc = "enqueue" /\ new.gen = k.gen /\ new.hash = k.hash /\ new.version = version
  <2>1. CASE new = IdleCheck
    BY <2>1 DEF IdleCheck
  <2>2. CASE new = [k EXCEPT !.pc = "enqueue", !.version = version]
    BY <2>2, <1>1 DEF CheckLocals
  <2> QED
    BY <1>4, <2>1, <2>2
<1>6. latest'[c].gen <= checkCounter'[c] /\ Ordered(r, c)'
  BY <1>1, <1>2, <1>3, <1>4, <1>5 DEF Ordered, Numbered, Unpublished, Unsent
<1>7. /\ \A q \in Runs \ {r} : Ordered(q, c)' /\ Apart(r, q, c)'
      /\ \A q, s \in Runs \ {r} : q # s => Apart(q, s, c)'
  <2>1. Numbered(r, c)' => Numbered(r, c) /\ new.gen = k.gen
    BY <1>1, <1>4, <1>5 DEF Numbered
  <2> QED
    BY <1>1, <1>2, <1>4, <2>1, OthersKept
<1>8. RestInv' /\ OrderInv'
  <2>1. raced' \in [Clusters -> BOOLEAN]
    BY <1>2 DEF CycleInv, OrderInv
  <2> QED
    BY <1>1, <1>2, <1>3, <1>4, <1>6, <1>7, <2>1, CheckMoves
<1>9. PendingOwn' /\ HeldRequests' = HeldRequests
  BY <1>2 DEF CycleInv, PendingOwn, HeldRequests, WaitingRequests, queueVars
<1>10. RequestInv'
  <2> SUFFICES ASSUME NEW q \in HeldRequests
               PROVE  /\ q.generation <= checkCounter'[q.clusterID]
                      /\ SameGeneration(q)' /\ ~raced'[q.clusterID] => OwnUpdate(q)'
    BY <1>9 DEF RequestInv
  <2>1. /\ q.clusterID \in Clusters /\ q.generation \in Nat
        /\ q.generation <= checkCounter[q.clusterID]
        /\ SameGeneration(q) /\ ~raced[q.clusterID] => OwnUpdate(q)
    BY HeldTyped DEF IInv, Requests, CycleInv, RequestInv
  <2>2. CASE q.clusterID = c
    BY <1>1, <1>2, <2>1, <2>2 DEF SameGeneration, OwnUpdate
  <2>3. CASE q.clusterID # c
    BY <1>2, <2>1, <2>3 DEF SameGeneration, OwnUpdate, SameShown
  <2> QED
    BY <2>2, <2>3
<1> QED
  BY <1>1, <1>2, <1>8, <1>9, <1>10 DEF CycleInv

\* The request of a check is about the update that it published.
LEMMA AfterPublishOrder ==
  ASSUME IInv, CycleInv, NEW r \in Runs, NEW c \in Clusters,
         EnqueueRequest(r, c) \/ Degrade(r, c)
  PROVE  CycleInv'
<1> DEFINE k == check[r][c]
<1>1. /\ k \in SoundLocals /\ k \in CheckLocals /\ k.pc \in Unsent /\ Numbered(r, c)
      /\ check \in [Runs -> [Clusters -> SoundLocals]]
      /\ Ordered(r, c) /\ k.gen <= checkCounter[c] /\ latest[c].gen <= checkCounter[c]
  BY LocalsSound DEF IInv, RunInv, SoundLocals, CycleInv, OrderInv,
                     EnqueueRequest, Degrade, At, Ordered, Unsent, Numbered
<1>2. /\ \A d \in Clusters : SameShown(d)
      /\ UNCHANGED <<running, checkCounter, raced, aiConfigVersion>>
  <2>1. CASE EnqueueRequest(r, c)
    BY <2>1 DEF EnqueueRequest, clusterVars, SameShown
  <2>2. CASE Degrade(r, c)
    BY <2>2 DEF Degrade, UnchangedButLatest, SameShown, IInv, ClusterInv, Shown, Updates
  <2> QED
    BY <2>1, <2>2
<1>3. PICK new : Local(r, c, new) /\ new = check'[r][c] /\ new \in {IdleCheck, [k EXCEPT !.pc = "degrade"]}
  BY <1>1 DEF EnqueueRequest, Degrade, AfterDrop, Local
<1>4. \/ check'[r][c].pc = "idle"
      \/ check'[r][c].pc = "degrade" /\ check'[r][c].gen = k.gen /\ check'[r][c].hash = k.hash
  BY <1>1, <1>3 DEF IdleCheck, CheckLocals
<1>5. latest'[c].gen <= checkCounter'[c] /\ Ordered(r, c)'
  BY <1>1, <1>2, <1>4 DEF Ordered, Numbered, Unpublished, Unsent, SameShown
<1>6. /\ \A q \in Runs \ {r} : Ordered(q, c)' /\ Apart(r, q, c)'
      /\ \A q, s \in Runs \ {r} : q # s => Apart(q, s, c)'
  <2>1. Numbered(r, c)' => Numbered(r, c) /\ new.gen = k.gen
    BY <1>1, <1>3, <1>4 DEF Numbered
  <2> QED
    BY <1>2, <1>3, <2>1, OthersKept
<1>7. RestInv' /\ OrderInv'
  <2>1. /\ raced' \in [Clusters -> BOOLEAN] /\ k.pc # "idle"
        /\ aiConfigVersion' = [d \in Clusters |-> aiConfigVersion'[d]]
    BY <1>1, <1>2 DEF CycleInv, OrderInv, Unsent
  <2> QED
    BY <1>2, <1>3, <1>5, <1>6, <2>1, CheckMoves
<1>8. CASE UNCHANGED queueVars
  <2>1. PendingOwn' /\ HeldRequests' = HeldRequests
    BY <1>8 DEF CycleInv, PendingOwn, HeldRequests, WaitingRequests, queueVars
  <2>2. RequestInv'
    BY <1>2, <2>1, SameRequests DEF CycleInv
  <2> QED
    BY <1>7, <2>1, <2>2 DEF CycleInv
<1>9. CASE EnqueueRequest(r, c) /\ Enqueue(RequestOf(r, c))
  <2> DEFINE req == RequestOf(r, c)
  <2>1. req \in Requests /\ k.pc = "enqueue"
    BY <1>1, <1>9 DEF RequestOf, Requests, SoundLocals, CheckLocals, EnqueueRequest, At
  <2>2. /\ req.clusterID = c /\ req.generation = k.gen /\ req.issueHash = k.hash
        /\ req.configVersion = k.version
    BY DEF RequestOf
  <2>3. ~raced[c] => OwnUpdate(req)
    BY <1>1, <2>1, <2>2 DEF Ordered, OwnUpdate, Unsent
  <2> HIDE DEF req
  <2>4. PendingOwn' /\ WaitingRequests' \subseteq WaitingRequests \cup {req} /\ UNCHANGED worker
    BY <1>9, <2>1, EnqueueHolds, EnqueueTypes DEF IInv, CycleInv, req
  <2>5. HeldRequests' \subseteq HeldRequests \cup {req}
    BY <2>4 DEF HeldRequests
  <2>6. \A q \in HeldRequests \cup {req} :
          /\ q.clusterID \in Clusters
          /\ q.generation <= checkCounter[q.clusterID]
          /\ SameGeneration(q) /\ ~raced[q.clusterID] => OwnUpdate(q)
    BY <1>1, <2>1, <2>2, <2>3, HeldTyped DEF IInv, Requests, CycleInv, RequestInv
  <2>7. RequestInv'
    BY <1>2, <2>5, <2>6 DEF RequestInv, SameShown, SameGeneration, OwnUpdate
  <2> QED
    BY <1>7, <2>4, <2>7 DEF CycleInv
<1> QED
  BY <1>8, <1>9 DEF EnqueueRequest, Degrade, EnqueueFull, UnchangedButLatest

\* The handler shows no other check's update and makes no request.
LEMMA HandlerOrder ==
  ASSUME IInv, CycleInv, HandlerStep \/ AIReturns
  PROVE  CycleInv'
<1>1. UNCHANGED <<check, running, checkCounter, raced, aiConfigVersion>>
  BY DEF HandlerStep, StartHandler, PreFlight, CallAI, ShowFailure, Commit, FinishHandler, AIReturns,
         runVars, clusterVars
<1>2. RestInv'
  BY <1>1 DEF CycleInv, RestInv
<1>3. \A d \in Clusters : SameShown(d)
  <2>1. CASE Commit
    <3>1. worker.clusterID \in Clusters
      BY <2>1 DEF Commit, IInv, HandlerInv, QueueInv, Requests
    <3>2. /\ \A d \in Clusters : latest'[d].gen = latest[d].gen
          /\ \A d \in Clusters : latest'[d].hash = latest[d].hash
      <4> DEFINE c == worker.clusterID
      <4>1. latest[c] \in Updates /\ latest \in [Clusters -> Shown]
        BY <3>1 DEF IInv, ClusterInv, Shown
      <4>2. CASE UNCHANGED latest
        BY <4>2
      <4>3. CASE ~UNCHANGED latest
        <5> DEFINE u == [latest[c] EXCEPT
                           !.ai = IF handler.outcome = "enhanced" THEN "done" ELSE "failed",
                           !.enh = IF handler.outcome = "enhanced" THEN worker.issueHash ELSE @]
        <5>1. latest' = [latest EXCEPT ![c] = u]
          BY <2>1, <3>1, <4>1, <4>3 DEF Commit, Updates
        <5>2. u.gen = latest[c].gen /\ u.hash = latest[c].hash
          BY <4>1 DEF Updates
        <5> HIDE DEF u
        <5> QED
          BY <3>1, <4>1, <5>1, <5>2
      <4> QED
        BY <4>2, <4>3
    <3> QED
      BY <1>1, <3>2 DEF SameShown
  <2>2. CASE ShowFailure
    <3>1. worker.clusterID \in Clusters
      BY <2>2 DEF ShowFailure, IInv, HandlerInv, QueueInv, Requests
    <3> QED
      BY <1>1, <2>2, <3>1 DEF ShowFailure, SameShown, IInv, ClusterInv, Shown, Updates
  <2>3. CASE UNCHANGED latest
    BY <1>1, <2>3 DEF SameShown
  <2> QED
    BY <2>1, <2>2, <2>3 DEF HandlerStep, StartHandler, PreFlight, CallAI, FinishHandler, AIReturns, clusterVars
<1>4. PendingOwn' /\ HeldRequests' \subseteq HeldRequests
  <2>1. CASE StartHandler
    <3>1. WaitingRequests = WaitingRequests' \cup {worker'} /\ PendingOwn'
      BY <2>1, ReceiveHolds DEF StartHandler, IInv, CycleInv
    <3> QED
      BY <3>1 DEF HeldRequests
  <2>2. CASE FinishHandler
    <3>1. WaitingRequests' = WaitingRequests /\ PendingOwn' /\ worker' = NoRequest
      BY <2>2, MarkDoneHolds DEF FinishHandler, MarkDone, IInv, CycleInv
    <3> QED
      BY <3>1 DEF HeldRequests
  <2>3. CASE UNCHANGED queueVars
    BY <2>3 DEF CycleInv, PendingOwn, HeldRequests, WaitingRequests, queueVars
  <2> QED
    BY <2>1, <2>2, <2>3 DEF HandlerStep, PreFlight, CallAI, ShowFailure, Commit, AIReturns
<1> QED
  BY <1>1, <1>2, <1>3, <1>4, RequestsMove

\* A settings change shows no other check.
LEMMA PosterOrder ==
  ASSUME IInv, CycleInv, NEW p \in Posters, StageSettings(p) \/ PostStep(p)
  PROVE  CycleInv'
<1>1. CASE TriggerAfterSettings(p) /\ BeginGuardedRun
  BY <1>1, BeginOrder DEF TriggerAfterSettings
<1>2. CASE UNCHANGED <<check, running>>
  <2>1. RestInv'
    BY <1>2 DEF CycleInv, RestInv
  <2>2. UNCHANGED <<queueVars, checkCounter, raced, aiConfigVersion>>
    BY DEF StageSettings, PostStep, Reconfigure, SetEnabled, CommitSettings, TriggerAfterSettings, clusterVars
  <2>3. \A c \in Clusters : latest'[c].gen = latest[c].gen /\ latest'[c].hash = latest[c].hash
    <3>1. CASE UNCHANGED latest
      BY <3>1
    <3>2. CASE CommitSettings(p)
      <4> SUFFICES ASSUME NEW c \in Clusters
                   PROVE  latest'[c].gen = latest[c].gen /\ latest'[c].hash = latest[c].hash
        OBVIOUS
      <4>1. latest[c] \in Updates /\ latest'[c] \in {latest[c], [latest[c] EXCEPT !.ai = "reset"]}
        BY <3>2 DEF CommitSettings, IInv, ClusterInv, Shown
      <4> QED
        BY <4>1 DEF Updates
    <3> QED
      BY <3>1, <3>2 DEF StageSettings, PostStep, Reconfigure, SetEnabled, TriggerAfterSettings, clusterVars
  <2>4. \A c \in Clusters : SameShown(c)
    BY <2>2, <2>3 DEF SameShown
  <2>5. PendingOwn' /\ HeldRequests' = HeldRequests
    BY <2>2 DEF CycleInv, PendingOwn, HeldRequests, WaitingRequests, queueVars
  <2> QED
    BY <1>2, <2>1, <2>2, <2>4, <2>5, RequestsMove
<1> QED
  BY <1>1, <1>2 DEF StageSettings, PostStep, Reconfigure, SetEnabled, CommitSettings, TriggerAfterSettings, runVars

\* Nothing has a number yet.
LEMMA InitOrder == Init => CycleInv
<1> SUFFICES ASSUME Init PROVE CycleInv
  OBVIOUS
<1>1. \A r \in Runs, c \in Clusters : check[r][c].pc \in {"idle", "collect"}
  <2>1. IdleCheck.pc = "idle" /\ [IdleCheck EXCEPT !.pc = "collect"].pc = "collect"
    BY DEF IdleCheck
  <2> QED
    BY <2>1 DEF Init
<1>2. RestInv
  BY DEF Init, RestInv, IdleCheck
<1>3. OrderInv
  <2>1. raced \in [Clusters -> BOOLEAN] /\ aiConfigVersion = [c \in Clusters |-> aiConfigVersion[c]]
    BY DEF Init
  <2> SUFFICES ASSUME NEW c \in Clusters
               PROVE  /\ latest[c].gen <= checkCounter[c]
                      /\ \A r \in Runs : Ordered(r, c)
                      /\ \A r, q \in Runs : r # q => Apart(r, q, c)
    BY <2>1 DEF OrderInv
  <2>2. latest[c].gen = 0 /\ checkCounter[c] = 0
    BY DEF Init, NoUpdate
  <2> QED
    BY <1>1, <2>2 DEF Ordered, Apart, Numbered, Unpublished, Unsent
<1>4. HeldRequests = {} /\ PendingOwn
  BY DEF Init, QueueInit, HeldRequests, WaitingRequests, PendingOwn
<1> QED
  BY <1>2, <1>3, <1>4 DEF CycleInv, RequestInv

\* Every step keeps the order.
LEMMA NextOrder == IInv /\ CycleInv /\ [Next]_vars => CycleInv'
<1> SUFFICES ASSUME IInv, CycleInv, [Next]_vars PROVE CycleInv'
  OBVIOUS
<1>1. CASE TriggerCheck \/ Tick \/ \E r \in Runs : EndRun(r)
  BY <1>1, RunOrder
<1>2. ASSUME NEW r \in Runs, NEW c \in Clusters, CheckStep(r, c) PROVE CycleInv'
  BY <1>2, NumberOrder, BeforePublishOrder, PublishOrder, AfterPublishOrder DEF CheckStep
<1>3. CASE HandlerStep \/ AIReturns
  BY <1>3, HandlerOrder
<1>4. ASSUME NEW p \in Posters, StageSettings(p) \/ PostStep(p) PROVE CycleInv'
  BY <1>4, PosterOrder
<1>5. CASE UNCHANGED vars
  <2>1. UNCHANGED <<queueVars, check, running, latest, checkCounter, raced, aiConfigVersion>>
    BY <1>5 DEF vars, clusterVars, runVars
  <2>2. RestInv' /\ PendingOwn' /\ HeldRequests' = HeldRequests /\ \A c \in Clusters : SameShown(c)
    BY <2>1 DEF CycleInv, RestInv, PendingOwn, HeldRequests, WaitingRequests, SameShown, queueVars
  <2> QED
    BY <2>1, <2>2, RequestsMove
<1> QED
  BY <1>1, <1>2, <1>3, <1>4, <1>5 DEF Next

\* The order of a cluster's checks, updates and requests, whatever runs overlap and
\* whatever settings are posted: unless its newest check ran beside the startup
\* run's, that check is the only one numbered, and what is queued for it is about
\* the update it published.
THEOREM CycleInvariance == Spec => []CycleInv
<1>1. Init => CycleInv
  BY InitOrder
<1>2. IInv /\ CycleInv /\ [Next]_vars => CycleInv'
  BY NextOrder
<1> QED
  BY <1>1, <1>2, Invariance, PTL DEF Spec

\* Of all steps only a publication changes what check is shown, and only a
\* publication and a commit change its suggestions.
LEMMA ShownBy ==
  ASSUME IInv, CycleInv, [Next]_vars, NEW c \in Clusters
  PROVE  \/ latest'[c].gen = latest[c].gen /\ latest'[c].enh = latest[c].enh
         \/ /\ Commit /\ worker.clusterID = c /\ Current(worker) /\ worker \in HeldRequests
            /\ latest'[c].gen = latest[c].gen
         \/ /\ latest'[c].gen # latest[c].gen
            /\ ~raced[c] => latest'[c].gen = checkCounter[c] /\ latest[c].gen < checkCounter[c]
<1> DEFINE Same == latest'[c].gen = latest[c].gen /\ latest'[c].enh = latest[c].enh
           Published ==
             /\ latest'[c].gen # latest[c].gen
             /\ ~raced[c] => latest'[c].gen = checkCounter[c] /\ latest[c].gen < checkCounter[c]
<1>1. latest \in [Clusters -> Updates] /\ latest[c] \in Updates
  BY DEF IInv, ClusterInv, Shown
<1>2. CASE UNCHANGED latest
  BY <1>2
<1>3. ASSUME NEW d \in Clusters, PhaseShown(d) PROVE Same
  BY <1>1, <1>3 DEF PhaseShown, Updates
<1>4. ASSUME NEW r \in Runs, NEW d \in Clusters, Publish(r, d)
      PROVE  Same \/ Published
  BY <1>4, PublishOrder
<1>5. ASSUME NEW r \in Runs, NEW d \in Clusters, Degrade(r, d) PROVE Same
  BY <1>1, <1>5 DEF Degrade, Updates
<1>6. CASE ShowFailure
  <2>1. worker.clusterID \in Clusters
    BY <1>6 DEF ShowFailure, IInv, HandlerInv, QueueInv, Requests
  <2> QED
    BY <1>1, <1>6, <2>1 DEF ShowFailure, Updates
<1>7. CASE Commit
  <2>1. worker \in Requests /\ worker # NoRequest /\ worker.clusterID \in Clusters
    BY <1>7 DEF Commit, IInv, HandlerInv, QueueInv, Requests
  <2>2. CASE worker.clusterID = c /\ ~UNCHANGED latest
    <3>1. Current(worker) /\ worker \in HeldRequests
      BY <1>7, <2>1, <2>2 DEF Commit, HeldRequests
    <3>2. latest'[c].gen = latest[c].gen
      <4> DEFINE u == [latest[c] EXCEPT
                         !.ai = IF handler.outcome = "enhanced" THEN "done" ELSE "failed",
                         !.enh = IF handler.outcome = "enhanced" THEN worker.issueHash ELSE @]
      <4>1. latest' = [latest EXCEPT ![c] = u]
        BY <1>1, <1>7, <2>2 DEF Commit, Updates
      <4>2. u.gen = latest[c].gen
        BY <1>1 DEF Updates
      <4> HIDE DEF u
      <4> QED
        BY <1>1, <4>1, <4>2
    <3> QED
      BY <1>7, <2>2, <3>1, <3>2
  <2>3. CASE worker.clusterID # c
    BY <1>1, <1>7, <2>1, <2>3 DEF Commit
  <2> QED
    BY <1>2, <2>2, <2>3
<1>8. ASSUME NEW p \in Posters, CommitSettings(p) PROVE Same
  <2>1. latest'[c] \in {latest[c], [latest[c] EXCEPT !.ai = "reset"]}
    BY <1>8 DEF CommitSettings
  <2> QED
    BY <1>1, <2>1 DEF Updates
<1>9. ASSUME NEW r \in Runs, NEW d \in Clusters, CheckStep(r, d)
      PROVE  Same \/ Published
  <2>1. \/ PhaseShown(d) \/ Publish(r, d) \/ Degrade(r, d) \/ UNCHANGED latest
    BY <1>9 DEF CheckStep, SkipCluster, Collect, ReadSettings, Number, ReadCache, Decide, EnqueueRequest,
                clusterVars
  <2> QED
    BY <2>1, <1>2, <1>3, <1>4, <1>5
<1>10. CASE HandlerStep
  <2>1. ShowFailure \/ Commit \/ UNCHANGED latest
    BY <1>10 DEF HandlerStep, StartHandler, PreFlight, CallAI, FinishHandler, clusterVars
  <2> QED
    BY <2>1, <1>2, <1>6, <1>7
<1>11. ASSUME NEW p \in Posters, StageSettings(p) \/ PostStep(p) PROVE Same
  <2>1. CommitSettings(p) \/ UNCHANGED latest
    BY <1>11 DEF StageSettings, PostStep, Reconfigure, SetEnabled, TriggerAfterSettings, clusterVars
  <2> QED
    BY <2>1, <1>2, <1>8
<1>12. CASE TriggerCheck \/ Tick \/ AIReturns \/ UNCHANGED vars \/ \E r \in Runs : EndRun(r)
  <2>1. UNCHANGED latest
    BY <1>12 DEF TriggerCheck, Tick, EndRun, AIReturns, vars, clusterVars
  <2> QED
    BY <2>1, <1>2
<1> QED
  BY <1>9, <1>10, <1>11, <1>12 DEF Next

\* The update shown goes back to an older check's only when the newest check ran
\* beside the startup run's: checkInFlight, and a ticker that starts after the
\* startup run, keep all others apart (server.go:794 to 836).
THEOREM NewestCheckShownHolds == Spec => NewestCheckShown
<1>1. IInv /\ CycleInv /\ [Next]_vars
        => [\A c \in Clusters : latest'[c].gen < latest[c].gen => raced[c]]_vars
  <2> SUFFICES ASSUME IInv, CycleInv, [Next]_vars, NEW c \in Clusters, ~raced[c],
                      latest'[c].gen < latest[c].gen
               PROVE  FALSE
    BY DEF CycleInv, OrderInv
  <2>1. latest[c].gen \in Nat /\ checkCounter[c] \in Nat
    BY DEF IInv, ClusterInv, Shown, Updates
  <2> QED
    BY <2>1, ShownBy
<1> QED
  BY <1>1, Invariance, CycleInvariance, PTL DEF Spec, NewestCheckShown

\* Suggestions are patched only into the update of the check that asked for them,
\* even between checks that found the same issues, and into that of an older check
\* only when two ran at once (ai_analysis.go:923).
THEOREM CommitToOwnUpdateHolds == Spec => CommitToOwnUpdate
<1> DEFINE Own == \A c \in Clusters :
                    (latest'[c].gen = latest[c].gen /\ latest'[c].enh # latest[c].enh) =>
                      /\ worker.clusterID = c
                      /\ IF raced[c] THEN worker.generation >= latest[c].gen
                                     ELSE worker.generation = latest[c].gen
<1>1. IInv /\ CycleInv /\ [Next]_vars => [Own]_vars
  <2> SUFFICES ASSUME IInv, CycleInv, [Next]_vars, NEW c \in Clusters,
                      latest'[c].gen = latest[c].gen, latest'[c].enh # latest[c].enh
               PROVE  /\ worker.clusterID = c
                      /\ IF raced[c] THEN worker.generation >= latest[c].gen
                                     ELSE worker.generation = latest[c].gen
    OBVIOUS
  <2>1. latest[c].gen \in Nat /\ checkCounter[c] \in Nat /\ latest[c].gen <= checkCounter[c]
    BY DEF IInv, ClusterInv, Shown, Updates, CycleInv, OrderInv
  <2>2. worker.clusterID = c /\ Current(worker) /\ worker \in HeldRequests
    BY <2>1, ShownBy
  <2>3. worker.generation = checkCounter[c]
    BY <2>2 DEF Current, SameGeneration
  <2>4. ~raced[c] => latest[c].gen = checkCounter[c]
    BY <2>2 DEF Current, CycleInv, RequestInv, OwnUpdate
  <2> QED
    BY <2>1, <2>2, <2>3, <2>4
<1> QED
  BY <1>1, Invariance, CycleInvariance, PTL DEF Spec, CommitToOwnUpdate

-----------------------------------------------------------------------------
(***************************************************************************)
(* Nobody is left Pending.  A request of the newest check, if no other     *)
(* overlapped it, is about the update shown and the configuration it was   *)
(* published under, so that only a newer check can make it stale; and then *)
(* the newer check is numbered, or has published and asked in its turn.    *)
(***************************************************************************)
\* A request of the cluster's newest check waits, or is worked on.
Requested(c) ==
  \/ \E q \in WaitingRequests : q.clusterID = c /\ q.generation = checkCounter[c]
  \/ /\ worker # NoRequest /\ handler.pc # "done"
     /\ worker.clusterID = c /\ worker.generation = checkCounter[c]

Backed(c) ==
  latest[c].ai = "pending" /\ ~raced[c] => (\E r \in Runs : Numbered(r, c)) \/ Requested(c)
BackedInv == \A c \in Clusters : Backed(c)

\* What waits or is worked on is live.
LEMMA RequestedLive ==
  ASSUME IInv, PendingOwn, NEW c \in Clusters, Requested(c)
  PROVE  \E q \in LiveRequests(c) : q.generation = checkCounter[c]
<1>1. CASE \E q \in WaitingRequests : q.clusterID = c /\ q.generation = checkCounter[c]
  <2> PICK q \in WaitingRequests : q.clusterID = c /\ q.generation = checkCounter[c]
    BY <1>1
  <2>1. CASE q \in {ch[i] : i \in 1 .. Len(ch)}
    BY <2>1 DEF LiveRequests
  <2>2. CASE q \in {pending[d] : d \in Clusters} \ {NoRequest}
    <3>1. q = pending[c] /\ q # NoRequest
      BY <2>2 DEF PendingOwn
    <3> QED
      BY <3>1 DEF LiveRequests
  <2> QED
    BY <2>1, <2>2 DEF WaitingRequests
<1>2. CASE /\ worker # NoRequest /\ handler.pc # "done"
           /\ worker.clusterID = c /\ worker.generation = checkCounter[c]
  BY <1>2 DEF LiveRequests
<1> QED
  BY <1>1, <1>2 DEF Requested

\* A step that takes nothing from behind a Pending update leaves it backed.
LEMMA StillBacked ==
  ASSUME NEW c \in Clusters, Backed(c), UNCHANGED <<checkCounter, raced>>,
         latest'[c].ai = "pending" => latest[c].ai = "pending",
         \A r \in Runs : Numbered(r, c) => Numbered(r, c)',
         \A q \in WaitingRequests : q.clusterID = c => q \in WaitingRequests',
         UNCHANGED <<worker, handler>>
  PROVE  Backed(c)'
BY DEF Backed, Requested

\* A run that begins was not at work.
LEMMA BeginNumbered ==
  ASSUME IInv, CycleInv, BeginGuardedRun, NEW r \in Runs, NEW c \in Clusters, Numbered(r, c)
  PROVE  Numbered(r, c)'
<1>1. PICK idle \in Guarded : idle \notin running /\ check' = [check EXCEPT ![idle] = Fresh]
  BY BeginPicks
<1>2. r \in running
  BY DEF CycleInv, RestInv, Numbered
<1> QED
  BY <1>1, <1>2 DEF Numbered, IInv, RunInv

\* Runs begin when no check of theirs is at work, and end when none is.
LEMMA RunBacked ==
  ASSUME IInv, CycleInv, NEW c \in Clusters, Backed(c),
         TriggerCheck \/ Tick \/ \E r \in Runs : EndRun(r)
  PROVE  Backed(c)'
<1>1. UNCHANGED <<queueVars, latest, checkCounter, raced, handler>>
  BY DEF TriggerCheck, Tick, EndRun, clusterVars
<1>2. WaitingRequests' = WaitingRequests /\ UNCHANGED worker
  BY <1>1 DEF WaitingRequests, queueVars
<1>3. \A r \in Runs : Numbered(r, c) => Numbered(r, c)'
  <2>1. CASE TriggerCheck \/ Tick
    BY <2>1, BeginNumbered DEF TriggerCheck, Tick
  <2>2. CASE \E r \in Runs : EndRun(r)
    BY <2>2 DEF EndRun, Numbered
  <2> QED
    BY <2>1, <2>2
<1> QED
  BY <1>1, <1>2, <1>3, StillBacked

\* A check is numbered from before it publishes Pending until its request waits or
\* its refusal is shown.
LEMMA CheckBacked ==
  ASSUME IInv, CycleInv, NEW c \in Clusters, Backed(c),
         NEW r \in Runs, NEW d \in Clusters, CheckStep(r, d)
  PROVE  Backed(c)'
<1> DEFINE k == check[r][d]
           new == check'[r][d]
<1>1. /\ k \in CheckLocals /\ check \in [Runs -> [Clusters -> SoundLocals]]
      /\ latest \in [Clusters -> Updates]
  BY LocalsSound DEF IInv, RunInv, SoundLocals, ClusterInv, Shown
<1>2. UNCHANGED handler
  BY DEF CheckStep, SkipCluster, Collect, ReadSettings, Number, ReadCache, Decide, Publish,
         EnqueueRequest, Degrade, UnchangedButLatest
<1>3. PICK local : Local(r, d, local)
  BY DEF CheckStep, SkipCluster, Collect, ReadSettings, Number, ReadCache, Decide, Publish,
         EnqueueRequest, Degrade
<1>4. /\ new = local
      /\ \A q \in Runs : (q # r \/ d # c) => check'[q][c] = check[q][c]
  BY <1>1, <1>3 DEF Local
<1>5. \A value : Local(r, d, value) => new = value
  BY <1>1 DEF Local
<1>6. CASE ~EnqueueRequest(r, d) /\ ~Publish(r, d) /\ ~Degrade(r, d) /\ ~Number(r, d)
  <2>1. UNCHANGED <<queueVars, checkCounter, raced>>
    BY <1>6 DEF CheckStep, SkipCluster, Collect, ReadSettings, ReadCache, Decide, UnchangedButLatest, clusterVars
  <2>2. WaitingRequests' = WaitingRequests /\ UNCHANGED worker
    BY <2>1 DEF WaitingRequests, queueVars
  <2>3. latest'[c].ai = "pending" => latest[c].ai = "pending"
    <3>1. PhaseShown(d) \/ UNCHANGED latest
      BY <1>6 DEF CheckStep, SkipCluster, Collect, ReadSettings, ReadCache, Decide, clusterVars
    <3> QED
      BY <1>1, <3>1 DEF PhaseShown, Updates
  <2>4. \A q \in Runs : Numbered(q, c) => Numbered(q, c)'
    <3>1. CASE c = d /\ k.pc \in {"lookup", "decide"}
      <4>1. CASE ReadCache(r, d)
        <5>1. new.pc = "decide"
          BY <1>1, <1>5, <4>1 DEF ReadCache, CheckLocals
        <5> QED
          BY <1>4, <3>1, <5>1 DEF Numbered
      <4>2. CASE Decide(r, d)
        <5>1. new.pc = "publish"
          BY <1>1, <1>5, <4>2 DEF Decide, CheckLocals
        <5> QED
          BY <1>4, <3>1, <5>1 DEF Numbered
      <4> QED
        BY <1>6, <3>1, <4>1, <4>2 DEF CheckStep, SkipCluster, Collect, ReadSettings, At
    <3>2. CASE c # d \/ k.pc \in {"collect", "settings"}
      BY <1>4, <3>2 DEF Numbered
    <3> QED
      BY <1>6, <3>1, <3>2 DEF CheckStep, SkipCluster, Collect, ReadSettings, ReadCache, Decide, At
  <2> QED
    BY <1>2, <2>1, <2>2, <2>3, <2>4, StillBacked
<1>7. CASE Number(r, d)
  <2>1. CASE c = d
    <3>1. new.pc = "lookup"
      BY <1>1, <1>5, <1>7 DEF Number, CheckLocals
    <3> QED
      BY <2>1, <3>1 DEF Backed, Numbered
  <2>2. CASE c # d
    <3>1. /\ UNCHANGED <<queueVars, latest>>
          /\ checkCounter'[c] = checkCounter[c] /\ raced'[c] = raced[c]
      BY <1>7, <2>2 DEF Number, IInv, ClusterInv, CycleInv, OrderInv
    <3>2. WaitingRequests' = WaitingRequests /\ UNCHANGED worker
      BY <3>1 DEF WaitingRequests, queueVars
    <3>3. Requested(c) => Requested(c)'
      BY <1>2, <3>1, <3>2 DEF Requested
    <3>4. \A q \in Runs : Numbered(q, c) => Numbered(q, c)'
      BY <1>4, <2>2 DEF Numbered
    <3> QED
      BY <3>1, <3>3, <3>4 DEF Backed
  <2> QED
    BY <2>1, <2>2
<1>8. CASE Publish(r, d)
  <2>1. WaitingRequests' = WaitingRequests /\ UNCHANGED <<worker, checkCounter, raced>>
    BY <1>8 DEF Publish, WaitingRequests, queueVars
  <2>2. CASE c # d
    <3>1. latest'[c] = latest[c]
      BY <1>1, <1>8, <2>2 DEF Publish
    <3>2. \A q \in Runs : Numbered(q, c) => Numbered(q, c)'
      BY <1>4, <2>2 DEF Numbered
    <3> QED
      BY <1>2, <2>1, <3>1, <3>2, StillBacked
  <2>3. CASE c = d
    <3>1. latest'[c].ai = k.ai
      BY <1>1, <1>8, <2>3 DEF Publish
    <3>2. k.ai = "pending" => new.pc = "enqueue"
      <4> DEFINE version == <<manager.config, k.model>>
      <4>1. k.ai = "pending" => new = [k EXCEPT !.pc = "enqueue", !.version = version]
        BY <1>5, <1>8 DEF Publish
      <4> HIDE DEF version
      <4> QED
        BY <1>1, <4>1 DEF CheckLocals
    <3> QED
      BY <2>3, <3>1, <3>2 DEF Backed, Numbered
  <2> QED
    BY <2>2, <2>3
<1>9. CASE EnqueueRequest(r, d)
  <2> DEFINE req == RequestOf(r, d)
  <2>1. /\ UNCHANGED <<latest, checkCounter, raced>> /\ k.pc = "enqueue"
        /\ ~raced[d] => k.gen = checkCounter[d]
    BY <1>9 DEF EnqueueRequest, At, clusterVars, CycleInv, OrderInv, Ordered, Unsent
  <2>2. /\ req \in Requests /\ req.clusterID = d
        /\ ~raced[d] => req.generation = checkCounter[d]
    BY <1>1, <2>1 DEF RequestOf, Requests, SoundLocals, CheckLocals
  <2>3. CASE Enqueue(req)
    <3>1. /\ req \in WaitingRequests' /\ UNCHANGED worker
          /\ \A q \in WaitingRequests : q.clusterID # d => q \in WaitingRequests'
      BY <2>2, <2>3, EnqueueHolds, EnqueueTypes DEF IInv, CycleInv
    <3>2. CASE c = d
      BY <2>1, <2>2, <3>1, <3>2 DEF Backed, Requested, SameGeneration
    <3>3. CASE c # d
      <4>1. \A q \in Runs : Numbered(q, c) => Numbered(q, c)'
        BY <1>4, <3>3 DEF Numbered
      <4> QED
        BY <1>2, <2>1, <3>1, <3>3, <4>1, StillBacked
    <3> QED
      BY <3>2, <3>3
  <2>4. CASE EnqueueFull(req) /\ Local(r, d, AfterDrop(r, d))
    <3>1. WaitingRequests' = WaitingRequests /\ UNCHANGED worker
      BY <2>4 DEF EnqueueFull, WaitingRequests, queueVars
    <3>2. new.pc = "degrade"
      BY <1>1, <1>5, <2>4 DEF AfterDrop, CheckLocals
    <3>3. \A q \in Runs : Numbered(q, c) => Numbered(q, c)'
      BY <1>4, <3>2 DEF Numbered
    <3> QED
      BY <1>2, <2>1, <3>1, <3>3, StillBacked
  <2> QED
    BY <1>9, <2>3, <2>4 DEF EnqueueRequest
<1>10. CASE Degrade(r, d)
  <2>1. WaitingRequests' = WaitingRequests /\ UNCHANGED <<worker, checkCounter, raced>>
    BY <1>10 DEF Degrade, UnchangedButLatest, WaitingRequests, queueVars
  <2>2. CASE c # d
    <3>1. latest'[c] = latest[c]
      BY <1>1, <1>10, <2>2 DEF Degrade
    <3>2. \A q \in Runs : Numbered(q, c) => Numbered(q, c)'
      BY <1>4, <2>2 DEF Numbered
    <3> QED
      BY <1>2, <2>1, <3>1, <3>2, StillBacked
  <2>3. CASE c = d
    <3>1. ~raced[d] => checkCounter[d] = k.gen
      BY <1>10 DEF Degrade, At, CycleInv, OrderInv, Ordered, Unsent
    <3>2. ~raced[d] => latest'[c].ai # "pending"
      BY <1>1, <1>10, <2>3, <3>1 DEF Degrade, Updates
    <3> QED
      BY <2>1, <2>3, <3>2 DEF Backed
  <2> QED
    BY <2>2, <2>3
<1> QED
  BY <1>6, <1>7, <1>8, <1>9, <1>10

\* A handler ends only with the outcome shown, or when its request is not the newest
\* check's any more: what else can make it stale is excluded.
LEMMA HandlerBacked ==
  ASSUME IInv, CycleInv, NEW c \in Clusters, Backed(c), HandlerStep \/ AIReturns
  PROVE  Backed(c)'
<1>1. /\ UNCHANGED <<check, checkCounter, raced>>
      /\ latest \in [Clusters -> Updates] /\ latest[c].gen \in Nat /\ checkCounter[c] \in Nat
      /\ worker # NoRequest => worker \in Requests /\ worker \in HeldRequests
      /\ worker # NoRequest <=> handler.pc # "idle"
  <2>1. UNCHANGED <<check, checkCounter, raced>>
    BY DEF HandlerStep, StartHandler, PreFlight, CallAI, ShowFailure, Commit, FinishHandler, AIReturns,
           runVars, clusterVars
  <2> QED
    BY <2>1 DEF IInv, ClusterInv, Shown, Updates, QueueInv, HandlerInv, HeldRequests
<1>2. ASSUME latest'[c].ai = "pending" => latest[c].ai = "pending",
             latest'[c].ai = "pending" /\ ~raced[c] /\ Requested(c) => Requested(c)'
      PROVE  Backed(c)'
  BY <1>1, <1>2 DEF Backed, Numbered
<1>3. CASE StartHandler
  <2>1. WaitingRequests = WaitingRequests' \cup {worker'} /\ worker' \in Requests /\ worker = NoRequest
    BY <1>3, ReceiveHolds DEF StartHandler, Receive, IInv, CycleInv
  <2>2. worker' # NoRequest /\ handler'.pc = "preflight"
    BY <1>3, <2>1, NoRequestAssumption DEF StartHandler, IInv, HandlerInv, HandlerLocals, Requests, Versions
  <2>3. Requested(c) => Requested(c)'
    BY <1>1, <2>1, <2>2 DEF Requested
  <2> QED
    BY <1>2, <1>3, <2>3 DEF StartHandler, clusterVars
<1>4. CASE PreFlight
  <2>1. UNCHANGED <<queueVars, latest>> /\ handler.pc = "preflight" /\ worker # NoRequest
    BY <1>1, <1>4 DEF PreFlight, clusterVars
  <2>2. WaitingRequests' = WaitingRequests /\ UNCHANGED worker
    BY <2>1 DEF WaitingRequests, queueVars
  <2>3. worker.clusterID = c /\ worker.generation = checkCounter[c] /\ ~raced[c]
          => handler'.pc = "call"
    <3>1. SameGeneration(worker) /\ ~raced[worker.clusterID] => SameVersion(worker)
      BY <1>1, <2>1 DEF CycleInv, RequestInv, OwnUpdate, SameVersion
    <3> QED
      BY <1>4, <3>1 DEF PreFlight, SameGeneration, IInv, HandlerInv, HandlerLocals
  <2>4. ~raced[c] /\ Requested(c) => Requested(c)'
    BY <1>1, <2>2, <2>3 DEF Requested
  <2> QED
    BY <1>2, <2>1, <2>4
<1>5. CASE CallAI \/ AIReturns
  <2>1. UNCHANGED <<queueVars, latest>> /\ handler'.pc # "done"
    BY <1>5 DEF CallAI, AIReturns, clusterVars, IInv, HandlerInv, HandlerLocals
  <2>2. WaitingRequests' = WaitingRequests /\ UNCHANGED worker
    BY <2>1 DEF WaitingRequests, queueVars
  <2>3. Requested(c) => Requested(c)'
    BY <1>1, <2>1, <2>2 DEF Requested
  <2> QED
    BY <1>2, <2>1, <2>3
<1>6. CASE ShowFailure \/ Commit
  <2>1. /\ UNCHANGED queueVars /\ handler.pc = "result" /\ worker # NoRequest
        /\ worker.clusterID \in Clusters
    BY <1>1, <1>6 DEF ShowFailure, Commit, Requests
  <2>2. WaitingRequests' = WaitingRequests
    BY <2>1 DEF WaitingRequests, queueVars
  <2>3. latest'[c].ai = "pending" => latest[c].ai = "pending"
    <3>1. CASE worker.clusterID # c
      BY <1>1, <1>6, <2>1, <3>1 DEF ShowFailure, Commit
    <3>2. CASE worker.clusterID = c
      BY <1>1, <1>6, <3>2 DEF ShowFailure, Commit, Updates
    <3> QED
      BY <3>1, <3>2
  <2>4. CASE worker.clusterID = c /\ worker.generation = checkCounter[c] /\ ~raced[c]
    <3>1. Current(worker)
      <4>1. SameGeneration(worker) /\ OwnUpdate(worker)
        BY <1>1, <2>1, <2>4 DEF CycleInv, RequestInv, SameGeneration
      <4>2. SameIssues(worker) /\ SameVersion(worker)
        BY <2>4, <4>1 DEF SameIssues, SameVersion, OwnUpdate, IInv, ClusterInv
      <4> QED
        BY <4>1, <4>2 DEF Current
    <3>2. latest[c].ai = "pending" => latest'[c].ai # "pending"
      <4>1. latest[c].ai = "pending" => latest[c] # NoUpdate
        BY DEF NoUpdate
      <4> QED
        BY <1>1, <1>6, <2>4, <3>1, <4>1 DEF ShowFailure, Commit, Current, Updates
    <3> QED
      BY <2>3, <3>2 DEF Backed
  <2>5. CASE ~(worker.clusterID = c /\ worker.generation = checkCounter[c] /\ ~raced[c])
    <3>1. ~raced[c] /\ Requested(c) => Requested(c)'
      BY <1>1, <2>2, <2>5 DEF Requested
    <3> QED
      BY <1>2, <2>3, <3>1
  <2> QED
    BY <2>4, <2>5
<1>7. CASE FinishHandler
  <2>1. WaitingRequests' = WaitingRequests /\ handler.pc = "done" /\ UNCHANGED latest
    BY <1>7, MarkDoneHolds DEF FinishHandler, IInv, CycleInv, clusterVars
  <2>2. Requested(c) => Requested(c)'
    BY <1>1, <2>1 DEF Requested
  <2> QED
    BY <1>2, <2>1, <2>2
<1> QED
  BY <1>3, <1>4, <1>5, <1>6, <1>7 DEF HandlerStep

\* Nothing is published yet.
LEMMA InitBacked == Init => BackedInv
<1> SUFFICES ASSUME Init PROVE BackedInv
  OBVIOUS
<1> QED
  BY DEF Init, Backed, BackedInv, NoUpdate

\* A settings change leaves no cluster Pending that was not, and gives the checks new
\* work only.
LEMMA PosterBacked ==
  ASSUME IInv, CycleInv, NEW c \in Clusters, Backed(c),
         NEW p \in Posters, StageSettings(p) \/ PostStep(p)
  PROVE  Backed(c)'
<1>1. UNCHANGED <<queueVars, checkCounter, raced, handler>>
  BY DEF StageSettings, PostStep, Reconfigure, SetEnabled, CommitSettings, TriggerAfterSettings, clusterVars
<1>2. WaitingRequests' = WaitingRequests /\ UNCHANGED worker
  BY <1>1 DEF WaitingRequests, queueVars
<1>3. \A r \in Runs : Numbered(r, c) => Numbered(r, c)'
  <2>1. CASE UNCHANGED check
    BY <2>1 DEF Numbered
  <2>2. CASE BeginGuardedRun
    BY <2>2, BeginNumbered
  <2> QED
    BY <2>1, <2>2 DEF StageSettings, PostStep, Reconfigure, SetEnabled, CommitSettings,
                      TriggerAfterSettings, runVars
<1>4. latest'[c].ai = "pending" => latest[c].ai = "pending"
  <2>1. latest[c] \in Updates
    BY DEF IInv, ClusterInv, Shown
  <2>2. latest'[c] \in {latest[c], NoUpdate, [latest[c] EXCEPT !.ai = "reset"]}
    BY DEF StageSettings, PostStep, Reconfigure, SetEnabled, CommitSettings, TriggerAfterSettings, clusterVars
  <2> QED
    BY <2>1, <2>2 DEF Updates, NoUpdate
<1> QED
  BY <1>1, <1>2, <1>3, <1>4, StillBacked

\* Behind an update that a check published as Pending there is a request of the
\* newest check, or a check about to show its outcome, unless the newest check ran
\* beside the startup run's (the refusal by a full queue, ai_analysis.go:517, and
\* the stale results, :889 and :923).
THEOREM PendingBackedHolds == Spec => []PendingBacked
<1>1. Init => BackedInv
  BY InitBacked
<1>2. IInv /\ CycleInv /\ BackedInv /\ [Next]_vars => BackedInv'
  <2> SUFFICES ASSUME IInv, CycleInv, BackedInv, [Next]_vars, NEW c \in Clusters
               PROVE  Backed(c)'
    BY DEF BackedInv
  <2>1. Backed(c)
    BY DEF BackedInv
  <2>2. CASE UNCHANGED vars
    BY <2>1, <2>2 DEF Backed, Requested, Numbered, WaitingRequests, vars, queueVars, clusterVars, runVars
  <2> QED
    BY <2>1, <2>2, RunBacked, CheckBacked, HandlerBacked, PosterBacked DEF Next
<1>3. IInv /\ CycleInv /\ BackedInv => PendingBacked
  BY RequestedLive DEF BackedInv, Backed, CycleInv, PendingBacked
<1> QED
  BY <1>1, <1>2, <1>3, Invariance, CycleInvariance, PTL DEF Spec

-----------------------------------------------------------------------------
(***************************************************************************)
(* The settings.  A call is made under the manager's configuration, and    *)
(* there is one call at a time: when the caches are cleared after a        *)
(* reconfiguration, the call under way then is the only one whose result   *)
(* can still be of former settings.                                        *)
(***************************************************************************)

\* No settings change is between its reconfiguration and its commit.
Settled == \A p \in Posters : poster[p].pc \notin {"enable", "commit"}

\* At most one result of former settings is left.
AtMostOne ==
  \A c \in Clusters : Former(aiCache[c].by) =>
    /\ ~Former(handler.by)
    /\ \A d \in Clusters \ {c} : ~Former(aiCache[d].by)

\* Only the handler and a commit of settings touch what the property speaks of.
LEMMA SettingsFrame ==
  ASSUME Next, ~HandlerStep, \A p \in Posters : ~PostStep(p)
  PROVE  UNCHANGED <<aiCache, manager>> /\ handler'.by = handler.by /\ (Settled' => Settled)
<1>1. CASE TriggerCheck \/ Tick \/ \E r \in Runs : EndRun(r)
  BY <1>1 DEF TriggerCheck, Tick, EndRun, clusterVars, postVars, Settled
<1>2. ASSUME NEW r \in Runs, NEW c \in Clusters, CheckStep(r, c)
      PROVE  UNCHANGED <<aiCache, manager, handler, poster>>
  BY <1>2 DEF CheckStep, SkipCluster, Collect, ReadSettings, Number, ReadCache, Decide, Publish,
              EnqueueRequest, Degrade, UnchangedButLatest, clusterVars, serverVars, postVars
<1>3. CASE AIReturns
  <2>1. PICK o \in {"enhanced", "empty", "error"} :
          handler' = [handler EXCEPT !.pc = "result", !.outcome = o]
    BY <1>3 DEF AIReturns
  <2> QED
    BY <1>3, <2>1 DEF AIReturns, clusterVars, serverVars, postVars, Settled
<1>4. ASSUME NEW p \in Posters, StageSettings(p) PROVE Settled' => Settled
  BY <1>4 DEF StageSettings, Settled
<1>5. ASSUME NEW p \in Posters, StageSettings(p) PROVE UNCHANGED <<aiCache, manager, handler>>
  BY <1>5 DEF StageSettings, clusterVars, serverVars
<1> QED
  BY <1>1, <1>2, <1>3, <1>4, <1>5 DEF Next, Settled

\* When no settings change is between its reconfiguration and its commit, at most one
\* result of former settings is left, in one cache or in the worker, however many
\* requests changed the settings at once (handlers_ai.go:151, ai_analysis.go:937).
THEOREM OneFormerResultHolds == Spec => []OneFormerResult
<1>1. Init => OneFormerResult
  BY DEF Init, OneFormerResult, Former, NoCache
<1>2. IInv /\ OneFormerResult /\ [Next]_vars => OneFormerResult'
  <2> SUFFICES ASSUME IInv, OneFormerResult, [Next]_vars, Settled'
               PROVE  AtMostOne'
    BY DEF OneFormerResult, Settled, AtMostOne
  <2>1. Settled => AtMostOne
    BY DEF OneFormerResult, Settled, AtMostOne
  <2>2. CASE UNCHANGED <<aiCache, manager>> /\ handler'.by = handler.by /\ Settled
    BY <2>1, <2>2 DEF AtMostOne, Former
  <2>3. CASE HandlerStep
    <3>1. UNCHANGED <<manager, poster>> /\ Settled /\ AtMostOne
      <4>1. UNCHANGED <<manager, poster>>
        BY <2>3 DEF HandlerStep, StartHandler, PreFlight, CallAI, ShowFailure, Commit,
                    FinishHandler, serverVars, postVars
      <4> QED
        BY <2>1, <4>1 DEF Settled
    <3>2. handler \in HandlerLocals /\ IdleHandler.by = NoConfig
          /\ [IdleHandler EXCEPT !.pc = "done"].by = NoConfig
      BY DEF IInv, HandlerInv, IdleHandler
    <3>3. CASE ~Commit
      <4>1. UNCHANGED aiCache
        BY <2>3, <3>3 DEF HandlerStep, StartHandler, PreFlight, CallAI, ShowFailure,
                          FinishHandler, clusterVars
      <4>2. handler'.by \in {NoConfig, handler.by, manager.config}
        BY <2>3, <3>2, <3>3 DEF HandlerStep, StartHandler, PreFlight, CallAI, ShowFailure,
                                FinishHandler, HandlerLocals
      <4> QED
        BY <3>1, <4>1, <4>2 DEF AtMostOne, Former
    <3>4. CASE Commit
      <4> DEFINE w == worker.clusterID
      <4>1. handler'.by = NoConfig
        BY <3>2, <3>4 DEF Commit
      <4>2. w \in Clusters /\ aiCache \in [Clusters -> Caches]
        BY <3>4 DEF Commit, IInv, HandlerInv, QueueInv, ClusterInv, Requests
      <4>3. \/ UNCHANGED aiCache
            \/ /\ aiCache'[w].by = handler.by
               /\ \A d \in Clusters \ {w} : aiCache'[d] = aiCache[d]
        BY <3>4, <4>2 DEF Commit
      <4> HIDE DEF w
      <4> QED
        BY <3>1, <4>1, <4>2, <4>3 DEF AtMostOne, Former
    <3> QED
      BY <3>3, <3>4
  <2>4. ASSUME NEW p \in Posters, PostStep(p) PROVE AtMostOne'
    <3>1. poster \in [Posters -> PosterLocals]
      BY DEF IInv, PosterInv
    <3>2. CASE CommitSettings(p)
      BY <3>2 DEF CommitSettings, CacheReset, NoCache, AtMostOne, Former
    <3>3. CASE TriggerAfterSettings(p)
      BY <2>2, <3>1, <3>3 DEF TriggerAfterSettings, Settled, clusterVars
    <3>4. CASE SetEnabled(p)
      BY <3>1, <3>4 DEF SetEnabled, Settled, PosterLocals
    <3>5. CASE Reconfigure(p)
      <4>1. CASE poster' = [poster EXCEPT ![p].pc = "enable"]
        BY <3>1, <4>1 DEF Settled, PosterLocals
      <4>2. CASE poster' = [poster EXCEPT ![p] = IdlePoster] /\ UNCHANGED manager
        BY <2>2, <3>1, <3>5, <4>2 DEF Reconfigure, Settled, clusterVars
      <4> QED
        BY <3>5, <4>1, <4>2 DEF Reconfigure
    <3> QED
      BY <2>4, <3>2, <3>3, <3>4, <3>5 DEF PostStep
  <2>5. CASE UNCHANGED vars
    BY <2>2, <2>5 DEF vars, clusterVars, serverVars, postVars, Settled
  <2> QED
    BY <2>2, <2>3, <2>4, <2>5, SettingsFrame
<1> QED
  BY <1>1, <1>2, Invariance, PTL DEF Spec
=============================================================================
