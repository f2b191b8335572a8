-------------------------- MODULE DashboardPipeline --------------------------
(***************************************************************************)
(* The dashboard's check and AI enrichment pipeline                        *)
(* (internal/dashboard: ai_analysis.go, server.go, handlers_ai.go,         *)
(* handlers_health.go).  A run of health checks publishes, for every       *)
(* cluster, a baseline update and queues an enrichment request; the queue  *)
(* worker calls the AI manager with no lock held and, when the request is  *)
(* still current, patches the published update and fills the cluster's AI  *)
(* cache; a POST of AI settings reconfigures the manager, clears the       *)
(* caches and asks for a new run.                                          *)
(*                                                                         *)
(* A set of issues is its hash (computeIssueHash), an element of Hashes;   *)
(* an AI configuration (provider, model, key) is an element of Configs.    *)
(* What the runs, the worker and a POST do under one acquisition of s.mu   *)
(* is one action.                                                          *)
(***************************************************************************)
EXTENDS EnrichmentQueue

CONSTANTS
  Hashes,         \* issue hashes the checks can find
  NoIssues,       \* the hash of a result without issues, in Hashes
  Configs,        \* AI configurations
  Guarded,        \* goroutines that run a check under checkInFlight
  Posters,        \* HTTP goroutines serving POST /api/settings/ai
  NoHash,         \* the empty string, where the code keeps a hash
  NoConfig,       \* no configuration
  MaxChecks,      \* bound on the checks of a cluster
  MaxPosts,       \* bound on the settings changes
  EarlyRequests   \* bound: whether requests arrive during the startup run

ASSUME NoIssuesAssumption == NoIssues \in Hashes
ASSUME BoundsAssumption == MaxChecks \in Nat /\ MaxPosts \in Nat
ASSUME EarlyRequestsAssumption == EarlyRequests \in BOOLEAN
ASSUME GuardedAssumption == "startup" \notin Guarded
ASSUME NoRequestAssumption ==
  NoRequest \notin [clusterID : Clusters, generation : Nat, issueHash : Hashes,
                    configVersion : Configs \X Configs]

VARIABLES
  \* the cluster's state, per cluster
  latest,            \* cs.latest
  currentIssueHash,  \* cs.currentIssueHash
  aiConfigVersion,   \* cs.aiConfigVersion
  aiCache,           \* cs.lastAICacheHash, lastAIResult and lastAIEnhancements
  checkCounter,      \* cs.checkCounter
  raced,             \* whether the newest check overlapped the startup run's
                     \* check (history)
  \* the server's state
  aiConfig,          \* s.aiConfig
  aiEnabled,         \* s.aiEnabled
  manager,           \* the shared ai.Manager: its configuration and enabled flag
  checkInFlight,     \* s.checkInFlight
  \* the goroutines
  check,             \* per run and cluster, the locals of runCheckForCluster
  running,           \* the runs (runCheck) that have not returned
  handler,           \* the locals of handleEnrichmentResult
  poster,            \* per poster, the locals of handlePostAISettings
  posts              \* settings changes so far

clusterVars == <<latest, currentIssueHash, aiConfigVersion, aiCache, checkCounter,
                 raced>>
serverVars == <<aiConfig, aiEnabled, manager, checkInFlight>>
runVars == <<check, running>>
postVars == <<poster, posts>>
vars == <<queueVars, clusterVars, serverVars, runVars, handler, postVars>>

Runs == {"startup"} \cup Guarded

\* Versions are configVersionHash(provider.Name(), aiModel): the name is the
\* manager's at publication, the model the server's at the cache lookup.
Versions == Configs \X Configs

\* lastAIResult: nil, a result with enhanced issues, or one with none.
NoCache == [hash |-> NoHash, result |-> "nil", by |-> NoConfig]

\* cs.latest before the first run.  ai is its AIStatus: nil ("none"), empty
\* ("blank"), Pending as a check published it or as a settings change left it
\* ("reset"), done, or done with LastError ("failed"); enh is the hash of the
\* issues whose AI suggestions are in its results; gen, a history field, is the
\* number of the check that published it.
NoUpdate == [hash |-> NoHash, ai |-> "none", enh |-> NoHash, gen |-> 0]

IdleCheck == [pc |-> "idle", hash |-> NoHash, enabled |-> FALSE, gen |-> 0,
              cached |-> NoCache, model |-> NoConfig, ai |-> "none",
              version |-> <<NoConfig, NoConfig>>]
IdleHandler == [pc |-> "idle", by |-> NoConfig, outcome |-> "none"]
IdlePoster == [pc |-> "idle", config |-> NoConfig, enabled |-> FALSE]

\* Start launches the startup run; it does not take checkInFlight.
Init ==
  /\ QueueInit
  /\ latest = [c \in Clusters |-> NoUpdate]
  /\ currentIssueHash = [c \in Clusters |-> NoHash]
  /\ aiConfigVersion = [c \in Clusters |-> <<NoConfig, NoConfig>>]
  /\ aiCache = [c \in Clusters |-> NoCache]
  /\ checkCounter = [c \in Clusters |-> 0]
  /\ raced = [c \in Clusters |-> FALSE]
  /\ aiConfig \in Configs
  /\ aiEnabled = TRUE
  /\ manager = [config |-> aiConfig, enabled |-> TRUE]
  /\ checkInFlight = FALSE
  /\ check = [r \in Runs |-> [c \in Clusters |->
                IF r = "startup" THEN [IdleCheck EXCEPT !.pc = "collect"]
                                 ELSE IdleCheck]]
  /\ running = {"startup"}
  /\ handler = IdleHandler
  /\ poster = [p \in Posters |-> IdlePoster]
  /\ posts = 0

-----------------------------------------------------------------------------
(* Runs. *)

\* Mutation: checkInFlight is set, but not compared.
FreeAlways == TRUE
\* checkInFlight.CompareAndSwap(false, true) succeeds.
Free == ~checkInFlight

\* The goroutine that won begins a run over all clusters.  Which one it is makes
\* no difference.
BeginGuardedRun ==
  LET idle == CHOOSE r \in Guarded : r \notin running IN
  /\ ~ (Guarded \subseteq running)
  /\ checkInFlight' = TRUE
  /\ running' = running \cup {idle}
  /\ check' = [check EXCEPT ![idle] =
                 [c \in Clusters |-> [IdleCheck EXCEPT !.pc = "collect"]]]

ChecksLeft == \A c \in Clusters : checkCounter[c] < MaxChecks
Served == EarlyRequests \/ "startup" \notin running

\* handleTriggerCheck (POST /api/check), served from before the startup run.
TriggerCheck ==
  /\ Free
  /\ ChecksLeft
  /\ Served
  /\ BeginGuardedRun
  /\ UNCHANGED <<queueVars, clusterVars, aiConfig, aiEnabled, manager, handler,
                 postVars>>

\* runHealthChecker's ticker, started when the startup run has returned.
Tick ==
  /\ "startup" \notin running
  /\ Free
  /\ ChecksLeft
  /\ BeginGuardedRun
  /\ UNCHANGED <<queueVars, clusterVars, aiConfig, aiEnabled, manager, handler,
                 postVars>>

\* runCheck returns when every cluster's check has; a guarded run then stores
\* false in checkInFlight.
EndRun(r) ==
  /\ r \in running
  /\ \A c \in Clusters : check[r][c].pc = "idle"
  /\ running' = running \ {r}
  /\ checkInFlight' = IF r \in Guarded THEN FALSE ELSE checkInFlight
  /\ UNCHANGED <<queueVars, clusterVars, aiConfig, aiEnabled, manager, check,
                 handler, postVars>>

-----------------------------------------------------------------------------
(* runCheckForCluster, run r, cluster c. *)

At(r, c, pc) == check[r][c].pc = pc
Local(r, c, new) == check' = [check EXCEPT ![r][c] = new]

\* broadcastPhase, under the write lock: an update without AIStatus gets one.
PhaseShown(c) ==
  latest' = IF latest[c] # NoUpdate /\ latest[c].ai = "none"
            THEN [latest EXCEPT ![c].ai = "blank"] ELSE latest
UnchangedButLatest ==
  UNCHANGED <<queueVars, currentIssueHash, aiConfigVersion, aiCache, checkCounter,
              raced, serverVars, running, handler, postVars>>

\* The checkers run and find some issues, which are hashed.
Collect(r, c) ==
  /\ At(r, c, "collect")
  /\ PhaseShown(c)
  /\ \E h \in Hashes :
       Local(r, c, [check[r][c] EXCEPT !.pc = "settings", !.hash = h])
  /\ UnchangedButLatest

\* runCheck skips a cluster: it cannot be reached, or the run's time is over.
SkipCluster(r, c) ==
  /\ At(r, c, "collect")
  /\ Local(r, c, IdleCheck)
  /\ UnchangedButLatest /\ UNCHANGED latest

\* Read lock: provider and aiEnabled.  The provider is the shared manager.
ReadSettings(r, c) ==
  /\ At(r, c, "settings")
  /\ PhaseShown(c)
  /\ Local(r, c, [check[r][c] EXCEPT !.pc = "number", !.enabled = aiEnabled])
  /\ UnchangedButLatest

\* The check has taken its number and not yet made the outcome visible.
Numbered(r, c) ==
  check[r][c].pc \in {"lookup", "decide", "publish", "enqueue", "degrade"}

\* Write lock: the next generation of the cluster.
Number(r, c) ==
  /\ At(r, c, "number")
  /\ raced' = [raced EXCEPT ![c] =
       \E q \in Runs \ {r} : "startup" \in {q, r} /\ Numbered(q, c)]
  /\ checkCounter' = [checkCounter EXCEPT ![c] = @ + 1]
  /\ Local(r, c, [check[r][c] EXCEPT !.pc = "lookup", !.gen = checkCounter[c] + 1])
  /\ UNCHANGED <<queueVars, latest, currentIssueHash, aiConfigVersion, aiCache,
                 serverVars, running, handler, postVars>>

\* Mutation: the lookup ignores the issue hash.
LookupAny(c, h) == aiCache[c]
\* The cached result for the issues h, if the last AI call was about them.
Lookup(c, h) == IF aiCache[c].hash = h THEN aiCache[c] ELSE NoCache

\* Read lock: the AI cache and the model name.
ReadCache(r, c) ==
  /\ At(r, c, "lookup")
  /\ Local(r, c, [check[r][c] EXCEPT !.pc = "decide",
                                     !.cached = Lookup(c, check[r][c].hash),
                                     !.model = aiConfig])
  /\ UNCHANGED <<queueVars, clusterVars, serverVars, running, handler, postVars>>

\* Without a lock on s: disabled, cache hit, or Pending with an async request.
Decide(r, c) ==
  LET k == check[r][c]
      available == k.enabled /\ manager.enabled
  IN
  /\ At(r, c, "decide")
  /\ Local(r, c, [k EXCEPT !.pc = "publish",
                           !.ai = IF ~available THEN "none"
                                  ELSE IF k.cached.result # "nil" THEN "done"
                                  ELSE "pending"])
  /\ IF available THEN PhaseShown(c) ELSE UNCHANGED latest
  /\ UnchangedButLatest

\* Write lock: the update becomes cs.latest, with the suggestions of the cache
\* if it was hit.
Publish(r, c) ==
  LET k == check[r][c]
      version == <<manager.config, k.model>>
      enh == IF k.ai = "done" /\ k.cached.result = "enhanced"
             THEN k.cached.hash ELSE NoHash
  IN
  /\ At(r, c, "publish")
  /\ latest' = [latest EXCEPT ![c] =
                  [hash |-> k.hash, ai |-> k.ai, enh |-> enh, gen |-> k.gen]]
  /\ currentIssueHash' = [currentIssueHash EXCEPT ![c] = k.hash]
  /\ aiConfigVersion' = [aiConfigVersion EXCEPT ![c] = version]
  /\ Local(r, c, IF k.ai = "pending"
                 THEN [k EXCEPT !.pc = "enqueue", !.version = version]
                 ELSE IdleCheck)
  /\ UNCHANGED <<queueVars, aiCache, checkCounter, raced, serverVars, running,
                 handler, postVars>>

RequestOf(r, c) ==
  [clusterID |-> c, generation |-> check[r][c].gen, issueHash |-> check[r][c].hash,
   configVersion |-> check[r][c].version]

\* Mutation: a refused request leaves the baseline Pending.
AfterDropDone(r, c) == IdleCheck
\* A refused request has yet to be shown as such.
AfterDrop(r, c) == [check[r][c] EXCEPT !.pc = "degrade"]

\* q.mu: the request is accepted, or refused by a full queue.
EnqueueRequest(r, c) ==
  /\ At(r, c, "enqueue")
  /\ \/ Enqueue(RequestOf(r, c)) /\ Local(r, c, IdleCheck)
     \/ EnqueueFull(RequestOf(r, c)) /\ Local(r, c, AfterDrop(r, c))
  /\ UNCHANGED <<clusterVars, serverVars, running, handler, postVars>>

\* Write lock: the refusal is shown if this check is still the newest.
Degrade(r, c) ==
  /\ At(r, c, "degrade")
  /\ latest' = IF checkCounter[c] = check[r][c].gen /\ latest[c].ai # "none"
               THEN [latest EXCEPT ![c].ai = "failed"] ELSE latest
  /\ Local(r, c, IdleCheck)
  /\ UnchangedButLatest

CheckStep(r, c) ==
  \/ SkipCluster(r, c)
  \/ Collect(r, c) \/ ReadSettings(r, c) \/ Number(r, c) \/ ReadCache(r, c)
  \/ Decide(r, c) \/ Publish(r, c) \/ EnqueueRequest(r, c) \/ Degrade(r, c)

-----------------------------------------------------------------------------
(* handleEnrichmentResult, on the queue's worker goroutine. *)

\* Run calls the handler with the request it received.
StartHandler ==
  /\ Receive
  /\ handler' = [handler EXCEPT !.pc = "preflight"]
  /\ UNCHANGED <<clusterVars, serverVars, runVars, postVars>>

SameVersion(req) == aiConfigVersion[req.clusterID] = req.configVersion
SameGeneration(req) == checkCounter[req.clusterID] = req.generation

\* Read lock: a request that is stale already gets no AI call.
PreFlight ==
  /\ handler.pc = "preflight"
  /\ handler' = [handler EXCEPT
       !.pc = IF SameGeneration(worker) /\ SameVersion(worker) THEN "call" ELSE "done"]
  /\ UNCHANGED <<queueVars, clusterVars, serverVars, runVars, postVars>>

\* EnhanceAllWithAI: with AI unavailable or nothing to send there is no call
\* and the result is empty; otherwise the manager's provider is called.
CallAI ==
  /\ handler.pc = "call"
  /\ handler' = IF ~manager.enabled \/ worker.issueHash = NoIssues
                THEN [handler EXCEPT !.pc = "result", !.outcome = "empty"]
                ELSE [handler EXCEPT !.pc = "calling", !.by = manager.config]
  /\ UNCHANGED <<queueVars, clusterVars, serverVars, runVars, postVars>>

\* The provider answers, with suggestions or without usable ones (truncated,
\* unparsable, low confidence), or the call fails or times out.
AIReturns ==
  /\ handler.pc = "calling"
  /\ \E o \in {"enhanced", "empty", "error"} :
       handler' = [handler EXCEPT !.pc = "result", !.outcome = o]
  /\ UNCHANGED <<queueVars, clusterVars, serverVars, runVars, postVars>>

\* Write lock: a failure is shown if the request's check is still the newest.
ShowFailure ==
  /\ handler.pc = "result" /\ handler.outcome = "error"
  /\ latest' = IF SameGeneration(worker) /\ latest[worker.clusterID].ai # "none"
               THEN [latest EXCEPT ![worker.clusterID].ai = "failed"] ELSE latest
  /\ handler' = [IdleHandler EXCEPT !.pc = "done"]
  /\ UNCHANGED <<queueVars, currentIssueHash, aiConfigVersion, aiCache, checkCounter,
                 raced, serverVars, runVars, postVars>>

SameIssues(req) == currentIssueHash[req.clusterID] = req.issueHash

\* Mutation: the post-flight check forgets the generation.
CurrentAnyGeneration(req) == SameIssues(req) /\ SameVersion(req)
\* Post-flight staleness: generation, issue hash and configuration version.
Current(req) == SameGeneration(req) /\ SameIssues(req) /\ SameVersion(req)

\* Write lock: a current result fills the cache and patches cs.latest; a stale
\* one is discarded.
Commit ==
  LET c == worker.clusterID
      enhanced == handler.outcome = "enhanced"
  IN
  /\ handler.pc = "result" /\ handler.outcome # "error"
  /\ IF Current(worker) /\ latest[c] # NoUpdate
     THEN /\ aiCache' = [aiCache EXCEPT ![c] =
                           [hash |-> worker.issueHash,
                            result |-> handler.outcome, by |-> handler.by]]
          /\ latest' = [latest EXCEPT
                          ![c].ai = IF enhanced THEN "done" ELSE "failed",
                          ![c].enh = IF enhanced THEN worker.issueHash ELSE @]
     ELSE UNCHANGED <<aiCache, latest>>
  /\ handler' = [IdleHandler EXCEPT !.pc = "done"]
  /\ UNCHANGED <<queueVars, currentIssueHash, aiConfigVersion, checkCounter, raced,
                 serverVars, runVars, postVars>>

\* The deferred markDone.
FinishHandler ==
  /\ handler.pc = "done"
  /\ MarkDone
  /\ handler' = IdleHandler
  /\ UNCHANGED <<clusterVars, serverVars, runVars, postVars>>

HandlerStep ==
  StartHandler \/ PreFlight \/ CallAI \/ ShowFailure \/ Commit \/ FinishHandler

-----------------------------------------------------------------------------
(* handlePostAISettings, poster p. *)

\* The staged configuration and the enabled flag come from the body.
StageSettings(p) ==
  /\ poster[p].pc = "idle"
  /\ posts < MaxPosts
  /\ Served
  /\ posts' = posts + 1
  /\ \E cfg \in Configs, on \in BOOLEAN :
       poster' = [poster EXCEPT ![p] =
                    [pc |-> "reconfigure", config |-> cfg, enabled |-> on]]
  /\ UNCHANGED <<queueVars, clusterVars, serverVars, runVars, handler>>

\* Manager.Reconfigure, which infers enabled from the provider's name, or fails
\* and leaves everything as it was.
Reconfigure(p) ==
  /\ poster[p].pc = "reconfigure"
  /\ \/ /\ manager' = [config |-> poster[p].config, enabled |-> TRUE]
        /\ poster' = [poster EXCEPT ![p].pc = "enable"]
     \/ /\ poster' = [poster EXCEPT ![p] = IdlePoster]
        /\ UNCHANGED manager
  /\ UNCHANGED <<queueVars, clusterVars, aiConfig, aiEnabled, checkInFlight, runVars,
                 handler, posts>>

\* Manager.SetEnabled overrides what Reconfigure inferred.
SetEnabled(p) ==
  /\ poster[p].pc = "enable"
  /\ manager' = [manager EXCEPT !.enabled = poster[p].enabled]
  /\ poster' = [poster EXCEPT ![p].pc = "commit"]
  /\ UNCHANGED <<queueVars, clusterVars, aiConfig, aiEnabled, checkInFlight, runVars,
                 handler, posts>>

\* Mutation: the AI caches survive a settings change.
CacheKept(c) == aiCache[c]
\* The AI cache of a cluster is cleared.
CacheReset(c) == NoCache

\* Write lock: the settings are committed, the caches cleared, and every
\* published update is shown as Pending.
CommitSettings(p) ==
  /\ poster[p].pc = "commit"
  /\ aiConfig' = poster[p].config
  /\ aiEnabled' = poster[p].enabled
  /\ aiCache' = [c \in Clusters |-> CacheReset(c)]
  /\ latest' = [c \in Clusters |->
       IF latest[c] = NoUpdate THEN NoUpdate ELSE [latest[c] EXCEPT !.ai = "reset"]]
  /\ poster' = [poster EXCEPT ![p].pc = "trigger"]
  /\ UNCHANGED <<queueVars, currentIssueHash, aiConfigVersion, checkCounter, raced,
                 manager, checkInFlight, runVars, handler, posts>>

\* The goroutine that would run a check at once; if another run holds
\* checkInFlight, it gives up.
TriggerAfterSettings(p) ==
  /\ poster[p].pc = "trigger"
  /\ IF Free /\ ChecksLeft THEN BeginGuardedRun
                            ELSE UNCHANGED <<checkInFlight, runVars>>
  /\ poster' = [poster EXCEPT ![p] = IdlePoster]
  /\ UNCHANGED <<queueVars, clusterVars, aiConfig, aiEnabled, manager, handler,
                 posts>>

PostStep(p) ==
  Reconfigure(p) \/ SetEnabled(p) \/ CommitSettings(p) \/ TriggerAfterSettings(p)

-----------------------------------------------------------------------------
Next ==
  \/ TriggerCheck \/ Tick
  \/ \E r \in Runs : EndRun(r)
  \/ \E r \in Runs, c \in Clusters : CheckStep(r, c)
  \/ HandlerStep \/ AIReturns
  \/ \E p \in Posters : StageSettings(p) \/ PostStep(p)

(***************************************************************************)
(* Fairness: the goroutines of the program are scheduled, an AI call ends  *)
(* (it has a timeout), and the ticker ticks.  Requests are never forced.    *)
(***************************************************************************)
Fairness ==
  /\ WF_vars(Tick)
  /\ \A r \in Runs : WF_vars(EndRun(r))
  /\ \A r \in Runs, c \in Clusters : WF_vars(CheckStep(r, c))
  /\ WF_vars(HandlerStep)
  /\ WF_vars(AIReturns)
  /\ \A p \in Posters : WF_vars(PostStep(p))

Spec == Init /\ [][Next]_vars
FairSpec == Spec /\ Fairness

-----------------------------------------------------------------------------
Requests == [clusterID : Clusters, generation : Nat, issueHash : Hashes,
             configVersion : Versions]
Caches == [hash : Hashes \cup {NoHash}, result : {"nil", "enhanced", "empty"},
           by : Configs \cup {NoConfig}]
Updates == [hash : Hashes \cup {NoHash},
            ai : {"none", "blank", "pending", "reset", "done", "failed"},
            enh : Hashes \cup {NoHash}, gen : Nat]

TypeOK ==
  /\ ch \in Seq(Requests) /\ Len(ch) <= Capacity
  /\ pending \in [Clusters -> Requests \cup {NoRequest}]
  /\ inflight \subseteq Clusters
  /\ worker \in Requests \cup {NoRequest}
  /\ worker = NoRequest <=> handler.pc = "idle"
  /\ latest \in [Clusters -> Updates]
  /\ aiCache \in [Clusters -> Caches]
  /\ manager \in [config : Configs, enabled : BOOLEAN]
  /\ aiConfig \in Configs /\ aiEnabled \in BOOLEAN
  /\ checkInFlight <=> running \cap Guarded # {}
  /\ \A r, q \in running \cap Guarded : r = q

\* AI suggestions are only ever shown on the issues they were made for, whatever
\* checks, enrichments and settings changes overlap (the hash of a cache hit,
\* ai_analysis.go:391, and the post-flight check, ai_analysis.go:923).
EnhancementMatches ==
  \A c \in Clusters : latest[c].enh # NoHash => latest[c].enh = latest[c].hash

\* The requests of a cluster whose handler is not done with them.
LiveRequests(c) ==
  {ch[i] : i \in {j \in 1 .. Len(ch) : ch[j].clusterID = c}}
  \cup ({pending[c]} \ {NoRequest})
  \cup (IF worker # NoRequest /\ worker.clusterID = c /\ handler.pc # "done"
        THEN {worker} ELSE {})

\* Nobody is left Pending with nothing on its way: behind an update that a check
\* published as Pending there is a request of the newest check in the queue or
\* the handler, or a newer check about to publish (queue full, ai_analysis.go:517;
\* stale results, ai_analysis.go:889 and 923).  Not when the newest check ran
\* beside the startup run's: an older request may have replaced its own.
PendingBacked ==
  \A c \in Clusters : latest[c].ai = "pending" /\ ~raced[c] =>
    \/ \E r \in Runs : Numbered(r, c)
    \/ \E q \in LiveRequests(c) : q.generation = checkCounter[c]

\* An enrichment lands on the update of the check that asked for it, or, when
\* this check ran beside the startup run's, on an older one: a result for an older
\* check is never patched into a newer update, even when the issues are the same
\* (post-flight generation, ai_analysis.go:923).
CommitToOwnUpdate ==
  [][\A c \in Clusters :
       (latest'[c].gen = latest[c].gen /\ latest'[c].enh # latest[c].enh) =>
         /\ worker.clusterID = c
         /\ IF raced[c] THEN worker.generation >= latest[c].gen
                        ELSE worker.generation = latest[c].gen]_vars

\* The published update of a cluster never goes back to an older check's, except
\* between the startup run, which does not take checkInFlight, and a run that
\* overlaps it; the next check that starts alone puts an end to that.
NewestCheckShown ==
  [][\A c \in Clusters : latest'[c].gen < latest[c].gen => raced[c]]_vars

\* When the checks pause (MaxChecks makes them), no cluster stays Pending, with
\* the exception of PendingBacked.
PendingResolves ==
  \A c \in Clusters : []<>(latest[c].ai # "pending" \/ raced[c])

\* Made under another configuration than the manager's.
Former(config) == config \notin {NoConfig, manager.config}

\* With no settings change between its reconfiguration and its commit, at most
\* one result of former settings is left, in the cache of one cluster or still in
\* the worker, however many requests changed the settings at once: that of the
\* call that was under way when the caches were cleared (handlers_ai.go:151,
\* ai_analysis.go:937).  Every later call is made under the present settings.
OneFormerResult ==
  (\A p \in Posters : poster[p].pc \notin {"enable", "commit"}) =>
    \A c \in Clusters : Former(aiCache[c].by) =>
      /\ ~Former(handler.by)
      /\ \A d \in Clusters \ {c} : ~Former(aiCache[d].by)

\* "in sync" (handlers_ai.go:134): when no settings change is under way, the
\* manager the controllers share and the dashboard's own settings say the same.
SettingsAgree ==
  (\A p \in Posters : poster[p].pc = "idle") =>
    manager = [config |-> aiConfig, enabled |-> aiEnabled]

\* "retrying next cycle" (ai_analysis.go:271 to 276): a check that finds issues
\* never reuses, as a cache hit, an AI result that enhanced none of them.
TruncatedRetried ==
  [][\A c \in Clusters :
       /\ latest'[c].gen > latest[c].gen
       /\ latest'[c].hash # NoIssues
       /\ latest'[c].ai = "done"
       => latest'[c].enh # NoHash]_vars

\* "config-changed enrichment should not update cache" (ai_analysis_test.go:2181):
\* a result made under other settings than the current ones is not cached.
ConfigChangedNotCached ==
  [][\A c \in Clusters : aiCache'[c].result # "nil" /\ aiCache'[c] # aiCache[c] =>
       worker.configVersion = <<aiConfig, aiConfig>>]_vars
=============================================================================
