# TLA+ verification of kube-assist-operator

The repository is a Kubernetes operator that runs health checks and asks an AI
provider about what they find. Three programs are built from it: the operator
(controllers and, in the same process, the web dashboard), the `kubeassist` CLI
and a console backend that aggregates several clusters. The concurrency inside the
process is almost all in the dashboard (`internal/dashboard`) and in the AI
client shared by dashboard and controllers (`internal/ai`); the controllers
(`internal/controller`) work against an API server whose state they see late and
change by calls that may fail. These three are modelled, and with them what the checks find,
what is computed from it, and what users, requests and the AI are told. Paths below are relative to the Go module's root.

## 1. Inventory

| Component | State | Operations and interactions | What is hard | What makes it correct |
|---|---|---|---|---|
| **Enrichment queue** `dashboard/enrichment_queue.go` | bounded channel, `pending` (newest waiting request per cluster), `inflight` set, one worker | `Enqueue` by the checks, `Run`/`markDone` by the worker, `Shutdown` by the server | producers and worker interleave; full channel; only some calls promote what is pending | one request of a cluster at a time, newest wins, in order; nothing stranded; shutdown returns |
| **Check and enrichment pipeline** `dashboard/ai_analysis.go`, `enrichment_snapshot.go`, `checker/checker.go` | per cluster: published update, `currentIssueHash`, `aiConfigVersion`, the AI cache, `checkCounter` | `runCheck` (startup, ticker, POST /api/check, after a settings change) publishes a baseline and enqueues; the worker calls the AI manager with no lock and patches the update | state read before the AI call is used after it; checks, results and settings changes overlap; the startup run does not take `checkInFlight` | suggestions only on the issues they were made for; newest check shown; nobody Pending for ever |
| **AI settings, explain** `dashboard/handlers_ai.go` | `aiConfig`, `aiEnabled`, explain cache | POST reconfigures the manager, commits, clears caches, triggers a check; GET explain calls the AI and caches | three critical sections in one request | manager and dashboard agree; of former settings at most one result is left |
| **AI manager** `ai/manager.go` | provider, enabled, and the three below | `Analyze`: cache, budget, breaker, provider (one retry after a 429), settle, store; `Reconfigure`; chat turns | many callers, any call may fail or be cancelled at any step | breaker, budget and cache invariants |
| **Circuit breaker** `ai/circuitbreaker.go` | state, consecutive failures, time of the last failure | `Allow`, `RecordSuccess/Failure/RateLimit` | late results; a probe without a result | no failure forgotten or left over; half-open is left |
| **Token budget** `ai/budget.go` | per window: tokens, reset time | `TryConsume`, `ReleaseUnused`, `RecordUsage` | check-then-reserve by concurrent callers; reservations across a reset | never spends the same tokens twice |
| **AI response cache** `ai/cache.go` | LRU list with TTL | `Get`, `Put`, `Clear` | a `Put` after a `Clear` | hit returns what the key was stored for |
| **Chat agent and sessions** `ai/agent.go`, `dashboard/handlers_chat.go` | session table, in-flight flags, history, session budget | POST /api/chat runs a turn of several AI calls | client disconnects; cleanup against a running turn; compaction of a long history | one turn per session; no message lost; budgets respected |
| **Server, SSE** `dashboard/server.go`, `handlers_health.go` | clients and their channels, `checkInFlight`, worker life cycle | `Start`, shutdown, broadcasts by checks and worker, GET `/api/events`, POST `/api/check` | updates sent after the lock is released; full channels; clients that leave or stall | no send on a closed channel; checks go on; a client that reads is not left behind |
| **Issue acknowledgement** `dashboard/handlers_issues.go` | per-issue states | acknowledge, snooze, reopen, prune, troubleshoot from the dashboard | states are read under one lock and merged into the update under another | what is muted is what the user muted, when the check read it or since |
| **Checker registry** `checker/registry.go`, `checker/*` | map of checkers | register, replace, unregister; `RunAll` in parallel | plugins change while a run looks them up; lists fail, CRDs are missing | every settled plugin reported, by its present specification |
| **CheckPlugin controller** `controller/checkplugin_controller.go` | CR status, finalizer, registry entry | compile CEL, register, remove | stale reads, failed patches, restarts between its calls | nothing of a deleted plugin runs; ready means registered |
| **Request controllers** `controller/teamhealthrequest_controller.go`, `troubleshootrequest_controller.go` | CR status (phase, timestamps), ConfigMaps with logs and events | reconcile: Pending, Running, Completed/Failed; TTL; diagnosis, totals, notifications | crash after Running was persisted; patch failures; the checkers' rules and totals written a second time | a request ends; diagnosed once; says what the checkers say |
| **Health summary** `dashboard/ai_analysis.go`, `history/`, `prediction/` | counts and score in the update; ring buffer of snapshots | `buildDashboardResults`, `Add`, `Last`, trend | several loops with different units; wrap-around | numbers agree with the issues; the trend follows the scores |
| **Causal correlation** `causal/` | groups of issues in the update | three correlators, deduplication | they claim the same issues | each issue in one group at most, none forgotten |
| **AI context** `checker/context_builder.go`, `checker/checker.go` | events and logs attached to issues | cut to a number of issues and a size | three passes with running totals | fits; oldest cut first; no more than needed |
| **Scope, webhooks** `scope/`, `api/v1alpha1` | none | namespaces of a request, admission | partial failure, terminating or system namespaces | what is asked is what is checked |
| **Notifiers** `notifier/` | none | one webhook call per target | thresholds on severity | targets that asked are told, others not |
| **Data sources, console backend, CLI, authentication, providers and prompts** | per-cluster clients, sessions of users | declarations, flags, HTTP and text | — | out of scope, see section 7 |

`PROJECT.json` lists the same components with their status, and under `hazards`
the places where the code can go wrong in a way tests hardly reach.

## 2. Modules

```
EnrichmentQueue  <-- EnrichmentService ( = EnrichmentMailbox )     <-- MCEnrichmentService
       ^                    ^-- EnrichmentServiceProofs
       +------------ DashboardPipeline                             <-- MCDashboardPipeline
                            ^-- DashboardPipelineProofs
CircuitBreaker, TokenBudget  <-- AIManager                         <-- MCAIManager
                                    ^-- AIManagerProofs
RequestController ( = RequestLifecycle )                           <-- MCRequestController
       ^-- RequestControllerProofs
ChatSessions                                                       <-- MCChatSessions
       ^-- ChatSessionsProofs
EventStream
       ^-- EventStreamProofs
CheckRegistry                                                      <-- MCCheckRegistry
       ^-- CheckRegistryProofs
Checkers, HealthSummary  <-- HealthReports
AIContext ( Checkers, HealthSummary, HealthReports )
HealthCycle ( Checkers, Causal, HealthSummary, HealthReports, AIContext )  <-- MCHealthCycle
       ^-- HealthCycleProofs
```

**EnrichmentQueue** is the queue without its users: `Enqueue` (coalesce with the
cluster's pending request, replace it, send, or drop when the channel is full),
`Dispatch` (`dispatchPendingLocked`), `Receive`, `MarkDone`, `Stop`. Every method
holds `q.mu` and is one action. The worker's receive takes no lock; the module
header says why it is still never seen half way through a dispatch.
`dispatchPendingLocked` loops over a map in random order; the model lets it take
any order. In the reachable states of the modelled instances it never has more
than one request to promote.

**EnrichmentService** is the queue with requests that are only a cluster and a
generation, checks that submit, and a server that cancels. `accepted` and
`started` (the newest request taken in, and given to the handler, per cluster)
are observations of the specification, not of the code.

**EnrichmentMailbox** is what the queue promises: a cluster has a newest accepted
request; a handler starts on it, at most one at a time, and never on an older
one than it has started on before. Coalescing, the channel and the in-flight set
are invisible.

**DashboardPipeline** composes the same queue with the runs, the handler and the
settings POST. What is done under one acquisition of `s.mu` is one action:

| Action | Code |
|---|---|
| `TriggerCheck`, `Tick`, `EndRun` | `POST /api/check`, the ticker, the end of `runCheck` |
| `Collect`, `SkipCluster`, `ReadSettings`, `Number`, `ReadCache`, `Decide`, `Publish`, `EnqueueRequest`, `Degrade` | the phases of `runCheckForCluster`, in order |
| `StartHandler`, `PreFlight`, `CallAI`, `AIReturns`, `ShowFailure`, `Commit`, `FinishHandler` | `handleEnrichmentResult` around the unlocked AI call |
| `StageSettings`, `Reconfigure`, `SetEnabled`, `CommitSettings`, `TriggerAfterSettings` | the critical sections of POST `/api/settings/ai` |

A set of issues is the hash `computeIssueHash` gives it; `enh` is the hash of the
issues that the shown suggestions were made for (no field of the code holds it,
and it is what `EnhancementMatches` is about). `Guarded` are the goroutines that run a check under
`checkInFlight`; the startup run is one more, outside it. `raced` remembers of a cluster that its newest
check overlapped the startup run's, and is not in the code either. While the startup run works its
results are still to come, so that other runs are served or not (`EarlyRequests`).

**CircuitBreaker** and **TokenBudget** have one operator per method, all of them
under the component's mutex. Time is the age since the last failure and the age
of a window, capped where the code stops telling ages apart.

**AIManager** has the callers of `Analyze` and of chat turns, each with a program
counter, through `Analyze`, `CacheHit`/`CacheMiss`, `Reserve`, `Admit`,
`CallSucceeds`/`CallFails`/`CallLimited`, `WaitEnds`/`WaitCancelled`/`RetryLimited`,
`Release`, `Adjust` and `Store`, or `ChatTurn`, `ChatReserve`, `ChatReturns` and `ChatEnds`.
`account` observes a window and is not in the code: what was spent since its reset, what of it exceeded the
reservations, what callers held across the reset, and the reservation that caused it. The provider answers, fails or rate-limits
at will and uses any number of tokens in `Actuals`.

**RequestController** is `Reconcile` of both request controllers, one step per API
call. The API server is a log of versions per name; the manager's cache is an index
into it, so every read may be stale; the work queue gives a name to the one worker of
its controller (controller-runtime's default of one concurrent reconcile).

| Action | Code |
|---|---|
| `Fetch` | `r.Get` and the decisions up to the first call: not found, finished (keep, wait for the TTL, delete), already Running, to be started |
| `Claim` | the write of Running: a merge patch for TeamHealthRequest, which is applied to whatever exists under the name; an update for TroubleshootRequest, refused unless the version read is the latest |
| `Work` | the checks with their AI call, or the diagnosis; `Completed`, or `setFailed` |
| `Finish`, `LaunchNotifications` | the final status patch; a goroutine for the notifications if `NotifySem` has a slot |
| `DeleteExpired` | `r.Delete` when the TTL is over |
| `Create`, `Edit`, `UserDeletes`, `Observe`, `Requeue`, `TTLEnds`, `NotificationEnds`, `Restart` | users, the watch, the work queue's timers, the clock, the operator's end and start |

Each of the three writes can also fail, before or after it took effect
(`WriteFails`). A restart loses workers, timers and notifications and keeps the
log. `executed` counts how often a request was worked on and is not in the code;
`creates` numbers the requests and stands for the UIDs.

**RequestLifecycle** is the life of a request as the phases tell it: absent,
Pending, Running, Completed or Failed, absent.

**ChatSessions** has the handlers of POST /api/chat, each with a program counter, and
the cleanup of the sessions. `chatMu` protects the table, `session.mu` a session; what is
done under one acquisition of either is one action.

| Action | Code |
|---|---|
| `GetOrCreate` | `getOrCreateChatSession`: found, made, or refused when the table is full |
| `Take` | the `inFlight` flag: set, or 409 |
| `Open` | the second critical section: access time, budget check, append and copy |
| `Gate` | the `session_id` event and `AllowChatTurn`, each of which may end the request |
| `Iterate`, `CallFails`, `CallReturns` | one round of `RunTurn`: budget of the manager and cancellation, `maybeCompactHistory`, the provider call, the tools |
| `Store`, `Leave` | the third critical section; the deferred reset of `inFlight` |
| `Age`, `MarkExpired`, `EvictExpired` | time; the two passes of `cleanupChatSessions` |

A handler keeps its session when the table loses it, as the pointer does in the code, so
a session is named by the request that made it and an ID may stand for several, one
after the other. Of a message the model has the role and the set of requests whose
texts it contains; a summary contains several. When a history counts as long is left
open (any history of more than four messages may be compacted). `accepted` is an observation.
How the breaker and the manager's budget see the same turns is in `AIManager`.

**EventStream** is GET `/api/events` with everybody who sends to it. `reading` is the set of handlers
that hold the read lock of `s.mu`; an action that takes the write lock needs it to be empty.

| Action | Code |
|---|---|
| `Phase`, `Publish`, `QueueFull`, `SendRun` | `broadcastPhase`, the publication and the refused enrichment of `runCheckForCluster`: each changes `cs.latest` under the write lock; the send comes later (`SendRun`) |
| `Enrich`, `SendWorker` | the same for `handleEnrichmentResult` |
| `Connect`, `BeginInitial`, `EndInitial` | `handleSSE`: registration or 503, and the initial state, written under the read lock |
| `Receive`, `HangUp`, `Deregister`, `Close` | the loop, the end of the connection, and the deferred removal, after which the channel is closed without the lock |

`EndInitial` of a client whose write fails leaves when it watches one cluster (`handlers_health.go:108`); a client of the
whole fleet goes on to the loop (`handlers_health.go:124`) and leaves at its next failed write.

What an update says is reduced to whether it is as new as one publication, picked at any
time and remembered in `mark`; `shown` says who has seen it.

**CheckRegistry** is the registry with the CheckPlugin controller and one run. The API server's
objects and the informer's cache are separate, so every read may be stale.

| Action | Code |
|---|---|
| `Create`, `Edit`, `Delete`, `Sync` | users, the watch |
| `Fetch`, `AddFinalizer`, `Compile`, `UpdateStatus` | `Reconcile` up to the status patch, one step per API call, with the registration in `Compile` |
| `Unregister`, `RemoveFinalizer` | the branch for a deleted plugin |
| `Restart` | the registry is empty, every plugin is queued |
| `BeginRun`, `RunChecker`, `EndRun` | `RunAll`: the names under one lock, each checker under another, a panic recovered |

`due` observes the plugins that were settled when the run began.

**Checkers** says what each built-in checker and a plugin's checker finds in a cluster, where lists
may fail and kinds may have no CRD. **Causal** is `Analyze` with the rules, the ownership
graph and the namespaces in time, **HealthSummary** the counts, score, issue hash, ring
buffer and trend (as exact fractions), **HealthReports** admission, scope, diagnosis, logs, events, totals and
notifications of the two requests and of the dashboard's POST `/api/troubleshoot`, **AIContext** the batch of
`EnhanceAllWithAI` with its events and logs. All of these are functions of what they are given.

**HealthCycle** puts them to work. Its start states are clusters (`Starts`), each with the bounds on
what may happen to it.

| Action | Code |
|---|---|
| `Change`; `Failures` | an object is deleted or comes back; the reads and writes that fail, chosen per check and request |
| `Mute`, `Unmute`, `Expire`, `Prune` | the handlers of issue states; the end of a snooze; the removal of what has expired |
| `Collect`, `ReadStates`, `Publish`, `Record` | `runCheckForCluster`: checks and correlation, the read of cache and states, the publication, the snapshot recorded after it |
| `Enrich` | `handleEnrichmentResult` as far as causal insights go |
| `Analyze` | `EnhanceAllWithAI`: which issues, events and logs are sent |
| `Serve` | a request is admitted and answered; when it is worked on is the subject of `RequestController` |

How runs and the worker overlap is the subject of `DashboardPipeline`; here one check runs at a time, and
the worker's result does not arrive between `ReadStates` and `Record` of a check.

## 3. Runs

| Run | Question | Result |
|---|---|---|
| `enrichment_service` | Does the queue keep one request per cluster in hand, newest-wins, in order, without losing or stranding one, and does it implement the mailbox? | holds |
| `pipeline_cycle` | Do results of slow AI calls land only where they belong while checks go on, and is Pending always resolved? | holds |
| `pipeline_settings` | With a settings change, and a check that overlaps the startup run: do results still land where they belong, is the newest check shown, nobody left Pending, and no more than one result of former settings left? | holds |
| `ai_manager` | Do breaker and budget hold up under concurrent callers, failures, 429s, cancellations and resets? | holds |
| `request_controller` | With stale reads, edits, deletions, a failed write or a restart: do troubleshoot requests follow their life cycle and run once, does every request end if nothing fails, and does the TTL remove it? | holds |
| `chat_sessions` | Do messages, budget and flag survive concurrent requests, failed calls, compactions and evictions? | holds |
| `event_stream` | With clients that come, go and stall: is every send safe, do the checks go on, does a client that reads see what is published? | holds |
| `check_registry` | With stale reads, failed patches, restarts and runs in between: does the registry follow the plugins? | holds |
| `health_cycle` | Do the counts, groups, mutes, trend, reports, notifications and the AI's context agree with what the checkers found, and with each other? | holds |
| `breaker_half_open` | "another chance after resetTimeout" | refuted, see section 6 |
| `chat_compacted` | tool results follow the message that asked for them | refuted |
| `request_stuck` | "Running --> Failed: Error during reconciliation" | refuted |

Six more configurations reproduce disagreements of section 6 and belong to no run:
`DashboardPipelineTruncated.cfg`, `DashboardPipelineStaleConfig.cfg` and `DashboardPipelinePosts.cfg` (module `MCDashboardPipeline`),
`RequestControllerRecreated.cfg` (`MCRequestController`), `HealthCycleInsights.cfg` and
`HealthCycleLogs.cfg` (`MCHealthCycle`).

**Bounds.**

- `enrichment_service`: three clusters, a channel of one slot, three checks per
  cluster. One cluster can be with the worker, one in the channel and one outside,
  which are all the situations `Enqueue` tells apart; three checks are what it
  takes to replace a pending request that had replaced another.
- `pipeline_cycle`: two clusters, one slot, two hashes (one of them "no issues"),
  two checks per cluster, one guarded goroutine, no settings change and no check beside the startup
  run: the older check's result can meet the newer check's
  update, with the same or other issues. (Three checks per cluster hold as well,
  in several minutes.)
- `pipeline_settings`: one cluster, three hashes, two configurations, one POST, two checks and two guarded goroutines
  beside the startup run (`EarlyRequests`), so that two checks of the cluster overlap and publish and ask in either
  order, with the POST at any point. Safety only, up to the symmetry of configurations and hashes. Instances too large for
  the run hold as well: two posters with two POSTs and one check (7.9 million states), and two clusters with one
  check each beside the startup run's (4.2 million).
- `ai_manager`: two callers, one request, one window of four tokens, threshold and reset timeout of two. `Analyze`
  estimates two and a chat call five; a call uses three, more than the one and less than the other reserved.
  The estimate above the limit makes the case happen in which the first reservation of a window is not compared with it.
- The chat loop has one iteration (`MaxIterations`): with one the budget is
  checked, used and recorded once, with the turn's outcome reported at the end.

- `request_controller`: a name of either kind, one request made (of either kind), one
  edit, one fault (a failed write or a restart) and any number of deletions. One
  edit is what it takes to make a read version stale or an update conflict. With two
  edits, or with two faults, the properties hold as well, in a few minutes. Making a
  request twice under one name is the subject of `RequestControllerRecreated.cfg`.

- `chat_sessions`: two requests, two IDs, one session at a time, a budget of two tokens,
  two calls per turn of at most one token and one tool each. Two requests are what it takes to
  collide in a session, and to follow each other in it with a history long enough to be
  compacted; with room for one session a new one must wait for an eviction, and an ID can
  change hands under a running turn. The run is without the request format of Anthropic
  (`Anthropic = FALSE`), which would only stop turns.
- `chat_compacted`: one ID and three calls per turn.

- `event_stream`: two connections with room for one, one cluster, channels of one update. That
  is enough for a full channel, a refused client, a client that leaves between a publication and its
  send, and a slot that changes hands; the check and the worker are two publishers already.
- `check_registry`: three plugins, two of them with one name in two namespaces, two
  specifications and one that does not compile, three changes and one fault. A plugin can be made,
  changed and deleted, or replaced under its name, with a fault in between. (3.5 million states.)
- `health_cycle`: each start has its own bounds. Every object state the
  checkers tell apart is checked once, alone and beside a broken Flux source, with any list failing and a
  mute; a cluster with trouble of several kinds twice, with a change and a mute (two when the Flux CRDs
  are missing); one check after any five scores out of 0, 50 and 100 with a ring of five, the
  smallest that predicts (`MinDataPoints`), so that the ring has wrapped around. Requests of every admissible
  and inadmissible shape are answered for every pod state, with a failing read. `MaxNamespaces` is 2 (50 in the code), so that a
  scope can exceed it; `MaxIssues` 4 (15), `MaxEvents` 4 (10), `MaxLines` 3 (50) and `MaxTotalChars`
  8 (sizes are numbers, not text), so that events are cut within an issue and with their issue. The pass over log
  lines has nothing to do in the run: no checker gives an issue a type of which logs are fetched (item 8 of section 6),
  so that every log is empty; what it does to logs only the proof of `ContextFits` covers. Likewise the trend is read over up to 50
  snapshots, and a ring of five never holds more than are read: that fewer than all come out right is covered by the proof
  of `TrendFollows` only.

A run of `event_stream` or `check_registry` never stops, and deadlock is checked there. It is off in
the others because the system really may stop: the bounds end the checks, and the worker
leaves its loop on shutdown.

**Fairness.** A handler returns, because its AI call has a timeout of 90 s
(`AIReturns`, `FinishHandler`: weak). The worker and the runs are goroutines and
are scheduled (weak). `select` chooses at random among its ready cases, so a
cancelled context that is ready each time round is eventually taken (`StopWorker`:
strong). The ticker ticks (`Tick`: weak). In `AIManager` calls end, time passes,
entries leave the cache by TTL, and the checks keep calling `Analyze`. In
`RequestController` the watch delivers, delays and TTLs end, the workers run and
their calls return; users, failures and restarts are not forced. In `ChatSessions` a
handler that has a session goes on (weak): its provider calls have an HTTP timeout of 90 s
and its writes to the client a deadline. In `EventStream` checks go on and goroutines are
scheduled; the write lock is fair (strong) because `sync.RWMutex` admits no new reader while a writer waits. Writes to
a client have no deadline there (`handlers_health.go:90`), so that they end is an assumption of the two properties, not of the
specification. `CheckRegistry` and `HealthCycle` have safety properties only. No fairness
makes a request, a settings change, a cancellation or a particular AI answer happen.

## 4. Properties

- **Queue.** `SingleWriter`: a cluster is in `inflight` exactly when it has a
  request in the channel or at the worker, and it never has two. `NewestKept`: the newest accepted request is pending, in the
  channel or was handled. `NoStranded`: with an idle worker a free cluster waits
  only behind a full channel. `MailboxSpec`: the refinement.
  `ServedWhenChecksPause`: what was accepted is handled once the checks pause.
  It claims nothing while they go on: with more clusters than slots plus one,
  direct sends can keep taking the slot `markDone` frees, and nothing in the code
  prevents a pending cluster from starving. `ShutdownReturns`: after
  cancellation the worker leaves its loop.
- **Pipeline.** `EnhancementMatches`: suggestions are shown only on the issues
  they were made for. `CommitToOwnUpdate`: an enrichment lands on the update of
  the check that asked for it. `PendingBacked`: behind an update that says Pending
  there is a request of the newest check or a check about to publish.
  `NewestCheckShown`: the published update does not go back to an older check's.
  `PendingResolves`: no cluster stays Pending once the checks pause. These four hold for settings changes at any time,
  and say what is left when the newest check overlapped the startup run's (`raced`), which does not take
  `checkInFlight` (`server.go:816`): then an older check may be published last, with nothing on its way behind it, and
  be patched with the newer one's result if its issues are the same. The next check that starts alone ends this.
  `OneFormerResult`: with no settings change between its `Reconfigure` and its commit,
  at most one AI result of other settings than the manager's is left in all caches and the worker, however
  many requests changed them at once.
- **AI manager.** `ClosedBelowThreshold`: a closed circuit has failed less than
  the threshold in a row, in spite of late results. `Accounted` and `WithinLimit`: a window counts what was used since its reset and is
  reserved, except for at most what was held across the reset (`ReleaseUnused` looks at no age, `budget.go:112`); and it
  exceeds its limit by no more than calls used beyond their estimates, or by the
  reservation that reset it, which is not compared with the limit (`budget.go:95`). `HalfOpenResolves`: a probe keeps the circuit half-open for a
  bounded number of calls only; then half-open is left, or the probe has ended
  without a result (section 6).

- **Request controllers.** `TroubleshootLifecycle`: the refinement of the life
  cycle, of which a stale read or a retry could skip or repeat a part.
  `ExecutedOnce`: no TroubleshootRequest is diagnosed twice. `EndsUnlessFault`:
  a request of either kind is finished or removed as long as no write fails and
  the operator is not restarted. `TTLRemoves`: a finished request with a TTL does
  not stay, in spite of failed deletions and restarts.

- **Chat sessions.** `NothingForgotten`: the text of an accepted message stays in the
  history of its session, in its own message or in a summary, although the turn works on a copy for minutes
  and then replaces the history. `OverspendsOneTurn`: a session exceeds its budget by less than
  what one turn can use. `AccessedKept`: a session that was
  accessed between the two passes of the cleanup stays. `TurnsEnd`: `inFlight` is always reset.
- **SSE.** `SendsSafe`: a registered channel is open, so no publisher sends on a closed one.
  `ChecksGoOn`: if no client is stuck in the middle of its initial state, the checks go on, whatever else clients
  do. `Delivered`: a client that follows one cluster and keeps reading is shown every
  publication or a newer one, although updates are dropped, and sent in the opposite order of their commits: each
  phase of a check sends the latest update again. In a larger fleet the updates of other
  clusters can fill a slow client's channel each time, and nothing is claimed.

- **Plugins.** `NeverOrphaned`: a checker is registered only while the finalizer holds its object.
  `ReadyRegistered`: once nothing is on its way, a plugin shown as ready is registered with its present
  specification (if no other has its name). `ReportsCurrent`: a run reports each plugin that was
  settled when it began, by its present checker, unless it was changed meanwhile or panicked.

- **What is found and told.** `SummaryAgrees`: counts, totals, healthy objects and score, counted in
  separate loops with different units, fit the objects and each other, also when lists fail and issues are muted.
  `CorrelationComplete`: no issue in two groups, no group of one, at most one issue of a namespace alone,
  and a broken Flux source together with all that depends on it. `MutesHonoured`: an issue muted since the check
  began to read is not counted, one not muted at any time since is. `TrendFollows`: the ring buffer
  returns the newest snapshots in order after it has wrapped around, and a trend has the direction
  of the scores when these are monotone. `TroubleshootAgrees` and `ReportAgrees`: diagnoses, totals
  and notifications of requests, computed by code of their own, agree with the checkers. A namespace is counted once because the
  names a request lists are distinct, which the admission webhook sees to: the resolver does not remove duplicates.
  `ContextFits`: what the AI is given fits, oldest cut first, and no more is cut than needed.

`TypeOK` is checked for `EventStream` and `CheckRegistry`, and proved for every module that has it; what
the variables of `HealthCycle` hold is said by the invariant of its proof (section 5). Also proved are
`DropsOnlyWhenFull` (a request is refused only when the channel is full of other clusters), `TableBounded`
(no more sessions than allowed) and `EnhancementMatches` across settings changes and overlapping runs.

Every property has a mutant in `PROJECT.json`: a change of one definition, such
as a missing generation check or a full channel that overwrites, under which TLC finds the
property violated.

## 5. Proofs

The proofs hold for every number of clusters, every capacity, any hashes,
configurations, posters and guarded goroutines, any callers, windows, limits and thresholds, any clients and plugins, and any
contents of the clusters, under the named `ASSUME`s on the constants:

- a capacity, window duration, threshold and cost of a call of at least one, other bounds natural;
  `NoRequest` different from requests and from clusters, `NoIssues` one of the hashes, no
  name of both kinds of request, `NoSession` not a request, `Nobody` not a plugin, `Broken` not a specification;
- finitely many callers of the AI manager (they are goroutines);
- the objects, namespaces, containers, quota entries and rules of a cluster that `HealthCycle` starts from are finite, and two
  objects other than events differ in kind, namespace or name, as the API server sees to; sizes of logs and
  events are natural numbers, and so are the limits of what is sent to the AI; a request is of one of the two kinds; earlier scores, and the size asked for the ring buffer, are integers.

One theorem, `LifecycleHolds` of `RequestControllerProofs`, has a hypothesis besides; it is named below, together with what goes wrong without it.

- **`EnrichmentServiceProofs`** proves `TypeOK`, `SingleWriter`, `NewestKept`,
  `NoStranded`, `DropsOnlyWhenFull` and `Spec => MailboxSpec`. The inductive
  invariant `IInv` is the conjunction of
  the four invariants with two more: `InOrder` (what is pending of a cluster is newer than what is in
  the channel or at the worker, and that is newer than what was started before)
  and `Numbered` (no request is newer than the checks made). Without
  `InOrder` promoting a pending request could go back in time. `Enqueue`
  and `markDone` both end in a dispatch, so the argument turns on one
  lemma, `DispatchKeeps`, which says what promoting any set of free pending
  clusters preserves; `Regroup` restates the invariant per cluster for it.

- **`DashboardPipelineProofs`** has invariants on top of each other, all of them with settings changes, overlapping runs and
  requests at any time.
  - `TypeOK` and `EnhancementMatches` need three facts
    beyond the types: `currentIssueHash` is the hash of the published update; what is
    published shows suggestions of its own hash; a check that holds
    a cache hit holds it for the hash it found. The post-flight comparison of the
    handler then suffices, whatever has happened during the AI call. `RunInv` says that of the runs under
    `checkInFlight` one works at a time.
  - `NewestCheckShown` and `CommitToOwnUpdate`: `CycleInv` says of a check that has a number and overlaps no other that its number is the
    newest of its cluster, and above that of the update shown until it publishes (`OrderInv`; of two that overlap, only
    that their numbers differ), and that a request of the newest check is about the update shown and the settings it was
    published under (`RequestInv`). A check that is numbered while no other is at work restores all this for its cluster.
  - `PendingBacked`: `Backed` follows a request through the queue. A dispatch moves it from
    pending to the channel and never loses it, and one that is replaced is replaced by a newer check's, or by one of a check that overlaps. Only a
    newer check can make it stale: a settings change writes no version, and the `Pending` it leaves in an update is another.
  - `OneFormerResult` is inductive as it stands. A call starts under the present settings, so that only the one under way at the
    reconfiguration has former ones; the commit clears the caches, and after it this call can fill one.

- **`AIManagerProofs`** proves `TypeOK`, `ClosedBelowThreshold`, `Accounted` and `WithinLimit`. The types are needed for the breaker (age at most the
  reset timeout) and for the budget (a window never goes below zero). The reservations of the calls in flight are a sum over the
  callers, written as the size of a union of disjoint sets, so that `HeldByOne` and `HeldAfter` say without induction what one caller's
  step adds or takes. `OpenedAccount` is the step of a reset: the new window counts nothing of what is still held, and `carried`
  says how much that is; from then on every reservation is in the window, and every settlement lowers by at most what it settles.

- **`RequestControllerProofs`** proves `TypeOK`, `ExecutedOnce` and `TroubleshootLifecycle`, with any number
  of names, requests made one after the other under a name, edits, faults and restarts.
  The log only grows, so what a worker read stays where it was read (`Grows`). The
  invariant says per TroubleshootRequest: one that was not made yet or is Pending has
  not been worked on (`Unworked`); a worker about to claim read a Pending version
  (`ClaimsPending`); one about to work holds a request that was not worked on and
  is not Pending any more (`WorksOnce`). The update that is refused on a newer version is
  what turns the second fact into the third. Since most steps change none of
  this, they all go through `QuietStep`. The refinement of `RequestLifecycle` is proved step by step: while
  a request is worked on, its latest version is Running (`RunningWhileWorkedOn`), so that the final patch
  ends it. It assumes `NotReusedWhileWorkedOn`: no request is made under a name whose old request is
  still worked on. That is the hole of item 6 of section 6, and the only one.

- **`ChatSessionsProofs`** proves `TypeOK`, `NothingForgotten`, `OverspendsOneTurn`,
  `TableBounded` and `AccessedKept`, for any number of requests and IDs and any length of
  the histories. The core is `Exclusive`: a handler that is past `Take` has its session's flag set, and no
  two are in one session. From it `Alone`: nobody changes the history or the tokens of a
  session while a handler has a copy. `Covers` then says that the copy says everything
  the history does, by `SaidAppend`, `SaidConcat` and `CompactedKeeps` about what a turn does to it, and
  `Spends` that a turn was begun within the budget and used at most `MaxCost` per call.
  `TableBounded` needs the table to be finite (`TableFinite`), not the set of IDs.

- **`EventStreamProofs`** proves `TypeOK` and `SendsSafe`. `ConnectionInv` pairs the tables with the handlers: a
  channel is in `clients` exactly while its handler is between registration and removal, and is closed only after that;
  the read lock is held exactly while an initial state is written.

- **`CheckRegistryProofs`** proves `TypeOK`, `NeverOrphaned`, `ReadyRegistered` and `ReportsCurrent`, for any
  plugins, specifications, changes and faults. Every read may be stale, so the invariant says what of the cache can be relied on:
  a finalizer that the cache shows on an object it does not show as deleted is there (`ObjectInv`), since only `RemoveFinalizer`
  takes one away, of an object that was deleted first. `WorkerInv` carries this through the steps of `Reconcile`, to the
  removal of the finalizer, at which the entry is gone. `RegistryInv` adds that a plugin the cache shows as ready and that is
  alone under its name is registered with the specification the cache has, or is being worked on, or has lost its
  readiness; `DueInv` that the plugins a run owes a report of stay registered as they were when it began.

- **`HealthCycleProofs`** proves `SummaryAgrees`, `MutesHonoured`, `CorrelationComplete`, `ReportAgrees`, `TroubleshootAgrees`,
  `TrendFollows` and `ContextFits` for any cluster, any failing lists and any mutes. Seven groups of lemmas carry it.
  - Sums over checkers (`SumMonotone`, `SumPositive`, `SumAdds`) are sizes of disjoint unions again.
  - `Fine`: what a checker reports is finite, every issue has a severity that exists. There is a lemma for each checker, up to
    `RunFine` for the whole of `RunAll`; on it rest `CountsAddUp` (issues are critical, warnings, infos and the muted) and
    `ScoreAgrees` (below 100 exactly when an unmuted critical issue is left, by `Percentage` about the division that rounds down).
  - `ObjectsCounted`: healthy objects and those with an issue add up to the objects listed, because the name and namespace in an issue
    identify the object among those of a checker.
  - What the correlators compute: `Chains` and `Deduplicate` are recursive functions over a sequence. `Recursion`
    shows that such a function exists and `IntervalInduction` what it preserves; both argue by the smallest
    counterexample in a set, which needs no operator parameter. `ClaimKeeps` is the step of the deduplication: the claimed
    keys are those of the groups that are left, these are disjoint and have two keys each, of every candidate gone by at most one key is
    unclaimed, and the first candidate is left whole. Since all events of a namespace are one of its candidates
    (`CandidatesAre`), at most one stays alone; and since a Flux chain is the most confident, it comes first. The
    keys of two namespaces differ, so that `CorrelatedComplete` puts the namespaces together.
  - What a troubleshooting finds: `FindingsAgree` first shows that its target is the one workload of that name and that it takes the
    pods the health check takes, then compares what is diagnosed of a pod (`PodAgrees`). The logs are recursive functions over
    the pods and, within a pod, over its containers. `LogsOK` is what each step keeps of the entries so far (`ReadLogKeeps`,
    `ReadPodKeeps`, `CollectLogsKeeps`): as long as the limit is not passed no container is missing, and the entry with
    which it is passed is the last. Since the order of a list call is unknown, `ListOfType` says that it goes through the whole set.
  - The trend. `RingHolds` relates the ring buffer to the sequence of all snapshots: the slot `j` before the head holds the snapshot
    `j` before the end. `AddKeepsNewest` is its step and `LastAreNewest` what a read returns. The sums of the regression
    are recursive functions again (`TotalIsSum`). Of scores that never fall, over `n` checks, `RisingSlope` shows by induction on the
    points that twice the numerator of the slope is at least `n * (n - 1)` times the rise; `SpreadOfTicks` computes the
    denominator. `SteepEnough` puts them together: up to 50 checks, 50 points are more than half a point per hour.
  - The batch for the AI. Its size is a sum of sums; `TotalUpdate` and `TotalShorter` say what it loses with an entry, so that a
    cut of too large a batch leaves parts of its contexts and would be undone if that entry still fitted (`CutPieces`). `Kept` is what holds
    during each of the three passes: while events are cut no issue loses its last one and all lines are there; lines are cut
    only when no issue has two events; and the rest goes only when none has two lines either. `Done` counts the rounds: a batch that is still too large
    has lost one entry of each issue per round, so `RoundsKeep` brings every pass to its end and, after the last, a
    batch that is too large would be empty (`BudgetKept`). For the issues, `CappedRight` compares what is
    capped with what is sent, and `RepresentativesType` finds each signature among the representatives.

  `IInv` says that a check holds what `RunAll` finds in the cluster it has read and complete groups of it, that the published update has the summary of its
  own results, that an issue muted ever since the read began is among its mutes, and these among what was muted at some time since, and
  that a report is what `TeamHealth`, `Troubleshoot` or the batch for the AI makes of a cluster as it was met. `HistoryOK`, on top of it, has `RingHolds`, snapshots
  numbered by their checks, and that a check records only after it has published. `ReportAgrees` then follows from `LimitedFine` and
  `CoversObjects`, about the namespaces a request is limited to.

Only model-checked:

- All liveness: `ServedWhenChecksPause`, `ShutdownReturns`, `PendingResolves`, `HalfOpenResolves`, `EndsUnlessFault`, `TTLRemoves`, `TurnsEnd`,
  `ChecksGoOn`, `Delivered`. Fairness and ENABLED are out of the proof system's reach.

Every invariant that a run checks is stated by a theorem.

## 6. Where the code and its own text disagree

With a run:

1. `breaker_half_open` — a probe that meets a second 429, is cancelled while it
   waits, or is a chat turn whose client leaves, records no result; in half-open
   `Allow` rejects every call whatever the time, so the breaker never recovers.
2. `chat_compacted` — `maybeCompactHistory` keeps the last three messages and puts a user
   message before them. In the middle of a turn these may begin with a tool result
   whose call has gone into the summary. `buildAnthropicMessages` merges a tool result into a preceding
   user message, which here is text, and fails; `handleChat` stores the history like
   this, so that the following turns fail as well. The comment above the function
   (`agent.go:596`) has tool results follow the assistant message that asked for them.
3. `request_stuck` — a request found Running with `StartedAt` is taken to be in
   work (`teamhealthrequest_controller.go:126`, `troubleshootrequest_controller.go:104`).
   After a restart in between, or a final patch that failed, nobody works on it,
   every reconcile requeues it, and the TTL applies to finished requests only. The state
   machine (`docs/architecture/01-reconciliation-flows.md:135`) lets an error lead to Failed.

Stated as a property and violated under a configuration of its own (section 3):

4. `TruncatedRetried` — `aiTruncationReason` says a truncated answer is retried in
   the next cycle (`ai_analysis.go:271`). The worker path commits the empty result
   to the AI cache, and the next check of the same issues is a cache hit. The
   synchronous path caches only if something was enhanced.
5. `ConfigChangedNotCached` — `cs.aiConfigVersion` is written only when a check publishes.
   A settings change during an AI call does not change it, so the post-flight
   check passes and fills the caches the POST had cleared. The test that says this
   cannot happen (`ai_analysis_test.go:2181`) simulates the change by writing that field.
6. `TroubleshootLifecycle`, with two requests made under one name — the final patch goes by name. A
   request deleted and made again during the diagnosis receives the results of the old one and is never run,
   where the state machine (same file, line 147) lets Pending only become Running.
7. `InsightsOwn` — causal insights are matched to groups by index (`ai_analysis.go:800`) and kept for the
   next check with the same issues (`ai_analysis.go:404`). Groups of equal severity and confidence in two namespaces
   come in the random order of a Go map, so an insight may appear on the other namespace's
   group. "AIEnhanced is true when this group has been analyzed by AI" (`causal/types.go:66`).
8. `CrashLogsSent` — logs are fetched for issues of type CrashLoopBackOff, OOMKilled or Error
   (`context_builder.go:69`). No checker gives an issue such a type: the workload checker has ContainerNotReady
   with the reason as metadata, and the types of a plugin begin with `plugin:`. The "log lines per crash-looping pod"
   that `README.md:365` bounds are never sent. The causal rules `oom-quota`, `crash-imagepull` and
   `pvc-workload` wait for such types as well and never apply.

9. `SettingsAgree` — `Reconfigure`, `SetEnabled` and the commit of a settings POST are separate critical sections, so two
  concurrent POSTs can leave the manager and the dashboard with different settings, where a comment wants
  them "in sync" (`handlers_ai.go:134`).

In the models, without a property:

- `Analyze` passes an empty model to the cache key and relies on
  `Reconfigure` clearing the cache: a call in flight stores its answer after the clear
  (`AIManager`: `Reconfigure` between `CallSucceeds` and `Store`), where `cache.go:180` wants to avoid
  "cross-provider/model cache collisions".
- The initial state of an SSE client is written under the read lock without a deadline, so a client that
  never takes it stops every check (`EventStream`: `ChecksGoOn` without `InitialStatesEnd`).

Not claimed by any document, but visible in the models:

- The startup run does not take `checkInFlight` (`server.go:816`). A check that is requested meanwhile can publish
  first, and the older update of the startup run then replaces its own until the next check; if the older request
  also replaces the newer one, the update stays Pending until then.
- The patch that makes a TeamHealthRequest Running (`teamhealthrequest_controller.go:138`) is applied to whatever
  the server has. A reconcile that reads a stale Pending from the cache takes a finished
  request back to Running, and checks and notifications are done again. That is why
  `ExecutedOnce` and `TroubleshootLifecycle` speak of TroubleshootRequests only. The
  deletion after the TTL has no precondition either and can remove a request made anew.
- A chat session may be evicted while a turn works in it (`EvictExpired`): the turn is
  stored where nobody finds it, and the client's next request makes an empty session with a full budget under the
  same ID. The properties of section 4 are about sessions, not IDs.
- A call that the breaker rejects (`manager.go:113`) or whose wait is cancelled (`manager.go:133`)
  keeps its token reservation until the window ends.
- The registry's key is the plugin's name alone (`checkplugin_controller.go:70`): plugins of one
  name in two namespaces replace each other's checker, and both are shown as ready.
- When a plugin's new specification does not compile, the registry keeps the checker of the old one
  while the status says not ready. Every status patch changes `lastUpdated`, so that the watch brings a
  plugin back after each reconcile (`Sync` without a difference).
- A list of pods that fails is logged and counts as no pods: their workloads are healthy
  (`workload/checker.go:86`). If the namespaces cannot be listed, only `default` is checked
  (`ai_analysis.go:335`). A TeamHealthRequest of which every checker failed is Completed, with nothing found; listed
  namespaces that cannot be read are left out without a word (`scope/resolver.go:69`).
- Muting a Warning can lower the score: its resource leaves the number of resources the score is relative to.
- A TroubleshootRequest with the actions `diagnose` and `all` lists each finding twice; the entries of its
  log ConfigMap are named after pod and container joined by a dash, and two of them can have one name.
- `EnhanceAllWithAI` merges similar issues of all namespaces into one (`checker.go:313`).

## 7. Not modelled

- **Authentication and user sessions**, providers, prompts, sanitising and parsing of answers, the console
  backend, the CLI, entry points, Helm and manifests: wiring, HTTP and text, without state that
  several actors share. Providers, data sources and notification targets appear as an environment that answers or fails.
- **The explain handler** (`handlers_ai.go:412`): its cache is filled after a call of up to 30 s, under the hash read
  before it. The hazard is listed; a model needs the cache of `DashboardPipeline` with a third writer.
- **The order of the response cache** (LRU, TTL): any entry may disappear at any time instead.
- **Notifier HTTP**: one call per target, formats and timeout; which targets are called is `HealthReports`.
- **Of what is computed**: `Since`, R², confidence interval and projected score of the prediction (floating
  point), texts and IDs of causal groups, `EnhanceWithAI` (no caller), and the
  `HealthScore` of notifications (`teamhealthrequest_controller.go:482`), which is the share of healthy objects among healthy objects
  and issues, another formula than the dashboard's score.
- **Of modelled components**: the dashboard without a shared manager and the synchronous
  `runAIAnalysisForCluster` (tests only); the aggregate `ChatBudget` (`SetChatBudget` has no caller outside the tests); what the tools
  of the chat answer; handlers that only read; events, metrics and logs.

## 8. Plan

Theorems worth proving next:

1. The safety part of the liveness properties, as variants that every step of a turn, a shutdown or a reconcile lowers: that
   `TurnsEnd`, `ShutdownReturns` and `EndsUnlessFault` can fail by starvation only.
2. `BreakerRecovers` and `RequestBuilds` without what their runs show: no probe ends without a result, no history is compacted during a turn.

To model next: the explain cache in `DashboardPipeline`; `ResponseCache` with LRU order and TTL.
