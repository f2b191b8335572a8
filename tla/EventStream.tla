----------------------------- MODULE EventStream -----------------------------
(***************************************************************************)
(* GET /api/events (internal/dashboard: handlers_health.go, ai_analysis.go, *)
(* server.go).  The checks of the clusters and the enrichment worker change *)
(* a cluster's latest update under the write lock of s.mu, release it, and  *)
(* send the update under the read lock to every subscribed client: a send   *)
(* never waits, a client whose channel is full misses the update.  The      *)
(* handler of a client writes the initial state to the network while it     *)
(* holds the read lock.                                                     *)
(*                                                                          *)
(* An update is the pair of its cluster and whether it is as new as one     *)
(* publication, chosen at any time and remembered in mark (a history        *)
(* variable): what a client is shown is compared with that publication.     *)
(***************************************************************************)
EXTENDS Naturals, Sequences, FiniteSets

CONSTANTS
  Clients,       \* connections to /api/events
  Clusters,      \* cluster IDs
  AllClusters,   \* the empty cluster ID, with which a client follows the fleet
  SSEBufferSize, \* s.sseBufferSize
  MaxSSEClients  \* s.maxSSEClients; 0 is no limit

ASSUME SSEAssumption == SSEBufferSize \in Nat \ {0} /\ MaxSSEClients \in Nat
ASSUME FleetAssumption == AllClusters \notin Clusters

VARIABLES
  latest,    \* per cluster, cs.latest: nil, an update before mark, or not
  mark,      \* the cluster of the publication followed, or AllClusters
  run,       \* per cluster, the broadcasts of runCheckForCluster
  worker,    \* the broadcasts of handleEnrichmentResult
  clients,   \* s.clients: the registered channels
  handler,   \* per client, handleSSE: where it is and the subscription
  reading,   \* the handlers that hold the read lock of s.mu
  channel,   \* per client, clientCh: what it holds and whether it is open
  shown      \* the clients that were shown the marked update or a newer one

vars == <<latest, mark, run, worker, clients, handler, reading, channel, shown>>
publisherVars == <<latest, mark, run, worker>>
clientVars == <<clients, handler, reading, channel, shown>>

Update(c) == [cluster |-> c, fresh |-> latest[c] = "fresh"]
Updates == [cluster : Clusters, fresh : BOOLEAN]
NoUpdate == [cluster |-> AllClusters, fresh |-> FALSE]

\* The points of runCheckForCluster that broadcast: the phases "checkers" and
\* "causal", "ai" when AI is enabled, the publication, and the refusal by a
\* full enrichment queue.
Points == {"checkers", "causal", "ai", "publish", "full"}
NoChannel == [held |-> <<>>, open |-> FALSE]

Init ==
  /\ latest = [c \in Clusters |-> "nil"]
  /\ mark = AllClusters
  /\ run = [c \in Clusters |-> [at |-> "checkers", out |-> NoUpdate]]
  /\ worker = NoUpdate
  /\ clients = {}
  /\ handler = [k \in Clients |-> [pc |-> "off", cluster |-> AllClusters]]
  /\ reading = {}
  /\ channel = [k \in Clients |-> NoChannel]
  /\ shown = {}

-----------------------------------------------------------------------------
(* s.mu.  Only handleSSE's initial write holds the read lock for longer than  *)
(* a step; every other critical section is one action.                        *)

LockFree == reading = {}

\* Mutation: a client of the fleet is taken for the client of another cluster.
SubscribedExactly(k, c) == handler[k].cluster = c
Subscribed(k, c) == handler[k].cluster \in {AllClusters, c}

\* broadcastUpdate and the second half of broadcastPhase: non-blocking sends
\* to the registered channels, which a full channel misses.
Broadcast(update) ==
  channel' = [k \in Clients |->
    IF /\ k \in clients
       /\ Subscribed(k, update.cluster)
       /\ Len(channel[k].held) < SSEBufferSize
    THEN [channel[k] EXCEPT !.held = Append(@, update)]
    ELSE channel[k]]

-----------------------------------------------------------------------------
(* The publishers. *)

\* broadcastPhase, under the write lock: the phase is noted in cs.latest and
\* the update copied; without an update there is nothing to send.
Phase(c) ==
  LET next == CASE run[c].at = "checkers" -> {"causal"}
                [] run[c].at = "causal"   -> {"ai", "publish"}
                [] run[c].at = "ai"       -> {"publish"}
                [] OTHER                  -> {}
  IN
  /\ run[c].out = NoUpdate
  /\ LockFree
  /\ \E at \in next :
       run' = [run EXCEPT ![c] =
                 [at |-> at, out |-> IF latest[c] = "nil" THEN NoUpdate ELSE Update(c)]]
  /\ UNCHANGED <<latest, mark, worker, clientVars>>

\* runCheckForCluster, under the write lock: the new update is stored.  It may
\* be the one that is followed from now on.
Publish(c) ==
  /\ run[c].at = "publish" /\ run[c].out = NoUpdate
  /\ LockFree
  /\ mark' \in IF mark = AllClusters THEN {mark, c} ELSE {mark}
  /\ latest' = [latest EXCEPT ![c] = IF mark' = c THEN "fresh" ELSE "old"]
  /\ \E at \in {"checkers", "full"} :
       run' = [run EXCEPT ![c] =
                 [at |-> at, out |-> [cluster |-> c, fresh |-> mark' = c]]]
  /\ UNCHANGED <<worker, clientVars>>

\* Mutation: the check asks again until the queue takes the request.
AfterRefusalRetry == "full"
AfterRefusal == "checkers"

\* The queue refused the request: the failure is noted in the update, whoever
\* published it, which is sent again.
QueueFull(c) ==
  /\ run[c].at = "full" /\ run[c].out = NoUpdate
  /\ LockFree
  /\ run' = [run EXCEPT ![c] = [at |-> AfterRefusal, out |-> Update(c)]]
  /\ UNCHANGED <<latest, mark, worker, clientVars>>

\* The update is sent after the write lock was released.
SendRun(c) ==
  /\ run[c].out # NoUpdate
  /\ Broadcast(run[c].out)
  /\ run' = [run EXCEPT ![c].out = NoUpdate]
  /\ UNCHANGED <<latest, mark, worker, clients, handler, reading, shown>>

\* handleEnrichmentResult, under the write lock: a result, or a failure, of the
\* newest check is put into the cluster's update.
Enrich(c) ==
  /\ worker = NoUpdate
  /\ LockFree
  /\ latest[c] # "nil"
  /\ worker' = Update(c)
  /\ UNCHANGED <<latest, mark, run, clientVars>>

SendWorker ==
  /\ worker # NoUpdate
  /\ Broadcast(worker)
  /\ worker' = NoUpdate
  /\ UNCHANGED <<latest, mark, run, clients, handler, reading, shown>>

-----------------------------------------------------------------------------
(* handleSSE, client k. *)

\* Mutation: one client too many.
AtLimitLate == MaxSSEClients > 0 /\ Cardinality(clients) > MaxSSEClients
AtLimit == MaxSSEClients > 0 /\ Cardinality(clients) >= MaxSSEClients

\* Write lock: the channel is registered, unless there are too many (503).
Connect(k) ==
  /\ handler[k].pc = "off"
  /\ LockFree
  /\ ~AtLimit
  /\ \E c \in Clusters \cup {AllClusters} :
       handler' = [handler EXCEPT ![k] = [pc |-> "registered", cluster |-> c]]
  /\ clients' = clients \cup {k}
  /\ channel' = [channel EXCEPT ![k] = [held |-> <<>>, open |-> TRUE]]
  /\ shown' = shown \ {k}
  /\ UNCHANGED <<publisherVars, reading>>

\* The read lock is taken for the initial state.
BeginInitial(k) ==
  /\ handler[k].pc = "registered"
  /\ handler' = [handler EXCEPT ![k].pc = "writing"]
  /\ reading' = reading \cup {k}
  /\ UNCHANGED <<publisherVars, clients, channel, shown>>

\* Where the handler goes on when a write of the initial state failed: it returns,
\* but a client of the fleet only leaves the loop over the clusters, and at the
\* next write.
AfterFailedWrite(k) ==
  IF handler[k].cluster = AllClusters THEN "stream" ELSE "leaving"

\* The client has taken the initial state (that of its cluster, or of every
\* cluster), or a write failed; the lock is released.
EndInitial(k) ==
  /\ handler[k].pc = "writing"
  /\ \/ /\ handler' = [handler EXCEPT ![k].pc = "stream"]
        /\ shown' = IF \E c \in Clusters : Subscribed(k, c) /\ latest[c] = "fresh"
                    THEN shown \cup {k} ELSE shown
     \/ /\ \E c \in Clusters : Subscribed(k, c) /\ latest[c] # "nil"
        /\ handler' = [handler EXCEPT ![k].pc = AfterFailedWrite(k)]
        /\ UNCHANGED shown
  /\ reading' = reading \ {k}
  /\ UNCHANGED <<publisherVars, clients, channel>>

\* An update is received and written to the client.
Receive(k) ==
  /\ handler[k].pc = "stream"
  /\ channel[k].held # <<>>
  /\ channel' = [channel EXCEPT ![k].held = Tail(@)]
  /\ shown' = IF Head(channel[k].held).fresh THEN shown \cup {k} ELSE shown
  /\ UNCHANGED <<publisherVars, clients, handler, reading>>

\* The request's context is done, or a write failed.
HangUp(k) ==
  /\ handler[k].pc = "stream"
  /\ handler' = [handler EXCEPT ![k].pc = "leaving"]
  /\ UNCHANGED <<publisherVars, clients, reading, channel, shown>>

\* Mutation: the channel is closed before it is deleted.
CloseFirst(k) ==
  /\ handler[k].pc = "leaving"
  /\ LockFree
  /\ channel' = [channel EXCEPT ![k].open = FALSE]
  /\ handler' = [handler EXCEPT ![k].pc = "closing"]
  /\ UNCHANGED <<publisherVars, clients, reading, shown>>
\* The deferred function: the channel is deleted under the write lock, then
\* closed without it.
Deregister(k) ==
  /\ handler[k].pc = "leaving"
  /\ LockFree
  /\ clients' = clients \ {k}
  /\ handler' = [handler EXCEPT ![k].pc = "closing"]
  /\ UNCHANGED <<publisherVars, reading, channel, shown>>

Close(k) ==
  /\ handler[k].pc = "closing"
  /\ channel' = [channel EXCEPT ![k] = NoChannel]
  /\ handler' = [handler EXCEPT ![k] = [pc |-> "off", cluster |-> AllClusters]]
  /\ shown' = shown \ {k}
  /\ UNCHANGED <<publisherVars, clients, reading>>

-----------------------------------------------------------------------------
CheckStep(c) == Phase(c) \/ Publish(c) \/ QueueFull(c)

Next ==
  \/ \E c \in Clusters : Phase(c) \/ Publish(c) \/ QueueFull(c) \/ SendRun(c) \/ Enrich(c)
  \/ SendWorker
  \/ \E k \in Clients :
       \/ Connect(k) \/ BeginInitial(k) \/ EndInitial(k)
       \/ Receive(k) \/ HangUp(k) \/ Deregister(k) \/ Close(k)

(***************************************************************************)
(* Fairness: the checks go on (the ticker) and goroutines are scheduled.    *)
(* Strong fairness of the write locks: sync.RWMutex lets no new reader in   *)
(* while a writer waits.  What is written to a client has no deadline       *)
(* (handlers_health.go:90): that a client reads, or its connection breaks,  *)
(* is not assumed here but stated by the properties that need it.           *)
(* Connections and enrichments are never forced.                            *)
(***************************************************************************)
Fairness ==
  /\ \A c \in Clusters : SF_vars(CheckStep(c)) /\ WF_vars(SendRun(c))
  /\ WF_vars(SendWorker)
  /\ \A k \in Clients :
       WF_vars(BeginInitial(k)) /\ SF_vars(Deregister(k)) /\ WF_vars(Close(k))

Spec == Init /\ [][Next]_vars
FairSpec == Spec /\ Fairness

-----------------------------------------------------------------------------
TypeOK ==
  /\ latest \in [Clusters -> {"nil", "old", "fresh"}]
  /\ mark \in Clusters \cup {AllClusters}
  /\ run \in [Clusters -> [at : Points, out : Updates \cup {NoUpdate}]]
  /\ worker \in Updates \cup {NoUpdate}
  /\ clients \subseteq Clients
  /\ handler \in [Clients ->
       [pc : {"off", "registered", "writing", "stream", "leaving", "closing"},
        cluster : Clusters \cup {AllClusters}]]
  /\ reading \subseteq Clients
  /\ channel \in [Clients -> [held : Seq(Updates), open : BOOLEAN]]
  /\ \A k \in Clients : Len(channel[k].held) <= SSEBufferSize
  /\ MaxSSEClients > 0 => Cardinality(clients) <= MaxSSEClients
  /\ shown \subseteq Clients

\* A publisher never sends on a closed channel, which would panic and take the
\* operator down, however clients come and go between the store and the send
\* (handlers_health.go:93 to 98, ai_analysis.go:963).
SendsSafe == \A k \in clients : channel[k].open

\* No client is stuck in the middle of its initial state: it takes it or its
\* connection breaks.
InitialStatesEnd == \A k \in Clients : []<>(handler[k].pc # "writing")

\* The client goes on reading what its channel holds.
KeepsReading(k) == []<>(channel[k].held = <<>>)

\* The initial state is written under the read lock (handlers_health.go:100 to
\* 132): a client that never takes it stops every check.  Nothing else a client
\* does: one that stops reading later, leaves or comes back stops none.
ChecksGoOn == InitialStatesEnd => \A c \in Clusters : []<>(run[c].at = "publish")

\* The client follows one cluster: by its ID, or as the whole of a fleet of one.
FollowsOnly(k, c) ==
  handler[k].cluster = c \/ (handler[k].cluster = AllClusters /\ Clusters = {c})

\* Updates are dropped, reordered by the two publishers and overtaken, but a
\* client that follows one cluster and keeps reading is shown every publication
\* or a newer one: each phase of a check sends the latest update again
\* (ai_analysis.go:92 to 104).  In a larger fleet the updates of other clusters
\* can fill the channel of a slow client each time.
Delivered ==
  \A k \in Clients, c \in Clusters :
    InitialStatesEnd /\ KeepsReading(k) =>
      (mark = c /\ handler[k].pc = "stream" /\ FollowsOnly(k, c)
         ~> k \in shown \/ handler[k].pc # "stream")
=============================================================================
