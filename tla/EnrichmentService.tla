-------------------------- MODULE EnrichmentService --------------------------
(***************************************************************************)
(* The enrichment queue at work: the checks of every cluster submit        *)
(* numbered requests (the number is the cluster's checkCounter at enqueue  *)
(* time), the worker goroutine handles them, and the server's context may  *)
(* be cancelled at any time.  The payload of a request is its number.      *)
(***************************************************************************)
EXTENDS EnrichmentQueue

CONSTANT MaxChecks   \* bound on the submissions of a cluster

ASSUME MaxChecksAssumption == MaxChecks \in Nat
ASSUME NoRequestAssumption ==
  NoRequest \notin [clusterID : Clusters, generation : Nat]
ASSUME IdleAssumption == NoRequest \notin Clusters

VARIABLES checkCounter,  \* cs.checkCounter: submissions of the cluster so far
          ctxDone,       \* the worker's context is cancelled
          accepted,      \* history: the newest submission Enqueue accepted
          started        \* history: the newest submission given to the handler

vars == <<ch, pending, inflight, worker, stopped,
          checkCounter, ctxDone, accepted, started>>

Request == [clusterID : Clusters, generation : Nat]

Init ==
  /\ QueueInit
  /\ checkCounter = [c \in Clusters |-> 0]
  /\ ctxDone = FALSE
  /\ accepted = [c \in Clusters |-> 0]
  /\ started = [c \in Clusters |-> 0]

\* runCheckForCluster numbers the check and submits its request; the request is
\* dropped when Enqueue returns false.
Submit(c) ==
  LET req == [clusterID |-> c, generation |-> checkCounter[c] + 1] IN
  /\ checkCounter[c] < MaxChecks
  /\ checkCounter' = [checkCounter EXCEPT ![c] = @ + 1]
  /\ \/ /\ Enqueue(req)
        /\ accepted' = [accepted EXCEPT ![c] = checkCounter[c] + 1]
     \/ /\ EnqueueFull(req)
        /\ UNCHANGED accepted
  /\ UNCHANGED <<ctxDone, started>>

\* The worker takes a request and its handler starts.
StartHandler ==
  /\ Receive
  /\ started' = [started EXCEPT ![Head(ch).clusterID] = Head(ch).generation]
  /\ UNCHANGED <<checkCounter, ctxDone, accepted>>

\* The handler returns; its deferred markDone runs.
FinishHandler ==
  /\ MarkDone
  /\ UNCHANGED <<checkCounter, ctxDone, accepted, started>>

\* cancelEnrichment.
Cancel ==
  /\ ~ctxDone
  /\ ctxDone' = TRUE
  /\ UNCHANGED <<ch, pending, inflight, worker, stopped,
                 checkCounter, accepted, started>>

\* Between two requests the worker's select notices the cancelled context; with
\* a request ready as well, select picks either.
StopWorker ==
  /\ ctxDone
  /\ Stop
  /\ UNCHANGED <<checkCounter, ctxDone, accepted, started>>

Next ==
  \/ \E c \in Clusters : Submit(c)
  \/ StartHandler
  \/ FinishHandler
  \/ Cancel
  \/ StopWorker

(***************************************************************************)
(* Fairness.  A handler returns, since its AI call has a timeout; the      *)
(* worker goroutine is scheduled; select chooses at random among its ready *)
(* cases, so one that is ready again and again is taken (strong fairness). *)
(* Nothing makes a check submit or the server shut down.                   *)
(***************************************************************************)
Fairness ==
  /\ WF_vars(FinishHandler)
  /\ WF_vars(StartHandler)
  /\ SF_vars(StopWorker)

Spec == Init /\ [][Next]_vars
FairSpec == Spec /\ Fairness

-----------------------------------------------------------------------------
TypeOK ==
  /\ ch \in Seq(Request)
  /\ Len(ch) <= Capacity
  /\ pending \in [Clusters -> Request \cup {NoRequest}]
  /\ inflight \in SUBSET Clusters
  /\ worker \in Request \cup {NoRequest}
  /\ stopped \in BOOLEAN
  /\ ctxDone \in BOOLEAN
  /\ checkCounter \in [Clusters -> Nat]
  /\ accepted \in [Clusters -> Nat]
  /\ started \in [Clusters -> Nat]

WorkerClusters == IF worker = NoRequest THEN {} ELSE {worker.clusterID}

\* Single-writer semantics per cluster: at most one request of a cluster is in
\* the channel or with the handler, and q.inflight is exactly the set of the
\* clusters that have one (enrichment_queue.go:76).
SingleWriter ==
  /\ \A i, j \in 1 .. Len(ch) : ch[i].clusterID = ch[j].clusterID => i = j
  /\ WorkerClusters \cap ClustersIn(ch) = {}
  /\ inflight = ClustersIn(ch) \cup WorkerClusters

\* Per cluster the requests in the service are numbered in the order they will
\* be handled, and everything in the channel is newer than what was handled.
InOrder ==
  /\ \A i \in 1 .. Len(ch) : started[ch[i].clusterID] < ch[i].generation
  /\ worker # NoRequest => worker.generation = started[worker.clusterID]
  /\ \A c \in Clusters : pending[c] # NoRequest =>
       /\ pending[c].clusterID = c
       /\ started[c] < pending[c].generation
       /\ \A i \in 1 .. Len(ch) :
            ch[i].clusterID = c => ch[i].generation < pending[c].generation

\* The newest accepted request of a cluster is never lost: it waits in pending,
\* or else it is in the channel, or else the handler has had it
\* (newest-wins coalescing, Enqueue's three branches).
NewestKept ==
  \A c \in Clusters :
    /\ pending[c] # NoRequest => pending[c].generation = accepted[c]
    /\ pending[c] = NoRequest /\ c \in ClustersIn(ch) =>
         \A i \in 1 .. Len(ch) :
           ch[i].clusterID = c => ch[i].generation = accepted[c]
    /\ pending[c] = NoRequest /\ c \notin ClustersIn(ch) =>
         started[c] = accepted[c]

\* Submissions are numbered by the check counter.
Numbered ==
  \A c \in Clusters : started[c] <= accepted[c] /\ accepted[c] <= checkCounter[c]

\* No stranded request: while no handler runs, a pending cluster that is not in
\* flight waits only because the channel is full; otherwise no later markDone
\* would come to promote it (markDone, dispatchPendingLocked).
NoStranded ==
  worker = NoRequest =>
    (Waiting(pending, inflight) = {} \/ Len(ch) = Capacity)

\* The inductive invariant of the proofs.
IInv ==
  /\ TypeOK
  /\ SingleWriter
  /\ InOrder
  /\ NewestKept
  /\ Numbered
  /\ NoStranded

\* Enqueue drops a request only when the channel is full of other clusters,
\* each with a request of its own (comment at enrichment_queue.go:103).
DropsOnlyWhenFull ==
  [][\A c \in Clusters :
       (checkCounter'[c] # checkCounter[c] /\ accepted'[c] # checkCounter'[c]) =>
         /\ Len(ch) = Capacity
         /\ c \notin ClustersIn(ch) \cup WorkerClusters
         /\ \A i, j \in 1 .. Len(ch) :
              ch[i].clusterID = ch[j].clusterID => i = j]_vars

\* The service implements the mailbox: handlers one at a time, in order, and
\* newest wins.
Mailbox == INSTANCE EnrichmentMailbox WITH
  Idle <- NoRequest,
  active <- IF worker = NoRequest THEN NoRequest ELSE worker.clusterID
MailboxSpec == Mailbox!Spec

\* When the checks pause (MaxChecks makes them), the newest accepted request of
\* every cluster gets its handler, unless the server shuts down.
ServedWhenChecksPause ==
  \A c \in Clusters : []<>(started[c] = accepted[c] \/ ctxDone)

\* A cancelled worker leaves its loop, so Shutdown's wg.Wait returns.
ShutdownReturns == ctxDone ~> stopped
=============================================================================
