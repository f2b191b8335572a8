--------------------------- MODULE EnrichmentQueue ---------------------------
(***************************************************************************)
(* The dashboard's in-process queue of AI enrichment requests              *)
(* (internal/dashboard/enrichment_queue.go): a bounded channel read by one *)
(* worker, a map of pending requests that keeps only the newest one of     *)
(* each cluster, and the set of clusters that are in flight.               *)
(*                                                                         *)
(* Every method runs under q.mu and is one action.  The worker receives    *)
(* from the channel without q.mu; it cannot be seen half way through a     *)
(* dispatch, because a dispatch that finds the channel empty is made by    *)
(* the worker itself (markDone) or while the worker is busy.               *)
(*                                                                         *)
(* A request is a record with a field clusterID; the other fields are the  *)
(* payload and belong to the module that makes the request.                *)
(***************************************************************************)
EXTENDS Integers, Sequences

CONSTANTS Clusters,   \* cluster identifiers
          Capacity,   \* capacity of the channel
          NoRequest   \* the absence of a request

ASSUME CapacityAssumption == Capacity \in Nat \ {0}

VARIABLES ch,         \* q.ch, a FIFO of requests
          pending,    \* q.pending: per cluster its newest waiting request
          inflight,   \* q.inflight: clusters dispatched and not yet done
          worker,     \* the request the worker's handler is processing
          stopped     \* the worker left its loop

queueVars == <<ch, pending, inflight, worker, stopped>>

QueueInit ==
  /\ ch = << >>
  /\ pending = [c \in Clusters |-> NoRequest]
  /\ inflight = {}
  /\ worker = NoRequest
  /\ stopped = FALSE

-----------------------------------------------------------------------------
ClustersIn(q) == {q[i].clusterID : i \in 1 .. Len(q)}

\* Clusters dispatchPendingLocked may promote, given pending p and in-flight f.
Waiting(p, f) == {c \in Clusters \ f : p[c] # NoRequest}

\* Mutation: an in-flight cluster is not skipped.
PromotableInFlight(p, f) == {c \in Clusters : p[c] # NoRequest}
Promotable(p, f) == Waiting(p, f)

Room(q) == Capacity - Len(q)

\* Mutation: the promoted request is not deleted from q.pending.
RemainingAll(p, promoted) == p
Remaining(p, promoted) ==
  [c \in Clusters |-> IF c \in promoted THEN NoRequest ELSE p[c]]

(***************************************************************************)
(* dispatchPendingLocked, run on channel q, pending p and in-flight f:     *)
(* promotes requests in an order the map iteration picks, until the        *)
(* channel is full or no pending cluster is free.                          *)
(***************************************************************************)
Dispatch(q, p, f) ==
  \E k \in 0 .. Room(q) : \E order \in [1 .. k -> Promotable(p, f)] :
    LET promoted == {order[i] : i \in 1 .. k} IN
    /\ \A i, j \in 1 .. k : i # j => order[i] # order[j]
    /\ k = Room(q) \/ promoted = Promotable(p, f)
    /\ ch' = q \o [i \in 1 .. k |-> p[order[i]]]
    /\ pending' = Remaining(p, promoted)
    /\ inflight' = f \cup promoted

-----------------------------------------------------------------------------
\* Enqueue, first branch: the cluster is in flight, the request replaces the
\* pending one.
Coalesce(req) ==
  /\ req.clusterID \in inflight
  /\ pending' = [pending EXCEPT ![req.clusterID] = req]
  /\ UNCHANGED <<ch, inflight, worker, stopped>>

\* Enqueue, second branch: a request of the cluster already waits for room.
ReplacePending(req) ==
  /\ req.clusterID \notin inflight
  /\ pending[req.clusterID] # NoRequest
  /\ Dispatch(ch, [pending EXCEPT ![req.clusterID] = req], inflight)
  /\ UNCHANGED <<worker, stopped>>

\* Enqueue, third branch: straight into the channel.
Send(req) ==
  /\ req.clusterID \notin inflight
  /\ pending[req.clusterID] = NoRequest
  /\ Len(ch) < Capacity
  /\ ch' = Append(ch, req)
  /\ inflight' = inflight \cup {req.clusterID}
  /\ UNCHANGED <<pending, worker, stopped>>

\* Mutation: the older pending request wins over the new one.
CoalesceOldestWins(req) ==
  /\ req.clusterID \in inflight
  /\ pending' = [pending EXCEPT
                   ![req.clusterID] = IF @ = NoRequest THEN req ELSE @]
  /\ UNCHANGED <<ch, inflight, worker, stopped>>

EnqueueOldestWins(req) ==
  CoalesceOldestWins(req) \/ ReplacePending(req) \/ Send(req)

\* Enqueue returning true.
Enqueue(req) == Coalesce(req) \/ ReplacePending(req) \/ Send(req)

\* Enqueue returning false: the channel is full, the request is dropped.
EnqueueFull(req) ==
  /\ req.clusterID \notin inflight
  /\ pending[req.clusterID] = NoRequest
  /\ Len(ch) = Capacity
  /\ UNCHANGED queueVars

\* Run: the worker receives the next request and calls the handler with it.
Receive ==
  /\ ~stopped
  /\ worker = NoRequest
  /\ ch # << >>
  /\ worker' = Head(ch)
  /\ ch' = Tail(ch)
  /\ UNCHANGED <<pending, inflight, stopped>>

\* Mutation: a cluster leaves inflight without promoting what waits.
MarkDoneNoDispatch ==
  /\ worker # NoRequest
  /\ inflight' = inflight \ {worker.clusterID}
  /\ worker' = NoRequest
  /\ UNCHANGED <<ch, pending, stopped>>

\* markDone, deferred by the handler: it returns and the worker loops.
MarkDone ==
  /\ worker # NoRequest
  /\ Dispatch(ch, pending, inflight \ {worker.clusterID})
  /\ worker' = NoRequest
  /\ UNCHANGED stopped

\* Mutation: the loop ranges over the channel, which nobody closes.
StopOnClose == FALSE /\ UNCHANGED queueVars

\* Run: the worker sees ctx.Done() and leaves; queued requests stay behind.
Stop ==
  /\ ~stopped
  /\ worker = NoRequest
  /\ stopped' = TRUE
  /\ UNCHANGED <<ch, pending, inflight, worker>>
=============================================================================
