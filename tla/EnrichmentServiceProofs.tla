----------------------- MODULE EnrichmentServiceProofs -----------------------
(***************************************************************************)
(* Proofs about EnrichmentService, for any clusters, channel capacity and  *)
(* number of checks.                                                       *)
(***************************************************************************)
EXTENDS EnrichmentService, TLAPS

(***************************************************************************)
(* The queue's invariant as a relation between the values of its parts, so *)
(* that it can also be stated of the values in the middle of a method,     *)
(* before dispatchPendingLocked runs: q the channel, p the pending map, f  *)
(* the in-flight set, w the worker, a and s the history of accepted and    *)
(* started submissions.                                                    *)
(***************************************************************************)
OneEach(q, f, w) ==
  /\ \A i, j \in 1 .. Len(q) : q[i].clusterID = q[j].clusterID => i = j
  /\ w # NoRequest => \A i \in 1 .. Len(q) : q[i].clusterID # w.clusterID
  /\ \A c \in Clusters :
       c \in f <=> \/ \E i \in 1 .. Len(q) : q[i].clusterID = c
                   \/ w # NoRequest /\ w.clusterID = c

Newer(q, p, w, s) ==
  /\ \A i \in 1 .. Len(q) : s[q[i].clusterID] < q[i].generation
  /\ w # NoRequest => w.generation = s[w.clusterID]
  /\ \A c \in Clusters : p[c] # NoRequest =>
       /\ p[c].clusterID = c
       /\ s[c] < p[c].generation
       /\ \A i \in 1 .. Len(q) :
            q[i].clusterID = c => q[i].generation < p[c].generation

Newest(q, p, a, s) ==
  \A c \in Clusters :
    /\ p[c] # NoRequest => p[c].generation = a[c]
    /\ p[c] = NoRequest => \A i \in 1 .. Len(q) :
         q[i].clusterID = c => q[i].generation = a[c]
    /\ p[c] = NoRequest /\ (\A i \in 1 .. Len(q) : q[i].clusterID # c) =>
         s[c] = a[c]

Types(q, p, f, w, a, s) ==
  /\ q \in Seq(Request)
  /\ Len(q) <= Capacity
  /\ p \in [Clusters -> Request \cup {NoRequest}]
  /\ f \in SUBSET Clusters
  /\ w \in Request \cup {NoRequest}
  /\ a \in [Clusters -> Nat]
  /\ s \in [Clusters -> Nat]

QInv(q, p, f, w, a, s) ==
  /\ Types(q, p, f, w, a, s)
  /\ OneEach(q, f, w)
  /\ Newer(q, p, w, s)
  /\ Newest(q, p, a, s)

Counters ==
  /\ stopped \in BOOLEAN
  /\ ctxDone \in BOOLEAN
  /\ checkCounter \in [Clusters -> Nat]
  /\ Numbered

\* Requests and the elements of a channel are well typed.
LEMMA RequestFields ==
  ASSUME NEW r \in Request
  PROVE  r.clusterID \in Clusters /\ r.generation \in Nat
BY DEF Request

\* Whatever the worker can receive from q.ch is a request, by its position.
LEMMA ChannelElements ==
  ASSUME NEW q \in Seq(Request), NEW i \in 1 .. Len(q)
  PROVE  q[i] \in Request /\ q[i].clusterID \in Clusters /\ q[i].generation \in Nat
<1>1. q[i] \in Request
  OBVIOUS
<1>2. QED
  BY <1>1, RequestFields

\* The parts put together are the inductive invariant of EnrichmentService.
LEMMA Regroup ==
  IInv <=> /\ QInv(ch, pending, inflight, worker, accepted, started)
           /\ NoStranded
           /\ Counters
<1> USE DEF ClustersIn, WorkerClusters
<1>1. TypeOK <=> /\ Types(ch, pending, inflight, worker, accepted, started)
                 /\ stopped \in BOOLEAN
                 /\ ctxDone \in BOOLEAN
                 /\ checkCounter \in [Clusters -> Nat]
  BY DEF TypeOK, Types
<1>2. ASSUME Types(ch, pending, inflight, worker, accepted, started)
      PROVE  SingleWriter <=> OneEach(ch, inflight, worker)
  <2>1. \A i \in 1 .. Len(ch) : ch[i] \in Request /\ ch[i].clusterID \in Clusters
    BY <1>2, ChannelElements DEF Types
  <2>2. worker # NoRequest => worker.clusterID \in Clusters
    BY <1>2, RequestFields DEF Types
  <2>3. inflight \subseteq Clusters
    BY <1>2 DEF Types
  <2>4. QED
    BY <2>1, <2>2, <2>3 DEF SingleWriter, OneEach
<1>3. InOrder <=> Newer(ch, pending, worker, started)
  BY DEF InOrder, Newer
<1>4. NewestKept <=> Newest(ch, pending, accepted, started)
  BY DEF NewestKept, Newest
<1>5. QED
  BY <1>1, <1>2, <1>3, <1>4 DEF IInv, QInv, Counters

-----------------------------------------------------------------------------
(***************************************************************************)
(* What dispatchPendingLocked does, index by index: the promoted clusters  *)
(* P leave pending, and their requests, one for each, follow what was in   *)
(* the channel.                                                            *)
(***************************************************************************)
Promotes(q, p, f, P) ==
  /\ P \subseteq Waiting(p, f)
  /\ pending' = [c \in Clusters |-> IF c \in P THEN NoRequest ELSE p[c]]
  /\ inflight' = f \cup P
  /\ ch' \in Seq(Request)
  /\ Len(q) <= Len(ch') /\ Len(ch') <= Capacity
  /\ \A i \in 1 .. Len(q) : ch'[i] = q[i]
  /\ \A i \in Len(q) + 1 .. Len(ch') :
       /\ ch'[i].clusterID \in P
       /\ ch'[i] = p[ch'[i].clusterID]
  /\ \A c \in P : \E i \in Len(q) + 1 .. Len(ch') : ch'[i] = p[c]
  /\ \A i, j \in Len(q) + 1 .. Len(ch') :
       ch'[i].clusterID = ch'[j].clusterID => i = j
  /\ Len(ch') = Capacity \/ P = Waiting(p, f)

\* One run of dispatchPendingLocked promotes some set of waiting clusters, each
\* once, behind the requests that were in the channel.
LEMMA DispatchEffect ==
  ASSUME NEW q, NEW p, NEW f,
         q \in Seq(Request), Len(q) <= Capacity,
         p \in [Clusters -> Request \cup {NoRequest}],
         \A c \in Clusters : p[c] # NoRequest => p[c].clusterID = c,
         Dispatch(q, p, f)
  PROVE  \E P : Promotes(q, p, f, P)
<1>1. PICK k, order :
        /\ k \in 0 .. (Capacity - Len(q))
        /\ order \in [1 .. k -> Waiting(p, f)]
        /\ \A i, j \in 1 .. k : i # j => order[i] # order[j]
        /\ \/ k = Capacity - Len(q)
           \/ {order[i] : i \in 1 .. k} = Waiting(p, f)
        /\ ch' = q \o [i \in 1 .. k |-> p[order[i]]]
        /\ pending' = [c \in Clusters |->
                         IF c \in {order[i] : i \in 1 .. k} THEN NoRequest ELSE p[c]]
        /\ inflight' = f \cup {order[i] : i \in 1 .. k}
  <2>1. Promotable(p, f) = Waiting(p, f) /\ Room(q) = Capacity - Len(q)
    BY DEF Promotable, Room
  <2>2. QED
    BY <2>1 DEF Dispatch, Remaining
<1> DEFINE P == {order[i] : i \in 1 .. k}
           t == [i \in 1 .. k |-> p[order[i]]]
<1>2. /\ Len(q) \in Nat /\ k \in Nat /\ Capacity \in Nat
      /\ Len(q) + k <= Capacity
  BY <1>1, CapacityAssumption
<1>3. \A i \in 1 .. k :
        /\ order[i] \in Waiting(p, f)
        /\ p[order[i]] \in Request
        /\ p[order[i]].clusterID = order[i]
  BY <1>1 DEF Waiting
<1>4. t \in Seq(Request) /\ Len(t) = k
  BY <1>2, <1>3
<1>5. /\ ch' \in Seq(Request)
      /\ Len(ch') = Len(q) + k
      /\ \A i \in 1 .. Len(q) : ch'[i] = q[i]
  BY <1>1, <1>2, <1>4
<1>6. \A i \in Len(q) + 1 .. Len(ch') :
        /\ i - Len(q) \in 1 .. k
        /\ ch'[i] = p[order[i - Len(q)]]
  BY <1>1, <1>2, <1>4, <1>5
<1>7. \A i \in Len(q) + 1 .. Len(ch') :
        /\ ch'[i].clusterID = order[i - Len(q)]
        /\ ch'[i].clusterID \in P
        /\ ch'[i] = p[ch'[i].clusterID]
  BY <1>3, <1>6
<1>8. \A c \in P : \E i \in Len(q) + 1 .. Len(ch') : ch'[i] = p[c]
  <2> TAKE c \in P
  <2>1. PICK n \in 1 .. k : c = order[n]
    OBVIOUS
  <2>2. Len(q) + n \in Len(q) + 1 .. Len(ch') /\ (Len(q) + n) - Len(q) = n
    BY <1>2, <1>5
  <2>3. QED
    BY <2>1, <2>2, <1>6
<1>9. \A i, j \in Len(q) + 1 .. Len(ch') :
        ch'[i].clusterID = ch'[j].clusterID => i = j
  <2> TAKE i, j \in Len(q) + 1 .. Len(ch')
  <2>1. i - Len(q) \in 1 .. k /\ j - Len(q) \in 1 .. k
    BY <1>6
  <2>2. ASSUME ch'[i].clusterID = ch'[j].clusterID
        PROVE  i - Len(q) = j - Len(q)
    <3>1. \A m, n \in 1 .. k : order[m] = order[n] => m = n
      BY <1>1
    <3>2. order[i - Len(q)] = order[j - Len(q)]
      BY <2>2, <1>7
    <3>3. QED
      BY <2>1, <3>1, <3>2
  <2>3. QED
    BY <2>2, <1>2, <1>5
<1>10. P \subseteq Waiting(p, f)
  BY <1>3
<1>11. Len(ch') = Capacity \/ P = Waiting(p, f)
  BY <1>1, <1>2, <1>5
<1>12. Len(q) <= Len(ch') /\ Len(ch') <= Capacity
  BY <1>2, <1>5
<1>13. Promotes(q, p, f, P)
  BY <1>1, <1>5, <1>7, <1>8, <1>9, <1>10, <1>11, <1>12 DEF Promotes
<1>14. QED
  BY <1>13

\* When the values before dispatchPendingLocked satisfy the invariant, those
\* after it do, and no free request is left while the channel has room.
LEMMA DispatchKeeps ==
  ASSUME NEW q, NEW p, NEW f, NEW w, NEW a, NEW s,
         QInv(q, p, f, w, a, s),
         Dispatch(q, p, f)
  PROVE  /\ QInv(ch', pending', inflight', w, a, s)
         /\ Waiting(pending', inflight') = {} \/ Len(ch') = Capacity
<1>1. /\ q \in Seq(Request) /\ Len(q) <= Capacity
      /\ p \in [Clusters -> Request \cup {NoRequest}]
      /\ f \in SUBSET Clusters
      /\ w \in Request \cup {NoRequest}
      /\ a \in [Clusters -> Nat] /\ s \in [Clusters -> Nat]
  BY DEF QInv, Types
<1>2. PICK P : Promotes(q, p, f, P)
  BY <1>1, DispatchEffect DEF QInv, Newer
<1> DEFINE Old == 1 .. Len(q)
           New == Len(q) + 1 .. Len(ch')
<1>3. /\ Len(q) \in Nat /\ Len(ch') \in Nat /\ Len(q) <= Len(ch')
      /\ ch' \in Seq(Request)
  BY <1>1, <1>2 DEF Promotes
<1>4. 1 .. Len(ch') = Old \cup New
  BY <1>3
<1>5. /\ \A i \in Old : ch'[i] = q[i]
      /\ \A i \in New : ch'[i].clusterID \in P /\ ch'[i] = p[ch'[i].clusterID]
      /\ \A c \in P : \E i \in New : ch'[i] = p[c]
      /\ \A i, j \in New : ch'[i].clusterID = ch'[j].clusterID => i = j
  BY <1>2 DEF Promotes
<1>6. \A c \in P : /\ c \in Clusters /\ c \notin f
                   /\ p[c] \in Request /\ p[c].clusterID = c
  BY <1>1, <1>2 DEF Promotes, Waiting, QInv, Newer
<1>7. \A c \in P : (\A i \in Old : q[i].clusterID # c)
                   /\ (w # NoRequest => w.clusterID # c)
  BY <1>6 DEF QInv, OneEach
<1>8. pending' = [c \in Clusters |-> IF c \in P THEN NoRequest ELSE p[c]]
      /\ inflight' = f \cup P
  BY <1>2 DEF Promotes
<1>9. Types(ch', pending', inflight', w, a, s)
  BY <1>1, <1>2, <1>3, <1>6, <1>8 DEF Types, Promotes
<1>10. OneEach(ch', inflight', w)
  <2>1. ASSUME NEW i \in 1 .. Len(ch'), NEW j \in 1 .. Len(ch'),
               ch'[i].clusterID = ch'[j].clusterID
        PROVE  i = j
    <3>1. CASE i \in Old /\ j \in Old
      BY <2>1, <3>1, <1>5 DEF QInv, OneEach
    <3>2. CASE i \in New /\ j \in New
      BY <2>1, <3>2, <1>5
    <3>3. CASE (i \in Old /\ j \in New) \/ (i \in New /\ j \in Old)
      BY <2>1, <3>3, <1>5, <1>7
    <3>4. QED
      BY <3>1, <3>2, <3>3, <1>4
  <2>2. ASSUME w # NoRequest, NEW i \in 1 .. Len(ch')
        PROVE  ch'[i].clusterID # w.clusterID
    <3>1. CASE i \in Old
      BY <2>2, <3>1, <1>5 DEF QInv, OneEach
    <3>2. CASE i \in New
      BY <2>2, <3>2, <1>5, <1>7
    <3>3. QED
      BY <3>1, <3>2, <1>4
  <2>3. ASSUME NEW c \in Clusters
        PROVE  c \in inflight' <=> \/ \E i \in 1 .. Len(ch') : ch'[i].clusterID = c
                                   \/ w # NoRequest /\ w.clusterID = c
    <3>1. c \in f <=> \/ \E i \in Old : ch'[i].clusterID = c
                      \/ w # NoRequest /\ w.clusterID = c
      BY <1>5 DEF QInv, OneEach
    <3>2. c \in P <=> \E i \in New : ch'[i].clusterID = c
      BY <1>5, <1>6
    <3>3. QED
      BY <3>1, <3>2, <1>4, <1>8
  <2>4. QED
    BY <2>1, <2>2, <2>3 DEF OneEach
<1>11. Newer(ch', pending', w, s)
  <2>1. \A i \in 1 .. Len(ch') : s[ch'[i].clusterID] < ch'[i].generation
    <3>1. \A i \in Old : s[ch'[i].clusterID] < ch'[i].generation
      BY <1>5 DEF QInv, Newer
    <3>2. \A c \in P : s[c] < p[c].generation
      BY <1>6, NoRequestAssumption DEF QInv, Newer, Request
    <3>3. QED
      BY <3>1, <3>2, <1>4, <1>5
  <2>2. w # NoRequest => w.generation = s[w.clusterID]
    BY DEF QInv, Newer
  <2>3. ASSUME NEW c \in Clusters, pending'[c] # NoRequest
        PROVE  /\ pending'[c].clusterID = c
               /\ s[c] < pending'[c].generation
               /\ \A i \in 1 .. Len(ch') :
                    ch'[i].clusterID = c => ch'[i].generation < pending'[c].generation
    <3>1. c \notin P /\ pending'[c] = p[c]
      BY <2>3, <1>8
    <3>2. \A i \in New : ch'[i].clusterID # c
      BY <3>1, <1>5
    <3>3. QED
      BY <2>3, <3>1, <3>2, <1>4, <1>5 DEF QInv, Newer
  <2>4. QED
    BY <2>1, <2>2, <2>3 DEF Newer
<1>12. Newest(ch', pending', a, s)
  <2> SUFFICES ASSUME NEW c \in Clusters
               PROVE  /\ pending'[c] # NoRequest => pending'[c].generation = a[c]
                      /\ pending'[c] = NoRequest => \A i \in 1 .. Len(ch') :
                           ch'[i].clusterID = c => ch'[i].generation = a[c]
                      /\ pending'[c] = NoRequest
                         /\ (\A i \in 1 .. Len(ch') : ch'[i].clusterID # c) =>
                           s[c] = a[c]
    BY DEF Newest
  <2>1. CASE c \in P
    <3>1. pending'[c] = NoRequest
      BY <2>1, <1>8
    <3>2. p[c] # NoRequest /\ p[c].generation = a[c]
      BY <2>1, <1>6, NoRequestAssumption DEF QInv, Newest, Request
    <3>3. \A i \in 1 .. Len(ch') : ch'[i].clusterID = c => i \in New
      BY <2>1, <1>4, <1>5, <1>7
    <3>4. \E i \in 1 .. Len(ch') : ch'[i].clusterID = c
      BY <2>1, <1>4, <1>5, <1>6
    <3>5. QED
      BY <3>1, <3>2, <3>3, <3>4, <1>5
  <2>2. CASE c \notin P
    <3>1. pending'[c] = p[c]
      BY <2>2, <1>8
    <3>2. \A i \in New : ch'[i].clusterID # c
      BY <2>2, <1>5
    <3>3. QED
      BY <3>1, <3>2, <1>4, <1>5 DEF QInv, Newest
  <2>3. QED
    BY <2>1, <2>2
<1>13. Waiting(pending', inflight') = {} \/ Len(ch') = Capacity
  BY <1>2, <1>8 DEF Promotes, Waiting
<1>14. QED
  BY <1>9, <1>10, <1>11, <1>12, <1>13 DEF QInv

-----------------------------------------------------------------------------
\* A queue as NewEnrichmentQueue makes it, before any check, has the invariant.
LEMMA InitInv == Init => IInv
<1> SUFFICES ASSUME Init PROVE IInv
  OBVIOUS
<1> USE DEF Init, QueueInit
<1>1. QInv(ch, pending, inflight, worker, accepted, started)
  BY CapacityAssumption DEF QInv, Types, OneEach, Newer, Newest
<1>2. NoStranded
  BY DEF NoStranded, Waiting
<1>3. Counters
  <2>1. stopped \in BOOLEAN /\ ctxDone \in BOOLEAN
    OBVIOUS
  <2>2. checkCounter \in [Clusters -> Nat] /\ Numbered
    BY DEF Numbered
  <2>3. QED
    BY <2>1, <2>2 DEF Counters
<1>4. QED
  BY <1>1, <1>2, <1>3, Regroup

\* The request a check of cluster c submits.
Req(c) == [clusterID |-> c, generation |-> checkCounter[c] + 1]

\* Putting a newer request of a cluster in pending keeps the queue's invariant,
\* provided that the cluster has a request in the service already.
LEMMA PendingReplaced ==
  ASSUME QInv(ch, pending, inflight, worker, accepted, started), Counters,
         NEW c \in Clusters,
         accepted' = [accepted EXCEPT ![c] = checkCounter[c] + 1]
  PROVE  QInv(ch, [pending EXCEPT ![c] = Req(c)], inflight, worker, accepted', started)
<1> DEFINE p == [pending EXCEPT ![c] = Req(c)]
<1>1. Types(ch, pending, inflight, worker, accepted, started)
      /\ checkCounter[c] \in Nat /\ accepted[c] \in Nat /\ started[c] \in Nat
      /\ started[c] <= accepted[c] /\ accepted[c] <= checkCounter[c]
  BY DEF QInv, Counters, Numbered, Types
<1>2. /\ Req(c) \in Request /\ Req(c) # NoRequest
      /\ Req(c).clusterID = c /\ Req(c).generation = checkCounter[c] + 1
  BY <1>1, NoRequestAssumption DEF Req, Request
<1>3. /\ p[c] = Req(c) /\ \A d \in Clusters \ {c} : p[d] = pending[d]
      /\ accepted'[c] = checkCounter[c] + 1
      /\ \A d \in Clusters \ {c} : accepted'[d] = accepted[d]
  BY <1>1 DEF Types
<1>4. Types(ch, p, inflight, worker, accepted', started)
  BY <1>1, <1>2 DEF Types
<1>5. \A i \in 1 .. Len(ch) :
        ch[i].clusterID = c => ch[i].generation < checkCounter[c] + 1
  <2> SUFFICES ASSUME NEW i \in 1 .. Len(ch), ch[i].clusterID = c
               PROVE  ch[i].generation <= accepted[c]
    BY <1>1, ChannelElements DEF Types
  <2>1. CASE pending[c] = NoRequest
    BY <2>1, <1>1, ChannelElements DEF QInv, Newest, Types
  <2>2. CASE pending[c] # NoRequest
    <3>1. pending[c] \in Request /\ pending[c].generation \in Nat
      BY <2>2, <1>1, RequestFields DEF Types
    <3>2. ch[i].generation < pending[c].generation /\ pending[c].generation = accepted[c]
      BY <2>2 DEF QInv, Newer, Newest
    <3>3. QED
      BY <3>1, <3>2, <1>1, ChannelElements DEF Types
  <2>3. QED
    BY <2>1, <2>2
<1>6. Newer(ch, p, worker, started)
  BY <1>1, <1>2, <1>3, <1>5 DEF QInv, Newer
<1>7. Newest(ch, p, accepted', started)
  BY <1>2, <1>3 DEF QInv, Newest
<1>8. QED
  BY <1>4, <1>6, <1>7 DEF QInv

\* Enqueue's first branch (the cluster is in flight) keeps the invariant.
LEMMA CoalesceStep ==
  ASSUME IInv, NEW c \in Clusters, Coalesce(Req(c)),
         checkCounter' = [checkCounter EXCEPT ![c] = @ + 1],
         accepted' = [accepted EXCEPT ![c] = checkCounter[c] + 1],
         UNCHANGED <<ctxDone, started>>
  PROVE  IInv'
<1>1. QInv(ch, pending, inflight, worker, accepted, started) /\ Counters /\ NoStranded
  BY Regroup
<1>2. /\ c \in inflight
      /\ pending' = [pending EXCEPT ![c] = Req(c)]
      /\ UNCHANGED <<ch, inflight, worker, stopped>>
  BY DEF Coalesce, Req
<1>3. QInv(ch, pending, inflight, worker, accepted, started)'
  BY <1>1, <1>2, PendingReplaced
<1>4. Waiting(pending', inflight') = Waiting(pending, inflight)
  BY <1>1, <1>2 DEF Waiting, QInv, Types
<1>5. NoStranded'
  BY <1>1, <1>2, <1>4 DEF NoStranded
<1>6. Counters'
  BY <1>1, <1>2 DEF Counters, Numbered, QInv, Types
<1>7. QED
  BY <1>3, <1>5, <1>6, Regroup, PTL

\* Enqueue's second branch (the cluster is pending, dispatchPendingLocked runs)
\* keeps the invariant.
LEMMA ReplacePendingStep ==
  ASSUME IInv, NEW c \in Clusters, ReplacePending(Req(c)),
         checkCounter' = [checkCounter EXCEPT ![c] = @ + 1],
         accepted' = [accepted EXCEPT ![c] = checkCounter[c] + 1],
         UNCHANGED <<ctxDone, started>>
  PROVE  IInv'
<1>1. QInv(ch, pending, inflight, worker, accepted, started) /\ Counters
  BY Regroup
<1>2. /\ Dispatch(ch, [pending EXCEPT ![c] = Req(c)], inflight)
      /\ UNCHANGED <<worker, stopped>>
  BY DEF ReplacePending, Req
<1>3. QInv(ch, [pending EXCEPT ![c] = Req(c)], inflight, worker, accepted', started)
  BY <1>1, PendingReplaced
<1>4. /\ QInv(ch', pending', inflight', worker, accepted', started)
      /\ Waiting(pending', inflight') = {} \/ Len(ch') = Capacity
  BY <1>2, <1>3, DispatchKeeps
<1>5. QInv(ch, pending, inflight, worker, accepted, started)'
  BY <1>2, <1>4
<1>6. NoStranded'
  BY <1>4 DEF NoStranded
<1>7. Counters'
  BY <1>1, <1>2 DEF Counters, Numbered, QInv, Types
<1>8. QED
  BY <1>5, <1>6, <1>7, Regroup, PTL

\* Enqueue's third branch (straight into the channel) keeps the invariant.
LEMMA SendStep ==
  ASSUME IInv, NEW c \in Clusters, Send(Req(c)),
         checkCounter' = [checkCounter EXCEPT ![c] = @ + 1],
         accepted' = [accepted EXCEPT ![c] = checkCounter[c] + 1],
         UNCHANGED <<ctxDone, started>>
  PROVE  IInv'
<1>1. QInv(ch, pending, inflight, worker, accepted, started) /\ Counters /\ NoStranded
  BY Regroup
<1>2. Types(ch, pending, inflight, worker, accepted, started)
      /\ checkCounter[c] \in Nat /\ accepted[c] \in Nat /\ started[c] \in Nat
      /\ started[c] <= accepted[c] /\ accepted[c] <= checkCounter[c]
  BY <1>1 DEF QInv, Counters, Numbered, Types
<1>3. /\ Req(c) \in Request /\ Req(c) # NoRequest
      /\ Req(c).clusterID = c /\ Req(c).generation = checkCounter[c] + 1
  BY <1>2, NoRequestAssumption DEF Req, Request
<1>4. /\ c \notin inflight /\ pending[c] = NoRequest /\ Len(ch) < Capacity
      /\ ch' = Append(ch, Req(c))
      /\ inflight' = inflight \cup {c}
      /\ UNCHANGED <<pending, worker, stopped, started>>
  BY <1>3 DEF Send
<1>5. /\ Len(ch) \in Nat /\ Len(ch') = Len(ch) + 1 /\ ch' \in Seq(Request)
      /\ \A i \in 1 .. Len(ch) : ch'[i] = ch[i]
      /\ ch'[Len(ch) + 1] = Req(c)
      /\ 1 .. Len(ch') = (1 .. Len(ch)) \cup {Len(ch) + 1}
  BY <1>2, <1>3, <1>4 DEF Types
<1>6. \A i \in 1 .. Len(ch) : ch[i].clusterID # c
  BY <1>1, <1>4 DEF QInv, OneEach
<1>7. worker # NoRequest => worker.clusterID # c
  BY <1>1, <1>4 DEF QInv, OneEach
<1>8. \A d \in Clusters \ {c} : accepted'[d] = accepted[d]
  BY <1>2 DEF Types
<1>9. accepted'[c] = checkCounter[c] + 1 /\ accepted' \in [Clusters -> Nat]
  BY <1>2 DEF Types
<1>10. Types(ch, pending, inflight, worker, accepted, started)'
  BY <1>2, <1>4, <1>5, <1>9, CapacityAssumption DEF Types
<1>11. OneEach(ch, inflight, worker)'
  BY <1>1, <1>3, <1>4, <1>5, <1>6, <1>7 DEF OneEach, QInv
<1>12. Newer(ch, pending, worker, started)'
  <2>1. \A i \in 1 .. Len(ch') : started[ch'[i].clusterID] < ch'[i].generation
    BY <1>1, <1>2, <1>3, <1>5 DEF QInv, Newer
  <2>2. \A d \in Clusters : pending[d] # NoRequest =>
          \A i \in 1 .. Len(ch') :
            ch'[i].clusterID = d => ch'[i].generation < pending[d].generation
    BY <1>1, <1>3, <1>4, <1>5 DEF QInv, Newer
  <2>3. QED
    BY <2>1, <2>2, <1>1, <1>4 DEF QInv, Newer
<1>13. Newest(ch, pending, accepted, started)'
  <2> SUFFICES ASSUME NEW d \in Clusters
               PROVE  /\ pending[d] # NoRequest => pending[d].generation = accepted'[d]
                      /\ pending[d] = NoRequest => \A i \in 1 .. Len(ch') :
                           ch'[i].clusterID = d => ch'[i].generation = accepted'[d]
                      /\ pending[d] = NoRequest
                         /\ (\A i \in 1 .. Len(ch') : ch'[i].clusterID # d) =>
                           started[d] = accepted'[d]
    BY <1>4 DEF Newest
  <2>1. CASE d = c
    BY <2>1, <1>3, <1>4, <1>5, <1>6, <1>9
  <2>2. CASE d # c
    BY <2>2, <1>1, <1>3, <1>5, <1>8 DEF QInv, Newest
  <2>3. QED
    BY <2>1, <2>2
<1>14. NoStranded'
  BY <1>1, <1>2, <1>4 DEF NoStranded, Waiting, Types
<1>15. Counters'
  BY <1>1, <1>2, <1>4 DEF Counters, Numbered, Types
<1>16. QED
  BY <1>10, <1>11, <1>12, <1>13, <1>14, <1>15, Regroup, PTL DEF QInv

\* A check that numbers and enqueues its request keeps the invariant, also when
\* the full queue refuses it.
LEMMA SubmitStep ==
  ASSUME IInv, NEW c \in Clusters, Submit(c)
  PROVE  IInv'
<1>1. CASE Coalesce(Req(c)) \/ ReplacePending(Req(c)) \/ Send(Req(c))
  <2>1. accepted' = [accepted EXCEPT ![c] = checkCounter[c] + 1]
    <3>1. ASSUME EnqueueFull(Req(c)) PROVE FALSE
      <4>1. Capacity \in Nat /\ Len(ch) = Capacity /\ c \notin inflight
            /\ pending[c] = NoRequest
        BY <3>1, CapacityAssumption DEF EnqueueFull, Req
      <4>2. ~Coalesce(Req(c)) /\ ~ReplacePending(Req(c)) /\ ~Send(Req(c))
        BY <4>1 DEF Coalesce, ReplacePending, Send, Req
      <4>3. QED
        BY <4>2, <1>1
    <3>2. QED
      BY <3>1 DEF Submit, Req
  <2>2. QED
    BY <1>1, <2>1, CoalesceStep, ReplacePendingStep, SendStep DEF Submit
<1>2. CASE EnqueueFull(Req(c)) /\ UNCHANGED accepted
  <2>1. UNCHANGED <<ch, pending, inflight, worker, stopped, accepted, ctxDone, started>>
        /\ checkCounter' = [checkCounter EXCEPT ![c] = @ + 1]
    BY <1>2 DEF EnqueueFull, queueVars, Submit
  <2>2. QInv(ch, pending, inflight, worker, accepted, started)'
        /\ NoStranded'
    BY <2>1, Regroup DEF NoStranded
  <2>3. Counters'
    BY <2>1, Regroup DEF Counters, Numbered, QInv, Types
  <2>4. QED
    BY <2>2, <2>3, Regroup, PTL
<1>3. QED
  BY <1>1, <1>2 DEF Submit, Enqueue, Req

\* The worker's receive keeps the invariant: the channel is in order, so what the
\* handler starts is newer than what it handled before.
LEMMA StartHandlerStep ==
  ASSUME IInv, StartHandler
  PROVE  IInv'
<1>1. QInv(ch, pending, inflight, worker, accepted, started) /\ Counters
      /\ Types(ch, pending, inflight, worker, accepted, started)
  BY Regroup DEF QInv
<1> DEFINE r == ch[1]
<1>2. /\ worker = NoRequest /\ ch # << >>
      /\ worker' = r /\ ch' = Tail(ch)
      /\ started' = [started EXCEPT ![r.clusterID] = r.generation]
      /\ UNCHANGED <<pending, inflight, stopped, checkCounter, ctxDone, accepted>>
  <2>1. worker = NoRequest /\ ch # << >> /\ worker' = Head(ch) /\ ch' = Tail(ch)
        /\ started' = [started EXCEPT ![Head(ch).clusterID] = Head(ch).generation]
        /\ UNCHANGED <<pending, inflight, stopped, checkCounter, ctxDone, accepted>>
    BY DEF StartHandler, Receive
  <2>2. Head(ch) = r
    BY <1>1, <2>1 DEF Types
  <2>3. QED
    BY <2>1, <2>2
<1>3. /\ Len(ch) \in Nat /\ Len(ch) >= 1 /\ Len(ch') = Len(ch) - 1
      /\ ch' \in Seq(Request) /\ Capacity \in Nat
      /\ \A i \in 1 .. Len(ch') : i + 1 \in 1 .. Len(ch) /\ ch'[i] = ch[i + 1]
      /\ \A i \in 1 .. Len(ch) : i # 1 => i - 1 \in 1 .. Len(ch') /\ ch'[i - 1] = ch[i]
      /\ 1 \in 1 .. Len(ch)
  BY <1>1, <1>2, CapacityAssumption DEF Types
<1>4. /\ r \in Request /\ r # NoRequest
      /\ r.clusterID \in Clusters /\ r.generation \in Nat
  <2>1. r \in Request
    BY <1>1, <1>3 DEF Types
  <2>2. QED
    BY <2>1, RequestFields, NoRequestAssumption DEF Request
<1>5. \A i \in 1 .. Len(ch') : ch'[i].clusterID # r.clusterID
  <2> TAKE i \in 1 .. Len(ch')
  <2>1. i + 1 # 1 /\ i + 1 \in 1 .. Len(ch) /\ ch'[i] = ch[i + 1]
    BY <1>3
  <2>2. QED
    BY <2>1, <1>1, <1>3 DEF QInv, OneEach
<1>6. /\ started' \in [Clusters -> Nat]
      /\ started'[r.clusterID] = r.generation
      /\ \A d \in Clusters : d # r.clusterID => started'[d] = started[d]
  BY <1>1, <1>2, <1>4 DEF Types
<1>7. Types(ch, pending, inflight, worker, accepted, started)'
  BY <1>1, <1>2, <1>3, <1>4, <1>6 DEF Types
<1>8. OneEach(ch, inflight, worker)'
  <2>1. ASSUME NEW i \in 1 .. Len(ch'), NEW j \in 1 .. Len(ch'),
               ch'[i].clusterID = ch'[j].clusterID
        PROVE  i = j
    <3>1. i + 1 = j + 1
      BY <2>1, <1>1, <1>3 DEF QInv, OneEach
    <3>2. QED
      BY <3>1, <1>3
  <2>2. ASSUME NEW c \in Clusters
        PROVE  (\E i \in 1 .. Len(ch) : ch[i].clusterID = c)
               <=> \/ \E i \in 1 .. Len(ch') : ch'[i].clusterID = c
                   \/ r.clusterID = c
    BY <1>3
  <2>3. \A c \in Clusters :
          c \in inflight' <=> \/ \E i \in 1 .. Len(ch') : ch'[i].clusterID = c
                              \/ worker' # NoRequest /\ worker'.clusterID = c
    BY <2>2, <1>1, <1>2, <1>4 DEF QInv, OneEach
  <2>4. QED
    BY <2>1, <2>3, <1>2, <1>5 DEF OneEach
<1>9. Newer(ch, pending, worker, started)'
  <2>1. ASSUME NEW i \in 1 .. Len(ch')
        PROVE  started'[ch'[i].clusterID] < ch'[i].generation
    <3>1. ch'[i].clusterID \in Clusters
      BY <1>3, ChannelElements
    <3>2. QED
      BY <3>1, <1>1, <1>3, <1>5, <1>6 DEF QInv, Newer
  <2>2. ASSUME NEW c \in Clusters, pending[c] # NoRequest
        PROVE  /\ pending[c].clusterID = c
               /\ started'[c] < pending[c].generation
               /\ \A i \in 1 .. Len(ch') :
                    ch'[i].clusterID = c => ch'[i].generation < pending[c].generation
    <3>1. pending[c].clusterID = c /\ started[c] < pending[c].generation
          /\ \A i \in 1 .. Len(ch) :
               ch[i].clusterID = c => ch[i].generation < pending[c].generation
      BY <2>2, <1>1 DEF QInv, Newer
    <3>2. started'[c] < pending[c].generation
      BY <3>1, <1>3, <1>6
    <3>3. QED
      BY <3>1, <3>2, <1>3
  <2>3. QED
    BY <2>1, <2>2, <1>2, <1>6 DEF Newer
<1>10. Newest(ch, pending, accepted, started)'
  <2> SUFFICES ASSUME NEW c \in Clusters
               PROVE  /\ pending[c] # NoRequest => pending[c].generation = accepted[c]
                      /\ pending[c] = NoRequest => \A i \in 1 .. Len(ch') :
                           ch'[i].clusterID = c => ch'[i].generation = accepted[c]
                      /\ pending[c] = NoRequest
                         /\ (\A i \in 1 .. Len(ch') : ch'[i].clusterID # c) =>
                           started'[c] = accepted[c]
    BY <1>2 DEF Newest
  <2>1. pending[c] # NoRequest => pending[c].generation = accepted[c]
    BY <1>1 DEF QInv, Newest
  <2>2. pending[c] = NoRequest => \A i \in 1 .. Len(ch) :
          ch[i].clusterID = c => ch[i].generation = accepted[c]
    BY <1>1 DEF QInv, Newest
  <2>3. CASE c = r.clusterID
    BY <2>1, <2>2, <2>3, <1>3, <1>6
  <2>4. CASE c # r.clusterID
    <3>1. (\A i \in 1 .. Len(ch') : ch'[i].clusterID # c)
          => \A i \in 1 .. Len(ch) : ch[i].clusterID # c
      BY <2>4, <1>3
    <3>2. started'[c] = started[c]
      BY <2>4, <1>6
    <3>3. pending[c] = NoRequest => \A i \in 1 .. Len(ch') :
            ch'[i].clusterID = c => ch'[i].generation = accepted[c]
      BY <2>2, <1>3
    <3>4. pending[c] = NoRequest /\ (\A i \in 1 .. Len(ch) : ch[i].clusterID # c)
          => started[c] = accepted[c]
      BY <1>1 DEF QInv, Newest
    <3>5. QED
      BY <2>1, <3>1, <3>2, <3>3, <3>4
  <2>5. QED
    BY <2>3, <2>4
<1>11. NoStranded'
  BY <1>2, <1>4 DEF NoStranded
<1>12. Counters'
  <2>1. r.generation <= accepted[r.clusterID]
    <3>1. CASE pending[r.clusterID] = NoRequest
      BY <3>1, <1>1, <1>3, <1>4 DEF QInv, Newest
    <3>2. CASE pending[r.clusterID] # NoRequest
      <4>1. pending[r.clusterID].generation = accepted[r.clusterID]
            /\ r.generation < pending[r.clusterID].generation
        BY <3>2, <1>1, <1>3, <1>4 DEF QInv, Newest, Newer
      <4>2. accepted[r.clusterID] \in Nat
        BY <1>1, <1>4 DEF Types
      <4>3. QED
        BY <4>1, <4>2, <1>4
    <3>3. QED
      BY <3>1, <3>2
  <2>2. Numbered'
    BY <2>1, <1>1, <1>2, <1>6 DEF Counters, Numbered
  <2>3. QED
    BY <2>2, <1>1, <1>2 DEF Counters
<1>13. QED
  BY <1>7, <1>8, <1>9, <1>10, <1>11, <1>12, Regroup, PTL DEF QInv

\* markDone keeps the invariant and leaves no free request stranded.
LEMMA FinishHandlerStep ==
  ASSUME IInv, FinishHandler
  PROVE  IInv'
<1>1. QInv(ch, pending, inflight, worker, accepted, started) /\ Counters
  BY Regroup
<1> DEFINE f == inflight \ {worker.clusterID}
<1>2. /\ worker # NoRequest
      /\ Dispatch(ch, pending, f)
      /\ worker' = NoRequest
      /\ UNCHANGED <<stopped, checkCounter, ctxDone, accepted, started>>
  BY DEF FinishHandler, MarkDone
<1>3. QInv(ch, pending, f, NoRequest, accepted, started)
  <2>1. Types(ch, pending, f, NoRequest, accepted, started)
    BY <1>1 DEF QInv, Types
  <2>2. OneEach(ch, f, NoRequest)
    BY <1>1, <1>2 DEF QInv, OneEach
  <2>3. Newer(ch, pending, NoRequest, started)
    BY <1>1 DEF QInv, Newer
  <2>4. QED
    BY <2>1, <2>2, <2>3, <1>1 DEF QInv
<1>4. /\ QInv(ch', pending', inflight', NoRequest, accepted, started)
      /\ Waiting(pending', inflight') = {} \/ Len(ch') = Capacity
  BY <1>2, <1>3, DispatchKeeps
<1>5. QInv(ch, pending, inflight, worker, accepted, started)' /\ NoStranded'
  BY <1>2, <1>4 DEF NoStranded
<1>6. Counters'
  BY <1>1, <1>2 DEF Counters, Numbered
<1>7. QED
  BY <1>5, <1>6, Regroup, PTL

\* Steps that leave the queue and the counters alone.
LEMMA QuietStep ==
  ASSUME IInv, stopped' \in BOOLEAN, ctxDone' \in BOOLEAN,
         UNCHANGED <<ch, pending, inflight, worker, checkCounter, accepted, started>>
  PROVE  IInv'
<1>1. QInv(ch, pending, inflight, worker, accepted, started)' /\ NoStranded'
  BY Regroup DEF NoStranded
<1>2. Counters'
  BY Regroup DEF Counters, Numbered
<1>3. QED
  BY <1>1, <1>2, Regroup, PTL

\* Every step of the service keeps the invariant.
LEMMA NextInv == IInv /\ [Next]_vars => IInv'
<1> SUFFICES ASSUME IInv, [Next]_vars PROVE IInv'
  OBVIOUS
<1>1. stopped \in BOOLEAN /\ ctxDone \in BOOLEAN
  BY DEF IInv, TypeOK
<1>2. ASSUME NEW c \in Clusters, Submit(c) PROVE IInv'
  BY <1>2, SubmitStep
<1>3. CASE StartHandler
  BY <1>3, StartHandlerStep
<1>4. CASE FinishHandler
  BY <1>4, FinishHandlerStep
<1>5. CASE Cancel
  <2>1. ctxDone' \in BOOLEAN /\ stopped' \in BOOLEAN
    BY <1>5, <1>1 DEF Cancel
  <2>2. QED
    BY <2>1, <1>5, QuietStep DEF Cancel
<1>6. CASE StopWorker
  <2>1. ctxDone' \in BOOLEAN /\ stopped' \in BOOLEAN
    BY <1>6, <1>1 DEF StopWorker, Stop
  <2>2. QED
    BY <2>1, <1>6, QuietStep DEF StopWorker, Stop
<1>7. CASE UNCHANGED vars
  BY <1>7, <1>1, QuietStep DEF vars
<1>8. QED
  BY <1>2, <1>3, <1>4, <1>5, <1>6, <1>7 DEF Next

-----------------------------------------------------------------------------
(***************************************************************************)
(* The inductive invariant holds in every reachable state of the service:  *)
(* the methods of enrichment_queue.go keep it from any state that has it.  *)
(***************************************************************************)
THEOREM Invariance == Spec => []IInv
<1>1. QED
  BY InitInv, NextInv, PTL DEF Spec

\* The variables keep their types and the channel its capacity.
THEOREM TypeCorrect == Spec => []TypeOK
<1>1. IInv => TypeOK
  BY DEF IInv
<1>2. QED
  BY <1>1, Invariance, PTL

\* Single-writer semantics per cluster, for any number of clusters and slots.
THEOREM SingleWriterHolds == Spec => []SingleWriter
<1>1. IInv => SingleWriter
  BY DEF IInv
<1>2. QED
  BY <1>1, Invariance, PTL

\* Newest-wins coalescing never loses the newest accepted request.
THEOREM NewestKeptHolds == Spec => []NewestKept
<1>1. IInv => NewestKept
  BY DEF IInv
<1>2. QED
  BY <1>1, Invariance, PTL

\* A free pending request waits for an idle worker only behind a full channel.
THEOREM NoStrandedHolds == Spec => []NoStranded
<1>1. IInv => NoStranded
  BY DEF IInv
<1>2. QED
  BY <1>1, Invariance, PTL

-----------------------------------------------------------------------------
(***************************************************************************)
(* Enqueue returns false only if the channel is full with other clusters   *)
(* (enrichment_queue.go:103).                                              *)
(***************************************************************************)
THEOREM DropsOnlyWhenFullHolds == Spec => DropsOnlyWhenFull
<1> DEFINE Full(c) == /\ Len(ch) = Capacity
                      /\ c \notin ClustersIn(ch) \cup WorkerClusters
                      /\ \A i, j \in 1 .. Len(ch) :
                           ch[i].clusterID = ch[j].clusterID => i = j
           OnlyFull == \A c \in Clusters :
             (checkCounter'[c] # checkCounter[c] /\ accepted'[c] # checkCounter'[c])
             => Full(c)
<1>1. IInv /\ [Next]_vars => OnlyFull
  <2> SUFFICES ASSUME IInv, [Next]_vars, NEW c \in Clusters,
                      checkCounter'[c] # checkCounter[c],
                      accepted'[c] # checkCounter'[c]
               PROVE  Full(c)
    OBVIOUS
  <2>1. PICK d \in Clusters : Submit(d)
    BY DEF Next, vars, StartHandler, FinishHandler, Cancel, StopWorker
  <2>2. /\ checkCounter \in [Clusters -> Nat] /\ accepted \in [Clusters -> Nat]
        /\ SingleWriter
    BY DEF IInv, TypeOK
  <2>3. d = c /\ checkCounter'[c] = checkCounter[c] + 1
    BY <2>1, <2>2 DEF Submit
  <2>4. EnqueueFull(Req(c))
    BY <2>1, <2>2, <2>3 DEF Submit, Req
  <2>5. Len(ch) = Capacity /\ c \notin inflight
    BY <2>4 DEF EnqueueFull, Req
  <2>6. QED
    BY <2>2, <2>5 DEF SingleWriter
<1>2. IInv /\ [Next]_vars => [OnlyFull]_vars
  BY <1>1
<1>3. QED
  BY <1>2, Invariance, PTL DEF Spec, DropsOnlyWhenFull

(***************************************************************************)
(* The service implements the mailbox: its initial states are initial      *)
(* states of the mailbox, and each of its steps accepts a submission,      *)
(* starts or finishes a handler, or does not touch the mailbox.            *)
(***************************************************************************)
Active == IF worker = NoRequest THEN NoRequest ELSE worker.clusterID

\* Every step of the queue is a step of the mailbox or leaves it alone.
LEMMA MailboxStep == IInv /\ IInv' /\ [Next]_vars => [Mailbox!Next]_(Mailbox!mailboxVars)
<1> SUFFICES ASSUME IInv, IInv', [Next]_vars
             PROVE  [Mailbox!Next]_(Mailbox!mailboxVars)
  OBVIOUS
<1>1. /\ accepted \in [Clusters -> Nat] /\ started \in [Clusters -> Nat]
      /\ checkCounter \in [Clusters -> Nat] /\ Numbered
      /\ accepted' \in [Clusters -> Nat] /\ started' \in [Clusters -> Nat]
      /\ Numbered'
  BY DEF IInv, TypeOK
<1>2. ASSUME NEW c \in Clusters, Submit(c)
      PROVE  [Mailbox!Next]_(Mailbox!mailboxVars)
  <2>1. UNCHANGED <<worker, started>>
    <3>1. ASSUME EnqueueFull(Req(c)) PROVE UNCHANGED worker
      BY <3>1 DEF EnqueueFull, queueVars
    <3>2. ASSUME Enqueue(Req(c)) PROVE UNCHANGED worker
      BY <3>2 DEF Enqueue, Coalesce, ReplacePending, Send
    <3>3. QED
      BY <3>1, <3>2, <1>2 DEF Submit, Req
  <2>2. CASE accepted' = [accepted EXCEPT ![c] = checkCounter[c] + 1]
    <3>1. /\ accepted'[c] = checkCounter[c] + 1
          /\ accepted' = [accepted EXCEPT ![c] = accepted'[c]]
          /\ accepted'[c] \in Nat /\ accepted[c] < accepted'[c]
      BY <2>2, <1>1 DEF Numbered
    <3>2. Mailbox!Accept(c)
      BY <3>1, <2>1 DEF Mailbox!Accept
    <3>3. QED
      BY <3>2 DEF Mailbox!Next
  <2>3. CASE UNCHANGED accepted
    BY <2>1, <2>3 DEF Mailbox!mailboxVars
  <2>4. QED
    BY <2>2, <2>3, <1>2 DEF Submit
<1>3. CASE StartHandler
  <2>1. ch \in Seq(Request) /\ worker = NoRequest /\ ch # << >>
        /\ worker' = Head(ch) /\ UNCHANGED accepted
        /\ started' = [started EXCEPT ![Head(ch).clusterID] = Head(ch).generation]
    BY <1>3 DEF StartHandler, Receive, IInv, TypeOK
  <2> DEFINE c == ch[1].clusterID
  <2>2. 1 \in 1 .. Len(ch) /\ Head(ch) = ch[1]
    BY <2>1
  <2>3. ch[1] \in Request /\ c \in Clusters /\ ch[1].generation \in Nat
    BY <2>1, <2>2, ChannelElements
  <2>4. started[c] < ch[1].generation
    BY <2>2 DEF IInv, InOrder
  <2>5. started'[c] = ch[1].generation /\ started' = [started EXCEPT ![c] = started'[c]]
    BY <2>1, <2>2, <2>3, <1>1
  <2>6. started'[c] <= accepted[c]
    BY <2>1, <2>3, <1>1 DEF Numbered
  <2>7. worker' # NoRequest /\ Active' = c
    BY <2>1, <2>2, <2>3, NoRequestAssumption DEF Active, Request
  <2>8. Mailbox!Start(c)
    BY <2>1, <2>3, <2>4, <2>5, <2>6, <2>7 DEF Mailbox!Start, Active
  <2>9. QED
    BY <2>3, <2>8 DEF Mailbox!Next
<1>4. CASE FinishHandler
  <2>1. worker # NoRequest /\ worker' = NoRequest /\ UNCHANGED <<accepted, started>>
    BY <1>4 DEF FinishHandler, MarkDone
  <2>2. worker.clusterID # NoRequest
    BY <2>1, IdleAssumption, RequestFields DEF IInv, TypeOK
  <2>3. QED
    BY <2>1, <2>2 DEF Mailbox!Next, Mailbox!Finish
<1>5. CASE Cancel \/ StopWorker \/ UNCHANGED vars
  BY <1>5 DEF Cancel, StopWorker, Stop, vars, Mailbox!mailboxVars
<1>6. QED
  BY <1>2, <1>3, <1>4, <1>5 DEF Next

\* The queue (channel, pending map, in-flight set) implements the mailbox: one
\* handler at a time, each cluster's submissions in order, newest wins.
THEOREM ImplementsMailbox == Spec => MailboxSpec
<1>1. Init => Mailbox!Init
  BY DEF Init, QueueInit, Mailbox!Init
<1>2. QED
  BY <1>1, MailboxStep, Invariance, PTL DEF Spec, MailboxSpec, Mailbox!Spec
=============================================================================
