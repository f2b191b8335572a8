--------------------------- MODULE EventStreamProofs ---------------------------
(***************************************************************************)
(* Theorems about EventStream, for any number of clients and clusters, any  *)
(* buffer and any limit: no publisher sends on a closed channel, and there  *)
(* are never more clients than the limit nor more updates in a channel than *)
(* it has room for.                                                         *)
(*                                                                          *)
(* The invariant ties what is shared (s.clients, the read lock, whether a   *)
(* channel is open) to where each handleSSE is: a handler has registered    *)
(* its channel and not deleted it yet exactly while it is a client, and the *)
(* channel is closed only by the handler, after that.                       *)
(***************************************************************************)
EXTENDS EventStream, FiniteSetTheorems, TLAPS

-----------------------------------------------------------------------------
(* The inductive invariant. *)

\* A handler that has registered its channel and not deleted it.
Connected(k) == handler[k].pc \in {"registered", "writing", "stream", "leaving"}

ConnectionInv ==
  /\ IsFiniteSet(clients)
  /\ \A k \in Clients :
       /\ k \in clients <=> Connected(k)
       /\ k \in reading <=> handler[k].pc = "writing"
       /\ Connected(k) => channel[k].open

IInv == TypeOK /\ ConnectionInv

-----------------------------------------------------------------------------
(* The publishers. *)

\* What a publisher sends is an update of its cluster.
LEMMA UpdateTyped ==
  ASSUME TypeOK, NEW c \in Clusters
  PROVE  Update(c) \in Updates /\ [cluster |-> c, fresh |-> mark' = c] \in Updates
BY DEF Update, Updates

\* A broadcast opens and closes no channel and fills none beyond its room.
LEMMA BroadcastKeeps ==
  ASSUME TypeOK, NEW update \in Updates, Broadcast(update)
  PROVE  /\ channel' \in [Clients -> [held : Seq(Updates), open : BOOLEAN]]
         /\ \A k \in Clients : /\ channel'[k].open = channel[k].open
                               /\ Len(channel'[k].held) <= SSEBufferSize
<1>1. ASSUME NEW k \in Clients
      PROVE  /\ channel'[k] \in [held : Seq(Updates), open : BOOLEAN]
             /\ channel'[k].open = channel[k].open
             /\ Len(channel'[k].held) <= SSEBufferSize
  <2>1. /\ channel[k] \in [held : Seq(Updates), open : BOOLEAN]
        /\ Len(channel[k].held) <= SSEBufferSize
    BY DEF TypeOK
  <2>2. CASE channel'[k] = channel[k]
    BY <2>1, <2>2
  <2>3. CASE /\ channel'[k] = [channel[k] EXCEPT !.held = Append(channel[k].held, update)]
             /\ Len(channel[k].held) < SSEBufferSize
    <3>1. /\ Append(channel[k].held, update) \in Seq(Updates)
          /\ Len(Append(channel[k].held, update)) = Len(channel[k].held) + 1
          /\ Len(channel[k].held) \in Nat
      BY <2>1
    <3>2. /\ channel'[k].held = Append(channel[k].held, update) /\ channel'[k].open = channel[k].open
          /\ channel'[k] = [held |-> channel'[k].held, open |-> channel'[k].open]
      BY <2>1, <2>3
    <3>3. Len(channel'[k].held) <= SSEBufferSize
      BY <2>3, <3>1, <3>2, SSEAssumption
    <3>4. channel'[k] \in [held : Seq(Updates), open : BOOLEAN]
      BY <2>1, <3>1, <3>2
    <3> QED
      BY <3>2, <3>3, <3>4
  <2> QED
    BY <2>2, <2>3 DEF Broadcast
<1>2. channel' = [k \in Clients |-> channel'[k]]
  BY DEF Broadcast
<1> QED
  BY <1>1, <1>2

\* No publisher touches a connection but by a broadcast.
LEMMA PublishersKeep ==
  ASSUME IInv,
         \/ SendWorker
         \/ \E c \in Clusters : Phase(c) \/ Publish(c) \/ QueueFull(c) \/ SendRun(c) \/ Enrich(c)
  PROVE  IInv'
<1> USE DEF IInv
<1> DEFINE Connection == <<clients, handler, reading, shown>>
           ChannelsOK == /\ channel' \in [Clients -> [held : Seq(Updates), open : BOOLEAN]]
                         /\ \A k \in Clients : /\ channel'[k].open = channel[k].open
                                               /\ Len(channel'[k].held) <= SSEBufferSize
           PublishersOK == /\ latest' \in [Clusters -> {"nil", "old", "fresh"}]
                           /\ mark' \in Clusters \cup {AllClusters}
                           /\ run' \in [Clusters -> [at : Points, out : Updates \cup {NoUpdate}]]
                           /\ worker' \in Updates \cup {NoUpdate}
<1>1. ASSUME UNCHANGED Connection, ChannelsOK, PublishersOK
      PROVE  IInv'
  BY <1>1 DEF TypeOK, ConnectionInv, Connected
<1>2. UNCHANGED channel => ChannelsOK
  BY DEF TypeOK
<1>3. CASE SendWorker
  <2>1. worker \in Updates
    BY <1>3 DEF SendWorker, TypeOK
  <2>2. ChannelsOK
    BY <1>3, <2>1, BroadcastKeeps DEF SendWorker
  <2>3. UNCHANGED Connection /\ PublishersOK
    BY <1>3 DEF SendWorker, TypeOK
  <2> QED
    BY <1>1, <2>2, <2>3
<1>4. ASSUME NEW c \in Clusters, Phase(c)
      PROVE  IInv'
  <2>1. PICK at \in Points :
          run' = [run EXCEPT ![c] =
                   [at |-> at, out |-> IF latest[c] = "nil" THEN NoUpdate ELSE Update(c)]]
    BY <1>4 DEF Phase, Points
  <2>2. PublishersOK
    BY <1>4, <2>1, UpdateTyped DEF Phase, TypeOK
  <2> QED
    BY <1>1, <1>2, <1>4, <2>2 DEF Phase, clientVars
<1>5. ASSUME NEW c \in Clusters, Publish(c)
      PROVE  IInv'
  <2>1. PublishersOK
    BY <1>5, UpdateTyped DEF Publish, TypeOK, Points
  <2> QED
    BY <1>1, <1>2, <1>5, <2>1 DEF Publish, clientVars
<1>6. ASSUME NEW c \in Clusters, QueueFull(c)
      PROVE  IInv'
  <2>1. PublishersOK
    BY <1>6, UpdateTyped DEF QueueFull, TypeOK, Points, AfterRefusal
  <2> QED
    BY <1>1, <1>2, <1>6, <2>1 DEF QueueFull, clientVars
<1>7. ASSUME NEW c \in Clusters, SendRun(c)
      PROVE  IInv'
  <2>1. run[c].out \in Updates
    BY <1>7 DEF SendRun, TypeOK
  <2>2. ChannelsOK
    BY <1>7, <2>1, BroadcastKeeps DEF SendRun
  <2>3. UNCHANGED Connection /\ PublishersOK
    BY <1>7 DEF SendRun, TypeOK
  <2> QED
    BY <1>1, <2>2, <2>3
<1>8. ASSUME NEW c \in Clusters, Enrich(c)
      PROVE  IInv'
  <2>1. PublishersOK
    BY <1>8, UpdateTyped DEF Enrich, TypeOK
  <2> QED
    BY <1>1, <1>2, <1>8, <2>1 DEF Enrich, clientVars
<1> QED
  BY <1>3, <1>4, <1>5, <1>6, <1>7, <1>8

-----------------------------------------------------------------------------
(* The handlers. *)

\* A channel is registered only below the limit.
LEMMA ConnectKeeps ==
  ASSUME IInv, NEW k \in Clients, Connect(k)
  PROVE  IInv'
<1> USE DEF IInv
<1>1. /\ k \notin clients /\ clients' = clients \cup {k} /\ IsFiniteSet(clients)
      /\ ~AtLimit
  BY DEF Connect, ConnectionInv, Connected
<1>2. IsFiniteSet(clients') /\ Cardinality(clients') = Cardinality(clients) + 1 /\ Cardinality(clients) \in Nat
  BY <1>1, FS_AddElement, FS_CardinalityType
<1>3. MaxSSEClients > 0 => Cardinality(clients') <= MaxSSEClients
  BY <1>1, <1>2, SSEAssumption DEF AtLimit
<1>4. PICK c \in Clusters \cup {AllClusters} :
        handler' = [handler EXCEPT ![k] = [pc |-> "registered", cluster |-> c]]
  BY DEF Connect
<1>5. /\ channel'[k] = [held |-> <<>>, open |-> TRUE]
      /\ channel' \in [Clients -> [held : Seq(Updates), open : BOOLEAN]]
      /\ \A q \in Clients \ {k} : channel'[q] = channel[q]
  BY DEF Connect, TypeOK
<1>6. \A q \in Clients : Len(channel'[q].held) <= SSEBufferSize
  <2>1. Len(channel'[k].held) <= SSEBufferSize
    <3>1. Len(channel'[k].held) = 0
      BY <1>5
    <3> QED
      BY <3>1, SSEAssumption
  <2>2. ASSUME NEW q \in Clients \ {k} PROVE Len(channel'[q].held) <= SSEBufferSize
    BY <1>5 DEF TypeOK
  <2> QED
    BY <2>1, <2>2
<1>7. TypeOK'
  BY <1>3, <1>4, <1>5, <1>6 DEF TypeOK, Connect, publisherVars
<1>8. ConnectionInv'
  BY <1>1, <1>2, <1>4, <1>5 DEF TypeOK, ConnectionInv, Connected, Connect
<1> QED
  BY <1>7, <1>8

\* The initial state and the stream change nothing that is shared but the lock.
LEMMA ReaderKeeps ==
  ASSUME IInv, NEW k \in Clients, BeginInitial(k) \/ EndInitial(k) \/ HangUp(k)
  PROVE  IInv'
<1> USE DEF IInv
<1> DEFINE pc == handler'[k].pc
<1>1. /\ UNCHANGED <<publisherVars, clients, channel>>
      /\ shown' \in {shown, shown \cup {k}}
      /\ pc \in {"writing", "stream", "leaving"}
      /\ handler' = [handler EXCEPT ![k].pc = pc]
      /\ reading' = IF pc = "writing" THEN reading \cup {k} ELSE reading \ {k}
      /\ Connected(k)
  <2>1. handler[k].pc \in {"registered", "writing", "stream"}
    BY DEF BeginInitial, EndInitial, HangUp
  <2>2. CASE BeginInitial(k)
    BY <2>1, <2>2 DEF BeginInitial, TypeOK, Connected
  <2>3. CASE EndInitial(k)
    <3>1. PICK next \in {"stream", AfterFailedWrite(k)} :
            handler' = [handler EXCEPT ![k].pc = next]
      BY <2>3, Zenon DEF EndInitial
    <3>2. next \in {"stream", "leaving"}
      BY DEF AfterFailedWrite
    <3>3. pc = next
      BY <3>1 DEF TypeOK
    <3>4. /\ UNCHANGED <<publisherVars, clients, channel>>
          /\ shown' \in {shown, shown \cup {k}} /\ reading' = reading \ {k}
      BY <2>3 DEF EndInitial
    <3> HIDE DEF pc
    <3> QED
      BY <2>1, <3>1, <3>2, <3>3, <3>4 DEF Connected
  <2>4. CASE HangUp(k)
    BY <2>1, <2>4 DEF HangUp, TypeOK, Connected, ConnectionInv
  <2> QED
    BY <2>2, <2>3, <2>4
<1> HIDE DEF pc
<1>2. /\ \A q \in Clients \ {k} : handler'[q] = handler[q]
      /\ handler'[k].pc = pc /\ handler'[k].cluster = handler[k].cluster
  BY <1>1 DEF TypeOK
<1>3. TypeOK'
  BY <1>1, <1>2 DEF TypeOK, publisherVars
<1>4. ConnectionInv'
  BY <1>1, <1>2 DEF TypeOK, ConnectionInv, Connected
<1> QED
  BY <1>3, <1>4

\* A client takes the oldest update from its channel.
LEMMA ReceiveKeeps ==
  ASSUME IInv, NEW k \in Clients, Receive(k)
  PROVE  IInv'
<1> USE DEF IInv
<1>1. /\ channel[k] \in [held : Seq(Updates), open : BOOLEAN] /\ channel[k].held # <<>>
      /\ Len(channel[k].held) <= SSEBufferSize
  BY DEF Receive, TypeOK
<1>2. /\ Tail(channel[k].held) \in Seq(Updates)
      /\ Len(Tail(channel[k].held)) = Len(channel[k].held) - 1
      /\ Len(channel[k].held) \in Nat
  BY <1>1
<1>3. /\ channel' \in [Clients -> [held : Seq(Updates), open : BOOLEAN]]
      /\ \A q \in Clients : /\ channel'[q].open = channel[q].open
                            /\ Len(channel'[q].held) <= SSEBufferSize
  <2>1. channel'[k] = [channel[k] EXCEPT !.held = Tail(channel[k].held)]
    BY DEF Receive, TypeOK
  <2>2. \A q \in Clients \ {k} : channel'[q] = channel[q]
    BY DEF Receive, TypeOK
  <2>3. /\ channel'[k].held = Tail(channel[k].held) /\ channel'[k].open = channel[k].open
        /\ channel'[k] = [held |-> channel'[k].held, open |-> channel'[k].open]
    BY <1>1, <2>1
  <2>4. Len(channel'[k].held) <= SSEBufferSize
    BY <1>1, <1>2, <2>3, SSEAssumption
  <2>5. channel'[k] \in [held : Seq(Updates), open : BOOLEAN]
    BY <1>1, <1>2, <2>3
  <2>6. /\ channel'[k] \in [held : Seq(Updates), open : BOOLEAN]
        /\ channel'[k].open = channel[k].open /\ Len(channel'[k].held) <= SSEBufferSize
    BY <2>3, <2>4, <2>5
  <2>7. channel' = [q \in Clients |-> channel'[q]]
    BY DEF Receive, TypeOK
  <2> QED
    BY <2>2, <2>6, <2>7 DEF TypeOK
<1>4. TypeOK'
  BY <1>3 DEF TypeOK, Receive, publisherVars
<1>5. ConnectionInv'
  BY <1>3 DEF ConnectionInv, Connected, Receive
<1> QED
  BY <1>4, <1>5

\* A channel is deleted before it is closed.
LEMMA DeregisterKeeps ==
  ASSUME IInv, NEW k \in Clients, Deregister(k)
  PROVE  IInv'
<1> USE DEF IInv
<1>1. /\ clients' = clients \ {k} /\ IsFiniteSet(clients) /\ k \in clients
  BY DEF Deregister, ConnectionInv, Connected
<1>2. /\ IsFiniteSet(clients') /\ Cardinality(clients') = Cardinality(clients) - 1
      /\ Cardinality(clients) \in Nat
  BY <1>1, FS_RemoveElement, FS_CardinalityType
<1>3. MaxSSEClients > 0 => Cardinality(clients') <= MaxSSEClients
  BY <1>2, SSEAssumption DEF TypeOK
<1>4. TypeOK'
  BY <1>1, <1>3 DEF TypeOK, Deregister, publisherVars
<1>5. ConnectionInv'
  BY <1>1, <1>2 DEF TypeOK, ConnectionInv, Connected, Deregister
<1> QED
  BY <1>4, <1>5

\* No publisher can reach the channel that is closed any more.
LEMMA CloseKeeps ==
  ASSUME IInv, NEW k \in Clients, Close(k)
  PROVE  IInv'
<1> USE DEF IInv
<1>1. /\ channel'[k] = [held |-> <<>>, open |-> FALSE]
      /\ channel' \in [Clients -> [held : Seq(Updates), open : BOOLEAN]]
      /\ \A q \in Clients \ {k} : channel'[q] = channel[q]
  BY DEF Close, TypeOK, NoChannel
<1>2. \A q \in Clients : Len(channel'[q].held) <= SSEBufferSize
  <2>1. Len(channel'[k].held) <= SSEBufferSize
    <3>1. Len(channel'[k].held) = 0
      BY <1>1
    <3> QED
      BY <3>1, SSEAssumption
  <2>2. ASSUME NEW q \in Clients \ {k} PROVE Len(channel'[q].held) <= SSEBufferSize
    BY <1>1 DEF TypeOK
  <2> QED
    BY <2>1, <2>2
<1>3. TypeOK'
  BY <1>1, <1>2 DEF TypeOK, Close, publisherVars
<1>4. ConnectionInv'
  BY <1>1 DEF TypeOK, ConnectionInv, Connected, Close
<1> QED
  BY <1>3, <1>4

-----------------------------------------------------------------------------
\* No client is connected yet.
LEMMA InitInv ==
  ASSUME Init
  PROVE  IInv
<1>1. IsFiniteSet({}) /\ Cardinality({}) = 0
  BY FS_EmptySet
<1>2. TypeOK
  BY <1>1, SSEAssumption DEF Init, TypeOK, NoChannel, Points
<1>3. ConnectionInv
  BY <1>1 DEF Init, ConnectionInv, Connected
<1> QED
  BY <1>2, <1>3 DEF IInv

\* Every step of the publishers and of the handlers keeps the invariant.
LEMMA NextInv ==
  ASSUME IInv, [Next]_vars
  PROVE  IInv'
<1>1. CASE \/ SendWorker
           \/ \E c \in Clusters : Phase(c) \/ Publish(c) \/ QueueFull(c) \/ SendRun(c) \/ Enrich(c)
  BY <1>1, PublishersKeep
<1>2. ASSUME NEW k \in Clients,
             \/ Connect(k) \/ BeginInitial(k) \/ EndInitial(k)
             \/ Receive(k) \/ HangUp(k) \/ Deregister(k) \/ Close(k)
      PROVE  IInv'
  BY <1>2, ConnectKeeps, ReaderKeeps, ReceiveKeeps, DeregisterKeeps, CloseKeeps
<1>3. CASE UNCHANGED vars
  BY <1>3 DEF vars, IInv, TypeOK, ConnectionInv, Connected
<1> QED
  BY <1>1, <1>2, <1>3 DEF Next

\* The inductive invariant, from which the theorems below follow.
THEOREM Invariance == Spec => []IInv
<1>1. Init => IInv
  BY InitInv
<1>2. IInv /\ [Next]_vars => IInv'
  BY NextInv
<1> QED
  BY <1>1, <1>2, PTL DEF Spec

\* Every variable has its type; there are never more clients than MaxSSEClients,
\* and no channel holds more than its buffer (handlers_health.go:60 to 80).
THEOREM TypeCorrect == Spec => []TypeOK
<1>1. IInv => TypeOK
  BY DEF IInv
<1> QED
  BY <1>1, Invariance, PTL

\* No publisher sends on a closed channel, however clients come and go between
\* the store of an update and its send (handlers_health.go:93 to 98).
THEOREM SendsSafeHolds == Spec => []SendsSafe
<1>1. IInv => SendsSafe
  BY DEF IInv, TypeOK, ConnectionInv, SendsSafe
<1> QED
  BY <1>1, Invariance, PTL
=============================================================================
