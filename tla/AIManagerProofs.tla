--------------------------- MODULE AIManagerProofs ---------------------------
(***************************************************************************)
(* Proofs about AIManager, for any finite set of callers and any requests, *)
(* providers, windows, limits, threshold and reset timeout: the breaker,   *)
(* and the budget, where the tokens in use are a sum over the callers.     *)
(***************************************************************************)
EXTENDS AIManager, FiniteSetTheorems, TLAPS

\* What a method of the breaker may do.
BreakerStep ==
  \/ AllowClosed \/ AllowProbe \/ Reject
  \/ RecordSuccess \/ RecordFailure \/ RecordRateLimit
  \/ BreakerAges \/ UNCHANGED breakerVars

\* The inductive invariant.
IInv == TypeOK /\ ClosedBelowThreshold

\* Every method of the breaker keeps its types and leaves a closed circuit below
\* the threshold (Allow, RecordSuccess, RecordFailure, RecordRateLimit).
LEMMA BreakerKeeps ==
  ASSUME BreakerTypeOK, ClosedBelowThreshold, BreakerStep
  PROVE  BreakerTypeOK' /\ ClosedBelowThreshold'
<1> USE ThresholdAssumption, ResetTimeoutAssumption
    DEF BreakerTypeOK, ClosedBelowThreshold, breakerVars
<1>1. CASE AllowClosed \/ AllowProbe \/ Reject
  BY <1>1 DEF AllowClosed, AllowProbe, Reject
<1>2. CASE RecordSuccess
  BY <1>2 DEF RecordSuccess
<1>3. CASE RecordFailure
  BY <1>3 DEF RecordFailure, CountedFailures, Trips
<1>4. CASE RecordRateLimit
  BY <1>4 DEF RecordRateLimit
<1>5. CASE BreakerAges
  BY <1>5 DEF BreakerAges
<1>6. CASE UNCHANGED breakerVars
  BY <1>6
<1>7. QED
  BY <1>1, <1>2, <1>3, <1>4, <1>5, <1>6 DEF BreakerStep

\* Every method of the budget keeps the windows' tokens from becoming negative
\* (TryConsume, RecordUsage, ReleaseUnused).
LEMMA BudgetKeeps ==
  ASSUME UsageTypeOK, NEW n \in Nat,
         Charge(n) \/ ReleaseUnused(n) \/ BudgetAges \/ UNCHANGED usage
  PROVE  UsageTypeOK'
<1> USE DurationAssumption DEF UsageTypeOK
<1>1. CASE Charge(n)
  BY <1>1 DEF Charge
<1>2. CASE ReleaseUnused(n)
  BY <1>2 DEF ReleaseUnused
<1>3. CASE BudgetAges
  BY <1>3 DEF BudgetAges
<1>4. QED
  BY <1>1, <1>2, <1>3

\* Settling a reservation keeps the types of the windows (Analyze's adjustment
\* and RunTurn's settleReservations).
LEMMA SettleKeeps ==
  ASSUME UsageTypeOK, CallerTypeOK, NEW p \in Callers, NEW used \in Nat,
         Settle(p, used)
  PROVE  UsageTypeOK'
<1>1. caller[p].reserved \in Nat
  BY DEF CallerTypeOK, Locals
<1>2. CASE used <= caller[p].reserved
  <2>1. caller[p].reserved - used \in Nat /\ ReleaseUnused(caller[p].reserved - used)
    BY <1>1, <1>2 DEF Settle
  <2>2. QED
    BY <2>1, BudgetKeeps
<1>3. CASE ~(used <= caller[p].reserved)
  <2>1. used - caller[p].reserved \in Nat /\ Charge(used - caller[p].reserved)
    BY <1>1, <1>3 DEF Settle
  <2>2. QED
    BY <2>1, BudgetKeeps
<1>4. QED
  BY <1>2, <1>3

-----------------------------------------------------------------------------
USE DEF IInv, TypeOK

\* The initial states satisfy the invariant (NewManager, NewCircuitBreaker,
\* NewBudget).
LEMMA InitInv == Init => IInv
<1> USE ThresholdAssumption, ResetTimeoutAssumption, DurationAssumption
<1> SUFFICES ASSUME Init PROVE IInv
  OBVIOUS
<1>1. BreakerTypeOK /\ ClosedBelowThreshold
  BY DEF Init, BreakerInit, BreakerTypeOK, ClosedBelowThreshold
<1>2. CallerTypeOK
  BY DEF Init, Idle, CallerTypeOK, Locals, PCs
<1>3. UsageTypeOK
  BY DEF Init, BudgetInit, UsageTypeOK
<1>4. QED
  BY <1>1, <1>2, <1>3 DEF Init

\* A caller that keeps its request and provider when it moves on, or becomes
\* idle, or starts with both, stays well typed (the locals of Analyze and of
\* the chat handler).
LEMMA CallerKeeps ==
  ASSUME CallerTypeOK, NEW p \in Callers, NEW new \in Locals, Become(p, new),
         new.pc \in {"lookup", "reserve", "allow", "call", "wait", "retry",
                     "release", "settle", "store"}
           => new.request \in Requests /\ new.provider \in Providers
  PROVE  CallerTypeOK'
BY DEF CallerTypeOK, Become

\* Returning to the caller of Analyze or closing the stream.
LEMMA DoneKeeps ==
  ASSUME CallerTypeOK, NEW p \in Callers, Done(p)
  PROVE  CallerTypeOK'
<1>1. Idle \in Locals /\ Idle.pc = "idle"
  BY DEF Idle, Locals, PCs
<1>2. QED
  BY <1>1, CallerKeeps DEF Done

\* The steps of Analyze up to the call: the lookup and the reservation.
LEMMA BeforeCall ==
  ASSUME IInv, NEW p \in Callers, NEW r \in Requests,
         Analyze(p, r) \/ CacheHit(p) \/ CacheMiss(p) \/ Reserve(p) \/ Admit(p)
  PROVE  IInv'
<1>1. CASE Analyze(p, r)
  <2>1. CallerTypeOK'
    <3> DEFINE new == [Idle EXCEPT !.pc = "lookup", !.request = r, !.provider = provider]
    <3>1. new \in Locals /\ new.request \in Requests /\ new.provider \in Providers
      BY DEF Idle, Locals, PCs
    <3>2. QED
      BY <1>1, <3>1, CallerKeeps DEF Analyze
  <2>2. QED
    BY <1>1, <2>1 DEF Analyze, breakerVars, BreakerTypeOK, UsageTypeOK, ClosedBelowThreshold
<1>2. CASE CacheHit(p)
  <2>1. CallerTypeOK'
    BY <1>2, DoneKeeps DEF CacheHit
  <2>2. QED
    BY <1>2, <2>1 DEF CacheHit, breakerVars, BreakerTypeOK, UsageTypeOK, ClosedBelowThreshold
<1>3. CASE CacheMiss(p)
  <2>1. CallerTypeOK'
    <3> DEFINE new == [caller[p] EXCEPT !.pc = "reserve"]
    <3>1. new \in Locals /\ new.request \in Requests /\ new.provider \in Providers
      BY <1>3 DEF CacheMiss, At, CallerTypeOK, Locals, PCs
    <3>2. QED
      BY <1>3, <3>1, CallerKeeps DEF CacheMiss, Goto
  <2>2. QED
    BY <1>3, <2>1 DEF CacheMiss, breakerVars, BreakerTypeOK, UsageTypeOK, ClosedBelowThreshold
<1>4. CASE Reserve(p)
  <2> DEFINE n == Estimate[caller[p].request]
  <2>1. n \in Nat /\ caller[p] \in Locals
        /\ caller[p].request \in Requests /\ caller[p].provider \in Providers
    BY <1>4, EstimateAssumption DEF Reserve, At, CallerTypeOK
  <2>2. CASE Exceeds(n)
    <3>1. CallerTypeOK'
      BY <1>4, <2>2, DoneKeeps DEF Reserve
    <3>2. QED
      BY <1>4, <2>2, <3>1
      DEF Reserve, breakerVars, BreakerTypeOK, UsageTypeOK, ClosedBelowThreshold
  <2>3. CASE ~Exceeds(n)
    <3>1. UsageTypeOK'
      BY <1>4, <2>1, <2>3, BudgetKeeps DEF Reserve, TryConsume
    <3>2. CallerTypeOK'
      <4> DEFINE new == [caller[p] EXCEPT !.pc = "allow", !.reserved = n]
      <4>1. new \in Locals /\ new.request \in Requests /\ new.provider \in Providers
        BY <2>1 DEF Locals, PCs
      <4>2. QED
        BY <1>4, <2>3, <4>1, CallerKeeps DEF Reserve
    <3>3. QED
      BY <1>4, <3>1, <3>2 DEF Reserve, breakerVars, BreakerTypeOK, ClosedBelowThreshold
  <2>4. QED
    BY <2>2, <2>3
<1>5. CASE Admit(p)
  <2>1. BreakerTypeOK' /\ ClosedBelowThreshold'
    BY <1>5, BreakerKeeps DEF Admit, BreakerStep
  <2>2. CallerTypeOK'
    <3>1. caller[p] \in Locals
          /\ caller[p].request \in Requests /\ caller[p].provider \in Providers
      BY <1>5 DEF Admit, At, CallerTypeOK
    <3>2. CASE Goto(p, "call")
      <4> DEFINE new == [caller[p] EXCEPT !.pc = "call"]
      <4>1. new \in Locals /\ new.request \in Requests /\ new.provider \in Providers
        BY <3>1 DEF Locals, PCs
      <4>2. QED
        BY <3>2, <4>1, CallerKeeps DEF Goto
    <3>3. CASE Become(p, [caller[p] EXCEPT !.pc = "call", !.probe = TRUE])
      <4> DEFINE new == [caller[p] EXCEPT !.pc = "call", !.probe = TRUE]
      <4>1. new \in Locals /\ new.request \in Requests /\ new.provider \in Providers
        BY <3>1 DEF Locals, PCs
      <4>2. QED
        BY <3>3, <4>1, CallerKeeps
    <3>4. CASE Done(p)
      BY <3>4, DoneKeeps
    <3>5. QED
      BY <1>5, <3>2, <3>3, <3>4 DEF Admit
  <2>3. QED
    BY <1>5, <2>1, <2>2 DEF Admit, UsageTypeOK
<1>6. QED
  BY <1>1, <1>2, <1>3, <1>4, <1>5

\* A step of Analyze that only moves the caller on.
LEMMA GotoKeeps ==
  ASSUME CallerTypeOK, NEW p \in Callers, NEW pc \in PCs, Goto(p, pc),
         caller[p].request \in Requests, caller[p].provider \in Providers
  PROVE  CallerTypeOK'
<1> DEFINE new == [caller[p] EXCEPT !.pc = pc]
<1>1. new \in Locals /\ new.request \in Requests /\ new.provider \in Providers
  BY DEF CallerTypeOK, Locals
<1>2. QED
  BY <1>1, CallerKeeps DEF Goto

\* The steps of Analyze while the provider works on the call, and the wait for a
\* retry after a 429.
LEMMA DuringCall ==
  ASSUME IInv, NEW p \in Callers,
         \/ CallSucceeds(p) \/ CallFails(p) \/ CallLimited(p)
         \/ WaitEnds(p) \/ WaitCancelled(p) \/ RetryLimited(p)
  PROVE  IInv'
<1>1. BreakerTypeOK' /\ ClosedBelowThreshold'
  BY BreakerKeeps DEF BreakerStep, CallSucceeds, CallFails, CallLimited, WaitEnds,
                      WaitCancelled, RetryLimited
<1>2. UsageTypeOK' /\ provider' \in Providers
      /\ cache' \in [Names \X Requests -> Models \cup {None}]
  BY DEF UsageTypeOK, CallSucceeds, CallFails, CallLimited, WaitEnds, WaitCancelled,
         RetryLimited
<1>3. CallerTypeOK'
  <2>1. caller[p] \in Locals
        /\ caller[p].request \in Requests /\ caller[p].provider \in Providers
    BY DEF CallerTypeOK, At, CallSucceeds, CallFails, CallLimited, WaitEnds,
           WaitCancelled, RetryLimited
  <2>2. CASE CallSucceeds(p)
    <3>1. PICK used \in Actuals :
            Become(p, [caller[p] EXCEPT !.pc = "settle", !.used = used])
      BY <2>2 DEF CallSucceeds
    <3> DEFINE new == [caller[p] EXCEPT !.pc = "settle", !.used = used]
    <3>2. new \in Locals /\ new.request \in Requests /\ new.provider \in Providers
      BY <2>1, ActualsAssumption DEF Locals, PCs
    <3>3. QED
      BY <3>1, <3>2, CallerKeeps
  <2>3. CASE CallFails(p) \/ CallLimited(p) \/ WaitEnds(p) \/ RetryLimited(p)
    <3>1. \E pc \in PCs : Goto(p, pc)
      BY <2>3 DEF CallFails, CallLimited, WaitEnds, RetryLimited, PCs
    <3>2. QED
      BY <3>1, <2>1, GotoKeeps
  <2>4. CASE WaitCancelled(p)
    BY <2>4, DoneKeeps DEF WaitCancelled
  <2>5. QED
    BY <2>2, <2>3, <2>4
<1>4. QED
  BY <1>1, <1>2, <1>3

\* The steps of Analyze after the call: the reservation is settled, the response
\* is cached.
LEMMA AfterCall ==
  ASSUME IInv, NEW p \in Callers, Release(p) \/ Adjust(p) \/ Store(p)
  PROVE  IInv'
<1>1. BreakerTypeOK' /\ ClosedBelowThreshold'
  BY BreakerKeeps DEF BreakerStep, Release, Adjust, Store
<1>2. caller[p] \in Locals
      /\ caller[p].request \in Requests /\ caller[p].provider \in Providers
  BY DEF CallerTypeOK, At, Release, Adjust, Store
<1>3. CASE Release(p)
  <2>1. UsageTypeOK'
    BY <1>3, SettleKeeps DEF Release
  <2>2. CallerTypeOK'
    BY <1>3, DoneKeeps DEF Release
  <2>3. QED
    BY <1>1, <1>3, <2>1, <2>2 DEF Release
<1>4. CASE Adjust(p)
  <2>1. UsageTypeOK'
    BY <1>2, <1>4, SettleKeeps DEF Adjust, Locals
  <2>2. CallerTypeOK'
    <3> DEFINE new == [caller[p] EXCEPT !.pc = "store", !.reserved = 0, !.used = 0]
    <3>1. new \in Locals /\ new.request \in Requests /\ new.provider \in Providers
      BY <1>2 DEF Locals, PCs
    <3>2. QED
      BY <1>4, <3>1, CallerKeeps DEF Adjust
  <2>3. QED
    BY <1>1, <1>4, <2>1, <2>2 DEF Adjust
<1>5. CASE Store(p)
  <2>1. CallerTypeOK'
    BY <1>5, DoneKeeps DEF Store
  <2>2. caller[p].provider.model \in Models
    BY <1>2 DEF Providers
  <2>3. cache' \in [Names \X Requests -> Models \cup {None}]
    BY <1>5, <2>2 DEF Store
  <2>4. QED
    BY <1>1, <1>5, <2>1, <2>3 DEF Store, UsageTypeOK
<1>6. QED
  BY <1>3, <1>4, <1>5

\* The steps of a chat turn.
LEMMA ChatKeeps ==
  ASSUME IInv, NEW p \in Callers, ChatTurn(p) \/ ChatStep(p)
  PROVE  IInv'
<1>1. BreakerTypeOK' /\ ClosedBelowThreshold'
  BY BreakerKeeps DEF BreakerStep, ChatTurn, ChatStep, ChatReserve, ChatReturns, ChatEnds
<1>2. provider' \in Providers
      /\ cache' \in [Names \X Requests -> Models \cup {None}]
  BY DEF ChatTurn, ChatStep, ChatReserve, ChatReturns, ChatEnds
<1>3. caller[p] \in Locals
  BY DEF CallerTypeOK
<1>4. CASE ChatTurn(p)
  <2> DEFINE turn == [caller[p] EXCEPT !.pc = "chat", !.calls = MaxIterations]
             probing == [turn EXCEPT !.probe = TRUE]
  <2>1. turn \in Locals /\ turn.pc = "chat" /\ probing \in Locals /\ probing.pc = "chat"
    BY <1>3, MaxIterationsAssumption DEF Locals, PCs
  <2>2. CallerTypeOK'
    <3>1. Become(p, turn) \/ Become(p, probing)
      BY <1>4 DEF ChatTurn
    <3> HIDE DEF turn, probing
    <3>2. QED
      BY <2>1, <3>1, CallerKeeps
  <2>3. QED
    BY <1>1, <1>2, <1>4, <2>2 DEF ChatTurn, UsageTypeOK
<1>5. CASE ChatReserve(p)
  <2>1. CallerTypeOK'
    <3> DEFINE over(pc) == [caller[p] EXCEPT !.pc = pc]
               call == [caller[p] EXCEPT !.pc = "chatting", !.reserved = ChatEstimate,
                                         !.calls = @ - 1]
    <3>1. CASE Goto(p, "cancelled") \/ Goto(p, "failed")
      <4>1. PICK pc \in {"cancelled", "failed"} : Become(p, over(pc))
        BY <3>1 DEF Goto
      <4>2. over(pc) \in Locals /\ over(pc).pc = pc
        BY <1>3 DEF Locals, PCs
      <4> HIDE DEF over
      <4>3. QED
        BY <4>1, <4>2, CallerKeeps
    <3>2. CASE Become(p, call) /\ caller[p].calls > 0
      <4>1. caller[p].calls \in Nat
        BY <1>3 DEF Locals
      <4>2. caller[p].calls - 1 \in Nat /\ ChatEstimate \in Nat
        BY <3>2, <4>1, EstimateAssumption
      <4>3. call \in Locals /\ call.pc = "chatting"
        BY <1>3, <4>2 DEF Locals, PCs
      <4> HIDE DEF call
      <4>4. QED
        BY <3>2, <4>3, CallerKeeps
    <3>3. QED
      BY <1>5, <3>1, <3>2 DEF ChatReserve, CallsAfter
  <2>2. UsageTypeOK'
    BY <1>5, EstimateAssumption, BudgetKeeps DEF ChatReserve, TryConsume
  <2>3. QED
    BY <1>1, <1>2, <2>1, <2>2
<1>6. CASE ChatReturns(p)
  <2>1. CallerTypeOK'
    <3> DEFINE back(pc) == [caller[p] EXCEPT !.pc = pc, !.reserved = 0]
    <3>1. PICK pc \in {"chat", "answered", "cancelled", "failed"} : Become(p, back(pc))
      BY <1>6 DEF ChatReturns
    <3>2. back(pc) \in Locals /\ back(pc).pc = pc
      BY <1>3 DEF Locals, PCs
    <3>3. QED
      BY <3>1, <3>2, CallerKeeps
  <2>2. UsageTypeOK'
    BY <1>6, ActualsAssumption, SettleKeeps DEF ChatReturns
  <2>3. QED
    BY <1>1, <1>2, <2>1, <2>2
<1>7. CASE ChatEnds(p)
  <2>1. CallerTypeOK'
    BY <1>7, DoneKeeps DEF ChatEnds
  <2>2. QED
    BY <1>1, <1>2, <1>7, <2>1 DEF ChatEnds, UsageTypeOK
<1>8. QED
  BY <1>4, <1>5, <1>6, <1>7 DEF ChatStep

\* Every step keeps the invariant.
LEMMA NextInv == IInv /\ [Next]_vars => IInv'
<1> SUFFICES ASSUME IInv, [Next]_vars PROVE IInv'
  OBVIOUS
<1>1. ASSUME NEW p \in Callers, Calls(p) \/ ChatTurn(p) \/ CallerStep(p) PROVE IInv'
  <2>1. CASE Calls(p)
    BY <2>1, BeforeCall DEF Calls
  <2>2. CASE AnalyzeStep(p)
    <3>1. CASE CacheHit(p) \/ CacheMiss(p) \/ Reserve(p) \/ Admit(p)
      <4>1. Requests # {}
        BY <3>1 DEF CacheHit, CacheMiss, Reserve, Admit, At, CallerTypeOK
      <4>2. QED
        BY <3>1, <4>1, BeforeCall
    <3>2. QED
      BY <2>2, <3>1, DuringCall, AfterCall DEF AnalyzeStep
  <2>3. CASE ChatTurn(p) \/ ChatStep(p)
    BY <2>3, ChatKeeps
  <2>4. QED
    BY <1>1, <2>1, <2>2, <2>3 DEF CallerStep
<1>2. CASE Reconfigure
  BY <1>2 DEF Reconfigure, breakerVars, BreakerTypeOK, ClosedBelowThreshold, CallerTypeOK,
              UsageTypeOK
<1>3. ASSUME NEW k \in DOMAIN cache, Evict(k) PROVE IInv'
  BY <1>3 DEF Evict, breakerVars, BreakerTypeOK, ClosedBelowThreshold, CallerTypeOK,
              UsageTypeOK
<1>4. CASE Tick
  <2>1. BreakerTypeOK' /\ ClosedBelowThreshold'
    BY <1>4, BreakerKeeps DEF Tick, BreakerStep
  <2>2. UsageTypeOK'
    <3>1. 0 \in Nat
      OBVIOUS
    <3>2. QED
      BY <1>4, <3>1, BudgetKeeps DEF Tick
  <2>3. QED
    BY <1>4, <2>1, <2>2 DEF Tick, CallerTypeOK
<1>5. CASE UNCHANGED vars
  BY <1>5 DEF vars, breakerVars, BreakerTypeOK, ClosedBelowThreshold, CallerTypeOK,
              UsageTypeOK
<1>6. QED
  BY <1>1, <1>2, <1>3, <1>4, <1>5 DEF Next

\* The invariant holds: the manager's data are well typed, and a closed circuit
\* is below its threshold.
THEOREM Invariance == Spec => []IInv
<1>1. QED
  BY InitInv, NextInv, PTL DEF Spec

\* Types: a window's tokens are never negative although ReleaseUnused ignores
\* resets, and the age of the last failure stays in its bounds.
THEOREM TypeCorrect == Spec => []TypeOK
<1>1. IInv => TypeOK
  OBVIOUS
<1>2. QED
  BY <1>1, Invariance, PTL

\* A closed circuit has failed less than Threshold times in a row
\* (RecordFailure opens it in time, RecordSuccess leaves nothing over).
THEOREM ClosedBelowThresholdHolds == Spec => []ClosedBelowThreshold
<1>1. IInv => ClosedBelowThreshold
  OBVIOUS
<1>2. QED
  BY <1>1, Invariance, PTL

-----------------------------------------------------------------------------
(***************************************************************************)
(* The budget.  A window counts the tokens used since its reset and those  *)
(* the callers hold, less what they held across the reset.  Callers take   *)
(* and give back tokens at any time, so what is counted is the size of a   *)
(* set that has the tokens of every caller apart from those of the others. *)
(***************************************************************************)

Accounts == [spent : Nat, overrun : Nat, carried : Nat, opening : Nat]
AccountTypeOK == account \in [Windows -> Accounts]

\* What one caller holds is as many tokens as it has reserved.
LEMMA OwnTokens ==
  ASSUME NEW p, NEW n \in Nat
  PROVE  IsFiniteSet({p} \X (1 .. n)) /\ Cardinality({p} \X (1 .. n)) = n
<1> DEFINE S == 1 .. n
<1>1. IsFiniteSet(S) /\ Cardinality(S) = n
  <2>1. 1 \in Int /\ n \in Int /\ (IF 1 > n THEN 0 ELSE n - 1 + 1) = n
    OBVIOUS
  <2>2. IsFiniteSet(1 .. n) /\ Cardinality(1 .. n) = (IF 1 > n THEN 0 ELSE n - 1 + 1)
    BY <2>1, FS_Interval, Zenon
  <2> QED
    BY <2>1, <2>2
<1>2. IsFiniteSet({p}) /\ Cardinality({p}) = 1
  BY FS_Singleton
<1> HIDE DEF S
<1>3. IsFiniteSet({p} \X S) /\ Cardinality({p} \X S) = Cardinality({p}) * Cardinality(S)
  BY <1>1, <1>2, FS_Product
<1>4. Cardinality({p}) * Cardinality(S) = n
  BY <1>1, <1>2
<1> QED
  BY <1>3, <1>4 DEF S

\* A number of callers holds a number of tokens.
LEMMA TokensFinite ==
  ASSUME CallerTypeOK, NEW ps \in SUBSET Callers
  PROVE  IsFiniteSet(Tokens(ps)) /\ Held(ps) \in Nat
<1> DEFINE f == [p \in ps |-> {p} \X (1 .. caller[p].reserved)]
           S == {f[p] : p \in ps}
<1>1. IsFiniteSet(ps)
  BY CallersAssumption, FS_Subset
<1>2. IsFiniteSet(S)
  <2>1. f \in Surjection(ps, S)
    BY DEF Surjection
  <2> QED
    BY <1>1, <2>1, FS_Surjection
<1>3. ASSUME NEW p \in ps PROVE IsFiniteSet(f[p])
  <2>1. caller[p].reserved \in Nat
    BY DEF CallerTypeOK, Locals
  <2> QED
    BY <2>1, OwnTokens
<1>4. IsFiniteSet(UNION S)
  BY <1>2, <1>3, FS_UNION
<1>5. Tokens(ps) = UNION S
  BY DEF Tokens
<1> QED
  BY <1>4, <1>5, FS_CardinalityType DEF Held

\* The tokens held by all are those of one caller and those of the others.
LEMMA HeldByOne ==
  CallerTypeOK =>
    \A p \in Callers : /\ Held(Callers \ {p}) \in Nat
                       /\ Held(Callers) = Held(Callers \ {p}) + caller[p].reserved
<1> SUFFICES ASSUME CallerTypeOK, NEW p \in Callers
             PROVE  /\ Held(Callers \ {p}) \in Nat
                    /\ Held(Callers) = Held(Callers \ {p}) + caller[p].reserved
  OBVIOUS
<1> DEFINE own == {p} \X (1 .. caller[p].reserved)
           others == Tokens(Callers \ {p})
<1>1. caller[p].reserved \in Nat
  BY DEF CallerTypeOK, Locals
<1>2. IsFiniteSet(own) /\ Cardinality(own) = caller[p].reserved
  BY <1>1, OwnTokens
<1>3. IsFiniteSet(others) /\ Held(Callers \ {p}) \in Nat
  BY TokensFinite
<1>4. Tokens(Callers) = others \cup own /\ others \cap own = {}
  BY DEF Tokens
<1>5. Cardinality({}) = 0
  BY FS_EmptySet
<1> HIDE DEF own, others
<1>6. Cardinality(others \cup own) = Cardinality(others) + Cardinality(own) - 0
  BY <1>2, <1>3, <1>4, <1>5, FS_Union
<1> QED
  BY <1>1, <1>2, <1>3, <1>4, <1>6 DEF Held, others

\* The same after a step.
LEMMA HeldByOneAfter ==
  (CallerTypeOK =>
    \A p \in Callers : /\ Held(Callers \ {p}) \in Nat
                       /\ Held(Callers) = Held(Callers \ {p}) + caller[p].reserved)'
  BY HeldByOne, PTL

\* A step of one caller leaves the tokens of the others.
LEMMA HeldAfter ==
  ASSUME CallerTypeOK, CallerTypeOK', NEW p \in Callers, NEW new, Become(p, new)
  PROVE  /\ Held(Callers \ {p}) \in Nat /\ caller[p].reserved \in Nat /\ new.reserved \in Nat
         /\ Held(Callers) = Held(Callers \ {p}) + caller[p].reserved
         /\ Held(Callers)' = Held(Callers \ {p}) + new.reserved
<1>1. caller'[p] = new /\ \A q \in Callers \ {p} : caller'[q] = caller[q]
  BY DEF Become, CallerTypeOK
<1>2. Held(Callers \ {p})' = Held(Callers \ {p})
  BY <1>1 DEF Held, Tokens
<1>3. /\ Held(Callers \ {p})' \in Nat
      /\ Held(Callers)' = Held(Callers \ {p})' + caller'[p].reserved
  BY HeldByOneAfter
<1>4. caller[p].reserved \in Nat /\ caller'[p].reserved \in Nat
  BY DEF CallerTypeOK, Locals
<1> QED
  BY <1>1, <1>2, <1>3, <1>4, HeldByOne

\* A window that starts anew: it misses what the callers hold, no more.
LEMMA OpenedAccount ==
  ASSUME CallerTypeOK, NEW n \in Nat
  PROVE  /\ Opened(n) \in Accounts
         /\ Opened(n).spent = 0 /\ Opened(n).overrun = 0
         /\ Opened(n).carried = Held(Callers) /\ Opened(n).opening = n
<1>1. Held(Callers) \in Nat
  BY TokensFinite
<1> QED
  BY <1>1 DEF Opened, Accounts

\* A reservation: the window counts it, or starts anew with it (TryConsume).
LEMMA ReserveAccounts ==
  ASSUME IInv, CallerTypeOK', AccountTypeOK, NEW p \in Callers, NEW n \in Nat, NEW new,
         TryConsume(n), account' = AccountReserve(n), Become(p, new), new.reserved = n
  PROVE  /\ AccountTypeOK'
         /\ Accounted => Accounted'
         /\ WithinLimit => WithinLimit'
<1> DEFINE others == Held(Callers \ {p})
<1>1. /\ others \in Nat /\ caller[p].reserved \in Nat /\ Held(Callers) \in Nat
      /\ Held(Callers) = others + caller[p].reserved
      /\ Held(Callers)' = others + n
  <2>1. /\ others \in Nat /\ caller[p].reserved \in Nat
        /\ Held(Callers) = others + caller[p].reserved
        /\ Held(Callers)' = others + new.reserved
    BY HeldAfter
  <2> QED
    BY <2>1
<1> HIDE DEF others
<1>2. ASSUME NEW w \in Windows
      PROVE  /\ usage[w] \in [tokens : Nat, age : Nat]
             /\ account[w] \in Accounts
             /\ Limit[w] \in Nat
  BY LimitAssumption DEF UsageTypeOK, AccountTypeOK
<1>3. ASSUME NEW w \in Windows, Expired(w)
      PROVE  /\ usage'[w].tokens = n /\ account'[w] = Opened(n)
             /\ account'[w] \in Accounts
             /\ account'[w].spent = 0 /\ account'[w].carried = Held(Callers)
             /\ account'[w].overrun = 0 /\ account'[w].opening = n
  <2>1. usage'[w].tokens = n /\ account'[w] = Opened(n)
    BY <1>3 DEF TryConsume, Charge, AccountReserve
  <2> QED
    BY <2>1, OpenedAccount
<1>4. ASSUME NEW w \in Windows, ~Expired(w)
      PROVE  usage'[w].tokens = usage[w].tokens + n /\ account'[w] = account[w]
  BY <1>2, <1>4 DEF TryConsume, Charge, AccountReserve
<1>5. AccountTypeOK'
  <2>1. ASSUME NEW w \in Windows PROVE account'[w] \in Accounts
    BY <1>2, <1>3, <1>4
  <2>2. account' = [w \in Windows |-> account'[w]]
    BY DEF AccountReserve
  <2> QED
    BY <2>1, <2>2 DEF AccountTypeOK
<1>6. ASSUME Accounted, NEW w \in Windows
      PROVE  account'[w].spent + Held(Callers)' <= usage'[w].tokens + account'[w].carried
  <2>1. CASE Expired(w)
    BY <1>1, <1>3, <2>1
  <2>2. CASE ~Expired(w)
    <3>1. account[w].spent + Held(Callers) <= usage[w].tokens + account[w].carried
      BY <1>6 DEF Accounted
    <3>2. account[w].spent \in Nat /\ account[w].carried \in Nat
      BY <1>2 DEF Accounts
    <3> QED
      BY <1>1, <1>2, <1>4, <1>6, <2>2, <3>1, <3>2
  <2> QED
    BY <2>1, <2>2
<1>7. ASSUME NEW w \in Windows
      PROVE  \/ usage'[w].tokens <= Limit[w] + account'[w].overrun
             \/ usage'[w].tokens <= account'[w].opening + account'[w].overrun
  <2>1. CASE Expired(w)
    BY <1>3, <2>1
  <2>2. CASE ~Expired(w)
    <3>1. usage[w].tokens + n <= Limit[w]
      BY <1>2, <2>2 DEF TryConsume, Exceeds
    <3>2. account[w].overrun \in Nat
      BY <1>2 DEF Accounts
    <3> QED
      BY <1>2, <1>4, <2>2, <3>1, <3>2
  <2> QED
    BY <2>1, <2>2
<1> QED
  BY <1>5, <1>6, <1>7 DEF Accounted, WithinLimit

\* A settlement: what was reserved and not used is given back, what was used beyond
\* the reservation is charged (ReleaseUnused, RecordUsage).
LEMMA SettleAccounts ==
  ASSUME IInv, CallerTypeOK', AccountTypeOK, NEW p \in Callers, NEW used \in Nat,
         Settle(p, used), NEW new, Become(p, new), new.reserved = 0
  PROVE  /\ AccountTypeOK'
         /\ Accounted => Accounted'
         /\ WithinLimit => WithinLimit'
<1> DEFINE others == Held(Callers \ {p})
           held == caller[p].reserved
           over == IF used > held THEN used - held ELSE 0
<1>1. /\ others \in Nat /\ held \in Nat
      /\ Held(Callers) = others + held
      /\ Held(Callers)' = others
  <2>1. others \in Nat /\ held \in Nat /\ Held(Callers) = others + held
    BY HeldAfter
  <2>2. Held(Callers)' = others + new.reserved
    BY HeldAfter
  <2> QED
    BY <2>1, <2>2
<1> HIDE DEF others
<1>2. ASSUME NEW w \in Windows
      PROVE  /\ usage[w] \in [tokens : Nat, age : Nat]
             /\ account[w] \in Accounts
             /\ Limit[w] \in Nat
  BY LimitAssumption DEF UsageTypeOK, AccountTypeOK
<1> DEFINE base(w) == IF Expired(w) /\ over > 0 THEN Opened(0) ELSE account[w]
<1>3. account' = [w \in Windows |-> [base(w) EXCEPT !.spent = @ + used, !.overrun = @ + over]]
  BY Zenon DEF Settle, AccountUse
<1> HIDE DEF held
<1>4. over \in Nat
  BY <1>1
<1> HIDE DEF over
<1>5. ASSUME NEW w \in Windows PROVE base(w) \in Accounts
  <2>1. Opened(0) \in Accounts
    BY OpenedAccount
  <2> QED
    BY <1>2, <2>1
<1> HIDE DEF base
<1>6. ASSUME NEW w \in Windows
      PROVE  /\ account'[w] \in Accounts
             /\ account'[w].spent = base(w).spent + used
             /\ account'[w].overrun = base(w).overrun + over
             /\ account'[w].carried = base(w).carried
             /\ account'[w].opening = base(w).opening
  <2> DEFINE a == base(w)
             spent == a.spent + used
             overrun == a.overrun + over
  <2>1. a \in Accounts /\ spent \in Nat /\ overrun \in Nat
    BY <1>4, <1>5 DEF Accounts
  <2>2. account'[w] = [[a EXCEPT !.spent = spent] EXCEPT !.overrun = overrun]
    BY <1>3, Zenon
  <2> HIDE DEF a, spent, overrun
  <2>3. /\ account'[w] \in Accounts
        /\ account'[w].spent = spent /\ account'[w].overrun = overrun
        /\ account'[w].carried = a.carried /\ account'[w].opening = a.opening
    BY <2>1, <2>2 DEF Accounts
  <2> QED
    BY <2>3 DEF a, spent, overrun
<1>7. AccountTypeOK'
  BY <1>3, <1>6 DEF AccountTypeOK
<1>8. ASSUME NEW w \in Windows, used <= held
      PROVE  usage'[w].tokens = IF usage[w].tokens > held - used
                                THEN usage[w].tokens - (held - used) ELSE 0
  BY <1>2, <1>8 DEF Settle, ReleaseUnused, held
<1>9. ASSUME NEW w \in Windows, ~(used <= held)
      PROVE  usage'[w].tokens = IF Expired(w) THEN used - held
                                ELSE usage[w].tokens + (used - held)
  BY <1>2, <1>9 DEF Settle, Charge, held
<1>10. ASSUME NEW w \in Windows, ~(Expired(w) /\ over > 0)
       PROVE  base(w) = account[w]
  BY <1>10 DEF base
<1>11. ASSUME NEW w \in Windows, Expired(w), over > 0
       PROVE  /\ base(w).spent = 0 /\ base(w).overrun = 0
              /\ base(w).carried = Held(Callers) /\ base(w).opening = 0
  <2>1. base(w) = Opened(0)
    BY <1>11 DEF base
  <2> QED
    BY <2>1, OpenedAccount
<1>12. ASSUME NEW w \in Windows
       PROVE  /\ base(w).spent \in Nat /\ base(w).overrun \in Nat
              /\ base(w).carried \in Nat /\ base(w).opening \in Nat
  BY <1>5 DEF Accounts
<1>13. ASSUME Accounted, NEW w \in Windows
       PROVE  account'[w].spent + Held(Callers)' <= usage'[w].tokens + account'[w].carried
  <2>1. CASE used <= held
    <3>1. over = 0
      BY <1>1, <2>1 DEF over
    <3>2. base(w) = account[w]
      BY <1>10, <3>1
    <3>3. base(w).spent + Held(Callers) <= usage[w].tokens + base(w).carried
      BY <1>13, <3>2 DEF Accounted
    <3> QED
      BY <1>1, <1>2, <1>6, <1>8, <1>12, <2>1, <3>3
  <2>2. CASE ~(used <= held) /\ Expired(w)
    <3>1. over = used - held /\ over > 0
      BY <1>1, <2>2 DEF over
    <3> QED
      BY <1>1, <1>6, <1>9, <1>11, <2>2, <3>1
  <2>3. CASE ~(used <= held) /\ ~Expired(w)
    <3>1. base(w).spent + Held(Callers) <= usage[w].tokens + base(w).carried
      BY <1>10, <1>13, <2>3 DEF Accounted
    <3> QED
      BY <1>1, <1>2, <1>6, <1>9, <1>12, <2>3, <3>1
  <2> QED
    BY <2>1, <2>2, <2>3
<1>14. ASSUME WithinLimit, NEW w \in Windows
       PROVE  \/ usage'[w].tokens <= Limit[w] + account'[w].overrun
              \/ usage'[w].tokens <= account'[w].opening + account'[w].overrun
  <2>1. CASE used <= held
    <3>1. over = 0
      BY <1>1, <2>1 DEF over
    <3>2. base(w) = account[w]
      BY <1>10, <3>1
    <3>3. \/ usage[w].tokens <= Limit[w] + base(w).overrun
          \/ usage[w].tokens <= base(w).opening + base(w).overrun
      BY <1>14, <3>2 DEF WithinLimit
    <3>4. usage'[w].tokens <= usage[w].tokens /\ usage'[w].tokens \in Nat
      BY <1>1, <1>2, <1>8, <2>1
    <3> QED
      BY <1>2, <1>6, <1>12, <3>1, <3>3, <3>4
  <2>2. CASE ~(used <= held)
    <3>1. over = used - held /\ over > 0
      BY <1>1, <2>2 DEF over
    <3>2. CASE Expired(w)
      BY <1>1, <1>2, <1>6, <1>9, <1>11, <2>2, <3>1, <3>2
    <3>3. CASE ~Expired(w)
      <4>1. \/ usage[w].tokens <= Limit[w] + base(w).overrun
            \/ usage[w].tokens <= base(w).opening + base(w).overrun
        BY <1>10, <1>14, <3>3 DEF WithinLimit
      <4> QED
        BY <1>1, <1>2, <1>6, <1>9, <1>12, <2>2, <3>1, <3>3, <4>1
    <3> QED
      BY <3>2, <3>3
  <2> QED
    BY <2>1, <2>2
<1> QED
  BY <1>7, <1>13, <1>14 DEF Accounted, WithinLimit

\* Any other step of a caller keeps its tokens, or loses them (a rejected or cancelled
\* call): the window goes on counting them.
LEMMA OtherAccounts ==
  ASSUME IInv, CallerTypeOK', AccountTypeOK, UNCHANGED <<usage, account>>,
         NEW p \in Callers, NEW new, Become(p, new), new.reserved <= caller[p].reserved
  PROVE  /\ AccountTypeOK'
         /\ Accounted => Accounted'
         /\ WithinLimit => WithinLimit'
<1>1. Held(Callers)' <= Held(Callers) /\ Held(Callers)' \in Nat /\ Held(Callers) \in Nat
  <2> DEFINE others == Held(Callers \ {p})
  <2>1. /\ others \in Nat /\ caller[p].reserved \in Nat /\ new.reserved \in Nat
        /\ Held(Callers) = others + caller[p].reserved /\ Held(Callers)' = others + new.reserved
    BY HeldAfter
  <2> HIDE DEF others
  <2> QED
    BY <2>1
<1>2. ASSUME NEW w \in Windows
      PROVE  /\ usage[w].tokens \in Nat
             /\ account[w].spent \in Nat /\ account[w].carried \in Nat
  BY DEF UsageTypeOK, AccountTypeOK, Accounts
<1>3. ASSUME Accounted, NEW w \in Windows
      PROVE  account[w].spent + Held(Callers)' <= usage[w].tokens + account[w].carried
  <2>1. account[w].spent + Held(Callers) <= usage[w].tokens + account[w].carried
    BY <1>3 DEF Accounted
  <2> QED
    BY <1>1, <1>2, <2>1
<1> QED
  BY <1>3 DEF AccountTypeOK, Accounted, WithinLimit

\* What every step must keep.
AccountsKept ==
  /\ AccountTypeOK'
  /\ Accounted => Accounted'
  /\ WithinLimit => WithinLimit'

\* A step of a caller that leaves the budget alone: it keeps its tokens or loses them.
LEMMA LeaveAccounts ==
  ASSUME IInv, CallerTypeOK', AccountTypeOK, UNCHANGED <<usage, account>>,
         NEW p \in Callers, (\E pc : Goto(p, pc)) \/ Done(p)
  PROVE  AccountsKept
<1>1. caller[p].reserved \in Nat /\ caller[p] \in Locals
  BY DEF CallerTypeOK, Locals
<1>2. ASSUME NEW pc, Goto(p, pc) PROVE AccountsKept
  <2> DEFINE new == [caller[p] EXCEPT !.pc = pc]
  <2>1. Become(p, new) /\ new.reserved <= caller[p].reserved
    BY <1>1, <1>2 DEF Goto, Locals
  <2> HIDE DEF new
  <2> QED
    BY <2>1, OtherAccounts DEF AccountsKept
<1>3. CASE Done(p)
  <2>1. Become(p, Idle) /\ Idle.reserved <= caller[p].reserved
    BY <1>1, <1>3 DEF Done, Idle
  <2> QED
    BY <2>1, OtherAccounts DEF AccountsKept
<1> QED
  BY <1>2, <1>3

\* Starting Analyze or a chat turn, being admitted, and taking the result of a call
\* leave the budget alone.
LEMMA CallAccounts ==
  ASSUME IInv, CallerTypeOK', AccountTypeOK, NEW p \in Callers,
         \/ Calls(p) \/ ChatTurn(p) \/ Admit(p) \/ CallSucceeds(p)
  PROVE  AccountsKept
<1>1. caller[p].reserved \in Nat /\ caller[p] \in Locals
  BY DEF CallerTypeOK, Locals
<1>2. UNCHANGED <<usage, account>>
  BY DEF Calls, Analyze, ChatTurn, Admit, CallSucceeds
<1>3. \/ (\E pc : Goto(p, pc)) \/ Done(p)
      \/ \E new : Become(p, new) /\ new.reserved <= caller[p].reserved
  <2>1. CASE Calls(p)
    <3>1. PICK r \in Requests : Analyze(p, r)
      BY <2>1 DEF Calls
    <3> DEFINE new == [Idle EXCEPT !.pc = "lookup", !.request = r, !.provider = provider]
    <3>2. Become(p, new)
      BY <3>1 DEF Analyze
    <3>3. new.reserved <= caller[p].reserved
      BY <1>1 DEF Idle
    <3> QED
      BY <3>2, <3>3
  <2>2. CASE ChatTurn(p)
    <3> DEFINE turn == [caller[p] EXCEPT !.pc = "chat", !.calls = MaxIterations]
               probe == [turn EXCEPT !.probe = TRUE]
    <3>1. Become(p, turn) \/ Become(p, probe)
      BY <2>2, Zenon DEF ChatTurn
    <3>2. turn.reserved <= caller[p].reserved /\ probe.reserved <= caller[p].reserved
      BY <1>1 DEF Locals
    <3> HIDE DEF turn, probe
    <3> QED
      BY <3>1, <3>2
  <2>3. CASE Admit(p)
    <3> DEFINE probe == [caller[p] EXCEPT !.pc = "call", !.probe = TRUE]
    <3>1. Goto(p, "call") \/ Become(p, probe) \/ Done(p)
      BY <2>3, Zenon DEF Admit
    <3>2. probe.reserved <= caller[p].reserved
      BY <1>1 DEF Locals
    <3> HIDE DEF probe
    <3> QED
      BY <3>1, <3>2
  <2>4. CASE CallSucceeds(p)
    <3>1. PICK used : Become(p, [caller[p] EXCEPT !.pc = "settle", !.used = used])
      BY <2>4 DEF CallSucceeds
    <3> DEFINE new == [caller[p] EXCEPT !.pc = "settle", !.used = used]
    <3>2. new.reserved <= caller[p].reserved
      BY <1>1 DEF Locals
    <3> HIDE DEF new
    <3>3. Become(p, new)
      BY <3>1 DEF new
    <3> QED
      BY <3>2, <3>3
  <2> QED
    BY <2>1, <2>2, <2>3, <2>4
<1>4. ASSUME NEW new, Become(p, new), new.reserved <= caller[p].reserved
      PROVE  AccountsKept
  BY <1>2, <1>4, OtherAccounts DEF AccountsKept
<1> QED
  BY <1>2, <1>3, <1>4, LeaveAccounts

\* The reservations of Analyze and of RunTurn.
LEMMA ReservationAccounts ==
  ASSUME IInv, CallerTypeOK', AccountTypeOK, NEW p \in Callers,
         Reserve(p) \/ ChatReserve(p)
  PROVE  AccountsKept
<1>1. caller[p] \in Locals
  BY DEF CallerTypeOK
<1>2. CASE Reserve(p)
  <2> DEFINE n == Estimate[caller[p].request]
             new == [caller[p] EXCEPT !.pc = "allow", !.reserved = n]
  <2>1. CASE Exceeds(n)
    BY <1>2, <2>1, LeaveAccounts DEF Reserve
  <2>2. CASE ~Exceeds(n)
    <3>1. caller[p].request \in Requests
      BY <1>2 DEF Reserve, At, CallerTypeOK
    <3>2. n \in Nat
      BY <3>1, EstimateAssumption
    <3>3. TryConsume(n) /\ account' = AccountReserve(n) /\ Become(p, new)
      BY <1>2, <2>2, Zenon DEF Reserve
    <3>4. new.reserved = n
      BY <1>1 DEF Locals
    <3> HIDE DEF n, new
    <3> QED
      BY <3>2, <3>3, <3>4, ReserveAccounts DEF AccountsKept
  <2> QED
    BY <2>1, <2>2
<1>3. CASE ChatReserve(p)
  <2> DEFINE new == [caller[p] EXCEPT !.pc = "chatting", !.reserved = ChatEstimate,
                                      !.calls = CallsAfter(p)]
  <2>1. \/ (\E pc : Goto(p, pc)) /\ UNCHANGED <<usage, account>>
        \/ TryConsume(ChatEstimate) /\ account' = AccountReserve(ChatEstimate) /\ Become(p, new)
    BY <1>3, Zenon DEF ChatReserve
  <2>2. new.reserved = ChatEstimate
    BY <1>1 DEF Locals
  <2>3. ChatEstimate \in Nat
    BY EstimateAssumption
  <2> HIDE DEF new
  <2>4. ASSUME TryConsume(ChatEstimate), account' = AccountReserve(ChatEstimate),
               Become(p, new)
        PROVE  AccountsKept
    BY <2>2, <2>3, <2>4, ReserveAccounts DEF AccountsKept
  <2> QED
    BY <2>1, <2>4, LeaveAccounts
<1> QED
  BY <1>2, <1>3

\* The settlements of Analyze and of RunTurn.
LEMMA SettlementAccounts ==
  ASSUME IInv, CallerTypeOK', AccountTypeOK, NEW p \in Callers,
         Release(p) \/ Adjust(p) \/ ChatReturns(p)
  PROVE  AccountsKept
<1>1. caller[p] \in Locals
  BY DEF CallerTypeOK
<1>2. \E used \in Nat : Settle(p, used) /\ \E new : Become(p, new) /\ new.reserved = 0
  <2>1. CASE Release(p)
    <3>1. Settle(p, 0) /\ Become(p, Idle)
      BY <2>1 DEF Release, Done
    <3>2. Idle.reserved = 0 /\ 0 \in Nat
      BY DEF Idle
    <3> QED
      BY <3>1, <3>2, Zenon
  <2>2. CASE Adjust(p)
    <3> DEFINE new == [caller[p] EXCEPT !.pc = "store", !.reserved = 0, !.used = 0]
    <3>1. Settle(p, caller[p].used) /\ Become(p, new)
      BY <2>2, Zenon DEF Adjust
    <3>2. new.reserved = 0 /\ caller[p].used \in Nat
      BY <1>1 DEF Locals
    <3> QED
      BY <3>1, <3>2, Zenon
  <2>3. CASE ChatReturns(p)
    <3>1. PICK used, next :
            used \in Nat /\ Settle(p, used) /\ Become(p, [caller[p] EXCEPT !.pc = next, !.reserved = 0])
      <4>1. 0 \in Nat /\ \A used \in Actuals : used \in Nat
        BY ActualsAssumption
      <4> QED
        BY <2>3, <4>1, Zenon DEF ChatReturns
    <3> DEFINE new == [caller[p] EXCEPT !.pc = next, !.reserved = 0]
    <3>2. new.reserved = 0
      BY <1>1 DEF Locals
    <3> QED
      BY <3>1, <3>2, Zenon
  <2> QED
    BY <2>1, <2>2, <2>3
<1> QED
  BY <1>2, SettleAccounts DEF AccountsKept

\* Every step keeps the accounts.
LEMMA NextAccounts ==
  ASSUME IInv, CallerTypeOK', AccountTypeOK, [Next]_vars
  PROVE  AccountsKept
<1>1. ASSUME NEW p \in Callers, Calls(p) \/ ChatTurn(p) \/ CallerStep(p)
      PROVE  AccountsKept
  <2>1. CASE \/ CacheHit(p) \/ CacheMiss(p) \/ CallFails(p) \/ CallLimited(p)
             \/ WaitEnds(p) \/ WaitCancelled(p) \/ RetryLimited(p) \/ Store(p)
             \/ ChatEnds(p)
    <3>1. UNCHANGED <<usage, account>> /\ ((\E pc : Goto(p, pc)) \/ Done(p))
      BY <2>1, Zenon
      DEF CacheHit, CacheMiss, CallFails, CallLimited, WaitEnds, WaitCancelled,
          RetryLimited, Store, ChatEnds
    <3> QED
      BY <3>1, LeaveAccounts
  <2>2. CASE Calls(p) \/ ChatTurn(p) \/ Admit(p) \/ CallSucceeds(p)
    BY <2>2, CallAccounts
  <2>3. CASE Reserve(p) \/ ChatReserve(p)
    BY <2>3, ReservationAccounts
  <2>4. CASE Release(p) \/ Adjust(p) \/ ChatReturns(p)
    BY <2>4, SettlementAccounts
  <2> QED
    BY <1>1, <2>1, <2>2, <2>3, <2>4 DEF CallerStep, AnalyzeStep, ChatStep
<1>2. ASSUME UNCHANGED <<usage, caller, account>> PROVE AccountsKept
  BY <1>2 DEF AccountsKept, AccountTypeOK, Accounted, WithinLimit, Held, Tokens
<1>3. CASE Tick
  <2>1. UNCHANGED <<caller, account>>
    BY <1>3 DEF Tick
  <2>2. ASSUME NEW w \in Windows PROVE usage'[w].tokens = usage[w].tokens
    BY <1>3 DEF Tick, BudgetAges, UsageTypeOK
  <2> QED
    BY <2>1, <2>2 DEF AccountsKept, AccountTypeOK, Accounted, WithinLimit, Held, Tokens
<1> QED
  BY <1>1, <1>2, <1>3 DEF Next, Reconfigure, Evict, vars

\* At the start nothing is used, spent or held (NewBudget).
LEMMA InitAccounts == Init => AccountTypeOK /\ Accounted /\ WithinLimit
<1> SUFFICES ASSUME Init PROVE AccountTypeOK /\ Accounted /\ WithinLimit
  OBVIOUS
<1>1. ASSUME NEW w \in Windows
      PROVE  /\ account[w] = Opened(0) /\ usage[w].tokens = 0 /\ Limit[w] \in Nat
  BY LimitAssumption DEF Init, BudgetInit
<1>3. Held(Callers) = 0
  <2>1. ASSUME NEW p \in Callers PROVE {p} \X (1 .. caller[p].reserved) = {}
    <3>1. caller[p].reserved = 0
      BY DEF Init, Idle
    <3> QED
      BY <3>1
  <2>2. Tokens(Callers) = {}
    BY <2>1 DEF Tokens
  <2> QED
    BY <2>2, FS_EmptySet DEF Held
<1>2. /\ Opened(0).spent = 0 /\ Opened(0).overrun = 0 /\ Opened(0).carried = 0
      /\ Opened(0) \in Accounts
  BY <1>3 DEF Opened, Accounts
<1>4. AccountTypeOK
  BY <1>1, <1>2 DEF Init, AccountTypeOK
<1>5. Accounted /\ WithinLimit
  <2>1. 0 + 0 <= 0 + 0 /\ \A n \in Nat : 0 <= n + 0
    OBVIOUS
  <2> QED
    BY <1>1, <1>2, <1>3, <2>1 DEF Accounted, WithinLimit
<1> QED
  BY <1>4, <1>5

\* A window counts what was used since its reset and what the calls in flight have
\* reserved, but for what was held across the reset (TryConsume, ReleaseUnused,
\* RecordUsage), however many callers there are.
THEOREM AccountedHolds == Spec => []Accounted
<1>1. Init => AccountTypeOK /\ Accounted
  BY InitAccounts
<1>2. IInv /\ IInv' /\ AccountTypeOK /\ Accounted /\ [Next]_vars => (AccountTypeOK /\ Accounted)'
  BY NextAccounts DEF AccountsKept
<1> QED
  BY <1>1, <1>2, Invariance, PTL DEF Spec

\* Beyond what calls used in excess of their reservations, a window is above its
\* limit only by the reservation that reset it (CheckAllowance, TryConsume).
THEOREM WithinLimitHolds == Spec => []WithinLimit
<1>1. Init => AccountTypeOK /\ WithinLimit
  BY InitAccounts
<1>2. IInv /\ IInv' /\ AccountTypeOK /\ WithinLimit /\ [Next]_vars
        => (AccountTypeOK /\ WithinLimit)'
  BY NextAccounts DEF AccountsKept
<1> QED
  BY <1>1, <1>2, Invariance, PTL DEF Spec
=============================================================================
