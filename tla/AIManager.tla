------------------------------ MODULE AIManager ------------------------------
(***************************************************************************)
(* The shared AI manager (internal/ai/manager.go) between its callers, the *)
(* provider, the circuit breaker, the token budget and the response cache. *)
(* Callers are the goroutines of the dashboard and the controllers that    *)
(* call Analyze, and of the chat handler, which asks the breaker for a     *)
(* whole turn (internal/dashboard/handlers_chat.go) and charges the budget *)
(* for each of its calls (internal/ai/agent.go, RunTurn).                  *)
(*                                                                         *)
(* A request is its cache key without the provider; a provider is a name   *)
(* and a model.  The cache's LRU order and TTL are one action that may     *)
(* drop any entry.  The enabled flag is checked by the callers and is not  *)
(* here.                                                                   *)
(***************************************************************************)
EXTENDS CircuitBreaker, TokenBudget, FiniteSets

CONSTANTS
  Callers,
  Requests,       \* analysis requests
  Estimate,       \* tokens reserved for a request
  ChatEstimate,   \* tokens reserved for a call of a chat turn
  Actuals,        \* tokens a successful call may use
  Names, Models,  \* a provider is a pair of them
  None,           \* no cached response, no request, no provider
  MaxIterations   \* calls of a chat turn

ASSUME CallersAssumption == IsFiniteSet(Callers)
ASSUME EstimateAssumption ==
  Estimate \in [Requests -> Nat] /\ ChatEstimate \in Nat
ASSUME ActualsAssumption == Actuals \subseteq Nat
ASSUME MaxIterationsAssumption == MaxIterations \in Nat \ {0}

VARIABLES
  provider,   \* m.provider: [name, model]
  cache,      \* m.cache: the model whose response is under a name and request
  caller,     \* the callers' locals
  account     \* history per window: see Opened

vars == <<breakerVars, usage, provider, cache, caller, account>>

Providers == [name : Names, model : Models]

\* reserved are the tokens the caller holds; used, what its call took; calls,
\* the calls left of a chat turn; probe, whether Allow admitted it half-open.
Idle == [pc |-> "idle", request |-> None, provider |-> None, reserved |-> 0,
         used |-> 0, calls |-> 0, probe |-> FALSE]

-----------------------------------------------------------------------------
At(p, pc) == caller[p].pc = pc
Become(p, new) == caller' = [caller EXCEPT ![p] = new]
Goto(p, pc) == Become(p, [caller[p] EXCEPT !.pc = pc])
Done(p) == Become(p, Idle)

\* The tokens some callers hold, and how many they are.
Tokens(ps) == UNION {{p} \X (1 .. caller[p].reserved) : p \in ps}
Held(ps) == Cardinality(Tokens(ps))

\* The history of a window that tokens of a charge reset: what calls used since,
\* what they used beyond their reservations, the tokens that callers held across
\* the reset, and the reservation that caused it, which no limit was held against.
Opened(tokens) ==
  [spent |-> 0, overrun |-> 0, carried |-> Held(Callers), opening |-> tokens]
AccountReserve(n) ==
  [w \in Windows |-> IF Expired(w) THEN Opened(n) ELSE account[w]]
AccountUse(p, used) ==
  LET over == IF used > caller[p].reserved THEN used - caller[p].reserved ELSE 0
      base(w) == IF Expired(w) /\ over > 0 THEN Opened(0) ELSE account[w]
  IN [w \in Windows |-> [base(w) EXCEPT !.spent = @ + used, !.overrun = @ + over]]

\* The reservation of p is settled against the tokens really used.
Settle(p, used) ==
  /\ IF used <= caller[p].reserved THEN ReleaseUnused(caller[p].reserved - used)
                                   ELSE Charge(used - caller[p].reserved)
  /\ account' = AccountUse(p, used)

Init ==
  /\ BreakerInit
  /\ BudgetInit
  /\ provider \in Providers
  /\ cache = [k \in Names \X Requests |-> None]
  /\ caller = [p \in Callers |-> Idle]
  /\ account = [w \in Windows |-> Opened(0)]

-----------------------------------------------------------------------------
(* Analyze *)

\* Read lock: the provider.
Analyze(p, r) ==
  /\ At(p, "idle")
  /\ Become(p, [Idle EXCEPT !.pc = "lookup", !.request = r, !.provider = provider])
  /\ UNCHANGED <<breakerVars, usage, provider, cache, account>>

Key(p) == <<caller[p].provider.name, caller[p].request>>

CacheHit(p) ==
  /\ At(p, "lookup")
  /\ cache[Key(p)] # None
  /\ Done(p)
  /\ UNCHANGED <<breakerVars, usage, provider, cache, account>>

CacheMiss(p) ==
  /\ At(p, "lookup")
  /\ cache[Key(p)] = None
  /\ Goto(p, "reserve")
  /\ UNCHANGED <<breakerVars, usage, provider, cache, account>>

Reserve(p) ==
  LET n == Estimate[caller[p].request] IN
  /\ At(p, "reserve")
  /\ IF Exceeds(n)
     THEN Done(p) /\ UNCHANGED <<usage, account>>
     ELSE /\ TryConsume(n)
          /\ account' = AccountReserve(n)
          /\ Become(p, [caller[p] EXCEPT !.pc = "allow", !.reserved = n])
  /\ UNCHANGED <<breakerVars, provider, cache>>

\* A rejected call keeps its reservation: nobody releases it.
Admit(p) ==
  /\ At(p, "allow")
  /\ \/ AllowClosed /\ Goto(p, "call")
     \/ AllowProbe /\ Become(p, [caller[p] EXCEPT !.pc = "call", !.probe = TRUE])
     \/ Reject /\ Done(p)
  /\ UNCHANGED <<usage, provider, cache, account>>

\* The provider answered, at once or when retried.
CallSucceeds(p) ==
  /\ At(p, "call") \/ At(p, "retry")
  /\ RecordSuccess
  /\ \E used \in Actuals :
       Become(p, [caller[p] EXCEPT !.pc = "settle", !.used = used])
  /\ UNCHANGED <<usage, provider, cache, account>>

\* The provider failed, or the context ended during the call.
CallFails(p) ==
  /\ At(p, "call") \/ At(p, "retry")
  /\ RecordFailure
  /\ Goto(p, "release")
  /\ UNCHANGED <<usage, provider, cache, account>>

\* 429: the caller will retry once, after Retry-After.
CallLimited(p) ==
  /\ At(p, "call")
  /\ RecordRateLimit
  /\ Goto(p, "wait")
  /\ UNCHANGED <<usage, provider, cache, account>>

WaitEnds(p) ==
  /\ At(p, "wait")
  /\ Goto(p, "retry")
  /\ UNCHANGED <<breakerVars, usage, provider, cache, account>>

\* ctx.Done() while waiting: neither the breaker nor the budget hear of it.
WaitCancelled(p) ==
  /\ At(p, "wait")
  /\ Done(p)
  /\ UNCHANGED <<breakerVars, usage, provider, cache, account>>

\* 429 again: no failure for the breaker.
RetryLimited(p) ==
  /\ At(p, "retry")
  /\ Goto(p, "release")
  /\ UNCHANGED <<breakerVars, usage, provider, cache, account>>

Release(p) ==
  /\ At(p, "release")
  /\ Settle(p, 0)
  /\ Done(p)
  /\ UNCHANGED <<breakerVars, provider, cache>>

Adjust(p) ==
  /\ At(p, "settle")
  /\ Settle(p, caller[p].used)
  /\ Become(p, [caller[p] EXCEPT !.pc = "store", !.reserved = 0, !.used = 0])
  /\ UNCHANGED <<breakerVars, provider, cache>>

\* The response is cached under the provider's name; the model is not in the key.
Store(p) ==
  /\ At(p, "store")
  /\ cache' = [cache EXCEPT ![Key(p)] = caller[p].provider.model]
  /\ Done(p)
  /\ UNCHANGED <<breakerVars, usage, provider, account>>

AnalyzeStep(p) ==
  \/ CacheHit(p) \/ CacheMiss(p) \/ Reserve(p) \/ Admit(p)
  \/ CallSucceeds(p) \/ CallFails(p) \/ CallLimited(p) \/ WaitEnds(p)
  \/ WaitCancelled(p) \/ RetryLimited(p) \/ Release(p) \/ Adjust(p) \/ Store(p)

-----------------------------------------------------------------------------
(* A chat turn: handleChat and RunTurn *)

\* AllowChatTurn.
ChatTurn(p) ==
  LET turn == [caller[p] EXCEPT !.pc = "chat", !.calls = MaxIterations] IN
  /\ At(p, "idle")
  /\ \/ AllowClosed /\ Become(p, turn)
     \/ AllowProbe /\ Become(p, [turn EXCEPT !.probe = TRUE])
  /\ UNCHANGED <<usage, provider, cache, account>>

\* Mutation: the calls of a turn are not counted.
CallsAfterUncounted(p) == caller[p].calls
\* The calls a turn may still make after the next one.
CallsAfter(p) == caller[p].calls - 1

\* RunTurn's loop: the next call is reserved; without budget, without calls
\* left or with the context cancelled the turn is over.
ChatReserve(p) ==
  /\ At(p, "chat")
  /\ \/ Goto(p, "cancelled") /\ UNCHANGED <<usage, account>>
     \/ /\ caller[p].calls = 0 \/ Exceeds(ChatEstimate)
        /\ Goto(p, "failed")
        /\ UNCHANGED <<usage, account>>
     \/ /\ caller[p].calls > 0
        /\ TryConsume(ChatEstimate)
        /\ account' = AccountReserve(ChatEstimate)
        /\ Become(p, [caller[p] EXCEPT !.pc = "chatting", !.reserved = ChatEstimate,
                                       !.calls = CallsAfter(p)])
  /\ UNCHANGED <<breakerVars, provider, cache>>

\* The call returns and its reservation is settled: tool calls ask for another
\* one, an answer ends the turn, and so does an error.
ChatReturns(p) ==
  /\ At(p, "chatting")
  /\ \/ /\ \E used \in Actuals : Settle(p, used)
        /\ \E next \in {"chat", "answered"} :
             Become(p, [caller[p] EXCEPT !.pc = next, !.reserved = 0])
     \/ /\ Settle(p, 0)
        /\ \E next \in {"failed", "cancelled"} :
             Become(p, [caller[p] EXCEPT !.pc = next, !.reserved = 0])
  /\ UNCHANGED <<breakerVars, provider, cache>>

\* handleChat reports the outcome; that of a cancelled turn, or of one whose
\* stream the client closed, is not reported.
ChatEnds(p) ==
  /\ \/ At(p, "answered") /\ RecordSuccess
     \/ At(p, "failed") /\ RecordFailure
     \/ (At(p, "cancelled") \/ At(p, "answered")) /\ UNCHANGED breakerVars
  /\ Done(p)
  /\ UNCHANGED <<usage, provider, cache, account>>

ChatStep(p) == ChatReserve(p) \/ ChatReturns(p) \/ ChatEnds(p)

-----------------------------------------------------------------------------
\* Reconfigure: the provider is replaced, by an equal one perhaps; the cache is
\* cleared.
Reconfigure ==
  /\ provider' \in Providers
  /\ cache' = [k \in DOMAIN cache |-> None]
  /\ UNCHANGED <<breakerVars, usage, caller, account>>

\* The cache drops an entry: its TTL ended, or another entry needs the room.
Evict(k) ==
  /\ cache[k] # None
  /\ cache' = [cache EXCEPT ![k] = None]
  /\ UNCHANGED <<breakerVars, usage, provider, caller, account>>

Tick ==
  /\ BreakerAges
  /\ BudgetAges
  /\ UNCHANGED <<provider, cache, caller, account>>

CallerStep(p) == AnalyzeStep(p) \/ ChatStep(p)
Calls(p) == \E r \in Requests : Analyze(p, r)

Next ==
  \/ \E p \in Callers : Calls(p) \/ ChatTurn(p) \/ CallerStep(p)
  \/ Reconfigure
  \/ \E k \in DOMAIN cache : Evict(k)
  \/ Tick

Spec == Init /\ [][Next]_vars

\* Calls end (the provider's client and the callers' contexts have timeouts),
\* time passes, and the checks keep calling Analyze.
FairSpec ==
  /\ Spec
  /\ \A p \in Callers : WF_vars(CallerStep(p)) /\ WF_vars(Calls(p))
  /\ WF_vars(Tick)
  /\ \A k \in Names \X Requests : WF_vars(Evict(k))

-----------------------------------------------------------------------------
PCs == {"idle", "lookup", "reserve", "allow", "call", "wait", "retry", "release",
        "settle", "store", "chat", "chatting", "answered", "failed", "cancelled"}

BreakerTypeOK ==
  /\ state \in {"closed", "open", "half-open"}
  /\ consecutiveFailures \in 0 .. Threshold
  /\ sinceFailure \in 0 .. ResetTimeout

Locals == [pc : PCs, request : Requests \cup {None}, provider : Providers \cup {None},
           reserved : Nat, used : Nat, calls : Nat, probe : BOOLEAN]

\* Every caller past the start of Analyze has a request and a provider.
CallerTypeOK ==
  /\ caller \in [Callers -> Locals]
  /\ \A p \in Callers :
       caller[p].pc \in {"lookup", "reserve", "allow", "call", "wait", "retry",
                         "release", "settle", "store"}
         => caller[p].request \in Requests /\ caller[p].provider \in Providers

UsageTypeOK ==
  /\ usage \in [Windows -> [tokens : Nat, age : Nat]]
  /\ \A w \in Windows : usage[w].age <= Duration[w]

TypeOK ==
  /\ BreakerTypeOK
  /\ CallerTypeOK
  /\ UsageTypeOK
  /\ provider \in Providers
  /\ cache \in [Names \X Requests -> Models \cup {None}]

\* A closed circuit has failed less than Threshold times in a row: no failure is
\* forgotten or left over, whatever late results arrive while the circuit is
\* open or half-open (RecordSuccess, RecordFailure).
ClosedBelowThreshold == state = "closed" => consecutiveFailures < Threshold

\* A window counts the tokens used since its reset and those the calls in flight
\* have reserved: concurrent callers cannot make use of the same tokens
\* (TryConsume).  It misses no more than what was held when it was reset, whose
\* release lowers the new window (ReleaseUnused looks at no age).
Accounted ==
  \A w \in Windows :
    account[w].spent + Held(Callers) <= usage[w].tokens + account[w].carried

\* Beyond what calls used in excess of their reservations (the overage Analyze
\* records) a window exceeds its limit only by the reservation that reset it: an
\* expired window is not held against it (budget.go:95).
WithinLimit ==
  \A w \in Windows :
    \/ usage[w].tokens <= Limit[w] + account[w].overrun
    \/ usage[w].tokens <= account[w].opening + account[w].overrun

\* The probe of a half-open circuit is gone.
ProbeLost == state = "half-open" /\ \A p \in Callers : ~caller[p].probe

\* A half-open circuit waits for its probe through a bounded number of calls
\* only (one retry after a 429, the iterations of a chat turn): then it is left,
\* or the probe is gone and has recorded nothing.
HalfOpenResolves == state = "half-open" ~> (state # "half-open" \/ ProbeLost)

\* "the provider gets another chance after resetTimeout" (circuitbreaker.go:158):
\* with callers that keep calling, a half-open circuit is left.
BreakerRecovers == state = "half-open" ~> state # "half-open"
=============================================================================
