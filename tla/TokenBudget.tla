---------------------------- MODULE TokenBudget ----------------------------
(***************************************************************************)
(* The token budget over several time windows (internal/ai/budget.go,      *)
(* Budget).  Every method runs under b.mu and is one action.  A window's   *)
(* startedAt is its age, which no longer grows once the window expired;    *)
(* an expired window is reset by the next charge.                          *)
(***************************************************************************)
EXTENDS Integers

CONSTANTS Windows,    \* the windows ("daily", "monthly")
          Limit,      \* tokens per window
          Duration    \* length of a window

ASSUME LimitAssumption == Limit \in [Windows -> Nat]
ASSUME DurationAssumption == Duration \in [Windows -> Nat \ {0}]

VARIABLE usage        \* b.usage: per window [tokens, age]

BudgetInit == usage = [w \in Windows |-> [tokens |-> 0, age |-> 0]]

-----------------------------------------------------------------------------
Expired(w) == usage[w].age >= Duration[w]

\* Mutation: the estimate is not added to what is used already.
ExceedsBefore(n) == \E w \in Windows : ~Expired(w) /\ usage[w].tokens > Limit[w]
Exceeds(n) == \E w \in Windows : ~Expired(w) /\ usage[w].tokens + n > Limit[w]

\* RecordUsage: expired windows start anew.
Charge(n) ==
  usage' = [w \in Windows |->
              IF Expired(w) THEN [tokens |-> n, age |-> 0]
                            ELSE [usage[w] EXCEPT !.tokens = @ + n]]

\* TryConsume returning nil; its error leaves the budget alone.
TryConsume(n) == ~Exceeds(n) /\ Charge(n)

\* Mutation: the tokens are released twice.
ReleaseTwice(n) ==
  usage' = [w \in Windows |->
              [usage[w] EXCEPT !.tokens = IF @ > 2 * n THEN @ - 2 * n ELSE 0]]
\* ReleaseUnused, which does not look at the age of the window.
ReleaseUnused(n) ==
  usage' = [w \in Windows |->
              [usage[w] EXCEPT !.tokens = IF @ > n THEN @ - n ELSE 0]]

\* A unit of time passes.
BudgetAges ==
  usage' = [w \in Windows |->
              [usage[w] EXCEPT !.age = IF @ < Duration[w] THEN @ + 1 ELSE @]]
=============================================================================
