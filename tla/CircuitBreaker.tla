--------------------------- MODULE CircuitBreaker ---------------------------
(***************************************************************************)
(* The circuit breaker in front of the AI provider                         *)
(* (internal/ai/circuitbreaker.go).  Every method runs under cb.mu and is  *)
(* one action.  Time is the age of lastFailureTime, which no longer grows  *)
(* once it has reached ResetTimeout; consecutiveFailures is only compared  *)
(* with the threshold and is not counted beyond it.                        *)
(***************************************************************************)
EXTENDS Integers

CONSTANTS Threshold,     \* failureThreshold
          ResetTimeout   \* resetTimeout

ASSUME ThresholdAssumption == Threshold \in Nat \ {0}
ASSUME ResetTimeoutAssumption == ResetTimeout \in Nat

VARIABLES state,                \* "closed", "open" or "half-open"
          consecutiveFailures,  \* up to Threshold
          sinceFailure          \* age of lastFailureTime, up to ResetTimeout

breakerVars == <<state, consecutiveFailures, sinceFailure>>

\* lastFailureTime is the zero time.
BreakerInit ==
  /\ state = "closed"
  /\ consecutiveFailures = 0
  /\ sinceFailure = ResetTimeout

-----------------------------------------------------------------------------
Rested == sinceFailure >= ResetTimeout

\* Allow returning true to a call, in the closed state.
AllowClosed == state = "closed" /\ UNCHANGED breakerVars

\* Allow returning true to the probe.
AllowProbe ==
  /\ state = "open"
  /\ Rested
  /\ state' = "half-open"
  /\ UNCHANGED <<consecutiveFailures, sinceFailure>>

\* Allow returning false.
Reject ==
  /\ state = "half-open" \/ (state = "open" /\ ~Rested)
  /\ UNCHANGED breakerVars

\* Mutation: the failures before the trip are remembered.
RecordSuccessKeepsCount ==
  /\ state' = IF state = "half-open" THEN "closed" ELSE state
  /\ UNCHANGED <<consecutiveFailures, sinceFailure>>
RecordSuccess ==
  /\ state' = IF state = "half-open" THEN "closed" ELSE state
  /\ consecutiveFailures' = 0
  /\ UNCHANGED sinceFailure

CountedFailures ==
  IF consecutiveFailures < Threshold THEN consecutiveFailures + 1 ELSE Threshold

Trips == state = "half-open" \/ CountedFailures >= Threshold

RecordFailure ==
  /\ consecutiveFailures' = CountedFailures
  /\ sinceFailure' = 0
  /\ state' = IF Trips THEN "open" ELSE state

RecordRateLimit ==
  /\ sinceFailure' = 0
  /\ UNCHANGED <<state, consecutiveFailures>>

\* A unit of time passes.
BreakerAges ==
  /\ sinceFailure' = IF sinceFailure < ResetTimeout THEN sinceFailure + 1
                                                    ELSE sinceFailure
  /\ UNCHANGED <<state, consecutiveFailures>>
=============================================================================
