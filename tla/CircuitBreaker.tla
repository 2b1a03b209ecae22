--------------------------- MODULE CircuitBreaker ---------------------------
(***************************************************************************)
(* The circuit breaker around the calls to a provider                      *)
(* (libs/observability CircuitBreakerService), one per adapter.  A call    *)
(* begins in one step, up to its await, and settles in another; between    *)
(* the two other calls begin and settle, and the breaker may have opened,  *)
(* been tried again and closed.                                            *)
(***************************************************************************)
EXTENDS Naturals, FiniteSets

CONSTANTS
    Call,           \* calls that may be under way together
    Threshold,      \* failureThreshold
    MaxTests        \* halfOpenMaxCalls

VARIABLES
    state,
    failures,       \* failureCount; more than Threshold is the same as Threshold
    tests,          \* halfOpenCalls; more than MaxTests + 1 is the same as that
    elapsed,        \* resetTimeout has passed since the last failure
    underWay        \* the calls that have begun and not settled

vars == <<state, failures, tests, elapsed, underWay>>

CircuitState == {"CLOSED", "OPEN", "HALF_OPEN"}

AtMost(n, bound) == IF n > bound THEN bound ELSE n

\* evaluateState: an open breaker is tried again when resetTimeout has passed.
TriedAgain == state = "OPEN" /\ elapsed

\* Faulty variant: the failures are forgotten with the new trial.
EvaluateStateAfresh ==
    /\ state' = IF TriedAgain THEN "HALF_OPEN" ELSE state
    /\ failures' = IF TriedAgain THEN 0 ELSE failures

\* Faulty variant: an open breaker stays open.
NeverEvaluated ==
    /\ state' = state
    /\ failures' = failures

EvaluateState ==
    /\ state' = IF TriedAgain THEN "HALF_OPEN" ELSE state
    /\ failures' = failures

\* Calls counted in the half-open period that execute finds or begins.
Counted == IF TriedAgain THEN 0 ELSE tests

\* execute, up to its await.
Begin(c) ==
    /\ c \notin underWay
    /\ EvaluateState
    /\ \/ state' = "CLOSED" /\ tests' = tests
       \/ state' = "HALF_OPEN" /\ Counted < MaxTests /\ tests' = Counted + 1
    /\ underWay' = underWay \cup {c}
    /\ UNCHANGED elapsed

\* execute refuses; a refused trial is counted too.  (An OPEN breaker refuses and changes
\* nothing.)
Refuse ==
    /\ EvaluateState
    /\ state' = "HALF_OPEN"
    /\ Counted >= MaxTests
    /\ tests' = AtMost(Counted + 1, MaxTests + 1)
    /\ UNCHANGED <<elapsed, underWay>>

\* Faulty variant: a success counts, but only a closed breaker takes calls.
SucceedQuietly(c) ==
    /\ c \in underWay
    /\ failures' = 0
    /\ underWay' = underWay \ {c}
    /\ UNCHANGED <<state, tests, elapsed>>

\* onSuccess, whatever the breaker has become since the call began.
Succeed(c) ==
    /\ c \in underWay
    /\ failures' = 0
    /\ state' = "CLOSED"
    /\ tests' = 0
    /\ underWay' = underWay \ {c}
    /\ UNCHANGED elapsed

\* Faulty variant: one failure more opens it.
FailLate(c) ==
    /\ c \in underWay
    /\ failures' = AtMost(failures + 1, Threshold + 1)
    /\ state' = IF failures + 1 > Threshold THEN "OPEN" ELSE state
    /\ elapsed' = FALSE
    /\ underWay' = underWay \ {c}
    /\ UNCHANGED tests

\* onFailure.
Fail(c) ==
    /\ c \in underWay
    /\ failures' = AtMost(failures + 1, Threshold)
    /\ state' = IF failures + 1 >= Threshold THEN "OPEN" ELSE state
    /\ elapsed' = FALSE
    /\ underWay' = underWay \ {c}
    /\ UNCHANGED tests

Elapse ==
    /\ ~elapsed
    /\ elapsed' = TRUE
    /\ UNCHANGED <<state, failures, tests, underWay>>

\* The process starts again, closed and with no call.
Restart ==
    /\ state' = "CLOSED"
    /\ failures' = 0
    /\ tests' = 0
    /\ elapsed' = FALSE
    /\ underWay' = {}

Init ==
    /\ state = "CLOSED"
    /\ failures = 0
    /\ tests = 0
    /\ elapsed = FALSE
    /\ underWay = {}

Next ==
    \/ \E c \in Call : Begin(c) \/ Succeed(c) \/ Fail(c)
    \/ Refuse
    \/ Elapse
    \/ Restart

Spec == Init /\ [][Next]_vars

\* Time passes, a request answers or fails in the end (fetch has a time limit of its own),
\* and there is always another request to make.
FairSpec ==
    /\ Spec
    /\ WF_vars(Elapse)
    /\ WF_vars(\E c \in Call : Begin(c))
    /\ \A c \in Call : WF_vars(Succeed(c) \/ Fail(c))

(***************************************************************************)
(* Properties.                                                             *)
(***************************************************************************)

TypeOK ==
    /\ state \in CircuitState
    /\ failures \in 0 .. Threshold
    /\ tests \in 0 .. MaxTests + 1
    /\ elapsed \in BOOLEAN
    /\ underWay \subseteq Call

\* A breaker that is not closed has its failures: the first trial that fails opens it again,
\* whatever calls of earlier periods answer meanwhile (circuit-breaker.service.ts:65-81).
OneFailureReopens == state # "CLOSED" => failures >= Threshold

\* A provider refused for its failures is asked again, also while calls begun before it
\* was refused still fail and restart the clock (circuit-breaker.service.ts:71-94).
AskedAgain == state = "OPEN" ~> state # "OPEN"

\* A trial comes to a decision: the breaker does not go on refusing calls half-open, with
\* its trials spent (circuit-breaker.service.ts:46-69).
TrialEnds == state = "HALF_OPEN" ~> state # "HALF_OPEN"

=============================================================================
