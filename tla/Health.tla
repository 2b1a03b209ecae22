------------------------------- MODULE Health -------------------------------
(***************************************************************************)
(* GET /health: HealthService (health.module.ts) asks all dependencies at  *)
(* once, each with a time limit of its own: Promise.race of the probe and  *)
(* a timer.  A probe that lost its race goes on, and nobody hears of it.   *)
(***************************************************************************)
EXTENDS Naturals, FiniteSets

CONSTANT Dependency         \* database, redis, kafka and storage

VARIABLES
    up,             \* dependencies that would answer
    at,             \* "idle" or "check"
    result,         \* what each race has come to: "none" yet, "up" or "down"
    probing,        \* dependencies that were asked and have not answered
    wasUp,          \* dependencies that were up at some time since they were asked (history)
    answer          \* the last answer, "none" before the first

vars == <<up, at, result, probing, wasUp, answer>>

NoResult == [d \in Dependency |-> "none"]

Check ==
    /\ at = "idle"
    /\ at' = "check"
    /\ result' = NoResult
    /\ probing' = Dependency
    /\ wasUp' = up
    /\ answer' = "none"
    /\ UNCHANGED up

\* checkDatabase and the others: an error is a "down".  After the time limit nobody hears.
ProbeEnds(d) ==
    /\ at = "check"
    /\ d \in probing
    /\ probing' = probing \ {d}
    /\ result' = IF result[d] = "none"
                 THEN [result EXCEPT ![d] = IF d \in up THEN "up" ELSE "down"] ELSE result
    /\ UNCHANGED <<up, at, wasUp, answer>>

\* Faulty variant: a probe that hangs is waited for.
TimeoutOfEnded(d) ==
    /\ at = "check"
    /\ result[d] = "none"
    /\ d \notin probing
    /\ result' = [result EXCEPT ![d] = "down"]
    /\ UNCHANGED <<up, at, probing, wasUp, answer>>

\* withTimeout.
Timeout(d) ==
    /\ at = "check"
    /\ result[d] = "none"
    /\ result' = [result EXCEPT ![d] = "down"]
    /\ UNCHANGED <<up, at, probing, wasUp, answer>>

\* Faulty variant: the check is good when nothing is known to be down.
AnswerEarly ==
    /\ at = "check"
    /\ \E d \in Dependency : result[d] # "none"
    /\ at' = "idle"
    /\ answer' = IF \A d \in Dependency : result[d] # "down" THEN "ok" ELSE "error"
    /\ result' = NoResult
    /\ probing' = {}
    /\ UNCHANGED <<up, wasUp>>

\* Promise.all, and the verdict.
Answer ==
    /\ at = "check"
    /\ \A d \in Dependency : result[d] # "none"
    /\ at' = "idle"
    /\ answer' = IF \A d \in Dependency : result[d] = "up" THEN "ok" ELSE "error"
    /\ result' = NoResult
    /\ probing' = {}
    /\ UNCHANGED <<up, wasUp>>

Rise(d) ==
    /\ d \notin up
    /\ up' = up \cup {d}
    /\ wasUp' = IF at = "check" THEN wasUp \cup {d} ELSE wasUp
    /\ UNCHANGED <<at, result, probing, answer>>

Fall(d) ==
    /\ d \in up
    /\ up' = up \ {d}
    /\ UNCHANGED <<at, result, probing, wasUp, answer>>

Init ==
    /\ up = Dependency
    /\ at = "idle"
    /\ result = NoResult
    /\ probing = {}
    /\ wasUp = {}
    /\ answer = "none"

Next ==
    \/ Check \/ Answer
    \/ \E d \in Dependency : ProbeEnds(d) \/ Timeout(d) \/ Rise(d) \/ Fall(d)

Spec == Init /\ [][Next]_vars

\* Timers end; probes need not.
FairSpec ==
    /\ Spec
    /\ WF_vars(\E d \in Dependency : Timeout(d))
    /\ WF_vars(Answer)

(***************************************************************************)
(* Properties.                                                             *)
(***************************************************************************)

TypeOK ==
    /\ up \subseteq Dependency /\ probing \subseteq Dependency /\ wasUp \subseteq Dependency
    /\ at \in {"idle", "check"}
    /\ result \in [Dependency -> {"none", "up", "down"}]
    /\ at = "idle" => result = NoResult
    /\ answer \in {"none", "ok", "error"}

\* "ok" means that every dependency was up at some time since it was asked, however they
\* rise and fall meanwhile and whichever end of a race comes first (health.module.ts:33-79).
OkMeansUp == answer = "ok" => wasUp = Dependency

\* The check is answered although a dependency may never answer (health.module.ts:64-79).
CheckIsAnswered == at = "check" ~> at = "idle"

=============================================================================
