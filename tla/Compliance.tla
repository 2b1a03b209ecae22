----------------------------- MODULE Compliance -----------------------------
(***************************************************************************)
(* Compliance cases and the worker that decides them                       *)
(* (apps/worker-compliance), the alerts officers work off (AdminService),  *)
(* and the rules engine an officer asks before an action                   *)
(* (compliance.module.ts).                                                 *)
(*                                                                         *)
(* The worker reads a batch of open cases, the oldest first, and goes      *)
(* through it; an error anywhere ends the round, and the next one starts   *)
(* ten seconds later.  (At this commit its bootstrap asks for a service    *)
(* the module does not have and stops before the loop: a round may happen  *)
(* here, none has to.)  The rules engine reads the user, then Redis, where  *)
(* the window against duplicates is one SET NX.                            *)
(***************************************************************************)
EXTENDS Naturals, FiniteSets

CONSTANTS
    Case,           \* ComplianceCase rows, numbered in the order of createdAt
    Personal,       \* the cases that name a user
    Batch,          \* cases a round reads (25)
    Request,        \* evaluations under way together
    Failing         \* how many of jurisdiction, limits and accreditation can fail: 0 .. 3

VARIABLES
    case,           \* status of each case
    decided,        \* cases whose compliance.case_decided is in the outbox
    alert,          \* status of the alert of each case
    round,          \* the cases the worker has read and not come to
    current,        \* the case it has decided without a transaction and not announced, or 0
    verified,       \* the user's kycStatus is VERIFIED
    window,         \* the duplicate key of this user and action is in Redis
    answer,         \* where each evaluation has come to, and its decision
    granted         \* evaluations allowed since the window opened (not stored anywhere)

work == <<case, decided, alert, round, current>>
engine == <<verified, window, answer, granted>>
vars == <<work, engine>>

CaseStatus == {"OPEN", "MANUAL_REVIEW", "APPROVED", "REJECTED", "CLOSED"}
AlertStatus == {"OPEN", "UNDER_REVIEW", "RESOLVED", "DISMISSED"}
Answer == {"ALLOWED", "BLOCKED", "MANUAL_REVIEW", "ADDITIONAL_DOCS_REQUIRED"}

(***************************************************************************)
(* The worker: processComplianceCases.                                     *)
(***************************************************************************)

\* Nothing in the repository writes the first row of a case: a service outside does.
OpenCase(c) ==
    /\ case[c] = "ABSENT"
    /\ \A d \in Case : d < c => case[d] # "ABSENT"
    /\ case' = [case EXCEPT ![c] = "OPEN"]
    /\ UNCHANGED <<decided, alert, round, current, engine>>

Open == {c \in Case : case[c] = "OPEN"}
Older(c) == {d \in Open : d < c}

ReadCases ==
    /\ round = {} /\ current = 0
    /\ Open # {}
    /\ round' = {c \in Open : Cardinality(Older(c)) < Batch}
    /\ UNCHANGED <<case, decided, alert, current, engine>>

First(c) == c \in round /\ current = 0 /\ \A d \in round : c <= d

\* Faulty variant: the case is decided first, and the worker may stop before the alert.
RejectFirst(c) ==
    /\ First(c)
    /\ c \in Personal
    /\ case' = [case EXCEPT ![c] = "REJECTED"]
    /\ round' = round \ {c}
    /\ UNCHANGED <<decided, alert, current, engine>>

\* A case of a user: screenAgainstSanctions flags everybody, so the case is rejected with
\* an alert, in one transaction, and the checks after it are never reached.
RejectFlagged(c) ==
    /\ First(c)
    /\ c \in Personal
    /\ case' = [case EXCEPT ![c] = "REJECTED"]
    /\ alert' = [alert EXCEPT ![c] = "OPEN"]
    /\ round' = round \ {c}
    /\ UNCHANGED <<decided, current, engine>>

\* A case of nobody, or of a user that is gone.
SendToReview(c) ==
    /\ First(c)
    /\ c \notin Personal
    /\ case' = [case EXCEPT ![c] = "MANUAL_REVIEW"]
    /\ current' = c
    /\ round' = round \ {c}
    /\ UNCHANGED <<decided, alert, engine>>

AnnounceDecided ==
    /\ current # 0
    /\ decided' = decided \cup {current}
    /\ current' = 0
    /\ UNCHANGED <<case, alert, round, engine>>

\* The database refuses, or the worker stops.
RoundFails ==
    /\ round # {} \/ current # 0
    /\ round' = {}
    /\ current' = 0
    /\ UNCHANGED <<case, decided, alert, engine>>

\* AdminService.updateAlert: any status, whatever the alert had.
UpdateAlert(c, status) ==
    /\ alert[c] # "ABSENT"
    /\ alert' = [alert EXCEPT ![c] = status]
    /\ UNCHANGED <<case, decided, round, current, engine>>

(***************************************************************************)
(* The rules engine: evaluateCompliance.                                   *)
(***************************************************************************)

\* Faulty variant: a word that is not one of the four answers.
DecisionByCount(isVerified, failing, fresh) ==
    IF isVerified /\ failing = 0 /\ fresh THEN "ALLOWED" ELSE "REVIEW"

\* The decision on whether KYC is verified, how many of the other checks fail, and whether
\* the key was free.  Only a missing KYC raises an alert here.
Decision(isVerified, failing, fresh) ==
    LET failed == failing + (IF fresh THEN 0 ELSE 1)
    IN IF ~isVerified THEN "BLOCKED"
       ELSE IF failed = 0 THEN "ALLOWED"
       ELSE IF failed > 2 THEN "MANUAL_REVIEW"
       ELSE "ADDITIONAL_DOCS_REQUIRED"

\* VERIFIED is set and taken away by others (Verification).
SetVerified(value) ==
    /\ verified' = value
    /\ UNCHANGED <<work, window, answer, granted>>

\* The user is read first.
ReadUser(r) ==
    /\ answer[r] \in {"none"} \cup Answer
    /\ answer' = [answer EXCEPT ![r] = IF verified THEN "verified" ELSE "not verified"]
    /\ granted' = granted \ {r}
    /\ UNCHANGED <<work, verified, window>>

Grant(r, decision) ==
    /\ answer' = [answer EXCEPT ![r] = decision]
    /\ granted' = IF decision = "ALLOWED" THEN granted \cup {r} ELSE granted

\* Faulty variant: only an evaluation that allows nothing leaves the key.
EvaluateLeavingKey(r, failing) ==
    /\ answer[r] \in {"verified", "not verified"}
    /\ window' = (window \/ Decision(answer[r] = "verified", failing, ~window) # "ALLOWED")
    /\ Grant(r, Decision(answer[r] = "verified", failing, ~window))
    /\ UNCHANGED <<work, verified>>

\* setIfAbsent, and the decision.  The key is taken by any evaluation, also one that blocks.
Evaluate(r, failing) ==
    /\ answer[r] \in {"verified", "not verified"}
    /\ window' = TRUE
    /\ Grant(r, Decision(answer[r] = "verified", failing, ~window))
    /\ UNCHANGED <<work, verified>>

\* 60 seconds.
WindowEnds ==
    /\ window
    /\ window' = FALSE
    /\ granted' = {}
    /\ UNCHANGED <<work, verified, answer>>

Init ==
    /\ case = [c \in Case |-> "ABSENT"]
    /\ decided = {}
    /\ alert = [c \in Case |-> "ABSENT"]
    /\ round = {}
    /\ current = 0
    /\ verified \in BOOLEAN
    /\ window = FALSE
    /\ answer = [r \in Request |-> "none"]
    /\ granted = {}

Next ==
    \/ \E c \in Case :
           \/ OpenCase(c) \/ RejectFlagged(c) \/ SendToReview(c)
           \/ \E status \in AlertStatus : UpdateAlert(c, status)
    \/ ReadCases \/ AnnounceDecided \/ RoundFails
    \/ \E value \in BOOLEAN : SetVerified(value)
    \/ \E r \in Request : ReadUser(r) \/ \E n \in Failing : Evaluate(r, n)
    \/ WindowEnds

Spec == Init /\ [][Next]_vars

(***************************************************************************)
(* Properties.                                                             *)
(***************************************************************************)

TypeOK ==
    /\ case \in [Case -> CaseStatus \cup {"ABSENT"}]
    /\ decided \subseteq Case
    /\ alert \in [Case -> AlertStatus \cup {"ABSENT"}]
    /\ round \subseteq Case
    /\ current \in Case \cup {0}
    /\ verified \in BOOLEAN /\ window \in BOOLEAN
    /\ answer \in [Request -> Answer \cup {"none", "verified", "not verified"}]
    /\ granted \subseteq Request

\* A user rejected by the worker is on the officers' list, and an event of a decision is
\* about a case that is decided, wherever a round is cut off (worker-compliance/main.ts:
\* 176-199, 260-272).
DecisionsAreTrue ==
    /\ \A c \in Personal : case[c] = "REJECTED" => alert[c] # "ABSENT"
    /\ \A c \in decided : case[c] # "OPEN"

\* One action of a user is allowed once in a window of 60 seconds, however evaluations of it
\* overlap (compliance.module.ts:151-158).
AllowedOncePerWindow == Cardinality(granted) <= 1

=============================================================================
