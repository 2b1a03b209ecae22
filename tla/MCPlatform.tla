----------------------------- MODULE MCPlatform -----------------------------
(***************************************************************************)
(* Deals, documents, the impact reports, compliance and four parts of the  *)
(* shared libraries in one run: a behaviour is one of the component the    *)
(* initial state picks.  They share no state; the fairness of a component  *)
(* is stated for the behaviours that are its own.                          *)
(***************************************************************************)
EXTENDS Deals, Naturals

CONSTANTS
    Part,                                                       \* the components to check
    Document,
    Call, Threshold, MaxTests,
    Reported, Metrics, ReportRequest, None,
    Case, Personal, CaseBatch, Evaluation, Failing,
    Consumer, MaxLog, MaxRetries,
    CacheRequest, MaxVersion,
    Dependency

ASSUME PlatformAssumption ==
    /\ Threshold \in Nat /\ MaxTests \in Nat
    /\ Failing \subseteq Nat /\ Personal \subseteq Case
    /\ MaxLog \in Nat /\ MaxRetries \in Nat \ {0}
    /\ MaxVersion \in Nat

VARIABLES
    part,
    document, stored, uploading,
    state, failures, tests, elapsed, underWay,
    report, cached, submitted, used, verified, reportAnswer, reportReq,
    case, decided, alert, round, current, userVerified, window, decision, granted,
    log, committed, begun, owner, position, handling, handled, dead,
    source, entry, lock, cacheReq,
    up, at, result, probing, wasUp, answer

F == INSTANCE Documents
B == INSTANCE CircuitBreaker
I == INSTANCE Impact WITH
         answer <- reportAnswer, req <- reportReq, Project <- Reported, Request <- ReportRequest
C == INSTANCE Compliance WITH
         verified <- userVerified, answer <- decision, Batch <- CaseBatch, Request <- Evaluation
K == INSTANCE KafkaConsumer WITH job <- handling
S == INSTANCE SharedCache WITH req <- cacheReq, Request <- CacheRequest
H == INSTANCE Health

documentVars == <<document, stored, uploading>>
breakerVars == <<state, failures, tests, elapsed, underWay>>
impactVars == <<report, cached, submitted, used, verified, reportAnswer, reportReq>>
complianceVars ==
    <<case, decided, alert, round, current, userVerified, window, decision, granted>>
consumerVars == <<log, committed, begun, owner, position, handling, handled, dead>>
cacheVars == <<source, entry, lock, cacheReq>>
healthVars == <<up, at, result, probing, wasUp, answer>>

\* The variables of the parts in two groups.
trade == <<vars, documentVars, impactVars, complianceVars>>
library == <<breakerVars, consumerVars, cacheVars, healthVars>>
platformVars == <<part, trade, library>>

PlatformInit ==
    /\ part \in Part
    /\ Init /\ F!Init /\ B!Init /\ I!Init /\ C!Init /\ K!Init /\ S!Init /\ H!Init
    \* where nobody looks, one initial state is enough
    /\ part # "compliance" => userVerified = FALSE
    /\ part # "consumer" => log = 0

DealsStep ==
    /\ part = "deals" /\ Next
    /\ UNCHANGED <<part, documentVars, impactVars, complianceVars, library>>
DocumentsStep ==
    /\ part = "documents" /\ F!Next
    /\ UNCHANGED <<part, vars, impactVars, complianceVars, library>>
ImpactStep ==
    /\ part = "impact" /\ I!Next
    /\ UNCHANGED <<part, vars, documentVars, complianceVars, library>>
ComplianceStep ==
    /\ part = "compliance" /\ C!Next
    /\ UNCHANGED <<part, vars, documentVars, impactVars, library>>
BreakerStep ==
    /\ part = "breaker" /\ B!Next
    /\ UNCHANGED <<part, trade, consumerVars, cacheVars, healthVars>>
ConsumerStep ==
    /\ part = "consumer" /\ K!Next
    /\ UNCHANGED <<part, trade, breakerVars, cacheVars, healthVars>>
CacheStep ==
    /\ part = "cache" /\ S!Next
    /\ UNCHANGED <<part, trade, breakerVars, consumerVars, healthVars>>
HealthStep ==
    /\ part = "health" /\ H!Next
    /\ UNCHANGED <<part, trade, breakerVars, consumerVars, cacheVars>>

PlatformNext ==
    \/ DealsStep \/ DocumentsStep \/ ImpactStep \/ ComplianceStep
    \/ BreakerStep \/ ConsumerStep \/ CacheStep \/ HealthStep

\* The FairSpec of the components that have one, for their own behaviours.
PlatformSpec ==
    /\ PlatformInit /\ [][PlatformNext]_platformVars
    /\ WF_breakerVars(part = "breaker" /\ B!Elapse)
    /\ WF_breakerVars(part = "breaker" /\ \E c \in Call : B!Begin(c))
    /\ \A c \in Call : WF_breakerVars(part = "breaker" /\ (B!Succeed(c) \/ B!Fail(c)))
    /\ \A p \in Reported : WF_impactVars(part = "impact" /\ I!Expire(p))
    /\ SF_consumerVars(part = "consumer" /\ \E c \in Consumer : K!Deliver(c))
    /\ SF_consumerVars(part = "consumer" /\ \E c \in Consumer :
                           c = owner /\ (K!Handle(c) \/ K!SendToDlq(c)))
    /\ SF_consumerVars(part = "consumer" /\ K!CommitOffset)
    /\ WF_cacheVars(part = "cache" /\ S!LockExpires)
    /\ WF_cacheVars(part = "cache" /\ S!EntryExpires)
    /\ WF_healthVars(part = "health" /\ \E d \in Dependency : H!Timeout(d))
    /\ WF_healthVars(part = "health" /\ H!Answer)

(***************************************************************************)
(* The components' properties; each is explained in its module.            *)
(***************************************************************************)

\* Every component keeps its types.  (TypeOK and OpenedFirst are those of Deals.)
PlatformTypeOK ==
    /\ TypeOK
    /\ F!TypeOK /\ I!TypeOK /\ C!TypeOK
    /\ B!TypeOK /\ K!TypeOK /\ S!TypeOK /\ H!TypeOK

\* Documents: what is shown as ready has its object.  Impact: what is answered from the
\* database, a review has verified.  Health: "ok" means that every dependency was up.
\* CircuitBreaker: a breaker that is not closed needs one failure to open.  KafkaConsumer:
\* from where the group began, no message is passed over.
AccountsAreTrue ==
    /\ F!ReadyHasObject /\ I!DatabaseAnswersAreVerified /\ H!OkMeansUp
    /\ B!OneFailureReopens /\ K!NothingPassedOver
\* Compliance: events and alerts agree with the cases, and one action is allowed once in a
\* window.
DecisionsAreTrue == C!DecisionsAreTrue /\ C!AllowedOncePerWindow

\* CircuitBreaker: a trial comes to a decision, and a provider refused for its failures is
\* asked again.
BreakerRecovers == B!TrialEnds /\ B!AskedAgain
\* KafkaConsumer: every message is handled or buried, from where the group began.
MessagesAreKept == K!MessagesAreSettled
\* What time ends: rejected metrics and outdated values leave the caches, a lock does not
\* stay, and the health check is answered.
TimersEnd ==
    I!RejectedIsForgotten /\ S!StaleIsForgotten /\ S!LockIsFreed /\ H!CheckIsAnswered

=============================================================================
