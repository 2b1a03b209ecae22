---------------------------- MODULE Verification ----------------------------
(***************************************************************************)
(* Know-your-customer: one user's kycStatus and the applications made for  *)
(* it (KycKybService), and what users and administrators do to the status  *)
(* by hand (UsersService, AdminService).                                   *)
(*                                                                         *)
(* submitKyc writes its row, calls the provider, writes the answer and     *)
(* then the event, each on its own; the provider calls the webhook when it *)
(* has something to say, perhaps before submitKyc has written the answer   *)
(* and the reference the webhook looks the row up by.                      *)
(***************************************************************************)
CONSTANTS
    Application,    \* rows of KycApplication; a KYB row is an application nobody looks up
    Business,       \* the applications that are KybApplications
    AnswerNow       \* statuses the provider's first answer and the webhook may bring

VARIABLES
    kyc,            \* the user's kycStatus
    application,    \* status, and whose reference the row has
    call,           \* how far submitKyc or submitKyb has come
    told,           \* the webhook's last word with no answer on its way (not stored anywhere)
    form,           \* where UsersService.submitKyc or verifyKyc has come to
    event,          \* events in the outbox: <<topic, application or "user">>
    alert,          \* KYC_ISSUE alerts: <<title, application>>
    renamed         \* applications to which the provider gives a job id of its own

vars == <<kyc, application, call, told, form, event, alert, renamed>>

KycStatus == {"NOT_STARTED", "PENDING", "VERIFIED", "REJECTED"}
ApplicationStatus == {"PENDING", "SUBMITTED", "PROCESSING", "VERIFIED", "REJECTED"}
Verdict == {"VERIFIED", "REJECTED"}

NoApplication == [status |-> "ABSENT", reference |-> "own"]

\* What the provider calls the job: its own id, or the one it was given.
Reference(a) == IF a \in renamed THEN "theirs" ELSE "own"
Known(a) == application[a].reference = Reference(a)

SetStatus(a, status) == application' = [application EXCEPT ![a].status = status]
Raise(title, a) == alert' = alert \cup {<<title, a>>}

(***************************************************************************)
(* KycKybService.submitKyc and submitKyb.                                  *)
(***************************************************************************)

Create(a) ==
    /\ call[a] = "none"
    /\ SetStatus(a, "PENDING")
    /\ call' = [call EXCEPT ![a] = "asked"]
    /\ UNCHANGED <<kyc, told, form, event, alert, renamed>>

\* Faulty variant: the row keeps the reference it was made with.
RecordStatus(a, status) ==
    /\ call[a] = "asked"
    /\ SetStatus(a, status)
    /\ call' = [call EXCEPT ![a] = "recorded"]
    /\ UNCHANGED <<kyc, told, form, event, alert, renamed>>

\* Faulty variant: the write is tried again when its outcome was not seen.
RecordAgain(a, status) ==
    /\ call[a] \in {"asked", "recorded"}
    /\ application' = [application EXCEPT ![a].status = status, ![a].reference = Reference(a)]
    /\ call' = [call EXCEPT ![a] = "recorded"]
    /\ UNCHANGED <<kyc, told, form, event, alert, renamed>>

\* The answer is written whatever the row has become.
RecordAnswer(a, status) ==
    /\ call[a] = "asked"
    /\ application' = [application EXCEPT ![a].status = status, ![a].reference = Reference(a)]
    /\ call' = [call EXCEPT ![a] = "recorded"]
    /\ UNCHANGED <<kyc, told, form, event, alert, renamed>>

Submitted(a) == <<IF a \in Business THEN "kyb.submitted" ELSE "kyc.submitted", a>>

AnnounceSubmitted(a) ==
    /\ call[a] = "recorded"
    /\ event' = event \cup {Submitted(a)}
    /\ call' = [call EXCEPT ![a] = "over"]
    /\ UNCHANGED <<kyc, application, told, form, alert, renamed>>

\* The provider cannot be reached, the breaker refuses, or the API stops.
Abandon(a) ==
    /\ call[a] \in {"asked", "recorded"}
    /\ call' = [call EXCEPT ![a] = "over"]
    /\ UNCHANGED <<kyc, application, told, form, event, alert, renamed>>

(***************************************************************************)
(* KycKybService.processKycWebhook.                                        *)
(***************************************************************************)

\* The provider may say anything of a job it was given, at any time and more than once.
\* Whatever it says is written to the row with its reference; where no row has it, the call
\* is answered "not accepted" and what it says is lost.
Webhook(a, status) ==
    /\ call[a] # "none"
    /\ a \notin Business
    /\ Known(a)
    /\ SetStatus(a, status)
    /\ told' = IF call[a] = "asked" THEN told ELSE [told EXCEPT ![a] = status]
    /\ UNCHANGED <<call, form, renamed>>

Verify(a) ==
    /\ Webhook(a, "VERIFIED")
    /\ kyc' = "VERIFIED"
    /\ event' = event \cup {<<"kyc.verified", a>>, <<"user.verified", a>>}
    /\ UNCHANGED alert

\* Faulty variant: a rejection needs nobody's attention.
RejectQuietly(a) ==
    /\ Webhook(a, "REJECTED")
    /\ event' = event \cup {<<"kyc.rejected", a>>}
    /\ UNCHANGED <<kyc, alert>>

\* The user's kycStatus stays what it was.
Reject(a) ==
    /\ Webhook(a, "REJECTED")
    /\ Raise("KYC Verification Rejected", a)
    /\ event' = event \cup {<<"kyc.rejected", a>>}
    /\ UNCHANGED kyc

\* Any other word moves only the row, also one that has a verdict.
Interim(a, status) ==
    /\ status \notin Verdict
    /\ Webhook(a, status)
    /\ UNCHANGED <<kyc, event, alert>>

(***************************************************************************)
(* By hand: UsersService.submitKyc and verifyKyc, verifyAssessor.          *)
(***************************************************************************)

OpenForm ==
    /\ form = "none"
    /\ kyc # "VERIFIED"
    /\ form' = "read"
    /\ UNCHANGED <<kyc, application, call, told, event, alert, renamed>>
FillForm ==
    /\ form = "read"
    /\ kyc' = "PENDING"
    /\ form' = "kyc.submitted"
    /\ UNCHANGED <<application, call, told, event, alert, renamed>>

VerifyKyc(status) ==
    /\ form = "none"
    /\ kyc' = status
    /\ form' = "kyc.verified"
    /\ UNCHANGED <<application, call, told, event, alert, renamed>>

\* The event follows the write, if the API does not stop between.
AnnounceForm ==
    /\ form \in {"kyc.submitted", "kyc.verified"}
    /\ event' = event \cup {<<form, "user">>}
    /\ form' = "none"
    /\ UNCHANGED <<kyc, application, call, told, alert, renamed>>
AbandonForm ==
    /\ form # "none"
    /\ form' = "none"
    /\ UNCHANGED <<kyc, application, call, told, event, alert, renamed>>

VerifyAssessor ==
    /\ kyc' = "VERIFIED"
    /\ UNCHANGED <<application, call, told, form, event, alert, renamed>>

Init ==
    /\ kyc = "NOT_STARTED"
    /\ application = [a \in Application |-> NoApplication]
    /\ call = [a \in Application |-> "none"]
    /\ told = [a \in Application |-> "none"]
    /\ form = "none"
    /\ event = {}
    /\ alert = {}
    /\ renamed \in SUBSET Application

Next ==
    \/ \E a \in Application :
           \/ Create(a) \/ AnnounceSubmitted(a) \/ Abandon(a) \/ Verify(a) \/ Reject(a)
           \/ \E status \in AnswerNow : RecordAnswer(a, status) \/ Interim(a, status)
    \/ OpenForm \/ FillForm \/ AnnounceForm \/ AbandonForm \/ VerifyAssessor
    \/ \E status \in KycStatus : VerifyKyc(status)

Spec == Init /\ [][Next]_vars

(***************************************************************************)
(* Properties.                                                             *)
(***************************************************************************)

TypeOK ==
    /\ kyc \in KycStatus
    /\ application \in [Application -> [status : ApplicationStatus \cup {"ABSENT"},
                                        reference : {"own", "theirs"}]]
    /\ call \in [Application -> {"none", "asked", "recorded", "over"}]
    /\ told \in [Application -> ApplicationStatus \cup {"none"}]
    /\ form \in {"none", "read", "kyc.submitted", "kyc.verified"}
    /\ \A e \in event : e[2] \in Application \cup {"user"}
    /\ alert \subseteq {"KYC Verification Rejected"} \X Application
    /\ renamed \subseteq Application

\* What the webhook brings while no answer is on its way stands: the row has the last such
\* word until the next one, and from the announcement on no word is refused, since the row
\* has the provider's reference.  Of what comes before the answer is written
\* neither is true: the webhook refuses a word about a renamed job, and the answer
\* overwrites the row's verdict, while the user's kycStatus, the events and the alert of
\* that verdict stay (kyc-kyb.service.ts:114-133, 260-283).
LastWordStands ==
    \A a \in Application :
        /\ told[a] # "none" => application[a].status = told[a]
        /\ Submitted(a) \in event => Known(a)

\* A rejection that other services hear of is on the compliance officers' list, whatever
\* order the verdicts come in (kyc-kyb.service.ts:327-352).
RejectionIsRaised ==
    \A a \in Application :
        <<"kyc.rejected", a>> \in event => <<"KYC Verification Rejected", a>> \in alert

=============================================================================
