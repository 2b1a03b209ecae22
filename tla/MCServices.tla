----------------------------- MODULE MCServices -----------------------------
(***************************************************************************)
(* Components of the API that share no state, checked for safety in one    *)
(* run: a behaviour is one of the component the initial state picks, and   *)
(* the others stay as they are, so that only its invariants are looked at. *)
(***************************************************************************)
EXTENDS Naturals, FiniteSets, TLC

CONSTANTS
    Part,                                                       \* the components to check
    Project, ProjectRequest,
    Assessed, Assessor, Admin, Asked, Task, CaseRequest,
    LoginRequest, Tries, MaxFailures,
    SessionRequest, Token, Reset, NoToken,
    Application, Business, AnswerNow,
    Voter, VoteRequest, VoteChanges,
    Dispute, DisputeRequest, DisputeAsked,
    MaxRows, Limit, MaxChanges,
    ReportRow, ReportChanges,
    Note, Reader, NoteRequest, Recent, ReadAlls,
    Writer, MaxMessages, FetchLimit,
    Watched, WatchRequest,
    ChatSession, Question,
    Picture, Reorder, SortOrders,
    Milestone, StageRequest

VARIABLES
    part,
    project, projectEvent, fundedByDeal, projectReq,
    diligence, task, diligenceReq,
    account, otp, loginReq, past,
    token, replaces, repeated, reset, sessionReq,
    kyc, application, call, told, form, kycEvent, kycAlert, renamed,
    voteOpen, investor, ballot, voteReq,
    dispute, disputeReq,
    list, created, shown, walk,
    table, report,
    arrived, note, noteCall, readAll,
    message,
    watchable, items, watchCall, additions,
    chats, chat, chatCall,
    place, tx, ordered,
    milestone, stageCall

P == INSTANCE Projects WITH
         outboxEvent <- projectEvent, req <- projectReq, Request <- ProjectRequest
G == INSTANCE DueDiligence WITH
         case <- diligence, req <- diligenceReq,
         Project <- Assessed, Request <- CaseRequest
I == INSTANCE Logins WITH req <- loginReq, Request <- LoginRequest
S == INSTANCE Sessions WITH req <- sessionReq, Request <- SessionRequest
K == INSTANCE Verification WITH event <- kycEvent, alert <- kycAlert
V == INSTANCE Votes WITH
         open <- voteOpen, req <- voteReq, Request <- VoteRequest, MaxChanges <- VoteChanges
D == INSTANCE Disputes WITH
         req <- disputeReq, Request <- DisputeRequest, Asked <- DisputeAsked
L == INSTANCE Paging
R == INSTANCE Reports WITH Row <- ReportRow
N == INSTANCE Inbox WITH call <- noteCall
M == INSTANCE Messaging
W == INSTANCE Watchlist WITH known <- watchable, call <- watchCall
A == INSTANCE Advisor WITH
         opened <- chats, messages <- chat, call <- chatCall, Session <- ChatSession
O == INSTANCE Gallery
C == INSTANCE Milestones WITH call <- stageCall

\* What the parts take from the code: the statuses requests ask for are those of the enums
\* and the two texts normalizeStatus knows (any other is refused), what the provider tells
\* is mapped to ApplicationStatus, it takes at least one failed login to lock an account, and
\* the placeholders "user" and NoToken name no application and no token; rows are finitely
\* many, and bounds are numbers.
ASSUME ServicesAssumption ==
    /\ Asked \subseteq G!CaseStatus \cup {"", "UNDER_REVIEW", "COMPLETED"}
    /\ DisputeAsked \subseteq D!DisputeStatus
    /\ AnswerNow \subseteq K!ApplicationStatus
    /\ "user" \notin Application /\ NoToken \notin Token
    /\ IsFiniteSet(Voter) /\ IsFiniteSet(Dispute) /\ IsFiniteSet(ReportRow)
    /\ IsFiniteSet(Note) /\ IsFiniteSet(Picture)
    /\ Tries \in Nat \ {0}
    /\ {MaxFailures, VoteChanges, MaxRows, MaxChanges, ReportChanges, Recent, ReadAlls} \subseteq Nat
    /\ {MaxMessages, FetchLimit} \subseteq Nat
    /\ Limit \in Nat \ {0}

projectVars == <<project, projectEvent, fundedByDeal, projectReq>>
diligenceVars == <<diligence, task, diligenceReq>>
loginVars == <<account, otp, loginReq, past>>
sessionVars == <<token, replaces, repeated, reset, sessionReq>>
kycVars == <<kyc, application, call, told, form, kycEvent, kycAlert, renamed>>
voteVars == <<voteOpen, investor, ballot, voteReq>>
disputeVars == <<dispute, disputeReq>>
pagingVars == <<list, created, shown, walk>>
reportVars == <<table, report>>
inboxVars == <<arrived, note, noteCall, readAll>>
watchVars == <<watchable, items, watchCall, additions>>
chatVars == <<chats, chat, chatCall>>
galleryVars == <<place, tx, ordered>>
stageVars == <<milestone, stageCall>>

\* The variables of the parts in four groups.
desk == <<projectVars, diligenceVars, loginVars, sessionVars>>
hall == <<kycVars, voteVars, disputeVars>>
room == <<pagingVars, reportVars, inboxVars, message>>
shelf == <<watchVars, chatVars, galleryVars, stageVars>>
vars == <<part, desk, hall, room, shelf>>

Init ==
    /\ part \in Part
    /\ P!Init /\ G!Init /\ I!Init /\ S!Init /\ K!Init /\ V!Init /\ D!Init
    /\ L!Init /\ R!Init /\ N!Init /\ M!Init
    /\ W!Init /\ A!Init /\ O!Init /\ C!Init
    \* where nobody looks, one initial state is enough
    /\ part # "kyc" => renamed = {}
    /\ part # "logins" => account = I!Absent
    /\ part # "paging" => list = CHOOSE l \in L!List : TRUE
    /\ part # "reports" => report.of = CHOOSE f \in R!Relation : f.report = "getPortfolio"

OfDesk == part \in {"projects", "diligence", "logins", "sessions"}
          /\ UNCHANGED <<part, hall, room, shelf>>
OfHall == part \in {"kyc", "votes", "disputes"} /\ UNCHANGED <<part, desk, room, shelf>>
OfRoom == part \in {"paging", "reports", "inbox", "messages"}
          /\ UNCHANGED <<part, desk, hall, shelf>>
OfShelf == part \in {"watchlist", "advisor", "gallery", "milestones"}
           /\ UNCHANGED <<part, desk, hall, room>>

ProjectsStep ==
    part = "projects" /\ P!Next /\ OfDesk /\ UNCHANGED <<diligenceVars, loginVars, sessionVars>>
DiligenceStep ==
    part = "diligence" /\ G!Next /\ OfDesk /\ UNCHANGED <<projectVars, loginVars, sessionVars>>
LoginsStep ==
    part = "logins" /\ I!Next /\ OfDesk /\ UNCHANGED <<projectVars, diligenceVars, sessionVars>>
SessionsStep ==
    part = "sessions" /\ S!Next /\ OfDesk /\ UNCHANGED <<projectVars, diligenceVars, loginVars>>
KycStep ==
    part = "kyc" /\ K!Next /\ OfHall /\ UNCHANGED <<voteVars, disputeVars>>
VotesStep ==
    part = "votes" /\ V!Next /\ OfHall /\ UNCHANGED <<kycVars, disputeVars>>
DisputesStep ==
    part = "disputes" /\ D!Next /\ OfHall /\ UNCHANGED <<kycVars, voteVars>>
PagingStep ==
    part = "paging" /\ L!Next /\ OfRoom /\ UNCHANGED <<reportVars, inboxVars, message>>
ReportsStep ==
    part = "reports" /\ R!Next /\ OfRoom /\ UNCHANGED <<pagingVars, inboxVars, message>>
InboxStep ==
    part = "inbox" /\ N!Next /\ OfRoom /\ UNCHANGED <<pagingVars, reportVars, message>>
MessagesStep ==
    part = "messages" /\ M!Next /\ OfRoom /\ UNCHANGED <<pagingVars, reportVars, inboxVars>>
WatchlistStep ==
    part = "watchlist" /\ W!Next /\ OfShelf /\ UNCHANGED <<chatVars, galleryVars, stageVars>>
AdvisorStep ==
    part = "advisor" /\ A!Next /\ OfShelf /\ UNCHANGED <<watchVars, galleryVars, stageVars>>
GalleryStep ==
    part = "gallery" /\ O!Next /\ OfShelf /\ UNCHANGED <<watchVars, chatVars, stageVars>>
MilestonesStep ==
    part = "milestones" /\ C!Next /\ OfShelf /\ UNCHANGED <<watchVars, chatVars, galleryVars>>

Next ==
    \/ ProjectsStep \/ DiligenceStep \/ LoginsStep \/ SessionsStep
    \/ KycStep \/ VotesStep \/ DisputesStep
    \/ PagingStep \/ ReportsStep \/ InboxStep \/ MessagesStep
    \/ WatchlistStep \/ AdvisorStep \/ GalleryStep \/ MilestonesStep

Spec == Init /\ [][Next]_vars

\* Requests are equal, in every part, and so are tokens.
MCServicesSymmetry == Permutations(SessionRequest) \cup Permutations(Token)

(***************************************************************************)
(* The components' properties; each is explained in its module.            *)
(***************************************************************************)

\* Every component keeps its types.
TypeOK ==
    /\ part = "projects" => P!TypeOK
    /\ part = "diligence" => G!TypeOK
    /\ part = "logins" => I!TypeOK
    /\ part = "sessions" => S!TypeOK
    /\ part = "kyc" => K!TypeOK
    /\ part = "votes" => V!TypeOK
    /\ part = "disputes" => D!TypeOK
    /\ part = "paging" => L!TypeOK
    /\ part = "reports" => R!TypeOK
    /\ part = "inbox" => N!TypeOK
    /\ part = "messages" => M!TypeOK
    /\ part = "watchlist" => W!TypeOK
    /\ part = "advisor" => A!TypeOK
    /\ part = "gallery" => O!TypeOK
    /\ part = "milestones" => C!TypeOK

\* Projects: a project offered to investors was approved, or funded through a deal.
OfferedWasApproved == part = "projects" => P!OfferedWasApproved
\* Logins, Sessions: the account is locked exactly when its count is full, and failed logins
\* that do not overlap fill it; a refresh token is spent only for a successor, and has one
\* unless refreshes overlap or stop.
SessionsAreKept ==
    /\ part = "logins" => I!FullCountLocks /\ I!FailuresLock
    /\ part = "sessions" => S!SpentForASuccessor /\ S!RotatedOnce
\* Verification: the provider's last word stands unless the answer was still to be written,
\* and a rejection is on the officers' list.
VerdictsAreKept == part = "kyc" => K!LastWordStands /\ K!RejectionIsRaised
\* DueDiligence, Watchlist, Advisor, Gallery: a completed task was worked on; what is on the
\* watchlist is what was told; answers follow their questions; the last order stands.
RecordsAreKept ==
    /\ part = "diligence" => G!CompletedWasBegun
    /\ part = "watchlist" => W!ListedAsTold
    /\ part = "advisor" => A!AnswersFollow
    /\ part = "gallery" => O!LastOrderStands
\* Votes, Disputes, Paging, Reports, Inbox, Messaging: tallies, reports, lists and counts are
\* off by no more than what changed while they were read; a resolved dispute has its date.
FiguresAreClose ==
    /\ part = "votes" => V!TallyIsClose
    /\ part = "disputes" => D!FiguresAgree /\ D!ResolvedIsDated
    /\ part = "paging" => L!WalkIsClose
    /\ part = "reports" => R!FiguresMatch
    /\ part = "inbox" => N!CountedOnce /\ N!BadgeIsShown
    /\ part = "messages" => M!ConversationsAreCurrent /\ M!UnreadIsInConversations
\* DueDiligence, Votes, Inbox, Milestones: only administrators decide a case; once a vote is
\* over and nobody is in flight, its outcome stays; what was read or deleted stays so; who
\* vouched for a milestone stays on record.
DecisionsStand == G!NoAssessorDecides /\ V!OutcomeStays /\ N!SeenStaysSeen /\ C!VouchedStays

=============================================================================
