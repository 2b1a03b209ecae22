--------------------------- MODULE PlatformProofs ---------------------------
(***************************************************************************)
(* The invariants of the parts of MCPlatform, for any number of rows,      *)
(* requests, calls, evaluations, messages and dependencies, and for their  *)
(* composition.  Each part has its inductive invariant, and the composed   *)
(* one is their conjunction: a step of the composition is a step of one    *)
(* part and a stutter of the others.                                       *)
(***************************************************************************)
EXTENDS MCPlatform, FiniteSetTheorems, TLAPS

(***************************************************************************)
(* Deals.                                                                  *)
(***************************************************************************)

\* A handler that passed the check of its operation read a deal that had come far
\* enough; events are never taken back, so it is still true when it writes.
JobBacked(task) ==
    /\ task.op = "open" => Emitted("deal.approved", task.deal)
    /\ task.op \in {"pause", "resume", "close", "invest"} =>
           Emitted("deal.approved", task.deal) /\ Emitted("deal.opened", task.deal)

ApprovedFirst == \A d \in Deal : deal[d].status = "APPROVED" => Emitted("deal.approved", d)

DealsInv ==
    /\ TypeOK
    /\ OpenedFirst
    /\ ApprovedFirst
    /\ \A r \in Request : JobBacked(req[r])

LEMMA DealsInit == Init => DealsInv
BY DEF Init, DealsInv, TypeOK, OpenedFirst, ApprovedFirst, JobBacked, Began, NoRow, Idle, ClosesAt

\* A check adds a job backed by the status it has read.
LEMMA CheckStep ==
    ASSUME DealsInv, NEW r \in Request, NEW d \in Deal, NEW op \in Operation, NEW statuses,
           Check(r, d, op, statuses),
           op = "open" => statuses \subseteq {"APPROVED"},
           op \in {"pause", "resume", "close", "invest"} => statuses \subseteq {"LIVE", "PAUSED"}
    PROVE  DealsInv'
<1>1. TypeOK'
  BY DEF DealsInv, TypeOK, Check, Idle
<1>2. OpenedFirst' /\ ApprovedFirst'
  BY DEF DealsInv, Check, OpenedFirst, ApprovedFirst, Began, Emitted
<1>3. ASSUME NEW s \in Request PROVE JobBacked(req[s])'
  <2>1. CASE s = r
    <3>1. req'[s] = [op |-> op, deal |-> d]
      BY <2>1 DEF DealsInv, TypeOK, Check
    <3>2. deal[d].status \in statuses
      BY DEF Check
    <3>3. op = "open" => Emitted("deal.approved", d)
      BY <3>2 DEF DealsInv, ApprovedFirst
    <3>4. op \in {"pause", "resume", "close", "invest"} =>
              Emitted("deal.approved", d) /\ Emitted("deal.opened", d)
      BY <3>2 DEF DealsInv, OpenedFirst, Began
    <3>5. outboxEvent' = outboxEvent
      BY DEF Check
    <3>6. QED
      BY <3>1, <3>3, <3>4, <3>5 DEF JobBacked, Emitted
  <2>2. CASE s # r
    BY <2>2 DEF DealsInv, TypeOK, Check, JobBacked, Emitted
  <2>3. QED
    BY <2>1, <2>2
<1>4. QED
  BY <1>1, <1>2, <1>3 DEF DealsInv

\* The end of a handler: its slot is free, the other jobs keep what backs them.
LEMMA JobsKept ==
    ASSUME DealsInv, NEW r \in Request, req' = [req EXCEPT ![r] = Idle],
           outboxEvent \subseteq outboxEvent'
    PROVE  /\ req' \in [Request -> {Idle} \cup [op : Operation, deal : Deal]]
           /\ \A s \in Request : JobBacked(req[s])'
BY DEF DealsInv, TypeOK, JobBacked, Emitted, Idle

LEMMA MoveStep ==
    ASSUME DealsInv, NEW r \in Request, NEW d \in Deal, NEW op \in Operation,
           NEW status \in DealStatus, NEW topic \in Topic,
           Move(r, d, op, status, topic),
           status = "APPROVED" => topic = "deal.approved",
           status = "LIVE" => op = "resume" \/ (op = "open" /\ topic = "deal.opened"),
           status = "PAUSED" => op = "pause",
           status \notin {"CLOSED_SUCCESSFUL", "CLOSED_FAILED"}
    PROVE  DealsInv'
<1>1. /\ req[r] = [op |-> op, deal |-> d]
      /\ req' = [req EXCEPT ![r] = Idle]
      /\ deal' = [deal EXCEPT ![d].status = status]
      /\ outboxEvent' = outboxEvent \cup {[topic |-> topic, deal |-> d]}
      /\ invested' = invested
  BY DEF Move, Finish, Emit
<1>2. JobBacked([op |-> op, deal |-> d])
  BY <1>1 DEF DealsInv
<1>3. TypeOK'
  BY <1>1, JobsKept DEF DealsInv, TypeOK
<1>4. ASSUME NEW e \in Deal, e # d PROVE deal'[e] = deal[e]
  BY <1>1, <1>4 DEF DealsInv, TypeOK
<1>5. deal'[d].status = status
  BY <1>1 DEF DealsInv, TypeOK
<1>6. ApprovedFirst'
  BY <1>1, <1>4, <1>5 DEF DealsInv, ApprovedFirst, Emitted
<1>7. Began(d)' => Emitted("deal.approved", d)' /\ Emitted("deal.opened", d)'
  BY <1>1, <1>2, <1>5 DEF Began, JobBacked, Emitted
<1>8. OpenedFirst'
  BY <1>1, <1>4, <1>7 DEF DealsInv, OpenedFirst, Began, Emitted
<1>9. QED
  BY <1>1, <1>3, <1>6, <1>8, JobsKept DEF DealsInv

LEMMA CreateStep ==
    ASSUME DealsInv, NEW d \in Deal, NEW closes \in ClosesAt, Create(d, closes)
    PROVE  DealsInv'
<1>1. TypeOK'
  BY DEF DealsInv, TypeOK, Create, Emit, Topic, DealStatus
<1>2. QED
  BY <1>1 DEF DealsInv, TypeOK, Create, Emit, OpenedFirst, ApprovedFirst, Began, JobBacked, Emitted

LEMMA RemoveStep ==
    ASSUME DealsInv, NEW d \in Deal, Remove(d)
    PROVE  DealsInv'
<1>1. TypeOK'
  BY DEF DealsInv, TypeOK, Remove, DealStatus
<1>2. QED
  BY <1>1 DEF DealsInv, TypeOK, Remove, OpenedFirst, ApprovedFirst, Began, JobBacked, Emitted

LEMMA UpdateStep ==
    ASSUME DealsInv, NEW r \in Request, NEW d \in Deal, NEW closes \in ClosesAt,
           Update(r, d, closes)
    PROVE  DealsInv'
<1>1. /\ req' = [req EXCEPT ![r] = Idle]
      /\ deal' = [deal EXCEPT ![d].closesAt = closes]
      /\ UNCHANGED <<invested, outboxEvent>>
  BY DEF Update, Finish
<1>2. \A e \in Deal : deal'[e].status = deal[e].status
  BY <1>1 DEF DealsInv, TypeOK
<1>3. TypeOK'
  BY <1>1, JobsKept DEF DealsInv, TypeOK
<1>4. QED
  BY <1>1, <1>2, <1>3, JobsKept DEF DealsInv, OpenedFirst, ApprovedFirst, Began, Emitted

LEMMA CloseStep ==
    ASSUME DealsInv, NEW r \in Request, NEW d \in Deal, NEW status \in DealStatus,
           Close(r, d, status)
    PROVE  DealsInv'
<1>1. /\ req[r] = [op |-> "close", deal |-> d]
      /\ req' = [req EXCEPT ![r] = Idle]
      /\ deal' = [deal EXCEPT ![d] = [status |-> status, closesAt |-> "due"]]
      /\ outboxEvent' = outboxEvent \cup {[topic |-> "deal.closed", deal |-> d]}
      /\ invested' = invested
      /\ status \in {"CLOSED_SUCCESSFUL", "CLOSED_FAILED"}
  BY DEF Close, Finish, Emit
<1>2. Emitted("deal.approved", d) /\ Emitted("deal.opened", d)
  BY <1>1 DEF DealsInv, JobBacked
<1>3. TypeOK'
  BY <1>1, JobsKept DEF DealsInv, TypeOK, Topic, ClosesAt
<1>4. OpenedFirst' /\ ApprovedFirst'
  BY <1>1, <1>2 DEF DealsInv, TypeOK, OpenedFirst, ApprovedFirst, Began, Emitted
<1>5. QED
  BY <1>1, <1>3, <1>4, JobsKept DEF DealsInv

LEMMA InvestStep ==
    ASSUME DealsInv, NEW r \in Request, NEW d \in Deal, Invest(r, d)
    PROVE  DealsInv'
<1>1. /\ req[r] = [op |-> "invest", deal |-> d]
      /\ req' = [req EXCEPT ![r] = Idle]
      /\ invested' = invested \cup {d}
      /\ UNCHANGED <<deal, outboxEvent>>
  BY DEF Invest, Finish
<1>2. Emitted("deal.approved", d) /\ Emitted("deal.opened", d)
  BY <1>1 DEF DealsInv, JobBacked
<1>3. TypeOK'
  BY <1>1, JobsKept DEF DealsInv, TypeOK
<1>4. OpenedFirst' /\ ApprovedFirst'
  BY <1>1, <1>2 DEF DealsInv, OpenedFirst, ApprovedFirst, Began, Emitted
<1>5. QED
  BY <1>1, <1>3, <1>4, JobsKept DEF DealsInv

LEMMA FailStep ==
    ASSUME DealsInv, NEW r \in Request, Fail(r)
    PROVE  DealsInv'
<1>1. req' = [req EXCEPT ![r] = Idle] /\ UNCHANGED <<deal, invested, outboxEvent>>
  BY DEF Fail
<1>2. QED
  BY <1>1, JobsKept DEF DealsInv, TypeOK, OpenedFirst, ApprovedFirst, Began, Emitted

\* The sweep closes only what is LIVE at that moment.
LEMMA SweepStep ==
    ASSUME DealsInv, Sweep
    PROVE  DealsInv'
<1>1. \A d \in Deal : \/ deal'[d] = deal[d]
                      \/ /\ deal[d].status = "LIVE"
                         /\ deal'[d] = [deal[d] EXCEPT !.status = "CLOSED_SUCCESSFUL"]
  BY DEF Sweep, Expired
<1>2. UNCHANGED <<invested, outboxEvent, req>> /\ DOMAIN deal' = Deal
  BY DEF Sweep
<1>3. ASSUME NEW d \in Deal
      PROVE  /\ deal'[d] \in [status : {"ABSENT"} \cup DealStatus, closesAt : ClosesAt]
             /\ \/ deal'[d].status = deal[d].status
                \/ deal[d].status = "LIVE" /\ deal'[d].status = "CLOSED_SUCCESSFUL"
  <2>1. PICK row \in [status : {"ABSENT"} \cup DealStatus, closesAt : ClosesAt] : deal[d] = row
    BY DEF DealsInv, TypeOK
  <2>2. "CLOSED_SUCCESSFUL" \in DealStatus
    BY DEF DealStatus
  <2>3. QED
    BY <1>1, <2>1, <2>2
<1>4. TypeOK'
  BY <1>2, <1>3 DEF DealsInv, TypeOK, Sweep
<1>5. OpenedFirst' /\ ApprovedFirst'
  BY <1>2, <1>3 DEF DealsInv, OpenedFirst, ApprovedFirst, Began, Emitted
<1>6. QED
  BY <1>2, <1>4, <1>5 DEF DealsInv, JobBacked, Emitted

LEMMA ClosingTimeStep ==
    ASSUME DealsInv, NEW d \in Deal, ClosingTime(d)
    PROVE  DealsInv'
<1>1. deal' = [deal EXCEPT ![d].closesAt = "due"] /\ UNCHANGED <<invested, outboxEvent, req>>
  BY DEF ClosingTime
<1>2. \A e \in Deal : deal'[e].status = deal[e].status
  BY <1>1 DEF DealsInv, TypeOK
<1>3. "due" \in ClosesAt
  BY DEF ClosesAt
<1>4. TypeOK'
  BY <1>1, <1>3 DEF DealsInv, TypeOK
<1>5. QED
  BY <1>1, <1>2, <1>4 DEF DealsInv, OpenedFirst, ApprovedFirst, Began, JobBacked, Emitted

LEMMA BeginStep ==
    ASSUME DealsInv, NEW r \in Request, NEW d \in Deal, Begin(r, d)
    PROVE  DealsInv'
<1>1. CASE CheckUpdate(r, d)
  BY <1>1, CheckStep DEF CheckUpdate, Operation
<1>2. CASE CheckSubmit(r, d)
  BY <1>2, CheckStep DEF CheckSubmit, Operation
<1>3. CASE CheckApprove(r, d)
  BY <1>3, CheckStep DEF CheckApprove, Operation
<1>4. CASE CheckReject(r, d)
  BY <1>4, CheckStep DEF CheckReject, Operation
<1>5. CASE CheckOpen(r, d)
  BY <1>5, CheckStep DEF CheckOpen, Operation
<1>6. CASE CheckPause(r, d)
  BY <1>6, CheckStep DEF CheckPause, Operation
<1>7. CASE CheckResume(r, d)
  BY <1>7, CheckStep DEF CheckResume, Operation
<1>8. CASE CheckClose(r, d)
  BY <1>8, CheckStep DEF CheckClose, Operation
<1>9. CASE CheckInvest(r, d)
  BY <1>9, CheckStep DEF CheckInvest, Operation
<1>10. QED
  BY <1>1, <1>2, <1>3, <1>4, <1>5, <1>6, <1>7, <1>8, <1>9 DEF Begin

LEMMA CommitStep ==
    ASSUME DealsInv, NEW r \in Request, NEW d \in Deal, Commit(r, d)
    PROVE  DealsInv'
<1>1. CASE Submit(r, d)
  BY <1>1, MoveStep DEF Submit, Operation, DealStatus, Topic
<1>2. CASE Approve(r, d)
  BY <1>2, MoveStep DEF Approve, Operation, DealStatus, Topic
<1>3. CASE Reject(r, d)
  BY <1>3, MoveStep DEF Reject, Operation, DealStatus, Topic
<1>4. CASE Open(r, d)
  BY <1>4, MoveStep DEF Open, Operation, DealStatus, Topic
<1>5. CASE Pause(r, d)
  BY <1>5, MoveStep DEF Pause, Operation, DealStatus, Topic
<1>6. CASE Resume(r, d)
  BY <1>6, MoveStep DEF Resume, Operation, DealStatus, Topic
<1>7. CASE Invest(r, d)
  BY <1>7, InvestStep
<1>8. CASE \E closes \in ClosesAt : Update(r, d, closes)
  BY <1>8, UpdateStep
<1>9. CASE \E status \in DealStatus : Close(r, d, status)
  BY <1>9, CloseStep
<1>10. QED
  BY <1>1, <1>2, <1>3, <1>4, <1>5, <1>6, <1>7, <1>8, <1>9 DEF Commit

LEMMA DealsNext == DealsInv /\ [Next]_vars => DealsInv'
<1>1. SUFFICES ASSUME DealsInv, [Next]_vars
               PROVE  DealsInv'
  OBVIOUS
<1>2. CASE \E d \in Deal : Remove(d)
  BY <1>1, <1>2, RemoveStep
<1>3. CASE \E d \in Deal : ClosingTime(d)
  BY <1>1, <1>3, ClosingTimeStep
<1>4. CASE \E d \in Deal, closes \in ClosesAt : Create(d, closes)
  BY <1>1, <1>4, CreateStep
<1>5. CASE \E r \in Request : Fail(r)
  BY <1>1, <1>5, FailStep
<1>6. CASE \E r \in Request, d \in Deal : Begin(r, d)
  BY <1>1, <1>6, BeginStep
<1>7. CASE \E r \in Request, d \in Deal : Commit(r, d)
  BY <1>1, <1>7, CommitStep
<1>8. CASE Sweep
  BY <1>1, <1>8, SweepStep
<1>9. CASE UNCHANGED vars
  BY <1>1, <1>9 DEF vars, DealsInv, TypeOK, OpenedFirst, ApprovedFirst, Began, JobBacked, Emitted
<1>10. QED
  BY <1>1, <1>2, <1>3, <1>4, <1>5, <1>6, <1>7, <1>8, <1>9 DEF Next

\* The invariant of DealsService and the sweep.
THEOREM DealsInvariant == Spec => []DealsInv
BY DealsInit, DealsNext, PTL DEF Spec

\* No race between handlers, or with the scheduler, opens a deal that was not
\* approved and opened, or takes money for one.
THEOREM OpenedFirstHolds == Spec => []OpenedFirst
<1>1. DealsInv => OpenedFirst
  BY DEF DealsInv
<1>2. QED
  BY <1>1, DealsInvariant, PTL

(***************************************************************************)
(* Documents.  An upload that is under way has put its object.             *)
(***************************************************************************)

DocumentsInv == F!TypeOK /\ F!ReadyHasObject /\ uploading \subseteq stored

LEMMA DocumentsInit == F!Init => DocumentsInv
BY DEF F!Init, DocumentsInv, F!TypeOK, F!ReadyHasObject

LEMMA DocumentsNext ==
    ASSUME DocumentsInv, F!Next \/ UNCHANGED documentVars
    PROVE  DocumentsInv'
BY DEF DocumentsInv, F!TypeOK, F!ReadyHasObject, documentVars, F!Next, F!CreateUploadIntent,
       F!SendDocument, F!PutObject, F!CreateRow, F!UploadFails, F!SoftDelete, F!Unused

(***************************************************************************)
(* Compliance, the worker.  An officer's list only grows, a case that is decided is    *)
(* never opened again, and the worker announces a case it has decided.     *)
(***************************************************************************)

CaseSettled(c) == case[c] \notin {"ABSENT", "OPEN"}

WorkerInv ==
    /\ case \in [Case -> C!CaseStatus \cup {"ABSENT"}]
    /\ alert \in [Case -> C!AlertStatus \cup {"ABSENT"}]
    /\ decided \subseteq Case /\ round \subseteq Case /\ current \in Case \cup {0}
    /\ \A c \in Personal \cap Case : case[c] = "REJECTED" => alert[c] # "ABSENT"
    /\ \A c \in decided : CaseSettled(c)
    /\ current # 0 => CaseSettled(current)

\* What a step leaves of the cases and alerts.
CasesKept ==
    /\ \A c \in Case : CaseSettled(c) => CaseSettled(c)'
    /\ \A c \in Case : alert[c] # "ABSENT" => alert'[c] # "ABSENT"

LEMMA WorkerInit == C!Init => WorkerInv
BY DEF C!Init, WorkerInv, CaseSettled

\* One case changes, and its alert with it or after it.
LEMMA CaseWrites ==
    ASSUME WorkerInv, NEW c \in Case, NEW status \in C!CaseStatus,
           case' = [case EXCEPT ![c] = status],
           status = "OPEN" => case[c] = "ABSENT",
           \/ UNCHANGED alert /\ status # "REJECTED"
           \/ alert' = [alert EXCEPT ![c] = "OPEN"]
    PROVE  /\ CasesKept
           /\ case' \in [Case -> C!CaseStatus \cup {"ABSENT"}]
           /\ alert' \in [Case -> C!AlertStatus \cup {"ABSENT"}]
           /\ \A d \in Personal \cap Case : case'[d] = "REJECTED" => alert'[d] # "ABSENT"
<1>1. /\ case' \in [Case -> C!CaseStatus \cup {"ABSENT"}]
      /\ case'[c] = status /\ \A d \in Case \ {c} : case'[d] = case[d]
  BY DEF WorkerInv
<1>2. /\ alert' \in [Case -> C!AlertStatus \cup {"ABSENT"}]
      /\ status = "REJECTED" => alert'[c] # "ABSENT"
      /\ \A d \in Case : alert[d] # "ABSENT" => alert'[d] # "ABSENT"
  BY DEF WorkerInv, C!AlertStatus
<1>3. CasesKept
  <2>1. status # "ABSENT"
    BY DEF C!CaseStatus
  <2>2. QED
    BY <1>1, <1>2, <2>1 DEF CasesKept, CaseSettled
<1>4. \A d \in Personal \cap Case : case'[d] = "REJECTED" => alert'[d] # "ABSENT"
  BY <1>1, <1>2 DEF WorkerInv
<1>5. QED
  BY <1>1, <1>2, <1>3, <1>4

\* What was announced, or is about to be, stays settled.
LEMMA AnnouncedStays ==
    ASSUME WorkerInv, CasesKept, decided' \subseteq decided \cup ({current} \ {0}),
           current' = 0 \/ current' = current
    PROVE  /\ decided' \subseteq Case /\ \A c \in decided' : CaseSettled(c)'
           /\ current' \in Case \cup {0} /\ (current' # 0 => CaseSettled(current)')
BY DEF WorkerInv, CasesKept

LEMMA WorkerSteps ==
    ASSUME WorkerInv, UNCHANGED <<case, alert>> \/ \E c \in Case, status \in C!AlertStatus : C!UpdateAlert(c, status),
           decided' \subseteq decided \cup ({current} \ {0}), current' = 0 \/ current' = current,
           round' \subseteq Case
    PROVE  WorkerInv'
<1>1. /\ case' = case
      /\ alert' \in [Case -> C!AlertStatus \cup {"ABSENT"}]
      /\ \A c \in Case : alert[c] # "ABSENT" => alert'[c] # "ABSENT"
  BY DEF WorkerInv, C!UpdateAlert, C!AlertStatus
<1>2. CasesKept
  BY <1>1 DEF CasesKept, CaseSettled
<1>3. QED
  BY <1>1, <1>2, AnnouncedStays DEF WorkerInv, CaseSettled

LEMMA WorkerNext ==
    ASSUME WorkerInv, C!Next \/ UNCHANGED complianceVars
    PROVE  WorkerInv'
<1>1. ASSUME NEW c \in Case, C!OpenCase(c)
      PROVE  WorkerInv'
  <2>1. "OPEN" \in C!CaseStatus
    BY DEF C!CaseStatus
  <2>2. /\ case' = [case EXCEPT ![c] = "OPEN"] /\ case[c] = "ABSENT"
        /\ UNCHANGED <<alert, decided, round, current>>
    BY <1>1 DEF C!OpenCase
  <2>3. /\ CasesKept
        /\ case' \in [Case -> C!CaseStatus \cup {"ABSENT"}]
        /\ alert' \in [Case -> C!AlertStatus \cup {"ABSENT"}]
        /\ \A d \in Personal \cap Case : case'[d] = "REJECTED" => alert'[d] # "ABSENT"
    BY <2>1, <2>2, CaseWrites
  <2>4. QED
    BY <2>2, <2>3, AnnouncedStays DEF WorkerInv, CaseSettled
<1>2. ASSUME NEW c \in Case, C!RejectFlagged(c)
      PROVE  WorkerInv'
  <2>1. "REJECTED" \in C!CaseStatus
    BY DEF C!CaseStatus
  <2>2. /\ case' = [case EXCEPT ![c] = "REJECTED"] /\ alert' = [alert EXCEPT ![c] = "OPEN"]
        /\ UNCHANGED <<decided, current>> /\ round' \subseteq round
    BY <1>2 DEF C!RejectFlagged
  <2>3. /\ CasesKept
        /\ case' \in [Case -> C!CaseStatus \cup {"ABSENT"}]
        /\ alert' \in [Case -> C!AlertStatus \cup {"ABSENT"}]
        /\ \A d \in Personal \cap Case : case'[d] = "REJECTED" => alert'[d] # "ABSENT"
    BY <2>1, <2>2, CaseWrites
  <2>4. QED
    BY <2>2, <2>3, AnnouncedStays DEF WorkerInv, CaseSettled
<1>3. ASSUME NEW c \in Case, C!SendToReview(c)
      PROVE  WorkerInv'
  <2>1. "MANUAL_REVIEW" \in C!CaseStatus
    BY DEF C!CaseStatus
  <2>2. /\ case' = [case EXCEPT ![c] = "MANUAL_REVIEW"] /\ current' = c
        /\ UNCHANGED <<decided, alert>> /\ round' \subseteq round
    BY <1>3 DEF C!SendToReview
  <2>3. /\ CasesKept
        /\ case' \in [Case -> C!CaseStatus \cup {"ABSENT"}]
        /\ alert' \in [Case -> C!AlertStatus \cup {"ABSENT"}]
        /\ \A d \in Personal \cap Case : case'[d] = "REJECTED" => alert'[d] # "ABSENT"
    BY <2>1, <2>2, CaseWrites
  <2>4. \A d \in decided : CaseSettled(d)'
    BY <2>3 DEF WorkerInv, CasesKept
  <2>5. CaseSettled(c)'
    BY <2>2 DEF WorkerInv, CaseSettled
  <2>6. QED
    BY <2>2, <2>3, <2>4, <2>5 DEF WorkerInv, CaseSettled
<1>4. ASSUME NEW c \in Case, NEW status \in C!AlertStatus, C!UpdateAlert(c, status)
      PROVE  WorkerInv'
  BY <1>4, WorkerSteps DEF C!UpdateAlert, WorkerInv
<1>5. CASE C!ReadCases
  BY <1>5, WorkerSteps DEF C!ReadCases, C!Open
<1>6. CASE C!AnnounceDecided
  BY <1>6, WorkerSteps DEF C!AnnounceDecided, WorkerInv
<1>7. CASE C!RoundFails
  BY <1>7, WorkerSteps DEF C!RoundFails, WorkerInv
<1>8. CASE UNCHANGED C!work
  BY <1>8, WorkerSteps DEF C!work, WorkerInv
<1>9. CASE UNCHANGED complianceVars
  BY <1>8, <1>9 DEF complianceVars, C!work
<1>10. QED
  BY <1>1, <1>2, <1>3, <1>4, <1>5, <1>6, <1>7, <1>8, <1>9
     DEF C!Next, C!SetVerified, C!ReadUser, C!Evaluate, C!WindowEnds

(***************************************************************************)
(* Compliance, the rules engine.  Whoever was granted the action took the key, and     *)
(* nobody is granted it who did not.                                       *)
(***************************************************************************)

EngineInv ==
    /\ userVerified \in BOOLEAN /\ window \in BOOLEAN
    /\ decision \in [Evaluation -> C!Answer \cup {"none", "verified", "not verified"}]
    /\ granted # {} => window /\ \E r \in Evaluation : granted = {r}

LEMMA EngineInit == C!Init => EngineInv
BY DEF C!Init, EngineInv

LEMMA DecisionIsAnAnswer ==
    ASSUME NEW known \in BOOLEAN, NEW failing \in Nat, NEW fresh \in BOOLEAN
    PROVE  /\ C!Decision(known, failing, fresh) \in C!Answer
           /\ C!Decision(known, failing, fresh) = "ALLOWED" => fresh
BY DEF C!Decision, C!Answer

LEMMA EvaluateStep ==
    ASSUME EngineInv, NEW r \in Evaluation, NEW n \in Failing, C!Evaluate(r, n)
    PROVE  EngineInv'
<1>1. PICK said : said = C!Decision(decision[r] = "verified", n, ~window)
  OBVIOUS
<1>2. said \in C!Answer /\ (said = "ALLOWED" => ~window)
  BY <1>1, DecisionIsAnAnswer, PlatformAssumption DEF EngineInv
<1>3. C!Grant(r, said) /\ window' = TRUE /\ userVerified' = userVerified
  BY <1>1 DEF C!Evaluate
<1>4. decision' \in [Evaluation -> C!Answer \cup {"none", "verified", "not verified"}]
  BY <1>2, <1>3 DEF EngineInv, C!Grant
<1>5. granted' = granted \/ (granted = {} /\ granted' = {r})
  BY <1>2, <1>3 DEF EngineInv, C!Grant
<1>6. QED
  BY <1>3, <1>4, <1>5 DEF EngineInv

LEMMA EngineNext ==
    ASSUME EngineInv, C!Next \/ UNCHANGED complianceVars
    PROVE  EngineInv'
<1>1. CASE UNCHANGED C!engine
  BY <1>1 DEF C!engine, EngineInv
<1>2. ASSUME NEW value \in BOOLEAN, C!SetVerified(value)
      PROVE  EngineInv'
  BY <1>2 DEF C!SetVerified, EngineInv
<1>3. ASSUME NEW r \in Evaluation, C!ReadUser(r)
      PROVE  EngineInv'
  <2>1. decision' \in [Evaluation -> C!Answer \cup {"none", "verified", "not verified"}]
    BY <1>3 DEF C!ReadUser, EngineInv
  <2>2. granted' = granted \/ granted' = {}
    BY <1>3 DEF C!ReadUser, EngineInv
  <2>3. QED
    BY <1>3, <2>1, <2>2 DEF C!ReadUser, EngineInv
<1>4. CASE C!WindowEnds
  BY <1>4 DEF C!WindowEnds, EngineInv
<1>5. CASE UNCHANGED complianceVars
  BY <1>1, <1>5 DEF complianceVars, C!engine
<1>6. QED
  BY <1>1, <1>2, <1>3, <1>4, <1>5, EvaluateStep
     DEF C!Next, C!OpenCase, C!RejectFlagged, C!SendToReview, C!UpdateAlert, C!ReadCases,
         C!AnnounceDecided, C!RoundFails

\* Counting is the same in the part and here.
LEMMA ComplianceCounted == \A s : C!Cardinality(s) = Cardinality(s)
BY DEF C!Cardinality, Cardinality

ComplianceInv == WorkerInv /\ EngineInv

LEMMA ComplianceHolds ==
    ComplianceInv => C!TypeOK /\ C!DecisionsAreTrue /\ C!AllowedOncePerWindow
<1> SUFFICES ASSUME WorkerInv, EngineInv
             PROVE  C!TypeOK /\ C!DecisionsAreTrue /\ C!AllowedOncePerWindow
  BY DEF ComplianceInv
<1>1. C!TypeOK
  BY DEF WorkerInv, EngineInv, C!TypeOK
<1>2. C!DecisionsAreTrue
  BY PlatformAssumption DEF WorkerInv, CaseSettled, C!DecisionsAreTrue
<1>3. C!AllowedOncePerWindow
  <2>1. Cardinality(granted) = 0 \/ Cardinality(granted) = 1
    BY FS_EmptySet, FS_Singleton DEF EngineInv
  <2>2. QED
    BY <2>1, ComplianceCounted DEF C!AllowedOncePerWindow
<1>4. QED
  BY <1>1, <1>2, <1>3

(***************************************************************************)
(* CircuitBreaker.                                                         *)
(***************************************************************************)

BreakerInv == B!TypeOK /\ B!OneFailureReopens

LEMMA BreakerInit == B!Init => BreakerInv
<1>1. 0 \in 0 .. Threshold /\ 0 \in 0 .. MaxTests + 1
  BY PlatformAssumption
<1>2. QED
  BY <1>1, Zenon DEF B!Init, BreakerInv, B!TypeOK, B!OneFailureReopens, B!CircuitState

\* A call that begins, or is refused, changes an open breaker to a trial at most: the
\* failures stay.
LEMMA BeginOrRefuse ==
    ASSUME BreakerInv, B!Refuse \/ \E c \in Call : B!Begin(c)
    PROVE  BreakerInv'
<1>1. UNCHANGED <<failures, elapsed>> /\ underWay' \subseteq Call
  BY DEF B!Refuse, B!Begin, B!EvaluateState, BreakerInv, B!TypeOK
<1>2. state' = state \/ (state = "OPEN" /\ state' = "HALF_OPEN")
  BY Zenon DEF B!Refuse, B!Begin, B!EvaluateState, B!TriedAgain
<1>3. tests' \in 0 .. MaxTests + 1
  <2>1. tests \in 0 .. MaxTests + 1 /\ MaxTests \in Nat
    BY PlatformAssumption DEF BreakerInv, B!TypeOK
  <2>2. PICK counted : counted = B!Counted
    OBVIOUS
  <2>3. counted \in 0 .. MaxTests + 1
    BY <2>1, <2>2 DEF B!Counted
  <2>4. \/ tests' = tests
        \/ counted < MaxTests /\ tests' = counted + 1
        \/ tests' = B!AtMost(counted + 1, MaxTests + 1)
    BY <2>2 DEF B!Refuse, B!Begin
  <2>5. QED
    BY <2>1, <2>3, <2>4 DEF B!AtMost
<1>4. state' \in B!CircuitState /\ (state' # "CLOSED" => state # "CLOSED")
  BY <1>2 DEF BreakerInv, B!TypeOK, B!CircuitState
<1>5. failures' \in 0 .. Threshold /\ elapsed' \in BOOLEAN
  BY <1>1 DEF BreakerInv, B!TypeOK
<1>6. state' # "CLOSED" => failures' >= Threshold
  BY <1>1, <1>4 DEF BreakerInv, B!OneFailureReopens
<1>7. QED
  BY <1>1, <1>3, <1>4, <1>5, <1>6 DEF BreakerInv, B!TypeOK, B!OneFailureReopens

LEMMA FailureStep ==
    ASSUME BreakerInv, NEW c \in Call, B!Fail(c)
    PROVE  BreakerInv'
<1>1. /\ failures' = B!AtMost(failures + 1, Threshold) /\ tests' = tests
      /\ state' = IF failures + 1 >= Threshold THEN "OPEN" ELSE state
  BY DEF B!Fail
<1>2. elapsed' = FALSE /\ underWay' \subseteq Call
  BY DEF B!Fail, BreakerInv, B!TypeOK
<1>3. failures \in 0 .. Threshold /\ Threshold \in Nat
  BY PlatformAssumption DEF BreakerInv, B!TypeOK
<1>4. failures' \in 0 .. Threshold /\ (failures + 1 >= Threshold => failures' >= Threshold)
  BY <1>1, <1>3 DEF B!AtMost
<1>5. state' \in B!CircuitState
  BY <1>1 DEF BreakerInv, B!TypeOK, B!CircuitState
<1>6. state' # "CLOSED" => failures' >= Threshold
  <2>1. CASE failures + 1 >= Threshold
    BY <2>1, <1>4
  <2>2. CASE ~ (failures + 1 >= Threshold)
    <3>1. state = "CLOSED"
      BY <2>2, <1>3 DEF BreakerInv, B!OneFailureReopens
    <3>2. QED
      BY <2>2, <3>1, <1>1
  <2>3. QED
    BY <2>1, <2>2
<1>7. tests' \in 0 .. MaxTests + 1
  BY <1>1 DEF BreakerInv, B!TypeOK
<1>8. QED
  BY <1>2, <1>4, <1>5, <1>6, <1>7, Zenon DEF BreakerInv, B!TypeOK, B!OneFailureReopens

LEMMA BreakerNext ==
    ASSUME BreakerInv, B!Next \/ UNCHANGED breakerVars
    PROVE  BreakerInv'
<1>1. CASE UNCHANGED breakerVars
  BY <1>1, Zenon DEF breakerVars, BreakerInv, B!TypeOK, B!OneFailureReopens
<1>2. CASE B!Elapse
  BY <1>2, Zenon DEF B!Elapse, BreakerInv, B!TypeOK, B!OneFailureReopens
<1>3. CASE B!Restart \/ \E c \in Call : B!Succeed(c)
  <2>1. 0 \in 0 .. Threshold /\ 0 \in 0 .. MaxTests + 1
    BY PlatformAssumption
  <2>2. /\ state' = "CLOSED" /\ failures' = 0 /\ tests' = 0
        /\ elapsed' = FALSE \/ elapsed' = elapsed
        /\ underWay' \subseteq underWay
    BY <1>3, Zenon DEF B!Restart, B!Succeed
  <2>3. elapsed' \in BOOLEAN /\ underWay' \subseteq Call
    BY <2>2, Zenon DEF BreakerInv, B!TypeOK
  <2>4. QED
    BY <2>1, <2>2, <2>3, Zenon DEF BreakerInv, B!TypeOK, B!OneFailureReopens, B!CircuitState
<1>4. QED
  BY <1>1, <1>2, <1>3, BeginOrRefuse, FailureStep DEF B!Next

(***************************************************************************)
(* Impact.                                                                 *)
(***************************************************************************)

\* A row that says VERIFIED has metrics that a review has verified, and every row and
\* submission under way has metrics that were submitted.
ReportsBacked ==
    \A p \in Reported :
        /\ report[p].status = "VERIFIED" => report[p].metrics \in verified
        /\ report[p] # I!NoReport => report[p].metrics \in used
SubmissionsBacked ==
    \A r \in ReportRequest : reportReq[r].op = "submit" => reportReq[r].metrics \in used

ImpactInv ==
    I!TypeOK /\ I!DatabaseAnswersAreVerified /\ ReportsBacked /\ SubmissionsBacked

LEMMA ImpactInit == I!Init => ImpactInv
BY DEF I!Init, ImpactInv, I!TypeOK, I!DatabaseAnswersAreVerified, ReportsBacked,
       SubmissionsBacked, I!NoReport, I!NoEntry, I!Idle

ImpactReq ==
    {I!Idle} \cup [op : {"submit"}, project : Reported, metrics : Metrics]
             \cup [op : {"get"}, project : Reported, metrics : Metrics \cup {None}]

\* A slot that is freed.
LEMMA FreeSlot ==
    ASSUME ImpactInv, NEW r \in ReportRequest, reportReq' = [reportReq EXCEPT ![r] = I!Idle],
           used \subseteq used', verified \subseteq verified'
    PROVE  /\ reportReq' \in [ReportRequest -> ImpactReq]
           /\ SubmissionsBacked'
           /\ \A q \in ReportRequest : reportReq'[q].op = "get" /\ reportReq'[q].metrics # None =>
                  reportReq'[q].metrics \in verified'
BY DEF ImpactInv, I!TypeOK, ImpactReq, SubmissionsBacked, I!DatabaseAnswersAreVerified, I!Idle

LEMMA SubmitStep ==
    ASSUME ImpactInv, NEW r \in ReportRequest, NEW p \in Reported, NEW m \in Metrics,
           I!Submit(r, p, m)
    PROVE  ImpactInv'
<1>1. /\ cached' = [cached EXCEPT ![p] = [metrics |-> m, ttl |-> TRUE]]
      /\ used' = used \cup {m}
      /\ reportReq' = [reportReq EXCEPT ![r] = [op |-> "submit", project |-> p, metrics |-> m]]
      /\ UNCHANGED <<report, submitted, verified, reportAnswer>>
  BY DEF I!Submit, I!SetJson, I!Entry
<1>2. I!TypeOK'
  BY <1>1 DEF ImpactInv, I!TypeOK
<1>3. SubmissionsBacked' /\ I!DatabaseAnswersAreVerified'
  BY <1>1 DEF ImpactInv, I!TypeOK, SubmissionsBacked, I!DatabaseAnswersAreVerified
<1>4. ReportsBacked'
  BY <1>1 DEF ImpactInv, ReportsBacked
<1>5. QED
  BY <1>2, <1>3, <1>4 DEF ImpactInv

LEMMA CommitReportStep ==
    ASSUME ImpactInv, NEW r \in ReportRequest, I!Commit(r)
    PROVE  ImpactInv'
<1>1. PICK p \in Reported, m \in Metrics :
        /\ m \in used
        /\ report' = [report EXCEPT ![p] = [status |-> "SUBMITTED", metrics |-> m]]
        /\ submitted' = submitted \cup {<<p, m>>}
        /\ reportReq' = [reportReq EXCEPT ![r] = I!Idle]
        /\ UNCHANGED <<cached, used, verified, reportAnswer>>
  <2>1. PICK mine \in ImpactReq : mine = reportReq[r]
    BY DEF ImpactInv, I!TypeOK, ImpactReq
  <2>2. mine.op = "submit"
    BY <2>1 DEF I!Commit
  <2>3. mine.project \in Reported /\ mine.metrics \in Metrics
    BY <2>2 DEF ImpactReq, I!Idle
  <2>4. mine.metrics \in used
    BY <2>1, <2>2 DEF ImpactInv, SubmissionsBacked
  <2>5. QED
    BY <2>1, <2>3, <2>4 DEF I!Commit
<1>2. I!TypeOK'
  BY <1>1, FreeSlot DEF ImpactInv, I!TypeOK, ImpactReq
<1>3. SubmissionsBacked' /\ I!DatabaseAnswersAreVerified'
  BY <1>1, FreeSlot DEF ImpactInv, I!DatabaseAnswersAreVerified
<1>4. ReportsBacked'
  BY <1>1 DEF ImpactInv, I!TypeOK, ReportsBacked
<1>5. QED
  BY <1>2, <1>3, <1>4 DEF ImpactInv

LEMMA ReviewStep ==
    ASSUME ImpactInv, NEW p \in Reported, NEW status \in {"VERIFIED", "REJECTED"},
           I!ReviewReport(p, status)
    PROVE  ImpactInv'
<1>1. PICK m \in Metrics : m = report[p].metrics /\ m \in used
  BY DEF I!ReviewReport, ImpactInv, I!TypeOK, ReportsBacked
<1>2. /\ report' = [report EXCEPT ![p] = [status |-> status, metrics |-> m]]
      /\ verified' = IF status = "VERIFIED" THEN verified \cup {m} ELSE verified
      /\ UNCHANGED <<cached, submitted, used, reportAnswer, reportReq>>
  <2>1. report[p] \in [status : {"SUBMITTED", "VERIFIED", "REJECTED"}, metrics : Metrics]
    BY DEF I!ReviewReport, ImpactInv, I!TypeOK
  <2>2. [report[p] EXCEPT !.status = status] = [status |-> status, metrics |-> m]
    BY <1>1, <2>1
  <2>3. QED
    BY <1>1, <2>2 DEF I!ReviewReport
<1>3. I!TypeOK'
  BY <1>1, <1>2 DEF ImpactInv, I!TypeOK
<1>4. SubmissionsBacked' /\ I!DatabaseAnswersAreVerified'
  BY <1>2 DEF ImpactInv, SubmissionsBacked, I!DatabaseAnswersAreVerified
<1>5. ReportsBacked'
  BY <1>1, <1>2 DEF ImpactInv, I!TypeOK, ReportsBacked
<1>6. QED
  BY <1>3, <1>4, <1>5 DEF ImpactInv

LEMMA ReadReportStep ==
    ASSUME ImpactInv, NEW r \in ReportRequest, NEW p \in Reported, I!ReadReport(r, p)
    PROVE  ImpactInv'
<1>1. PICK m \in Metrics \cup {None} :
        /\ m # None => m \in verified
        /\ reportReq' = [reportReq EXCEPT ![r] = [op |-> "get", project |-> p, metrics |-> m]]
        /\ UNCHANGED <<report, cached, submitted, used, verified, reportAnswer>>
  BY DEF I!ReadReport, ImpactInv, I!TypeOK, ReportsBacked, I!NoReport
<1>2. I!TypeOK'
  BY <1>1 DEF ImpactInv, I!TypeOK
<1>3. SubmissionsBacked' /\ I!DatabaseAnswersAreVerified'
  BY <1>1 DEF ImpactInv, I!TypeOK, SubmissionsBacked, I!DatabaseAnswersAreVerified
<1>4. ReportsBacked'
  BY <1>1 DEF ImpactInv, ReportsBacked
<1>5. QED
  BY <1>2, <1>3, <1>4 DEF ImpactInv

LEMMA DatabaseAnswerStep ==
    ASSUME ImpactInv, NEW r \in ReportRequest, I!AnswerFromDatabase(r)
    PROVE  ImpactInv'
<1>1. PICK p \in Reported, m \in Metrics \cup {None} :
        /\ m # None => m \in verified
        /\ m # None => cached' = [cached EXCEPT ![p] = [metrics |-> m, ttl |-> TRUE]]
        /\ m = None => UNCHANGED cached
        /\ reportAnswer' = reportAnswer \cup {[project |-> p, source |-> "database", metrics |-> m]}
        /\ reportReq' = [reportReq EXCEPT ![r] = I!Idle]
        /\ UNCHANGED <<report, submitted, used, verified>>
  <2>1. PICK mine \in ImpactReq : mine = reportReq[r]
    BY DEF ImpactInv, I!TypeOK, ImpactReq
  <2>2. mine.op = "get"
    BY <2>1 DEF I!AnswerFromDatabase
  <2>3. mine.project \in Reported /\ mine.metrics \in Metrics \cup {None}
    BY <2>2 DEF ImpactReq, I!Idle
  <2>4. mine.metrics # None => mine.metrics \in verified
    BY <2>1, <2>2 DEF ImpactInv, I!DatabaseAnswersAreVerified
  <2>5. QED
    BY <2>1, <2>3, <2>4 DEF I!AnswerFromDatabase, I!Answered, I!SetJson, I!Entry
<1>2. I!TypeOK'
  <2>1. cached' \in [Reported -> [metrics : Metrics \cup {None}, ttl : BOOLEAN]]
    <3>1. cached \in [Reported -> [metrics : Metrics \cup {None}, ttl : BOOLEAN]]
      BY DEF ImpactInv, I!TypeOK
    <3>2. CASE m = None
      BY <1>1, <3>1, <3>2
    <3>3. CASE m # None
      <4>1. [metrics |-> m, ttl |-> TRUE] \in [metrics : Metrics \cup {None}, ttl : BOOLEAN]
        OBVIOUS
      <4>2. QED
        BY <1>1, <3>1, <3>3, <4>1
    <3>4. QED
      BY <3>2, <3>3
  <2>2. reportReq' \in [ReportRequest -> ImpactReq]
    BY <1>1, FreeSlot
  <2>3. reportAnswer' \subseteq
            [project : Reported, source : {"cache", "database"}, metrics : Metrics \cup {None}]
    BY <1>1 DEF ImpactInv, I!TypeOK
  <2>4. QED
    BY <1>1, <2>1, <2>2, <2>3 DEF ImpactInv, I!TypeOK, ImpactReq
<1>3. SubmissionsBacked' /\ I!DatabaseAnswersAreVerified'
  <2>1. ASSUME NEW a \in reportAnswer', a.source = "database", a.metrics # None
        PROVE  a.metrics \in verified
    <3>1. CASE a \in reportAnswer
      BY <2>1, <3>1 DEF ImpactInv, I!DatabaseAnswersAreVerified
    <3>2. CASE a = [project |-> p, source |-> "database", metrics |-> m]
      BY <1>1, <2>1, <3>2
    <3>3. QED
      BY <1>1, <2>1, <3>1, <3>2
  <2>2. UNCHANGED <<verified, used>>
    BY <1>1
  <2>3. /\ SubmissionsBacked'
        /\ \A q \in ReportRequest : reportReq'[q].op = "get" /\ reportReq'[q].metrics # None =>
               reportReq'[q].metrics \in verified'
    BY <1>1, FreeSlot
  <2>4. QED
    BY <2>1, <2>2, <2>3 DEF I!DatabaseAnswersAreVerified
<1>4. ReportsBacked'
  BY <1>1 DEF ImpactInv, ReportsBacked
<1>5. QED
  BY <1>2, <1>3, <1>4 DEF ImpactInv

\* Redis answers or forgets.
LEMMA CachedStep ==
    ASSUME ImpactInv, NEW p \in Reported, I!AnswerFromCache(p) \/ I!Expire(p)
    PROVE  ImpactInv'
<1>1. UNCHANGED <<report, submitted, used, verified, reportReq>>
  BY DEF I!AnswerFromCache, I!Expire
<1>2. /\ cached' \in [Reported -> [metrics : Metrics \cup {None}, ttl : BOOLEAN]]
      /\ \/ UNCHANGED reportAnswer
         \/ \E m \in Metrics \cup {None} :
              reportAnswer' = reportAnswer \cup {[project |-> p, source |-> "cache", metrics |-> m]}
  <2>1. CASE I!AnswerFromCache(p)
    <3>1. cached[p].metrics \in Metrics \cup {None}
      BY DEF ImpactInv, I!TypeOK
    <3>2. QED
      BY <2>1, <3>1 DEF I!AnswerFromCache, I!Answered, ImpactInv, I!TypeOK
  <2>2. CASE I!Expire(p)
    <3>1. I!NoEntry \in [metrics : Metrics \cup {None}, ttl : BOOLEAN]
      BY DEF I!NoEntry
    <3>2. QED
      BY <2>2, <3>1 DEF I!Expire, ImpactInv, I!TypeOK
  <2>3. QED
    BY <2>1, <2>2
<1>3. I!TypeOK' /\ I!DatabaseAnswersAreVerified'
  BY <1>1, <1>2 DEF ImpactInv, I!TypeOK, I!DatabaseAnswersAreVerified
<1>4. QED
  BY <1>1, <1>3 DEF ImpactInv, ReportsBacked, SubmissionsBacked

LEMMA ImpactNext ==
    ASSUME ImpactInv, I!Next \/ UNCHANGED impactVars
    PROVE  ImpactInv'
<1>1. CASE UNCHANGED impactVars
  BY <1>1 DEF impactVars, ImpactInv, I!TypeOK, I!DatabaseAnswersAreVerified, ReportsBacked,
     SubmissionsBacked
<1>2. ASSUME NEW r \in ReportRequest, I!Fail(r)
      PROVE  ImpactInv'
  BY <1>2, FreeSlot DEF I!Fail, ImpactInv, I!TypeOK, ImpactReq, I!DatabaseAnswersAreVerified,
     ReportsBacked
<1>3. CASE I!Next
  BY <1>2, <1>3, SubmitStep, CommitReportStep, ReviewStep, ReadReportStep, DatabaseAnswerStep,
     CachedStep DEF I!Next
<1>4. QED
  BY <1>1, <1>3
(***************************************************************************)
(* KafkaConsumer.                                                          *)
(***************************************************************************)

\* Whoever has a message, owner or not, has one of the partition.
MessagesExist == \A c \in Consumer : handling[c] # K!Waiting => handling[c].message \in 1 .. log

ConsumerInv == K!TypeOK /\ K!NothingPassedOver /\ MessagesExist

ConsumerJob ==
    {K!Waiting} \cup [at : {"handle"}, message : K!Message]
                \cup [at : {"bury"}, message : K!Message, attempt : 1 .. MaxRetries]

\* The offsets, as TypeOK has them.
Offsets ==
    /\ log \in 0 .. MaxLog
    /\ begun \in 0 .. log /\ position \in begun .. log
    /\ committed = 0 \/ committed \in begun .. position

\* What the owner has passed since the group began.
Passed == begun + 1 .. position

LEMMA ConsumerTyped == K!TypeOK <=>
    /\ Offsets /\ owner \in Consumer
    /\ handling \in [Consumer -> ConsumerJob]
    /\ K!Settled \subseteq 1 .. log
BY DEF K!TypeOK, Offsets, ConsumerJob

LEMMA ConsumerInit == K!Init => ConsumerInv
<1> SUFFICES ASSUME K!Init PROVE ConsumerInv
  OBVIOUS
<1>1. log \in 0 .. MaxLog /\ committed = 0 /\ begun = log /\ position = log /\ MaxLog \in Nat
  BY PlatformAssumption DEF K!Init
<1>2. Offsets
  BY <1>1 DEF Offsets
<1>3. Passed = {} /\ K!Settled = {}
  BY <1>1 DEF K!Init, K!Settled, Passed
<1>4. handling \in [Consumer -> ConsumerJob] /\ MessagesExist /\ owner \in Consumer
  BY DEF K!Init, ConsumerJob, MessagesExist
<1>5. QED
  BY <1>2, <1>3, <1>4, ConsumerTyped DEF ConsumerInv, K!NothingPassedOver, Passed

\* The instance that handles a message has one of the partition, a known one.
LEMMA MessageInHand ==
    ASSUME ConsumerInv, NEW c \in Consumer, handling[c].at \in {"handle", "bury"}
    PROVE  handling[c].message \in K!Message /\ handling[c].message \in 1 .. log
<1>1. handling[c] \in ConsumerJob /\ handling[c] # K!Waiting
  BY ConsumerTyped DEF ConsumerInv, K!Waiting
<1>2. QED
  BY <1>1 DEF ConsumerInv, ConsumerJob, MessagesExist

\* A slot that waits again, and an offset that does not pass what is settled.
LEMMA SlotFreed ==
    ASSUME ConsumerInv, NEW c \in Consumer, handling' = [handling EXCEPT ![c] = K!Waiting],
           UNCHANGED log
    PROVE  handling' \in [Consumer -> ConsumerJob] /\ MessagesExist'
<1>1. handling \in [Consumer -> ConsumerJob]
  BY ConsumerTyped DEF ConsumerInv
<1>2. handling' \in [Consumer -> ConsumerJob]
  BY <1>1 DEF ConsumerJob
<1>3. QED
  BY <1>1, <1>2 DEF MessagesExist, ConsumerInv

LEMMA ReturnStep ==
    ASSUME ConsumerInv, NEW c \in Consumer, handling[c].at \in {"handle", "bury"}, K!Return(c),
           K!Settled' = K!Settled \cup {handling[c].message},
           UNCHANGED <<log, committed, begun, owner>>
    PROVE  ConsumerInv'
<1> Offsets
  BY ConsumerTyped DEF ConsumerInv
<1>1. PICK m \in 1 .. log : m = handling[c].message
  BY MessageInHand
<1>2. position' = position \/ (m = position + 1 /\ position' = m)
  BY <1>1, Zenon DEF K!Return
<1>3. Offsets' /\ Passed' \subseteq Passed \cup {m}
  BY <1>2 DEF Offsets, Passed
<1>4. K!Settled' \subseteq 1 .. log' /\ K!NothingPassedOver'
  BY <1>1, <1>3, ConsumerTyped DEF ConsumerInv, K!NothingPassedOver, Passed
<1>5. handling' \in [Consumer -> ConsumerJob] /\ MessagesExist'
  BY SlotFreed DEF K!Return
<1>6. QED
  BY <1>3, <1>4, <1>5 DEF ConsumerInv, K!TypeOK, Offsets, ConsumerJob

\* Whoever begins where the group's offset is, or at the end, has passed nothing new.
LEMMA Restart ==
    ASSUME Offsets, K!Start, UNCHANGED <<log, committed>>
    PROVE  Offsets' /\ Passed' \subseteq Passed
BY DEF K!Start, Offsets, Passed

LEMMA KafkaStep ==
    ASSUME ConsumerInv, K!Produce \/ K!CommitOffset \/ \E c \in Consumer : K!Rebalance(c)
    PROVE  ConsumerInv'
<1> Offsets /\ MaxLog \in Nat
  BY ConsumerTyped, PlatformAssumption DEF ConsumerInv
<1>1. UNCHANGED <<handling, handled, dead>> /\ owner' \in Consumer
  BY ConsumerTyped DEF K!Produce, K!CommitOffset, K!Rebalance, ConsumerInv
<1>2. Offsets' /\ log <= log' /\ Passed' \subseteq Passed
  <2>1. CASE K!Produce
    BY <2>1 DEF K!Produce, Offsets, Passed
  <2>2. CASE K!CommitOffset
    BY <2>2 DEF K!CommitOffset, Offsets, Passed
  <2>3. ASSUME NEW c \in Consumer, K!Rebalance(c)
        PROVE  Offsets' /\ log <= log' /\ Passed' \subseteq Passed
    BY <2>3, Restart DEF K!Rebalance, Offsets
  <2>4. QED
    BY <2>1, <2>2, <2>3
<1>3. 1 .. log \subseteq 1 .. log'
  BY <1>2 DEF Offsets
<1>4. K!Settled' \subseteq 1 .. log' /\ K!NothingPassedOver'
  BY <1>1, <1>2, <1>3, ConsumerTyped DEF ConsumerInv, K!NothingPassedOver, K!Settled, Passed
<1>5. handling' \in [Consumer -> ConsumerJob] /\ MessagesExist'
  BY <1>1, <1>3, ConsumerTyped DEF ConsumerInv, MessagesExist
<1>6. QED
  BY <1>1, <1>2, <1>4, <1>5 DEF ConsumerInv, K!TypeOK, Offsets, ConsumerJob

\* The instance stops, or gives up: the owner may begin again.
LEMMA StopStep ==
    ASSUME ConsumerInv, NEW c \in Consumer, handling' = [handling EXCEPT ![c] = K!Waiting],
           K!Start \/ UNCHANGED <<position, begun>>,
           UNCHANGED <<log, committed, owner, handled, dead>>
    PROVE  ConsumerInv'
<1> Offsets
  BY ConsumerTyped DEF ConsumerInv
<1>1. Offsets' /\ Passed' \subseteq Passed
  BY Restart DEF Offsets, Passed
<1>2. K!Settled' \subseteq 1 .. log' /\ K!NothingPassedOver'
  BY <1>1, ConsumerTyped DEF ConsumerInv, K!NothingPassedOver, K!Settled, Passed
<1>3. QED
  BY <1>1, <1>2, SlotFreed DEF ConsumerInv, K!TypeOK, Offsets, ConsumerJob

\* An instance gets a message, or goes on with it.
LEMMA SlotTaken ==
    ASSUME ConsumerInv, NEW c \in Consumer, NEW new \in ConsumerJob,
           new # K!Waiting => new.message \in 1 .. log,
           handling' = [handling EXCEPT ![c] = new],
           UNCHANGED <<log, committed, begun, owner, position, handled, dead>>
    PROVE  ConsumerInv'
<1>1. handling \in [Consumer -> ConsumerJob]
  BY ConsumerTyped DEF ConsumerInv
<1>2. handling' \in [Consumer -> ConsumerJob]
  BY <1>1
<1>3. MessagesExist'
  BY <1>1 DEF ConsumerInv, MessagesExist
<1>4. Offsets' /\ K!Settled' = K!Settled
  BY ConsumerTyped DEF ConsumerInv, Offsets, K!Settled
<1>5. QED
  BY <1>2, <1>3, <1>4
     DEF ConsumerInv, K!TypeOK, K!NothingPassedOver, Offsets, ConsumerJob

LEMMA DeliverStep ==
    ASSUME ConsumerInv, NEW c \in Consumer, K!Deliver(c)
    PROVE  ConsumerInv'
<1> Offsets
  BY ConsumerTyped DEF ConsumerInv
<1>1. PICK m : m = position + 1
  OBVIOUS
<1>2. m \in 1 .. log /\ m \in K!Message
  <2>1. position < log
    BY DEF K!Deliver
  <2>2. MaxLog \in Nat
    BY PlatformAssumption
  <2>3. QED
    BY <1>1, <2>1, <2>2 DEF Offsets, K!Message
<1>3. PICK new : new = [at |-> "handle", message |-> m]
  OBVIOUS
<1>4. new \in ConsumerJob /\ new.message = m
  BY <1>2, <1>3 DEF ConsumerJob
<1>5. QED
  BY <1>1, <1>2, <1>3, <1>4, SlotTaken DEF K!Deliver

LEMMA ThrowStep ==
    ASSUME ConsumerInv, NEW c \in Consumer, K!HandlerThrows(c)
    PROVE  ConsumerInv'
<1>1. PICK m \in K!Message : m = handling[c].message /\ m \in 1 .. log
  BY MessageInHand DEF K!HandlerThrows
<1>2. PICK new : new = [at |-> "bury", message |-> m, attempt |-> 1]
  OBVIOUS
<1>3. new \in ConsumerJob /\ new.message = m
  BY <1>2, PlatformAssumption DEF ConsumerJob
<1>4. handling' = [handling EXCEPT ![c] = new]
  BY <1>1, <1>2, ConsumerTyped DEF K!HandlerThrows, ConsumerInv
<1>5. QED
  BY <1>1, <1>3, <1>4, SlotTaken DEF K!HandlerThrows

LEMMA BuryFailsStep ==
    ASSUME ConsumerInv, NEW c \in Consumer, K!SendFails(c)
    PROVE  ConsumerInv'
<1>1. PICK old \in ConsumerJob : old = handling[c]
  BY ConsumerTyped DEF ConsumerInv
<1>2. old \in [at : {"bury"}, message : K!Message, attempt : 1 .. MaxRetries]
  BY <1>1 DEF K!SendFails, ConsumerJob, K!Waiting
<1>3. CASE old.attempt = MaxRetries
  BY <1>1, <1>3, StopStep DEF K!SendFails
<1>4. CASE old.attempt # MaxRetries
  <2>1. PICK new : new = [old EXCEPT !.attempt = old.attempt + 1]
    OBVIOUS
  <2>2. old.attempt + 1 \in 1 .. MaxRetries
    BY <1>2, <1>4, PlatformAssumption
  <2>3. new \in ConsumerJob /\ new.message = old.message
    BY <1>2, <2>1, <2>2 DEF ConsumerJob
  <2>4. old.message \in 1 .. log
    BY <1>1, MessageInHand DEF K!SendFails
  <2>5. handling' = [handling EXCEPT ![c] = new]
    <3>1. handling' = [handling EXCEPT ![c].attempt = old.attempt + 1]
      BY <1>1, <1>4 DEF K!SendFails
    <3>2. QED
      BY <1>1, <2>1, <3>1, Zenon
  <2>6. QED
    BY <2>3, <2>4, <2>5, SlotTaken DEF K!SendFails
<1>5. QED
  BY <1>3, <1>4

LEMMA ConsumerNext ==
    ASSUME ConsumerInv, K!Next \/ UNCHANGED consumerVars
    PROVE  ConsumerInv'
<1>1. CASE UNCHANGED consumerVars
  BY <1>1 DEF consumerVars, ConsumerInv, K!TypeOK, K!NothingPassedOver, K!Settled, MessagesExist
<1>2. ASSUME NEW c \in Consumer, K!Handle(c) \/ K!SendToDlq(c)
      PROVE  ConsumerInv'
  BY <1>2, ReturnStep DEF K!Handle, K!SendToDlq, K!Settled
<1>3. ASSUME NEW c \in Consumer, K!Crash(c)
      PROVE  ConsumerInv'
  BY <1>3, StopStep DEF K!Crash
<1>4. CASE K!Next
  BY <1>2, <1>3, <1>4, KafkaStep, DeliverStep, ThrowStep, BuryFailsStep DEF K!Next
<1>5. QED
  BY <1>1, <1>4

(***************************************************************************)
(* SharedCache.                                                            *)
(***************************************************************************)

CacheStage == {"idle", "lock", "wait", "compute", "write", "release"}

\* The versions a request or the cache may have: one that has been, or none.
Versions == (0 .. source) \cup {S!NoValue}

LEMMA CacheTyped == S!TypeOK <=>
    /\ source \in 0 .. MaxVersion
    /\ entry \in [value : Versions, ttl : BOOLEAN]
    /\ lock \in {"free", "held", "for good"}
    /\ cacheReq \in [CacheRequest -> [at : CacheStage, value : Versions]]
BY DEF S!TypeOK, Versions, CacheStage

LEMMA CacheInit == S!Init => S!TypeOK
<1> SUFFICES ASSUME S!Init PROVE S!TypeOK
  OBVIOUS
<1>1. source \in 0 .. MaxVersion /\ S!NoValue \in Versions
  BY PlatformAssumption DEF S!Init, Versions
<1>2. /\ S!Empty \in [value : Versions, ttl : BOOLEAN]
      /\ S!Idle \in [at : CacheStage, value : Versions]
  BY <1>1 DEF S!Empty, S!Idle, CacheStage
<1>3. QED
  BY <1>1, <1>2, CacheTyped DEF S!Init

\* A request goes on to another stage, with its version or another one.
LEMMA CacheRequestTyped ==
    ASSUME S!TypeOK, NEW r \in CacheRequest, NEW step \in CacheStage, UNCHANGED source,
           \/ S!Do(r, step)
           \/ \E v \in Versions : cacheReq' = [cacheReq EXCEPT ![r] = [at |-> step, value |-> v]]
    PROVE  cacheReq' \in [CacheRequest -> [at : CacheStage, value : Versions']]
<1>1. Versions' = Versions
  BY DEF Versions, S!NoValue
<1>2. PICK old \in [at : CacheStage, value : Versions] : old = cacheReq[r]
  BY CacheTyped
<1>3. PICK new \in [at : CacheStage, value : Versions] : cacheReq' = [cacheReq EXCEPT ![r] = new]
  <2>1. CASE S!Do(r, step)
    <3>1. [old EXCEPT !.at = step] \in [at : CacheStage, value : Versions]
      BY <1>2
    <3>2. cacheReq' = [cacheReq EXCEPT ![r] = [old EXCEPT !.at = step]]
      BY <1>2, <2>1, Zenon DEF S!Do
    <3>3. QED
      BY <3>1, <3>2
  <2>2. CASE \E v \in Versions : cacheReq' = [cacheReq EXCEPT ![r] = [at |-> step, value |-> v]]
    <3>1. PICK v \in Versions : cacheReq' = [cacheReq EXCEPT ![r] = [at |-> step, value |-> v]]
      BY <2>2
    <3>2. [at |-> step, value |-> v] \in [at : CacheStage, value : Versions]
      OBVIOUS
    <3>3. QED
      BY <3>1, <3>2
  <2>3. QED
    BY <2>1, <2>2
<1>4. QED
  BY <1>1, <1>3, CacheTyped

LEMMA SourceIsNat ==
    ASSUME S!TypeOK
    PROVE  source \in Nat /\ MaxVersion \in Nat
<1>1. source \in 0 .. MaxVersion
  BY DEF S!TypeOK
<1>2. MaxVersion \in Nat
  BY PlatformAssumption
<1>3. QED
  BY <1>1, <1>2

\* The version the request carries, and the one it can read.
LEMMA VersionsKnown ==
    ASSUME S!TypeOK
    PROVE  /\ source \in Versions /\ S!NoValue \in Versions
           /\ S!Empty \in [value : Versions, ttl : BOOLEAN]
           /\ \A r \in CacheRequest : cacheReq[r].value \in Versions
<1>1. source \in Versions /\ S!NoValue \in Versions
  <2>1. source \in Nat
    BY SourceIsNat
  <2>2. QED
    BY <2>1 DEF Versions
<1>2. QED
  BY <1>1, CacheTyped DEF S!Empty

\* A request moves: the value in Redis is one it had, or stays.
LEMMA RequestStep ==
    ASSUME S!TypeOK, NEW r \in CacheRequest,
           \/ S!Miss(r) \/ S!Acquire(r) \/ S!Retry(r) \/ S!Compute(r) \/ S!Write(r)
           \/ S!Throw(r) \/ S!Release(r) \/ S!Crash(r)
    PROVE  S!TypeOK'
<1>1. UNCHANGED source
  BY DEF S!Miss, S!Acquire, S!Retry, S!Compute, S!Write, S!Throw, S!Release, S!Crash
<1>2. Versions' = Versions
  BY <1>1 DEF Versions, S!NoValue
<1>3. lock' \in {"free", "held", "for good"}
  BY CacheTyped DEF S!Miss, S!Acquire, S!Retry, S!Compute, S!Write, S!Throw, S!Release, S!Crash
<1>4. entry' \in [value : Versions, ttl : BOOLEAN]
  <2>1. CASE S!Write(r)
    <3>1. [value |-> cacheReq[r].value, ttl |-> TRUE] \in [value : Versions, ttl : BOOLEAN]
      BY VersionsKnown
    <3>2. QED
      BY <2>1, <3>1 DEF S!Write
  <2>2. CASE ~ S!Write(r)
    BY <2>2, CacheTyped
       DEF S!Miss, S!Acquire, S!Retry, S!Compute, S!Throw, S!Release, S!Crash
  <2>3. QED
    BY <2>1, <2>2
<1>5. \E step \in CacheStage :
        \/ S!Do(r, step)
        \/ \E v \in Versions : cacheReq' = [cacheReq EXCEPT ![r] = [at |-> step, value |-> v]]
  <2>1. CASE S!Miss(r) \/ S!Acquire(r) \/ S!Retry(r) \/ S!Release(r)
    BY <2>1 DEF S!Miss, S!Acquire, S!Retry, S!Release, CacheStage
  <2>2. CASE S!Compute(r)
    BY <2>2, VersionsKnown DEF S!Compute, CacheStage
  <2>3. CASE S!Write(r) \/ S!Throw(r)
    <3>1. [S!Idle EXCEPT !.at = "release"] = [at |-> "release", value |-> S!NoValue]
      BY DEF S!Idle
    <3>2. QED
      BY <2>3, <3>1, VersionsKnown DEF S!Write, S!Throw, CacheStage
  <2>4. CASE S!Crash(r)
    BY <2>4, VersionsKnown DEF S!Crash, S!Idle, CacheStage
  <2>5. QED
    BY <2>1, <2>2, <2>3, <2>4
<1>6. cacheReq' \in [CacheRequest -> [at : CacheStage, value : Versions]]
  BY <1>1, <1>2, <1>5, CacheRequestTyped
<1>7. source' \in 0 .. MaxVersion
  BY <1>1, CacheTyped
<1>8. QED
  BY <1>2, <1>3, <1>4, <1>6, <1>7 DEF S!TypeOK, Versions, CacheStage

LEMMA CacheNext ==
    ASSUME S!TypeOK, S!Next \/ UNCHANGED cacheVars
    PROVE  S!TypeOK'
<1>1. CASE UNCHANGED cacheVars
  BY <1>1 DEF cacheVars, S!TypeOK, S!NoValue
<1>2. CASE S!LockExpires
  BY <1>2 DEF S!LockExpires, S!TypeOK, S!NoValue
<1>3. CASE S!EntryExpires
  BY <1>3, VersionsKnown DEF S!EntryExpires, S!TypeOK, Versions, S!NoValue
<1>4. CASE S!Change
  <2>1. source' \in 0 .. MaxVersion /\ 0 .. source \subseteq 0 .. source'
    <3>1. source \in Nat /\ MaxVersion \in Nat
      BY SourceIsNat
    <3>2. source < MaxVersion /\ source' = source + 1
      BY <1>4 DEF S!Change
    <3>3. QED
      BY <3>1, <3>2
  <2>2. Versions \subseteq Versions'
    BY <2>1 DEF Versions, S!NoValue
  <2>3. /\ entry \in [value : Versions', ttl : BOOLEAN]
        /\ cacheReq \in [CacheRequest -> [at : CacheStage, value : Versions']]
    BY <2>2, CacheTyped
  <2>4. QED
    BY <1>4, <2>1, <2>3 DEF S!Change, S!TypeOK, Versions, CacheStage
<1>5. QED
  BY <1>1, <1>2, <1>3, <1>4, RequestStep DEF S!Next

(***************************************************************************)
(* Health.                                                                 *)
(***************************************************************************)

\* While the check goes on, what is up was up since it was asked, and so was every
\* dependency that was found up.
FoundUpWasUp ==
    at = "check" =>
        /\ up \subseteq wasUp
        /\ \A d \in Dependency : result[d] = "up" => d \in wasUp

HealthInv == H!TypeOK /\ H!OkMeansUp /\ FoundUpWasUp

LEMMA HealthInit == H!Init => HealthInv
BY DEF H!Init, HealthInv, H!TypeOK, H!OkMeansUp, FoundUpWasUp, H!NoResult

\* The check begins, or is answered.
LEMMA HealthCheckStep ==
    ASSUME HealthInv, H!Check \/ H!Answer
    PROVE  HealthInv'
<1>1. H!NoResult \in [Dependency -> {"none", "up", "down"}] /\ H!NoResult' = H!NoResult
  BY DEF H!NoResult
<1>2. CASE H!Check
  BY <1>1, <1>2 DEF H!Check, HealthInv, H!TypeOK, H!OkMeansUp, FoundUpWasUp, H!NoResult
<1>3. CASE H!Answer
  <2>1. (\A d \in Dependency : result[d] = "up") => wasUp = Dependency
    BY <1>3 DEF H!Answer, HealthInv, H!TypeOK, FoundUpWasUp
  <2>2. H!OkMeansUp'
    BY <1>3, <2>1 DEF H!Answer, H!OkMeansUp
  <2>3. H!TypeOK' /\ FoundUpWasUp'
    BY <1>1, <1>3 DEF H!Answer, HealthInv, H!TypeOK, FoundUpWasUp
  <2>4. QED
    BY <2>2, <2>3 DEF HealthInv
<1>4. QED
  BY <1>2, <1>3

\* One race comes to its end, on either side.
LEMMA RaceStep ==
    ASSUME HealthInv, NEW d \in Dependency, H!ProbeEnds(d) \/ H!Timeout(d)
    PROVE  HealthInv'
<1>1. /\ at = "check" /\ UNCHANGED <<up, at, wasUp, answer>>
      /\ probing' \subseteq Dependency
  BY DEF H!ProbeEnds, H!Timeout, HealthInv, H!TypeOK
<1>2. \/ UNCHANGED result
      \/ result' = [result EXCEPT ![d] = "down"]
      \/ (d \in up /\ result' = [result EXCEPT ![d] = "up"])
  BY DEF H!ProbeEnds, H!Timeout
<1>3. result' \in [Dependency -> {"none", "up", "down"}]
  BY <1>2 DEF HealthInv, H!TypeOK
<1>4. \A e \in Dependency : result'[e] = "up" => e \in wasUp
  BY <1>1, <1>2 DEF HealthInv, H!TypeOK, FoundUpWasUp
<1>5. QED
  BY <1>1, <1>3, <1>4 DEF HealthInv, H!TypeOK, H!OkMeansUp, FoundUpWasUp

LEMMA HealthNext ==
    ASSUME HealthInv, H!Next \/ UNCHANGED healthVars
    PROVE  HealthInv'
<1>1. CASE UNCHANGED healthVars
  BY <1>1 DEF healthVars, HealthInv, H!TypeOK, H!OkMeansUp, FoundUpWasUp, H!NoResult
<1>2. ASSUME NEW d \in Dependency, H!Rise(d)
      PROVE  HealthInv'
  BY <1>2 DEF H!Rise, HealthInv, H!TypeOK, H!OkMeansUp, FoundUpWasUp, H!NoResult
<1>3. ASSUME NEW d \in Dependency, H!Fall(d)
      PROVE  HealthInv'
  BY <1>3 DEF H!Fall, HealthInv, H!TypeOK, H!OkMeansUp, FoundUpWasUp, H!NoResult
<1>4. CASE H!Next
  BY <1>2, <1>3, <1>4, HealthCheckStep, RaceStep DEF H!Next
<1>5. QED
  BY <1>1, <1>4

(***************************************************************************)
(* The composition.                                                        *)
(***************************************************************************)

PlatformInv ==
    /\ DealsInv /\ DocumentsInv /\ ImpactInv /\ ComplianceInv
    /\ BreakerInv /\ ConsumerInv /\ S!TypeOK /\ HealthInv

LEMMA PlatformBegins == PlatformInit => PlatformInv
BY DealsInit, DocumentsInit, ImpactInit, WorkerInit, EngineInit, BreakerInit, ConsumerInit,
   CacheInit, HealthInit DEF PlatformInit, PlatformInv, ComplianceInv

\* The other parts stutter.
LEMMA TradeStutters ==
    ASSUME UNCHANGED trade
    PROVE  /\ UNCHANGED vars /\ UNCHANGED documentVars
           /\ UNCHANGED impactVars /\ UNCHANGED complianceVars
BY DEF trade

LEMMA LibraryStutters ==
    ASSUME UNCHANGED library
    PROVE  /\ UNCHANGED breakerVars /\ UNCHANGED consumerVars
           /\ UNCHANGED cacheVars /\ UNCHANGED healthVars
BY DEF library

LEMMA TradeStep ==
    ASSUME DealsStep \/ DocumentsStep \/ ImpactStep \/ ComplianceStep
    PROVE  /\ Next \/ UNCHANGED vars
           /\ F!Next \/ UNCHANGED documentVars
           /\ I!Next \/ UNCHANGED impactVars
           /\ C!Next \/ UNCHANGED complianceVars
           /\ UNCHANGED library
BY DEF DealsStep, DocumentsStep, ImpactStep, ComplianceStep

LEMMA LibraryStep ==
    ASSUME BreakerStep \/ ConsumerStep \/ CacheStep \/ HealthStep
    PROVE  /\ B!Next \/ UNCHANGED breakerVars
           /\ K!Next \/ UNCHANGED consumerVars
           /\ S!Next \/ UNCHANGED cacheVars
           /\ H!Next \/ UNCHANGED healthVars
           /\ UNCHANGED trade
BY DEF BreakerStep, ConsumerStep, CacheStep, HealthStep

LEMMA Separate ==
    ASSUME PlatformNext \/ UNCHANGED platformVars
    PROVE  /\ Next \/ UNCHANGED vars
           /\ F!Next \/ UNCHANGED documentVars
           /\ B!Next \/ UNCHANGED breakerVars
           /\ I!Next \/ UNCHANGED impactVars
           /\ C!Next \/ UNCHANGED complianceVars
           /\ K!Next \/ UNCHANGED consumerVars
           /\ S!Next \/ UNCHANGED cacheVars
           /\ H!Next \/ UNCHANGED healthVars
<1>1. CASE UNCHANGED platformVars
  <2>1. UNCHANGED trade /\ UNCHANGED library
    BY <1>1 DEF platformVars
  <2>2. QED
    BY <2>1, TradeStutters, LibraryStutters
<1>2. CASE DealsStep \/ DocumentsStep \/ ImpactStep \/ ComplianceStep
  BY <1>2, TradeStep, LibraryStutters
<1>3. CASE BreakerStep \/ ConsumerStep \/ CacheStep \/ HealthStep
  BY <1>3, LibraryStep, TradeStutters
<1>4. QED
  BY <1>1, <1>2, <1>3 DEF PlatformNext

LEMMA PlatformStep == PlatformInv /\ [PlatformNext]_platformVars => PlatformInv'
<1> SUFFICES ASSUME PlatformInv, [PlatformNext]_platformVars PROVE PlatformInv'
  OBVIOUS
<1>1. /\ Next \/ UNCHANGED vars
      /\ F!Next \/ UNCHANGED documentVars
      /\ B!Next \/ UNCHANGED breakerVars
      /\ I!Next \/ UNCHANGED impactVars
      /\ C!Next \/ UNCHANGED complianceVars
      /\ K!Next \/ UNCHANGED consumerVars
      /\ S!Next \/ UNCHANGED cacheVars
      /\ H!Next \/ UNCHANGED healthVars
  BY Separate
<1>2. DealsInv' /\ DocumentsInv' /\ ImpactInv' /\ ComplianceInv'
  BY <1>1, DealsNext, DocumentsNext, ImpactNext, WorkerNext, EngineNext
     DEF PlatformInv, ComplianceInv
<1>3. BreakerInv' /\ ConsumerInv' /\ S!TypeOK' /\ HealthInv'
  BY <1>1, BreakerNext, ConsumerNext, CacheNext, HealthNext DEF PlatformInv
<1>4. QED
  BY <1>2, <1>3 DEF PlatformInv

\* The inductive invariant of the composed specification.
THEOREM PlatformInvariant == PlatformSpec => []PlatformInv
<1>1. PlatformSpec => PlatformInit /\ [][PlatformNext]_platformVars
  BY PTL DEF PlatformSpec
<1>2. QED
  BY <1>1, PlatformBegins, PlatformStep, PTL

\* Every part keeps the types of its rows, records and counters: no failure count, number
\* of trials, offset or version leaves its range, whatever its bound is.
THEOREM PlatformTypeCorrect == PlatformSpec => []PlatformTypeOK
<1>1. PlatformInv => PlatformTypeOK
  BY ComplianceHolds
     DEF PlatformInv, DealsInv, DocumentsInv, BreakerInv, ImpactInv, ConsumerInv, HealthInv,
         PlatformTypeOK
<1>2. QED
  BY <1>1, PlatformInvariant, PTL

\* A document that is ready has its object, impact answers only what a review verified, "ok"
\* of the health check means that all were up, a breaker that is not closed needs one failure
\* to open, and a consumer group passes over no message from where it began.
THEOREM AccountsAreTrueHolds == PlatformSpec => []AccountsAreTrue
<1>1. PlatformInv => AccountsAreTrue
  BY DEF PlatformInv, DocumentsInv, ImpactInv, HealthInv, BreakerInv, ConsumerInv, AccountsAreTrue
<1>2. QED
  BY <1>1, PlatformInvariant, PTL

\* Wherever a round of the compliance worker is cut off and whatever officers do meanwhile, a
\* user who is rejected is on the officers' list and an event of a decision is about a decided
\* case; and however evaluations of an action overlap, it is allowed once in a window.
THEOREM DecisionsAreTrueHolds == PlatformSpec => []DecisionsAreTrue
<1>1. PlatformInv => DecisionsAreTrue
  BY ComplianceHolds DEF PlatformInv, DecisionsAreTrue
<1>2. QED
  BY <1>1, PlatformInvariant, PTL

=============================================================================
