------------------------------ MODULE Funding ------------------------------
(***************************************************************************)
(* Investment commitments: InvestmentsService (apps/api/src/modules/       *)
(* investments.module.ts), DealsService.invest (deals.module.ts) and the   *)
(* project transitions that meet them (projects.module.ts).                *)
(*                                                                         *)
(* A handler is a job in one of the Request slots.  Every await that reads *)
(* something the handler later relies on is a step of its own; the writes  *)
(* of one database transaction are one step, because PostgreSQL commits    *)
(* them together; the writes of a handler that opens no transaction        *)
(* (confirm) are one step each.  Between two steps any other handler may   *)
(* move, and a handler may stop for good: an error, a lost connection or   *)
(* the end of the process (Fail).                                          *)
(***************************************************************************)
EXTENDS Integers, FiniteSets, FiniteSetsExt

CONSTANTS
    Project, Deal, Investor, Key,
    Row,            \* identifiers of Investment rows
    Request,        \* handlers in flight at the same time
    Amount,         \* amounts clients ask for, all within min and max
    Target,         \* Target[p]: fundingTarget of project p
    DealProject,    \* DealProject[d]: the project of deal d
    DealTarget,     \* DealTarget[d]: targetAmount
    DealMax,        \* DealMax[d]: maxAmount, 0 when the column is null
    None,           \* a column or an argument that is not set
    Calls,          \* the operations the clients of this instance call
    MaxRefund       \* bound: REFUND transactions per investment

ASSUME FundingAssumption ==
    /\ Amount \subseteq Nat
    /\ Target \in [Project -> Nat]
    /\ DealProject \in [Deal -> Project]
    /\ DealTarget \in [Deal -> Nat]
    /\ DealMax \in [Deal -> Nat]
    /\ None \notin Investor \cup Key \cup Project \cup Deal \cup Row

VARIABLES
    project,        \* Project rows: status and fundingRaised
    investment,     \* Investment rows, Absent until created
    transaction,    \* the INVESTMENT transaction of each investment
    refund,         \* how many REFUND transactions each investment has
    ledgerEntry,    \* LedgerEntry rows
    outboxEvent,    \* OutboxEvent rows: <<topic, aggregate>>
    idem,           \* Redis idempotency window: the cached answer
    answered,       \* the answers clients have received
    req             \* the job of each request slot

tables == <<project, investment, transaction, refund, ledgerEntry, outboxEvent>>
vars == <<tables, idem, answered, req>>

Pair == Investor \X Key

ProjectStatus ==
    {"DRAFT", "SUBMITTED", "UNDER_REVIEW", "DUE_DILIGENCE", "APPROVED", "REJECTED",
     "LISTED", "FUNDING", "FUNDED", "ACTIVE", "COMPLETED", "SUSPENDED"}
Investable == {"ACTIVE", "LISTED", "FUNDING"}
InvestmentStatus ==
    {"PENDING_COMPLIANCE", "PENDING_PAYMENT", "COMMITTED", "CONFIRMED",
     "CANCELLED", "REFUNDED", "REJECTED"}
Cancellable == {"PENDING_COMPLIANCE", "PENDING_PAYMENT", "COMMITTED"}
TransactionStatus ==
    {"PENDING", "COMPLETED", "FAILED", "CANCELLED", "FLAGGED", "ESCROW"}

\* An id no row has been inserted for, a job slot nothing runs in.
Absent ==
    [status |-> "ABSENT", investor |-> None, key |-> None, project |-> None,
     deal |-> None, amount |-> 0, confirmed |-> FALSE]
NoTransaction == [status |-> "ABSENT", processed |-> FALSE]
Unseen == [status |-> "UNSEEN", raised |-> 0]
Idle ==
    [op |-> "idle", pc |-> "idle", investor |-> None, key |-> None, project |-> None,
     deal |-> None, amount |-> 0, seen |-> Unseen, row |-> None, passed |-> FALSE]

Exists(i) == investment[i].status # "ABSENT"

(***************************************************************************)
(* Reads.                                                                  *)
(***************************************************************************)

\* The rows of a pair: @@unique([investorUserId, idempotencyKey]) is meant to
\* leave at most one.
RowsOf(u, k) ==
    {i \in Row : Exists(i) /\ investment[i].investor = u /\ investment[i].key = k}

\* Faulty variant: a table without the unique constraint.
KeyTakenDropped(u, k) == FALSE

\* Inserting the pair again breaks the unique constraint.
KeyTaken(u, k) == RowsOf(u, k) # {}

SumOf(S) == MapThenSumSet(LAMBDA i : investment[i].amount, S)

\* Investments that carry the deal's id, whatever their status.
DealRows(d) == {i \in Row : Exists(i) /\ investment[i].deal = d}
InvestorDealRows(u, d) == {i \in DealRows(d) : investment[i].investor = u}

\* Faulty variant: what the deal already holds is not counted.
ExceedsDealMaxAlone(d, a) == DealMax[d] > 0 /\ a > DealMax[d]

\* The new amount would take the deal over its cap, or the investor over a
\* quarter of the deal's target.
ExceedsDealMax(d, a) == DealMax[d] > 0 /\ SumOf(DealRows(d)) + a > DealMax[d]
ExceedsInvestorShare(u, d, a) == 4 * (SumOf(InvestorDealRows(u, d)) + a) > DealTarget[d]

(***************************************************************************)
(* Jobs.                                                                   *)
(***************************************************************************)

Finish(r) == req' = [req EXCEPT ![r] = Idle]
Goto(r, pc) == req' = [req EXCEPT ![r].pc = pc]
Answer(u, k, i) == answered' = answered \cup {<<u, k, i>>}

\* Writing a status; confirmedAt is set with CONFIRMED and never cleared.
WithStatus(row, s) ==
    [row EXCEPT !.status = s, !.confirmed = row.confirmed \/ s = "CONFIRMED"]
SetStatus(i, s) == investment' = [investment EXCEPT ![i] = WithStatus(@, s)]

\* A handler that throws, loses its database or Redis connection, or dies with
\* its process: the transaction it had open is rolled back, what it had already
\* committed stays, and no answer is sent.
Fail(r) ==
    /\ req[r] # Idle
    /\ Finish(r)
    /\ UNCHANGED <<tables, idem, answered>>

(***************************************************************************)
(* POST /investments.                                                      *)
(***************************************************************************)

InvestJob(u, k, p, d, a) ==
    [Idle EXCEPT !.op = "invest", !.pc = "lookup", !.investor = u, !.key = k,
                 !.project = p, !.deal = d, !.amount = a]

\* The Redis window already holds the answer.
AnswerFromCache(u, k) ==
    /\ "invest" \in Calls
    /\ idem[<<u, k>>] # None
    /\ Answer(u, k, idem[<<u, k>>])
    /\ UNCHANGED <<tables, idem, req>>

BeginInvest(r, u, k, p, d, a) ==
    /\ "invest" \in Calls
    /\ req[r] = Idle
    /\ idem[<<u, k>>] = None
    /\ req' = [req EXCEPT ![r] = InvestJob(u, k, p, d, a)]
    /\ UNCHANGED <<tables, idem, answered>>

\* The database knows the pair: its investment is the answer, whatever project
\* and amount this call names.
AnswerExisting(r) ==
    LET job == req[r] IN
    /\ job.op = "invest" /\ job.pc = "lookup"
    /\ \E i \in RowsOf(job.investor, job.key) : Answer(job.investor, job.key, i)
    /\ Finish(r)
    /\ UNCHANGED <<tables, idem>>

\* Faulty variant: commits without reading the project.
MissExistingUnread(r) ==
    LET job == req[r] IN
    /\ job.op = "invest" /\ job.pc = "lookup"
    /\ RowsOf(job.investor, job.key) = {}
    /\ Goto(r, "commit")
    /\ UNCHANGED <<tables, idem, answered>>

MissExisting(r) ==
    LET job == req[r] IN
    /\ job.op = "invest" /\ job.pc = "lookup"
    /\ RowsOf(job.investor, job.key) = {}
    /\ Goto(r, "read")
    /\ UNCHANGED <<tables, idem, answered>>

ReadProject(r) ==
    LET job == req[r]
        p == job.project
    IN
    /\ job.op = "invest" /\ job.pc = "read"
    /\ \/ /\ project[p].status \in Investable
          /\ req' = [req EXCEPT ![r] =
                       [job EXCEPT !.seen = project[p],
                                   !.pc = IF job.deal = None THEN "commit" ELSE "deal"]]
       \/ /\ project[p].status \notin Investable
          /\ Finish(r)
    /\ UNCHANGED <<tables, idem, answered>>

\* The deal's cap, and the quarter of the deal's target one investor may hold.
CheckDeal(r) ==
    LET job == req[r] IN
    /\ job.op = "invest" /\ job.pc = "deal"
    /\ IF \/ ExceedsDealMax(job.deal, job.amount)
          \/ ExceedsInvestorShare(job.investor, job.deal, job.amount)
       THEN Finish(r)
       ELSE Goto(r, "commit")
    /\ UNCHANGED <<tables, idem, answered>>

(***************************************************************************)
(* POST /deals/:id/invest.                                                 *)
(***************************************************************************)

DealInvestJob(u, k, d, a) ==
    [Idle EXCEPT !.op = "dealInvest", !.pc = IF DealMax[d] > 0 THEN "cap" ELSE "commit",
                 !.investor = u, !.key = k, !.project = DealProject[d], !.deal = d,
                 !.amount = a, !.seen = project[DealProject[d]]]

\* One query reads the deal (LIVE, or the handler returns an error) and its
\* project, whose status is not looked at.
BeginDealInvest(r, u, k, d, a) ==
    /\ "dealInvest" \in Calls
    /\ req[r] = Idle
    /\ req' = [req EXCEPT ![r] = DealInvestJob(u, k, d, a)]
    /\ UNCHANGED <<tables, idem, answered>>

CheckCap(r) ==
    LET job == req[r] IN
    /\ job.op = "dealInvest" /\ job.pc = "cap"
    /\ IF ExceedsDealMax(job.deal, job.amount) THEN Finish(r) ELSE Goto(r, "commit")
    /\ UNCHANGED <<tables, idem, answered>>

(***************************************************************************)
(* The transaction both investment endpoints commit.                       *)
(***************************************************************************)

\* /investments checks dto.dealId but stores no deal; /deals/:id/invest does.
StoredDeal(job) == IF job.op = "invest" THEN None ELSE job.deal

NewInvestment(job) ==
    [status |-> "PENDING_COMPLIANCE", investor |-> job.investor, key |-> job.key,
     project |-> job.project, deal |-> StoredDeal(job), amount |-> job.amount,
     confirmed |-> FALSE]

\* postCommitmentLedger: debit "Investor Cash Pending", credit "Escrow Liability".
CommitmentLedger(job, i) ==
    {[of |-> i, dir |-> "DEBIT", owner |-> job.investor, amount |-> job.amount],
     [of |-> i, dir |-> "CREDIT", owner |-> job.project, amount |-> job.amount]}

\* Faulty variant: only the ledger's event is written.
CommitEventsWithoutCreated(job, i) == {<<"ledger.transaction_posted INVESTMENT", i>>}

CommitEvents(job, i) ==
    {<<"investment.created", i>>}
      \cup (IF job.op = "invest" THEN {<<"ledger.transaction_posted INVESTMENT", i>>} ELSE {})

\* Faulty variants: the sum is computed from the project as it was read; reaching
\* the target changes nothing.
RaisedFromSnapshot(job) == job.seen.raised + job.amount
StatusKept(job) == project[job.project].status

\* The increment is applied by the database; the status is decided from the
\* project as the handler read it, and the status read is written back.
RaisedAfter(job) == project[job.project].raised + job.amount
StatusAfter(job) ==
    IF job.seen.raised + job.amount >= Target[job.project]
    THEN "FUNDED"
    ELSE job.seen.status

\* The rows one transaction writes for a new investment.
InsertInvestment(job, i) ==
    /\ investment' = [investment EXCEPT ![i] = NewInvestment(job)]
    /\ transaction' = [transaction EXCEPT ![i] = [status |-> "PENDING", processed |-> FALSE]]
    /\ ledgerEntry' = ledgerEntry \cup CommitmentLedger(job, i)
    /\ project' = [project EXCEPT ![job.project] =
                     [status |-> StatusAfter(job), raised |-> RaisedAfter(job)]]
    /\ outboxEvent' = outboxEvent \cup CommitEvents(job, i)
    /\ UNCHANGED <<refund, idem>>

CommitInvest(r, i) ==
    LET job == req[r] IN
    /\ job.op = "invest" /\ job.pc = "commit"
    /\ ~Exists(i)
    /\ ~KeyTaken(job.investor, job.key)
    /\ InsertInvestment(job, i)
    /\ req' = [req EXCEPT ![r] = [job EXCEPT !.pc = "cache", !.row = i, !.seen = Unseen]]
    /\ UNCHANGED answered

\* The deal endpoint answers at once and caches nothing.
CommitDealInvest(r, i) ==
    LET job == req[r] IN
    /\ job.op = "dealInvest" /\ job.pc = "commit"
    /\ ~Exists(i)
    /\ ~KeyTaken(job.investor, job.key)
    /\ InsertInvestment(job, i)
    /\ Answer(job.investor, job.key, i)
    /\ Finish(r)

\* The unique constraint fails the transaction; the client gets an error.
Conflict(r) ==
    LET job == req[r] IN
    /\ job.op \in {"invest", "dealInvest"} /\ job.pc = "commit"
    /\ KeyTaken(job.investor, job.key)
    /\ Finish(r)
    /\ UNCHANGED <<tables, idem, answered>>

\* setIdempotency, then the answer.
CacheAnswer(r) ==
    LET job == req[r] IN
    /\ job.op = "invest" /\ job.pc = "cache"
    /\ idem' = [idem EXCEPT ![<<job.investor, job.key>>] = job.row]
    /\ Answer(job.investor, job.key, job.row)
    /\ Finish(r)
    /\ UNCHANGED tables

\* The entry outlives its 24 hours, or Redis evicts it (allkeys-lru).
ForgetAnswer(u, k) ==
    /\ idem[<<u, k>>] # None
    /\ idem' = [idem EXCEPT ![<<u, k>>] = None]
    /\ UNCHANGED <<tables, answered, req>>

(***************************************************************************)
(* POST /investments/:id/cancel.                                           *)
(***************************************************************************)

RowJob(op, i, passed) ==
    [Idle EXCEPT !.op = op, !.pc = "write", !.row = i, !.passed = passed]

\* The status check, outside the transaction.
BeginCancel(r, i) ==
    /\ "cancel" \in Calls
    /\ req[r] = Idle
    /\ Exists(i)
    /\ investment[i].status \in Cancellable
    /\ req' = [req EXCEPT ![r] = RowJob("cancel", i, TRUE)]
    /\ UNCHANGED <<tables, idem, answered>>

CommitCancel(r) ==
    LET i == req[r].row
        p == investment[i].project
    IN
    /\ req[r].op = "cancel"
    /\ refund[i] < MaxRefund
    /\ refund' = [refund EXCEPT ![i] = @ + 1]
    /\ project' = [project EXCEPT ![p].raised = @ - investment[i].amount]
    /\ SetStatus(i, "CANCELLED")
    /\ outboxEvent' = outboxEvent \cup {<<"investment.cancelled", i>>}
    /\ Finish(r)
    /\ UNCHANGED <<transaction, ledgerEntry, idem, answered>>

(***************************************************************************)
(* POST /investments/:id/compliance-check: the investment, the investor,   *)
(* the alerts and the rules are read first (their verdict is the input     *)
(* passed); the status the investment has is not looked at.                *)
(***************************************************************************)

BeginCompliance(r, i, passed) ==
    /\ "compliance" \in Calls
    /\ req[r] = Idle
    /\ Exists(i)
    /\ req' = [req EXCEPT ![r] = RowJob("compliance", i, passed)]
    /\ UNCHANGED <<tables, idem, answered>>

CommitCompliance(r) ==
    LET job == req[r] IN
    /\ job.op = "compliance"
    /\ SetStatus(job.row, IF job.passed THEN "PENDING_PAYMENT" ELSE "REJECTED")
    /\ outboxEvent' = outboxEvent \cup {<<"investment.compliance_approved", job.row>>}
    /\ Finish(r)
    /\ UNCHANGED <<project, transaction, refund, ledgerEntry, idem, answered>>

(***************************************************************************)
(* POST /investments/:id/confirm: no transaction, no look at the status;   *)
(* each write commits on its own.                                          *)
(***************************************************************************)

\* Faulty variant: the event is written before the transaction row.
ConfirmRowThenEvent(r, i) ==
    /\ "confirm" \in Calls
    /\ req[r] = Idle
    /\ Exists(i)
    /\ SetStatus(i, "CONFIRMED")
    /\ req' = [req EXCEPT ![r] = [RowJob("confirm", i, TRUE) EXCEPT !.pc = "event"]]
    /\ UNCHANGED <<project, transaction, refund, ledgerEntry, outboxEvent, idem, answered>>

ConfirmRow(r, i) ==
    /\ "confirm" \in Calls
    /\ req[r] = Idle
    /\ Exists(i)
    /\ SetStatus(i, "CONFIRMED")
    /\ req' = [req EXCEPT ![r] = RowJob("confirm", i, TRUE)]
    /\ UNCHANGED <<project, transaction, refund, ledgerEntry, outboxEvent, idem, answered>>

\* updateMany over the investment's INVESTMENT transactions; REFUNDs stay.
ConfirmTransaction(r) ==
    LET job == req[r] IN
    /\ job.op = "confirm" /\ job.pc = "write"
    /\ transaction' = [transaction EXCEPT ![job.row] =
                         [status |-> "COMPLETED", processed |-> TRUE]]
    /\ Goto(r, "event")
    /\ UNCHANGED <<project, investment, refund, ledgerEntry, outboxEvent, idem, answered>>

ConfirmEvent(r) ==
    LET job == req[r] IN
    /\ job.op = "confirm" /\ job.pc = "event"
    /\ outboxEvent' = outboxEvent \cup {<<"investment.confirmed", job.row>>}
    /\ Goto(r, "ledgerEvent")
    /\ UNCHANGED <<project, investment, transaction, refund, ledgerEntry, idem, answered>>

ConfirmLedgerEvent(r) ==
    LET job == req[r] IN
    /\ job.op = "confirm" /\ job.pc = "ledgerEvent"
    /\ outboxEvent' = outboxEvent \cup {<<"ledger.transaction_posted INVESTMENT_CONFIRMED", job.row>>}
    /\ Finish(r)
    /\ UNCHANGED <<project, investment, transaction, refund, ledgerEntry, idem, answered>>

(***************************************************************************)
(* Administrators: PATCH /investments/:id sets any status; the             *)
(* /transactions/:id endpoints set a transaction's.  Neither looks at the  *)
(* state it leaves.                                                        *)
(***************************************************************************)

UpdateInvestment(i, s) ==
    /\ "update" \in Calls
    /\ Exists(i)
    /\ SetStatus(i, s)
    /\ UNCHANGED <<project, transaction, refund, ledgerEntry, outboxEvent, idem, answered, req>>

\* approve and process complete it, hold, escalate and reverse do the others.
UpdateTransaction(i, s) ==
    /\ "transaction" \in Calls
    /\ Exists(i)
    /\ transaction' = [transaction EXCEPT ![i] =
                         [status |-> s, processed |-> @.processed \/ s = "COMPLETED"]]
    /\ UNCHANGED <<project, investment, refund, ledgerEntry, outboxEvent, idem, answered, req>>

(***************************************************************************)
(* Project transitions: approve and reject write whatever the status was;  *)
(* publish checks it outside its transaction.                              *)
(***************************************************************************)

TransitionProject(p, s) ==
    /\ project' = [project EXCEPT ![p].status = s]
    /\ outboxEvent' = outboxEvent \cup
         {<<IF s = "ACTIVE" THEN "project.approved" ELSE "project.rejected", p>>}
    /\ UNCHANGED <<investment, transaction, refund, ledgerEntry, idem, answered, req>>

ApproveProject(p) == "approve" \in Calls /\ TransitionProject(p, "ACTIVE")
RejectProject(p) == "reject" \in Calls /\ TransitionProject(p, "REJECTED")

BeginPublish(r, p) ==
    /\ "publish" \in Calls
    /\ req[r] = Idle
    /\ project[p].status = "ACTIVE"
    /\ req' = [req EXCEPT ![r] = [Idle EXCEPT !.op = "publish", !.pc = "write",
                                                   !.project = p]]
    /\ UNCHANGED <<tables, idem, answered>>

CommitPublish(r) ==
    LET p == req[r].project IN
    /\ req[r].op = "publish"
    /\ project' = [project EXCEPT ![p].status = "LISTED"]
    /\ outboxEvent' = outboxEvent \cup {<<"project.published", p>>}
    /\ Finish(r)
    /\ UNCHANGED <<investment, transaction, refund, ledgerEntry, idem, answered>>

(***************************************************************************)
(* Specification.  A project starts approved and unfunded.                 *)
(***************************************************************************)

Init ==
    /\ project = [p \in Project |-> [status |-> "ACTIVE", raised |-> 0]]
    /\ investment = [i \in Row |-> Absent]
    /\ transaction = [i \in Row |-> NoTransaction]
    /\ refund = [i \in Row |-> 0]
    /\ ledgerEntry = {}
    /\ outboxEvent = {}
    /\ idem = [p \in Pair |-> None]
    /\ answered = {}
    /\ req = [r \in Request |-> Idle]

InvestStep(r) ==
    \/ \E u \in Investor, k \in Key, p \in Project, d \in Deal \cup {None}, a \in Amount :
         BeginInvest(r, u, k, p, d, a)
    \/ \E u \in Investor, k \in Key, d \in Deal, a \in Amount : BeginDealInvest(r, u, k, d, a)
    \/ AnswerExisting(r) \/ MissExisting(r) \/ ReadProject(r)
    \/ CheckDeal(r) \/ CheckCap(r) \/ Conflict(r) \/ CacheAnswer(r)
    \/ \E i \in Row : CommitInvest(r, i) \/ CommitDealInvest(r, i)

LaterStep(r) ==
    \/ \E i \in Row : BeginCancel(r, i) \/ ConfirmRow(r, i)
    \/ \E i \in Row, passed \in BOOLEAN : BeginCompliance(r, i, passed)
    \/ \E p \in Project : BeginPublish(r, p)
    \/ CommitCancel(r) \/ CommitCompliance(r) \/ CommitPublish(r)
    \/ ConfirmTransaction(r) \/ ConfirmEvent(r) \/ ConfirmLedgerEvent(r)

Next ==
    \/ \E r \in Request : InvestStep(r) \/ LaterStep(r) \/ Fail(r)
    \/ \E u \in Investor, k \in Key : AnswerFromCache(u, k) \/ ForgetAnswer(u, k)
    \/ \E i \in Row, s \in InvestmentStatus : UpdateInvestment(i, s)
    \/ \E i \in Row, s \in {"COMPLETED", "PENDING", "FLAGGED", "CANCELLED"} :
         UpdateTransaction(i, s)
    \/ \E p \in Project : ApproveProject(p) \/ RejectProject(p)

Spec == Init /\ [][Next]_vars

(***************************************************************************)
(* Properties.                                                             *)
(***************************************************************************)

Investment ==
    [status : InvestmentStatus \cup {"ABSENT"}, investor : Investor \cup {None},
     key : Key \cup {None}, project : Project \cup {None}, deal : Deal \cup {None},
     amount : Amount \cup {0}, confirmed : BOOLEAN]

Job ==
    [op : {"idle", "invest", "dealInvest", "cancel", "compliance", "confirm", "publish"},
     pc : {"idle", "lookup", "read", "deal", "cap", "commit", "cache",
           "write", "event", "ledgerEvent"},
     investor : Investor \cup {None}, key : Key \cup {None}, project : Project \cup {None},
     deal : Deal \cup {None}, amount : Amount \cup {0},
     seen : [status : ProjectStatus \cup {"UNSEEN"}, raised : Int],
     row : Row \cup {None}, passed : BOOLEAN]

Topic ==
    {"investment.created", "investment.cancelled", "investment.compliance_approved",
     "investment.confirmed", "ledger.transaction_posted INVESTMENT",
     "ledger.transaction_posted INVESTMENT_CONFIRMED", "project.approved",
     "project.rejected", "project.published"}

\* Every column holds a value of its type, and every job is at a step of its
\* handler: a commit never writes a project status nobody read.
TypeOK ==
    /\ project \in [Project -> [status : ProjectStatus, raised : Int]]
    /\ investment \in [Row -> Investment]
    /\ transaction \in [Row -> [status : TransactionStatus \cup {"ABSENT"},
                               processed : BOOLEAN]]
    /\ refund \in [Row -> Nat]
    /\ ledgerEntry \subseteq [of : Row, dir : {"DEBIT", "CREDIT"},
                              owner : Investor \cup Project, amount : Amount]
    /\ outboxEvent \subseteq Topic \X (Row \cup Project)
    /\ idem \in [Pair -> Row \cup {None}]
    /\ answered \subseteq Investor \X Key \X Row
    /\ req \in [Request -> Job]

\* Concurrent and repeated calls with one idempotency key, through either
\* endpoint, leave at most one investment (schema.prisma:785).
OneInvestmentPerKey ==
    \A i, j \in Row :
        /\ Exists(i) /\ Exists(j)
        /\ investment[i].investor = investment[j].investor
        /\ investment[i].key = investment[j].key
        => i = j

\* Every answer a client received for an idempotency key named the same stored
\* investment, whether it came from the transaction, the database or Redis, and
\* whatever was lost, evicted or retried in between (investments.module.ts:197-217, 366).
SameAnswer ==
    \A x, y \in answered :
        /\ Exists(x[3])
        /\ x[1] = y[1] /\ x[2] = y[2] => x[3] = y[3]

RowOf(p) ==
    IF RowsOf(p[1], p[2]) = {} THEN None ELSE CHOOSE i \in RowsOf(p[1], p[2]) : TRUE
Promise == INSTANCE Commitments WITH made <- [p \in Pair |-> RowOf(p)], told <- answered

\* The two investment endpoints, Redis and the unique constraint together keep
\* the promise of Commitments.
KeepsPromise == Promise!Spec

Total(f, S) == MapThenSumSet(LAMBDA x : f[x], S)

EscrowOf(p) ==
    Total([e \in ledgerEntry |-> e.amount],
          {e \in ledgerEntry : e.dir = "CREDIT" /\ e.owner = p})
RefundedOf(p) ==
    Total([i \in Row |-> refund[i] * investment[i].amount],
          {i \in Row : Exists(i) /\ investment[i].project = p})

\* However the handlers interleave, a project's fundingRaised is what its escrow
\* account was credited minus the refunds recorded: no increment or decrement is
\* lost, and none is applied without its ledger entry or its REFUND transaction
\* (investments.module.ts:300-319, 453-470; deals.module.ts:670-692).
FundingConservation ==
    \A p \in Project : project[p].raised = EscrowOf(p) - RefundedOf(p)

\* The outbox tells what the tables hold: an investment.created event exactly for
\* the stored investments, an investment.cancelled event exactly for the
\* refunded ones (the events are written in the transactions they report).
OutboxMatchesTables ==
    \A i \in Row :
        /\ <<"investment.created", i>> \in outboxEvent <=> Exists(i)
        /\ <<"investment.cancelled", i>> \in outboxEvent <=> refund[i] > 0

\* confirm writes its event last: once investment.confirmed is in the outbox, the
\* investment has its confirmedAt and its INVESTMENT transaction its processedAt,
\* wherever confirm stopped before (investments.module.ts:503-527).
ConfirmedEventIsBacked ==
    \A i \in Row :
        <<"investment.confirmed", i>> \in outboxEvent =>
            investment[i].confirmed /\ transaction[i].processed

\* The investments of a deal stay within its maxAmount
\* (deals.module.ts:629-637 "Investment exceeds deal maximum amount").
DealCapHolds ==
    \A d \in Deal : DealMax[d] > 0 => SumOf(DealRows(d)) <= DealMax[d]

\* A project whose commitments reach its target is FUNDED
\* (investments.module.ts:309-319).
FundedAtTarget ==
    \A p \in Project : project[p].raised >= Target[p] => project[p].status = "FUNDED"

\* An investment is refunded once: only pending investments can be cancelled
\* (investments.module.ts:448).
RefundedAtMostOnce == \A i \in Row : refund[i] <= 1

=============================================================================
