--------------------------- MODULE FundingProofs ---------------------------
(***************************************************************************)
(* Theorems about Funding, for any number of projects, deals, investors,   *)
(* keys, rows and concurrent handlers: types, the promise about keys, the  *)
(* books, the events of confirm, and what holds one handler at a time.     *)
(***************************************************************************)
EXTENDS MCFundingParts, FiniteSetTheorems, WellFoundedInduction, TLAPS

(***************************************************************************)
(* TypeOK is not inductive by itself: CommitInvest writes back the status  *)
(* the job has seen, and the later handlers write the row they name.       *)
(***************************************************************************)

\* An endpoint's job carries its arguments, a job that may commit has seen the
\* status of its project, and one that has committed holds its row.
InvestJobReady(job) ==
    job.op \in {"invest", "dealInvest"} =>
        /\ job.investor \in Investor /\ job.key \in Key
        /\ job.project \in Project /\ job.amount \in Amount
        /\ job.pc \in {"deal", "cap", "commit"} => job.seen.status \in ProjectStatus
        /\ job.pc = "cache" => job.row \in Row

\* A job on a row names a stored one.
RowJobReady(job) ==
    job.op \in {"cancel", "compliance", "confirm"} => job.row \in Row /\ Exists(job.row)

PublishJobReady(job) == job.op = "publish" => job.project \in Project

\* A stored row has its investor, its key and its project.
RowsReady ==
    \A i \in Row : Exists(i) =>
        /\ investment[i].investor \in Investor /\ investment[i].key \in Key
        /\ investment[i].project \in Project

JobsReady ==
    \A r \in Request :
        InvestJobReady(req[r]) /\ RowJobReady(req[r]) /\ PublishJobReady(req[r])

TypeInv == TypeOK /\ RowsReady /\ JobsReady

LEMMA InitType == Init => TypeInv
BY FundingAssumption
   DEF Init, TypeInv, TypeOK, RowsReady, JobsReady, InvestJobReady, RowJobReady,
       PublishJobReady, ProjectStatus, Absent, NoTransaction, Idle, Unseen, Pair, Exists,
       Investment, Job

\* No stored row is removed, and none changes its investor, key or project.
RowsStay ==
    \A i \in Row : Exists(i) =>
        /\ Exists(i)'
        /\ investment'[i].investor = investment[i].investor
        /\ investment'[i].key = investment[i].key
        /\ investment'[i].project = investment[i].project

\* A step that puts one ready job in a slot.
LEMMA PutJob ==
    ASSUME TypeInv, NEW r \in Request, NEW job \in Job,
           req' = [req EXCEPT ![r] = job], RowsStay,
           InvestJobReady(job), RowJobReady(job)', PublishJobReady(job)
    PROVE  req' \in [Request -> Job] /\ JobsReady'
<1>1. req' \in [Request -> Job]
  BY DEF TypeInv, TypeOK
<1>2. ASSUME NEW q \in Request
      PROVE  (InvestJobReady(req[q]) /\ RowJobReady(req[q]) /\ PublishJobReady(req[q]))'
  <2>1. CASE q = r
    <3>1. req'[q] = job
      BY <2>1 DEF TypeInv, TypeOK
    <3>2. QED
      BY <3>1 DEF InvestJobReady, RowJobReady, PublishJobReady, Exists
  <2>2. CASE q # r
    <3>1. req'[q] = req[q]
      BY <2>2 DEF TypeInv, TypeOK
    <3>2. InvestJobReady(req[q]) /\ RowJobReady(req[q]) /\ PublishJobReady(req[q])
      BY DEF TypeInv, JobsReady
    <3>3. QED
      BY <3>1, <3>2 DEF InvestJobReady, RowJobReady, PublishJobReady, RowsStay, Exists
  <2>3. QED
    BY <2>1, <2>2
<1>3. QED
  BY <1>1, <1>2 DEF JobsReady

LEMMA IdleIsJob == Idle \in Job
BY DEF Idle, Job, Unseen

LEMMA FinishJob ==
    ASSUME TypeInv, NEW r \in Request, Finish(r), RowsStay
    PROVE  req' \in [Request -> Job] /\ JobsReady'
<1>1. Idle \in Job
  BY IdleIsJob
<1>2. PICK job \in Job : job = Idle
  BY <1>1
<1>3. job.op = "idle"
  BY <1>2 DEF Idle
<1>4. InvestJobReady(job) /\ RowJobReady(job)' /\ PublishJobReady(job)
  BY <1>3 DEF InvestJobReady, RowJobReady, PublishJobReady
<1>5. QED
  BY <1>2, <1>4, PutJob DEF Finish

\* A job that moves on with its arguments; one that reaches a commit has already
\* seen its project.
LEMMA GotoJob ==
    ASSUME TypeInv, NEW r \in Request,
           NEW pc \in {"read", "commit", "event", "ledgerEvent"}, Goto(r, pc), RowsStay,
           pc = "commit" => req[r].pc \in {"deal", "cap", "commit"}
    PROVE  req' \in [Request -> Job] /\ JobsReady'
<1> req[r] \in Job
  BY DEF TypeInv, TypeOK
<1>a. [req[r] EXCEPT !.pc = pc] \in Job
  BY DEF Job
<1>1. PICK job \in Job : job = [req[r] EXCEPT !.pc = pc]
  BY <1>a
<1>2. InvestJobReady(req[r]) /\ RowJobReady(req[r]) /\ PublishJobReady(req[r])
  BY DEF TypeInv, JobsReady
<1>3. /\ job.op = req[r].op /\ job.pc = pc /\ job.investor = req[r].investor
      /\ job.key = req[r].key /\ job.project = req[r].project
      /\ job.amount = req[r].amount /\ job.seen = req[r].seen /\ job.row = req[r].row
  BY <1>1 DEF Job
<1>4. InvestJobReady(job) /\ PublishJobReady(job)
  BY <1>2, <1>3 DEF InvestJobReady, PublishJobReady
<1>5. RowJobReady(job)'
  BY <1>2, <1>3 DEF RowJobReady, RowsStay, Exists
<1>6. req' = [req EXCEPT ![r] = job]
  BY <1>1 DEF Goto
<1>7. QED
  BY <1>1, <1>4, <1>5, <1>6, PutJob

\* A step that leaves the tables alone.
LEMMA ReadOnlyType ==
    ASSUME TypeInv, UNCHANGED tables,
           idem' \in [Pair -> Row \cup {None}], answered' \subseteq Investor \X Key \X Row,
           req' \in [Request -> Job] /\ JobsReady'
    PROVE  TypeInv'
BY DEF TypeInv, TypeOK, RowsReady, Exists, tables

LEMMA TablesStay == ASSUME UNCHANGED tables PROVE RowsStay
BY DEF RowsStay, Exists, tables

LEMMA FailType ==
    ASSUME TypeInv, NEW r \in Request, Fail(r)
    PROVE  TypeInv'
<1>1. req' \in [Request -> Job] /\ JobsReady'
  BY FinishJob, TablesStay DEF Fail
<1>2. QED
  BY <1>1, ReadOnlyType DEF Fail, TypeInv, TypeOK

LEMMA CacheType ==
    ASSUME TypeInv, NEW u \in Investor, NEW k \in Key,
           AnswerFromCache(u, k) \/ ForgetAnswer(u, k)
    PROVE  TypeInv'
<1>1. req' \in [Request -> Job] /\ JobsReady'
  BY DEF TypeInv, TypeOK, JobsReady, InvestJobReady, RowJobReady, PublishJobReady, Exists,
         AnswerFromCache, ForgetAnswer, tables
<1>2. idem' \in [Pair -> Row \cup {None}]
  BY DEF TypeInv, TypeOK, AnswerFromCache, ForgetAnswer
<1>3. idem[<<u, k>>] # None => idem[<<u, k>>] \in Row
  BY DEF TypeInv, TypeOK, Pair
<1>4. answered' \subseteq Investor \X Key \X Row
  <2>1. CASE AnswerFromCache(u, k)
    <3>1. <<u, k, idem[<<u, k>>]>> \in Investor \X Key \X Row
      BY <1>3, <2>1 DEF AnswerFromCache
    <3>2. QED
      BY <2>1, <3>1 DEF AnswerFromCache, Answer, TypeInv, TypeOK
  <2>2. CASE ForgetAnswer(u, k)
    BY <2>2 DEF ForgetAnswer, TypeInv, TypeOK
  <2>3. QED
    BY <2>1, <2>2
<1>5. UNCHANGED tables
  BY DEF AnswerFromCache, ForgetAnswer
<1>6. QED
  BY <1>1, <1>2, <1>4, <1>5, ReadOnlyType

LEMMA BeginInvestType ==
    ASSUME TypeInv, NEW r \in Request, NEW u \in Investor, NEW k \in Key, NEW p \in Project,
           NEW d \in Deal \cup {None}, NEW a \in Amount, BeginInvest(r, u, k, p, d, a)
    PROVE  TypeInv'
<1>1. InvestJob(u, k, p, d, a) \in Job
  <2>1. /\ u \in Investor \cup {None} /\ k \in Key \cup {None}
        /\ p \in Project \cup {None} /\ a \in Amount \cup {0}
    OBVIOUS
  <2>2. QED
    BY <2>1, IdleIsJob DEF InvestJob, Job
<1>2. PICK job \in Job : job = InvestJob(u, k, p, d, a)
  BY <1>1
<1>3. /\ job.op = "invest" /\ job.pc = "lookup" /\ job.investor = u /\ job.key = k
      /\ job.project = p /\ job.amount = a
  BY <1>2 DEF InvestJob, Idle
<1>4. InvestJobReady(job) /\ RowJobReady(job)' /\ PublishJobReady(job)
  BY <1>3 DEF InvestJobReady, RowJobReady, PublishJobReady
<1>5. req' = [req EXCEPT ![r] = job] /\ UNCHANGED <<tables, idem, answered>>
  BY <1>2 DEF BeginInvest
<1>6. QED
  BY <1>4, <1>5, PutJob, TablesStay, ReadOnlyType DEF TypeInv, TypeOK

LEMMA BeginDealInvestType ==
    ASSUME TypeInv, NEW r \in Request, NEW u \in Investor, NEW k \in Key,
           NEW d \in Deal, NEW a \in Amount, BeginDealInvest(r, u, k, d, a)
    PROVE  TypeInv'
<1>0. /\ DealProject[d] \in Project
      /\ project[DealProject[d]] \in [status : ProjectStatus, raised : Int]
  BY FundingAssumption DEF TypeInv, TypeOK
<1>1. DealInvestJob(u, k, d, a) \in Job
  BY <1>0 DEF DealInvestJob, Idle, Unseen, Job
<1>2. PICK job \in Job : job = DealInvestJob(u, k, d, a)
  BY <1>1
<1>3. /\ job.op = "dealInvest" /\ job.pc # "cache" /\ job.investor = u /\ job.key = k
      /\ job.project = DealProject[d] /\ job.amount = a /\ job.seen = project[DealProject[d]]
  BY <1>2 DEF DealInvestJob, Idle
<1>4. InvestJobReady(job) /\ RowJobReady(job)' /\ PublishJobReady(job)
  BY <1>0, <1>3 DEF InvestJobReady, RowJobReady, PublishJobReady
<1>5. req' = [req EXCEPT ![r] = job] /\ UNCHANGED <<tables, idem, answered>>
  BY <1>2 DEF BeginDealInvest
<1>6. QED
  BY <1>4, <1>5, PutJob, TablesStay, ReadOnlyType DEF TypeInv, TypeOK

LEMMA ReadProjectType ==
    ASSUME TypeInv, NEW r \in Request, ReadProject(r)
    PROVE  TypeInv'
<1> req[r] \in Job /\ InvestJobReady(req[r])
  BY DEF TypeInv, TypeOK, JobsReady
<1> DEFINE p == req[r].project
           pc == IF req[r].deal = None THEN "commit" ELSE "deal"
<1>1. req[r].op = "invest" /\ UNCHANGED <<tables, idem, answered>>
  BY DEF ReadProject
<1>2. CASE Finish(r)
  BY <1>1, <1>2, FinishJob, TablesStay, ReadOnlyType DEF TypeInv, TypeOK
<1>3. CASE req' = [req EXCEPT ![r] = [req[r] EXCEPT !.seen = project[p], !.pc = pc]]
  <2>1. p \in Project /\ project[p] \in [status : ProjectStatus, raised : Int]
    BY <1>1 DEF InvestJobReady, TypeInv, TypeOK
  <2>2. [req[r] EXCEPT !.seen = project[p], !.pc = pc] \in Job
    BY <2>1 DEF Job
  <2>3. PICK job \in Job : job = [req[r] EXCEPT !.seen = project[p], !.pc = pc]
    BY <2>2
  <2>4. /\ job.op = "invest" /\ job.pc # "cache" /\ job.investor = req[r].investor /\ job.key = req[r].key
        /\ job.project = p /\ job.amount = req[r].amount /\ job.seen = project[p]
    BY <1>1, <2>3 DEF Job
  <2>5. InvestJobReady(job) /\ RowJobReady(job)' /\ PublishJobReady(job)
    BY <1>1, <2>1, <2>4 DEF InvestJobReady, RowJobReady, PublishJobReady
  <2>6. QED
    BY <1>1, <1>3, <2>3, <2>5, PutJob, TablesStay, ReadOnlyType DEF TypeInv, TypeOK
<1>4. QED
  BY <1>2, <1>3 DEF ReadProject

LEMMA CheckType ==
    ASSUME TypeInv, NEW r \in Request,
           MissExisting(r) \/ CheckDeal(r) \/ CheckCap(r) \/ Conflict(r)
    PROVE  TypeInv'
<1>1. UNCHANGED <<tables, idem, answered>>
  BY DEF MissExisting, CheckDeal, CheckCap, Conflict
<1>2. \/ Finish(r)
      \/ Goto(r, "read")
      \/ Goto(r, "commit") /\ req[r].pc \in {"deal", "cap"}
  BY DEF MissExisting, CheckDeal, CheckCap, Conflict
<1>3. req' \in [Request -> Job] /\ JobsReady'
  BY <1>1, <1>2, FinishJob, GotoJob, TablesStay
<1>4. QED
  BY <1>1, <1>3, ReadOnlyType DEF TypeInv, TypeOK

LEMMA AnswerExistingType ==
    ASSUME TypeInv, NEW r \in Request, AnswerExisting(r)
    PROVE  TypeInv'
<1> DEFINE u == req[r].investor
           k == req[r].key
<1>1. UNCHANGED <<tables, idem>> /\ Finish(r) /\ req[r].op = "invest"
  BY DEF AnswerExisting
<1>2. u \in Investor /\ k \in Key
  BY <1>1 DEF TypeInv, JobsReady, InvestJobReady
<1>3. PICK i \in Row : answered' = answered \cup {<<u, k, i>>}
  BY DEF AnswerExisting, RowsOf, Answer
<1>4. answered' \subseteq Investor \X Key \X Row
  BY <1>2, <1>3 DEF TypeInv, TypeOK
<1>5. req' \in [Request -> Job] /\ JobsReady'
  BY <1>1, FinishJob, TablesStay
<1>6. QED
  BY <1>1, <1>4, <1>5, ReadOnlyType DEF TypeInv, TypeOK

LEMMA BeginRowJobType ==
    ASSUME TypeInv, NEW r \in Request, NEW i \in Row, NEW passed \in BOOLEAN,
           BeginCancel(r, i) \/ BeginCompliance(r, i, passed)
    PROVE  TypeInv'
<1>1. PICK op \in {"cancel", "compliance"}, b \in BOOLEAN :
        req' = [req EXCEPT ![r] = RowJob(op, i, b)]
  BY DEF BeginCancel, BeginCompliance
<1>2. RowJob(op, i, b) \in Job
  BY IdleIsJob DEF RowJob, Job
<1>3. PICK job \in Job : job = RowJob(op, i, b)
  BY <1>2
<1>4. job.op = op /\ job.row = i
  BY <1>3, IdleIsJob DEF RowJob, Job
<1>5. UNCHANGED <<tables, idem, answered>> /\ Exists(i)
  BY DEF BeginCancel, BeginCompliance
<1>6. Exists(i)'
  BY <1>5 DEF tables, Exists
<1>7. InvestJobReady(job) /\ RowJobReady(job)' /\ PublishJobReady(job)
  BY <1>4, <1>6 DEF InvestJobReady, RowJobReady, PublishJobReady, Exists
<1>8. QED
  BY <1>1, <1>3, <1>5, <1>7, PutJob, TablesStay, ReadOnlyType DEF TypeInv, TypeOK

LEMMA BeginPublishType ==
    ASSUME TypeInv, NEW r \in Request, NEW p \in Project, BeginPublish(r, p)
    PROVE  TypeInv'
<1>1. [Idle EXCEPT !.op = "publish", !.pc = "write", !.project = p] \in Job
  BY IdleIsJob DEF Job
<1>2. PICK job \in Job : job = [Idle EXCEPT !.op = "publish", !.pc = "write", !.project = p]
  BY <1>1
<1>3. job.op = "publish" /\ job.project = p
  BY <1>2, IdleIsJob DEF Job
<1>4. InvestJobReady(job) /\ RowJobReady(job)' /\ PublishJobReady(job)
  BY <1>3 DEF InvestJobReady, RowJobReady, PublishJobReady
<1>5. req' = [req EXCEPT ![r] = job] /\ UNCHANGED <<tables, idem, answered>>
  BY <1>2 DEF BeginPublish
<1>6. QED
  BY <1>4, <1>5, PutJob, TablesStay, ReadOnlyType DEF TypeInv, TypeOK

LEMMA CacheAnswerType ==
    ASSUME TypeInv, NEW r \in Request, CacheAnswer(r)
    PROVE  TypeInv'
<1> DEFINE u == req[r].investor
           k == req[r].key
           i == req[r].row
<1>1. UNCHANGED tables /\ Finish(r) /\ req[r].op = "invest" /\ req[r].pc = "cache"
  BY DEF CacheAnswer
<1>2. u \in Investor /\ k \in Key /\ i \in Row
  BY <1>1 DEF TypeInv, JobsReady, InvestJobReady
<1>3. idem' \in [Pair -> Row \cup {None}]
  BY <1>2 DEF CacheAnswer, TypeInv, TypeOK
<1>4. answered' \subseteq Investor \X Key \X Row
  BY <1>2 DEF CacheAnswer, Answer, TypeInv, TypeOK
<1>5. req' \in [Request -> Job] /\ JobsReady'
  BY <1>1, FinishJob, TablesStay
<1>6. QED
  BY <1>1, <1>3, <1>4, <1>5, ReadOnlyType

\* A step that leaves the investments alone and keeps its other tables typed.
LEMMA SameInvestments ==
    ASSUME TypeInv, UNCHANGED investment
    PROVE  RowsStay /\ RowsReady' /\ investment' \in [Row -> Investment]
BY DEF TypeInv, TypeOK, RowsReady, RowsStay, Exists

\* A step that leaves the slots alone and keeps the rows.
LEMMA SlotsStay ==
    ASSUME TypeInv, UNCHANGED req, RowsStay
    PROVE  req' \in [Request -> Job] /\ JobsReady'
BY DEF TypeInv, TypeOK, JobsReady, InvestJobReady, RowJobReady, PublishJobReady, RowsStay,
       Exists

\* Writing the status of a stored investment.
LEMMA StatusWrite ==
    ASSUME TypeInv, NEW i \in Row, Exists(i), NEW s \in InvestmentStatus, SetStatus(i, s)
    PROVE  RowsStay /\ RowsReady' /\ investment' \in [Row -> Investment]
<1> DEFINE new == WithStatus(investment[i], s)
<1>1. investment[i] \in Investment
  BY DEF TypeInv, TypeOK
<1>2. (investment[i].confirmed \/ s = "CONFIRMED") \in BOOLEAN
  OBVIOUS
<1>3. new \in Investment
  BY <1>1, <1>2 DEF Investment, WithStatus
<1>4. /\ new.status = s /\ new.investor = investment[i].investor
      /\ new.key = investment[i].key /\ new.project = investment[i].project
      /\ new.confirmed = (investment[i].confirmed \/ s = "CONFIRMED")
  BY <1>1 DEF Investment, WithStatus
<1>5. s # "ABSENT"
  BY DEF InvestmentStatus
<1>6. investment' = [investment EXCEPT ![i] = new]
  BY DEF SetStatus
<1>7. investment' \in [Row -> Investment]
  BY <1>3, <1>6 DEF TypeInv, TypeOK
<1> HIDE DEF new
<1>8. \A j \in Row : investment'[j] = IF j = i THEN new ELSE investment[j]
  BY <1>6 DEF TypeInv, TypeOK
<1>9. RowsStay
  BY <1>4, <1>5, <1>8 DEF RowsStay, Exists
<1>10. RowsReady'
  BY <1>4, <1>5, <1>8 DEF RowsReady, Exists, TypeInv
<1>11. QED
  BY <1>7, <1>9, <1>10


\* The tables of a step, one column at a time.
TablesTyped ==
    /\ project \in [Project -> [status : ProjectStatus, raised : Int]]
    /\ investment \in [Row -> Investment]
    /\ transaction \in [Row -> [status : TransactionStatus \cup {"ABSENT"},
                               processed : BOOLEAN]]
    /\ refund \in [Row -> Nat]
    /\ ledgerEntry \subseteq [of : Row, dir : {"DEBIT", "CREDIT"},
                              owner : Investor \cup Project, amount : Amount]
    /\ outboxEvent \subseteq Topic \X (Row \cup Project)

\* An event of a row or a project keeps the outbox typed.
LEMMA EventType ==
    ASSUME TypeInv, NEW topic \in Topic, NEW x \in Row \cup Project,
           outboxEvent' = outboxEvent \cup {<<topic, x>>}
    PROVE  outboxEvent' \subseteq Topic \X (Row \cup Project)
BY DEF TypeInv, TypeOK

\* A step that writes typed tables, finishes or moves its job and leaves the
\* cache and the answers alone.
LEMMA WriterType ==
    ASSUME TypeInv, TablesTyped', RowsReady',
           idem' \in [Pair -> Row \cup {None}], answered' \subseteq Investor \X Key \X Row,
           req' \in [Request -> Job] /\ JobsReady'
    PROVE  TypeInv'
BY DEF TypeInv, TypeOK, TablesTyped

\* The rows a commitment writes: a job that may commit has seen a real project
\* status, so the project keeps one; the other rows stay.
LEMMA InsertType ==
    ASSUME TypeInv, NEW r \in Request, NEW i \in Row, ~Exists(i),
           req[r].op \in {"invest", "dealInvest"}, req[r].pc = "commit",
           InsertInvestment(req[r], i)
    PROVE  TablesTyped' /\ RowsReady' /\ RowsStay
<1>1. PICK job \in Job : job = req[r]
  BY DEF TypeInv, TypeOK
<1>2. /\ job.investor \in Investor /\ job.key \in Key /\ job.project \in Project
      /\ job.amount \in Amount /\ job.seen.status \in ProjectStatus
  BY <1>1 DEF TypeInv, JobsReady, InvestJobReady
<1>3. PICK new \in Investment : new = NewInvestment(job)
  <2>1. StoredDeal(job) \in Deal \cup {None}
    BY DEF StoredDeal, Job
  <2>2. QED
    BY <1>2, <2>1 DEF NewInvestment, Investment, InvestmentStatus
<1>4. /\ new.status = "PENDING_COMPLIANCE" /\ new.investor = job.investor
      /\ new.key = job.key /\ new.project = job.project
  BY <1>3 DEF NewInvestment
<1>5. investment' = [investment EXCEPT ![i] = new]
  BY <1>1, <1>3 DEF InsertInvestment
<1>6. /\ investment' \in [Row -> Investment]
      /\ \A j \in Row : investment'[j] = IF j = i THEN new ELSE investment[j]
  BY <1>5 DEF TypeInv, TypeOK
<1>7. RowsStay
  BY <1>6 DEF RowsStay, Exists
<1>8. RowsReady'
  BY <1>2, <1>4, <1>6 DEF RowsReady, Exists, TypeInv
<1>9. project' \in [Project -> [status : ProjectStatus, raised : Int]]
  <2>1. StatusAfter(job) \in ProjectStatus
    BY <1>2 DEF StatusAfter, ProjectStatus
  <2>2. project[job.project].raised \in Int
    BY <1>2 DEF TypeInv, TypeOK
  <2>3. job.amount \in Nat
    BY <1>2, FundingAssumption
  <2>4. RaisedAfter(job) \in Int
    BY <2>2, <2>3 DEF RaisedAfter
  <2>5. project' = [project EXCEPT ![job.project] =
                      [status |-> StatusAfter(job), raised |-> RaisedAfter(job)]]
    BY <1>1 DEF InsertInvestment
  <2>6. QED
    BY <2>1, <2>4, <2>5 DEF TypeInv, TypeOK
<1>10. transaction' \in [Row -> [status : TransactionStatus \cup {"ABSENT"},
                                processed : BOOLEAN]]
  BY DEF InsertInvestment, TypeInv, TypeOK, TransactionStatus
<1>11. ledgerEntry' \subseteq [of : Row, dir : {"DEBIT", "CREDIT"},
                              owner : Investor \cup Project, amount : Amount]
  BY <1>1, <1>2 DEF InsertInvestment, CommitmentLedger, TypeInv, TypeOK
<1>12. outboxEvent' \subseteq Topic \X (Row \cup Project)
  <2>1. CommitEvents(job, i) \subseteq Topic \X (Row \cup Project)
    <3>1. /\ <<"investment.created", i>> \in Topic \X (Row \cup Project)
          /\ <<"ledger.transaction_posted INVESTMENT", i>> \in Topic \X (Row \cup Project)
      BY DEF Topic
    <3>2. QED
      BY <3>1 DEF CommitEvents
  <2>2. QED
    BY <1>1, <2>1 DEF InsertInvestment, TypeInv, TypeOK
<1>13. refund' \in [Row -> Nat]
  BY DEF InsertInvestment, TypeInv, TypeOK
<1>14. QED
  BY <1>6, <1>7, <1>8, <1>9, <1>10, <1>11, <1>12, <1>13 DEF TablesTyped

LEMMA CommitInvestType ==
    ASSUME TypeInv, NEW r \in Request, NEW i \in Row, CommitInvest(r, i)
    PROVE  TypeInv'
<1>1. /\ req[r].op = "invest" /\ req[r].pc = "commit" /\ ~Exists(i)
      /\ InsertInvestment(req[r], i) /\ UNCHANGED <<idem, answered>>
  BY DEF CommitInvest, InsertInvestment
<1>2. TablesTyped' /\ RowsReady' /\ RowsStay
  BY <1>1, InsertType
<1>3. req[r] \in Job /\ InvestJobReady(req[r])
  BY DEF TypeInv, TypeOK, JobsReady
<1>4. [req[r] EXCEPT !.pc = "cache", !.row = i, !.seen = Unseen] \in Job
  <2>1. Unseen \in [status : ProjectStatus \cup {"UNSEEN"}, raised : Int]
    BY DEF Unseen
  <2>2. i \in Row \cup {None}
    OBVIOUS
  <2>3. QED
    BY <1>3, <2>1, <2>2 DEF Job
<1>5. PICK job \in Job : job = [req[r] EXCEPT !.pc = "cache", !.row = i, !.seen = Unseen]
  BY <1>4
<1>6. /\ job.op = "invest" /\ job.pc = "cache" /\ job.investor = req[r].investor
      /\ job.key = req[r].key /\ job.project = req[r].project
      /\ job.amount = req[r].amount /\ job.row = i
  BY <1>1, <1>3, <1>5 DEF Job
<1>7. InvestJobReady(job) /\ RowJobReady(job)' /\ PublishJobReady(job)
  BY <1>1, <1>3, <1>6 DEF InvestJobReady, RowJobReady, PublishJobReady
<1>8. req' = [req EXCEPT ![r] = job]
  BY <1>5 DEF CommitInvest
<1>9. req' \in [Request -> Job] /\ JobsReady'
  BY <1>2, <1>7, <1>8, PutJob
<1>10. QED
  BY <1>1, <1>2, <1>9, WriterType DEF TypeInv, TypeOK

LEMMA CommitDealInvestType ==
    ASSUME TypeInv, NEW r \in Request, NEW i \in Row, CommitDealInvest(r, i)
    PROVE  TypeInv'
<1>1. /\ req[r].op = "dealInvest" /\ req[r].pc = "commit" /\ ~Exists(i)
      /\ InsertInvestment(req[r], i) /\ Finish(r) /\ UNCHANGED idem
  BY DEF CommitDealInvest, InsertInvestment
<1>2. TablesTyped' /\ RowsReady' /\ RowsStay
  BY <1>1, InsertType
<1>3. req[r].investor \in Investor /\ req[r].key \in Key
  BY <1>1 DEF TypeInv, JobsReady, InvestJobReady
<1>4. answered' \subseteq Investor \X Key \X Row
  BY <1>3 DEF CommitDealInvest, Answer, TypeInv, TypeOK
<1>5. req' \in [Request -> Job] /\ JobsReady'
  BY <1>1, <1>2, FinishJob
<1>6. QED
  BY <1>1, <1>2, <1>4, <1>5, WriterType DEF TypeInv, TypeOK

LEMMA CommitCancelType ==
    ASSUME TypeInv, NEW r \in Request, CommitCancel(r)
    PROVE  TypeInv'
<1>1. PICK i \in Row : i = req[r].row /\ Exists(i)
  BY DEF CommitCancel, TypeInv, JobsReady, RowJobReady
<1>2. PICK p \in Project : p = investment[i].project
  BY <1>1 DEF TypeInv, RowsReady
<1>3. RowsStay /\ RowsReady' /\ investment' \in [Row -> Investment]
  BY <1>1, StatusWrite DEF CommitCancel, InvestmentStatus
<1>4. project' \in [Project -> [status : ProjectStatus, raised : Int]]
  <2>1. investment[i].amount \in Int
    <3>1. investment[i] \in Investment
      BY DEF TypeInv, TypeOK
    <3>2. investment[i].amount \in Amount \cup {0}
      BY <3>1 DEF Investment
    <3>3. Amount \subseteq Nat
      BY FundingAssumption
    <3>4. \A a \in Amount \cup {0} : a \in Int
      BY <3>3
    <3>5. QED
      BY <3>2, <3>4
  <2>2. project' = [project EXCEPT ![p].raised = project[p].raised - investment[i].amount]
    BY <1>1, <1>2 DEF CommitCancel
  <2>3. project[p].raised - investment[i].amount \in Int
    BY <2>1 DEF TypeInv, TypeOK
  <2>4. QED
    BY <2>2, <2>3 DEF TypeInv, TypeOK
<1>5. refund' \in [Row -> Nat]
  <2>1. refund' = [refund EXCEPT ![i] = refund[i] + 1]
    BY <1>1 DEF CommitCancel
  <2>2. refund[i] + 1 \in Nat
    BY DEF TypeInv, TypeOK
  <2>3. QED
    BY <2>1, <2>2 DEF TypeInv, TypeOK
<1>6. outboxEvent' \subseteq Topic \X (Row \cup Project)
  BY <1>1, EventType DEF CommitCancel, Topic
<1>7. TablesTyped'
  BY <1>3, <1>4, <1>5, <1>6 DEF CommitCancel, TablesTyped, TypeInv, TypeOK
<1>8. req' \in [Request -> Job] /\ JobsReady'
  BY <1>3, FinishJob DEF CommitCancel
<1>9. QED
  BY <1>3, <1>7, <1>8, WriterType DEF CommitCancel, TypeInv, TypeOK

LEMMA CommitComplianceType ==
    ASSUME TypeInv, NEW r \in Request, CommitCompliance(r)
    PROVE  TypeInv'
<1>1. PICK i \in Row : i = req[r].row /\ Exists(i)
  BY DEF CommitCompliance, TypeInv, JobsReady, RowJobReady
<1>2. PICK s \in InvestmentStatus : SetStatus(i, s)
  BY <1>1 DEF CommitCompliance, InvestmentStatus
<1>3. RowsStay /\ RowsReady' /\ investment' \in [Row -> Investment]
  BY <1>1, <1>2, StatusWrite
<1>4. outboxEvent' \subseteq Topic \X (Row \cup Project)
  BY <1>1, EventType DEF CommitCompliance, Topic
<1>5. TablesTyped'
  BY <1>3, <1>4 DEF CommitCompliance, TablesTyped, TypeInv, TypeOK
<1>6. req' \in [Request -> Job] /\ JobsReady'
  BY <1>3, FinishJob DEF CommitCompliance
<1>7. QED
  BY <1>3, <1>5, <1>6, WriterType DEF CommitCompliance, TypeInv, TypeOK

LEMMA ConfirmRowType ==
    ASSUME TypeInv, NEW r \in Request, NEW i \in Row, ConfirmRow(r, i)
    PROVE  TypeInv'
<1>1. RowsStay /\ RowsReady' /\ investment' \in [Row -> Investment]
  BY StatusWrite DEF ConfirmRow, InvestmentStatus
<1>2. RowJob("confirm", i, TRUE) \in Job
  BY IdleIsJob DEF RowJob, Job
<1>3. PICK job \in Job : job = RowJob("confirm", i, TRUE)
  BY <1>2
<1>4. job.op = "confirm" /\ job.row = i
  BY <1>3, IdleIsJob DEF RowJob, Job
<1>5. InvestJobReady(job) /\ RowJobReady(job)' /\ PublishJobReady(job)
  BY <1>1, <1>4 DEF ConfirmRow, RowsStay, InvestJobReady, RowJobReady, PublishJobReady
<1>6. req' \in [Request -> Job] /\ JobsReady'
  BY <1>1, <1>3, <1>5, PutJob DEF ConfirmRow
<1>7. TablesTyped'
  BY <1>1 DEF ConfirmRow, TablesTyped, TypeInv, TypeOK
<1>8. QED
  BY <1>1, <1>6, <1>7, WriterType DEF ConfirmRow, TypeInv, TypeOK

LEMMA ConfirmLaterType ==
    ASSUME TypeInv, NEW r \in Request,
           ConfirmTransaction(r) \/ ConfirmEvent(r) \/ ConfirmLedgerEvent(r)
    PROVE  TypeInv'
<1>1. PICK i \in Row : i = req[r].row
  BY DEF ConfirmTransaction, ConfirmEvent, ConfirmLedgerEvent, TypeInv, JobsReady, RowJobReady
<1>2. UNCHANGED <<project, investment, refund, ledgerEntry, idem, answered>>
  BY DEF ConfirmTransaction, ConfirmEvent, ConfirmLedgerEvent
<1>3. RowsStay /\ RowsReady' /\ investment' \in [Row -> Investment]
  BY <1>2, SameInvestments
<1>4. transaction' \in [Row -> [status : TransactionStatus \cup {"ABSENT"},
                               processed : BOOLEAN]]
  <2>1. \/ UNCHANGED transaction
        \/ transaction' = [transaction EXCEPT ![i] = [status |-> "COMPLETED", processed |-> TRUE]]
    BY <1>1 DEF ConfirmTransaction, ConfirmEvent, ConfirmLedgerEvent
  <2>2. [status |-> "COMPLETED", processed |-> TRUE]
          \in [status : TransactionStatus \cup {"ABSENT"}, processed : BOOLEAN]
    BY DEF TransactionStatus
  <2>3. QED
    BY <2>1, <2>2 DEF TypeInv, TypeOK
<1>5. outboxEvent' \subseteq Topic \X (Row \cup Project)
  BY <1>1, EventType
     DEF ConfirmTransaction, ConfirmEvent, ConfirmLedgerEvent, TypeInv, TypeOK, Topic
<1>6. req' \in [Request -> Job] /\ JobsReady'
  BY <1>3, FinishJob, GotoJob DEF ConfirmTransaction, ConfirmEvent, ConfirmLedgerEvent
<1>7. TablesTyped'
  BY <1>2, <1>4, <1>5 DEF TablesTyped, TypeInv, TypeOK
<1>8. QED
  BY <1>2, <1>3, <1>6, <1>7, WriterType DEF TypeInv, TypeOK

LEMMA UpdateInvestmentType ==
    ASSUME TypeInv, NEW i \in Row, NEW s \in InvestmentStatus, UpdateInvestment(i, s)
    PROVE  TypeInv'
<1>1. RowsStay /\ RowsReady' /\ investment' \in [Row -> Investment]
  BY StatusWrite DEF UpdateInvestment
<1>2. UNCHANGED <<project, transaction, refund, ledgerEntry, outboxEvent, idem, answered, req>>
  BY DEF UpdateInvestment
<1>3. req' \in [Request -> Job] /\ JobsReady'
  BY <1>1, <1>2, SlotsStay
<1>4. TablesTyped'
  BY <1>1, <1>2 DEF TablesTyped, TypeInv, TypeOK
<1>5. QED
  BY <1>1, <1>2, <1>3, <1>4, WriterType DEF TypeInv, TypeOK

LEMMA UpdateTransactionType ==
    ASSUME TypeInv, NEW i \in Row, NEW s \in TransactionStatus, UpdateTransaction(i, s)
    PROVE  TypeInv'
<1>1. UNCHANGED <<project, investment, refund, ledgerEntry, outboxEvent, idem, answered, req>>
  BY DEF UpdateTransaction
<1>2. RowsStay /\ RowsReady' /\ investment' \in [Row -> Investment]
  BY <1>1, SameInvestments
<1>3. req' \in [Request -> Job] /\ JobsReady'
  BY <1>1, <1>2, SlotsStay
<1>4. transaction' \in [Row -> [status : TransactionStatus \cup {"ABSENT"},
                               processed : BOOLEAN]]
  <2>1. (transaction[i].processed \/ s = "COMPLETED") \in BOOLEAN
    OBVIOUS
  <2>2. transaction' = [transaction EXCEPT ![i] =
           [status |-> s, processed |-> transaction[i].processed \/ s = "COMPLETED"]]
    BY DEF UpdateTransaction
  <2>3. QED
    BY <2>1, <2>2 DEF TypeInv, TypeOK
<1>5. TablesTyped'
  BY <1>1, <1>2, <1>4 DEF TablesTyped, TypeInv, TypeOK
<1>6. QED
  BY <1>1, <1>2, <1>3, <1>5, WriterType DEF TypeInv, TypeOK

\* Writing the status of a project.
LEMMA ProjectStatusType ==
    ASSUME TypeInv, NEW p \in Project, NEW s \in ProjectStatus,
           project' = [project EXCEPT ![p].status = s]
    PROVE  project' \in [Project -> [status : ProjectStatus, raised : Int]]
BY DEF TypeInv, TypeOK

LEMMA TransitionType ==
    ASSUME TypeInv, NEW p \in Project, ApproveProject(p) \/ RejectProject(p)
    PROVE  TypeInv'
<1>1. PICK s \in {"ACTIVE", "REJECTED"} : TransitionProject(p, s)
  BY DEF ApproveProject, RejectProject
<1>2. UNCHANGED <<investment, transaction, refund, ledgerEntry, idem, answered, req>>
  BY <1>1 DEF TransitionProject
<1>3. RowsStay /\ RowsReady' /\ investment' \in [Row -> Investment]
  BY <1>2, SameInvestments
<1>4. req' \in [Request -> Job] /\ JobsReady'
  BY <1>2, <1>3, SlotsStay
<1>5. project' \in [Project -> [status : ProjectStatus, raised : Int]]
  BY <1>1, ProjectStatusType DEF TransitionProject, ProjectStatus
<1>6. outboxEvent' \subseteq Topic \X (Row \cup Project)
  <2>1. PICK topic \in Topic : outboxEvent' = outboxEvent \cup {<<topic, p>>}
    BY <1>1 DEF TransitionProject, Topic
  <2>2. QED
    BY <2>1, EventType
<1>7. TablesTyped'
  BY <1>2, <1>3, <1>5, <1>6 DEF TablesTyped, TypeInv, TypeOK
<1>8. QED
  BY <1>2, <1>3, <1>4, <1>7, WriterType DEF TypeInv, TypeOK

LEMMA CommitPublishType ==
    ASSUME TypeInv, NEW r \in Request, CommitPublish(r)
    PROVE  TypeInv'
<1>1. PICK p \in Project : p = req[r].project
  BY DEF CommitPublish, TypeInv, JobsReady, PublishJobReady
<1>2. UNCHANGED <<investment, transaction, refund, ledgerEntry, idem, answered>>
  BY DEF CommitPublish
<1>3. RowsStay /\ RowsReady' /\ investment' \in [Row -> Investment]
  BY <1>2, SameInvestments
<1>4. req' \in [Request -> Job] /\ JobsReady'
  BY <1>3, FinishJob DEF CommitPublish
<1>5. project' \in [Project -> [status : ProjectStatus, raised : Int]]
  BY <1>1, ProjectStatusType DEF CommitPublish, ProjectStatus
<1>6. outboxEvent' \subseteq Topic \X (Row \cup Project)
  BY <1>1, EventType DEF CommitPublish, Topic
<1>7. TablesTyped'
  BY <1>2, <1>3, <1>5, <1>6 DEF TablesTyped, TypeInv, TypeOK
<1>8. QED
  BY <1>2, <1>3, <1>4, <1>7, WriterType DEF TypeInv, TypeOK

\* Every step of every handler keeps the strengthened type invariant.
LEMMA TypeNext == TypeInv /\ [Next]_vars => TypeInv'
<1> SUFFICES ASSUME TypeInv, [Next]_vars
             PROVE  TypeInv'
  OBVIOUS
<1>1. CASE UNCHANGED vars
  BY <1>1 DEF vars, tables, TypeInv, TypeOK, RowsReady, JobsReady, InvestJobReady,
              RowJobReady, PublishJobReady, Exists
<1>2. ASSUME NEW r \in Request, InvestStep(r)
      PROVE  TypeInv'
  BY <1>2, BeginInvestType, BeginDealInvestType, AnswerExistingType, ReadProjectType,
     CheckType, CacheAnswerType, CommitInvestType, CommitDealInvestType DEF InvestStep
<1>3. ASSUME NEW r \in Request, LaterStep(r)
      PROVE  TypeInv'
  BY <1>3, BeginRowJobType, ConfirmRowType, BeginPublishType, CommitCancelType,
     CommitComplianceType, CommitPublishType, ConfirmLaterType DEF LaterStep
<1>4. ASSUME NEW i \in Row, NEW s \in {"COMPLETED", "PENDING", "FLAGGED", "CANCELLED"},
             UpdateTransaction(i, s)
      PROVE  TypeInv'
  BY <1>4, UpdateTransactionType DEF TransactionStatus
<1>5. QED
  BY <1>1, <1>2, <1>3, <1>4, FailType, CacheType, UpdateInvestmentType, TransitionType
     DEF Next

\* Type correctness: whatever the handlers do and wherever they stop, every
\* column keeps a value of its type and no job commits a status it has not read.
THEOREM TypeCorrect == Spec => []TypeOK
<1>1. TypeInv => TypeOK
  BY DEF TypeInv
<1>2. QED
  BY <1>1, InitType, TypeNext, PTL DEF Spec

(***************************************************************************)
(* The promise about idempotency keys, for any number of investors, keys   *)
(* and concurrent handlers: at most one investment per pair, every answer  *)
(* the same, and so an implementation of Commitments.                      *)
(***************************************************************************)

(***************************************************************************)
(* OneInvestmentPerKey and SameAnswer are not inductive: whoever may still *)
(* answer must hold a row of the pair it answers for.                      *)
(***************************************************************************)

\* What Redis holds for a pair is a row of the pair.
IdemBacked ==
    \A u \in Investor, k \in Key :
        idem[<<u, k>>] # None => idem[<<u, k>>] \in RowsOf(u, k)

\* What a client was told of a pair is a row of the pair.
AnswersBacked ==
    \A u \in Investor, k \in Key, i \in Row :
        <<u, k, i>> \in answered => i \in RowsOf(u, k)

\* A handler about to fill the cache holds the row it has committed.
Caching(job) == job.op = "invest" /\ job.pc = "cache"
CachersBacked ==
    \A r \in Request :
        Caching(req[r]) => req[r].row \in RowsOf(req[r].investor, req[r].key)

PromiseInv ==
    TypeInv /\ OneInvestmentPerKey /\ IdemBacked /\ AnswersBacked /\ CachersBacked

\* At the start there is no row, no cached and no given answer.
LEMMA PromiseInit == Init => PromiseInv
<1> SUFFICES ASSUME Init PROVE PromiseInv
  OBVIOUS
<1>1. TypeInv
  BY InitType
<1>2. \A i \in Row : ~Exists(i)
  BY DEF Init, Exists, Absent
<1>3. OneInvestmentPerKey
  BY <1>2 DEF OneInvestmentPerKey
<1>4. IdemBacked /\ AnswersBacked
  BY DEF Init, IdemBacked, AnswersBacked, Pair
<1>5. CachersBacked
  BY DEF Init, CachersBacked, Caching, Idle
<1>6. QED
  BY <1>1, <1>3, <1>4, <1>5 DEF PromiseInv

\* No row appears, disappears or changes hands.
SameRows == RowsStay /\ \A i \in Row : Exists(i)' => Exists(i)

\* The rows of a pair are those it had.
LEMMA SameRowsOf ==
    ASSUME SameRows, NEW u, NEW k
    PROVE  RowsOf(u, k)' = RowsOf(u, k)
BY DEF SameRows, RowsStay, RowsOf

\* A step that keeps the rows leaves one investment per pair.
LEMMA SameRowsUnique ==
    ASSUME OneInvestmentPerKey, SameRows
    PROVE  OneInvestmentPerKey'
BY DEF OneInvestmentPerKey, SameRows, RowsStay

\* Leaving the investments alone, and writing a status.
LEMMA UnchangedRows == ASSUME UNCHANGED investment PROVE SameRows
BY DEF SameRows, RowsStay, Exists

LEMMA StatusRows ==
    ASSUME TypeInv, NEW i \in Row, Exists(i), NEW s \in InvestmentStatus, SetStatus(i, s)
    PROVE  SameRows
<1>1. RowsStay
  BY StatusWrite
<1>2. \A j \in Row : j # i => investment'[j] = investment[j]
  BY DEF SetStatus, TypeInv, TypeOK
<1>3. QED
  BY <1>1, <1>2 DEF SameRows, Exists

\* No handler is sent to the cache.
NoneSent == \A r \in Request : Caching(req[r])' => req'[r] = req[r]

\* A step that neither adds a row, nor answers, nor fills the cache, nor lets a
\* handler reach the cache.
Quiet == SameRows /\ NoneSent /\ UNCHANGED <<idem, answered>>

LEMMA QuietStep ==
    ASSUME PromiseInv, TypeInv', Quiet
    PROVE  PromiseInv'
<1>1. OneInvestmentPerKey'
  BY SameRowsUnique DEF PromiseInv, Quiet
<1>2. IdemBacked'
  BY SameRowsOf DEF PromiseInv, IdemBacked, Quiet
<1>3. AnswersBacked'
  BY SameRowsOf DEF PromiseInv, AnswersBacked, Quiet
<1>4. CachersBacked'
  BY SameRowsOf DEF PromiseInv, CachersBacked, Caching, Quiet, NoneSent
<1>5. QED
  BY <1>1, <1>2, <1>3, <1>4 DEF PromiseInv

\* The job put in a slot is not at the cache.
LEMMA PutSends ==
    ASSUME TypeInv, NEW r \in Request, NEW job, req' = [req EXCEPT ![r] = job], ~Caching(job)
    PROVE  NoneSent
BY DEF NoneSent, Caching, TypeInv, TypeOK

LEMMA FinishSends == ASSUME TypeInv, NEW r \in Request, Finish(r) PROVE NoneSent
<1>1. ~Caching(Idle)
  BY DEF Caching, Idle
<1>2. QED
  BY <1>1, PutSends DEF Finish

LEMMA GotoSends ==
    ASSUME TypeInv, NEW r \in Request, NEW pc, pc # "cache", Goto(r, pc)
    PROVE  NoneSent
<1> DEFINE job == [req[r] EXCEPT !.pc = pc]
<1>1. req[r] \in Job
  BY DEF TypeInv, TypeOK
<1>2. job.pc = pc
  BY <1>1 DEF Job
<1>3. req' = [req EXCEPT ![r] = job]
  BY DEF Goto
<1> HIDE DEF job
<1>4. QED
  BY <1>2, <1>3, PutSends DEF Caching

\* The steps that look, check or give up.
LEMMA ReadOnlyQuiet ==
    ASSUME TypeInv, NEW r \in Request,
           \/ Fail(r) \/ MissExisting(r) \/ ReadProject(r) \/ CheckDeal(r) \/ CheckCap(r)
           \/ Conflict(r)
    PROVE  Quiet
<1>1. UNCHANGED <<tables, idem, answered>>
  BY DEF Fail, MissExisting, ReadProject, CheckDeal, CheckCap, Conflict
<1>2. SameRows
  BY <1>1, UnchangedRows DEF tables
<1>3. NoneSent
  <2>1. CASE ReadProject(r) /\ ~Finish(r)
    <3>1. req[r] \in Job
      BY DEF TypeInv, TypeOK
    <3>2. PICK pc \in {"commit", "deal"} :
            req' = [req EXCEPT ![r] = [req[r] EXCEPT !.seen = project[req[r].project], !.pc = pc]]
      BY <2>1 DEF ReadProject
    <3>3. ~Caching([req[r] EXCEPT !.seen = project[req[r].project], !.pc = pc])
      BY <3>1 DEF Caching, Job
    <3>4. QED
      BY <3>2, <3>3, PutSends
  <2>2. CASE Finish(r)
    BY <2>2, FinishSends
  <2>3. CASE Goto(r, "read") \/ Goto(r, "commit")
    BY <2>3, GotoSends
  <2>4. QED
    BY <2>1, <2>2, <2>3 DEF Fail, MissExisting, CheckDeal, CheckCap, Conflict
<1>4. QED
  BY <1>1, <1>2, <1>3 DEF Quiet

\* The steps that start a handler.
LEMMA BeginQuiet ==
    ASSUME TypeInv, NEW r \in Request,
           \/ \E u \in Investor, k \in Key, p \in Project, d \in Deal \cup {None}, a \in Amount :
                BeginInvest(r, u, k, p, d, a)
           \/ \E u \in Investor, k \in Key, d \in Deal, a \in Amount :
                BeginDealInvest(r, u, k, d, a)
           \/ \E i \in Row : BeginCancel(r, i)
           \/ \E i \in Row, passed \in BOOLEAN : BeginCompliance(r, i, passed)
           \/ \E p \in Project : BeginPublish(r, p)
    PROVE  Quiet
<1>1. UNCHANGED <<tables, idem, answered>>
  BY DEF BeginInvest, BeginDealInvest, BeginCancel, BeginCompliance, BeginPublish
<1>2. SameRows
  BY <1>1, UnchangedRows DEF tables
<1>3. \E job : req' = [req EXCEPT ![r] = job] /\ ~Caching(job)
  <2>1. ASSUME NEW u \in Investor, NEW k \in Key, NEW p \in Project,
               NEW d \in Deal \cup {None}, NEW a \in Amount, BeginInvest(r, u, k, p, d, a)
        PROVE  \E job : req' = [req EXCEPT ![r] = job] /\ ~Caching(job)
    <3>1. ~Caching(InvestJob(u, k, p, d, a))
      BY DEF Caching, InvestJob, Idle
    <3>2. QED
      BY <2>1, <3>1 DEF BeginInvest
  <2>2. ASSUME NEW u \in Investor, NEW k \in Key, NEW d \in Deal, NEW a \in Amount,
               BeginDealInvest(r, u, k, d, a)
        PROVE  \E job : req' = [req EXCEPT ![r] = job] /\ ~Caching(job)
    <3>1. ~Caching(DealInvestJob(u, k, d, a))
      BY DEF Caching, DealInvestJob, Idle
    <3>2. QED
      BY <2>2, <3>1 DEF BeginDealInvest
  <2>3. ASSUME NEW i \in Row, NEW passed \in BOOLEAN,
               BeginCancel(r, i) \/ BeginCompliance(r, i, passed)
        PROVE  \E job : req' = [req EXCEPT ![r] = job] /\ ~Caching(job)
    <3>1. PICK op \in {"cancel", "compliance"}, b \in BOOLEAN :
            req' = [req EXCEPT ![r] = RowJob(op, i, b)]
      BY <2>3 DEF BeginCancel, BeginCompliance
    <3>2. ~Caching(RowJob(op, i, b))
      BY DEF Caching, RowJob, Idle
    <3>3. QED
      BY <3>1, <3>2
  <2>4. ASSUME NEW p \in Project, BeginPublish(r, p)
        PROVE  \E job : req' = [req EXCEPT ![r] = job] /\ ~Caching(job)
    <3>1. ~Caching([Idle EXCEPT !.op = "publish", !.pc = "write", !.project = p])
      BY DEF Caching, Idle
    <3>2. QED
      BY <2>4, <3>1 DEF BeginPublish
  <2>5. QED
    BY <2>1, <2>2, <2>3, <2>4
<1>4. NoneSent
  BY <1>3, PutSends
<1>5. QED
  BY <1>1, <1>2, <1>4 DEF Quiet

\* The steps that write something else than new investments.
LEMMA WriteQuiet ==
    ASSUME TypeInv, NEW r \in Request,
           \/ CommitCancel(r) \/ CommitCompliance(r) \/ CommitPublish(r)
           \/ ConfirmTransaction(r) \/ ConfirmEvent(r) \/ ConfirmLedgerEvent(r)
           \/ \E i \in Row : ConfirmRow(r, i)
    PROVE  Quiet
<1>1. UNCHANGED <<idem, answered>>
  BY DEF CommitCancel, CommitCompliance, CommitPublish, ConfirmTransaction, ConfirmEvent,
         ConfirmLedgerEvent, ConfirmRow
<1>2. \/ UNCHANGED investment
      \/ \E i \in Row, s \in InvestmentStatus : Exists(i) /\ SetStatus(i, s)
  <2>1. CASE CommitCancel(r) \/ CommitCompliance(r)
    <3>1. req[r].row \in Row /\ Exists(req[r].row)
      BY <2>1 DEF CommitCancel, CommitCompliance, TypeInv, JobsReady, RowJobReady
    <3>2. PICK s \in InvestmentStatus : SetStatus(req[r].row, s)
      BY <2>1 DEF CommitCancel, CommitCompliance, InvestmentStatus
    <3>3. QED
      BY <3>1, <3>2
  <2>2. ASSUME NEW i \in Row, ConfirmRow(r, i)
        PROVE  \E j \in Row, s \in InvestmentStatus : Exists(j) /\ SetStatus(j, s)
    BY <2>2 DEF ConfirmRow, InvestmentStatus
  <2>3. QED
    BY <2>1, <2>2 DEF CommitPublish, ConfirmTransaction, ConfirmEvent, ConfirmLedgerEvent
<1>3. SameRows
  BY <1>2, UnchangedRows, StatusRows
<1>4. NoneSent
  <2>1. ASSUME NEW i \in Row, ConfirmRow(r, i)
        PROVE  NoneSent
    <3>1. ~Caching(RowJob("confirm", i, TRUE))
      BY DEF Caching, RowJob, Idle
    <3>2. QED
      BY <2>1, <3>1, PutSends DEF ConfirmRow
  <2>2. QED
    BY <2>1, FinishSends, GotoSends
       DEF CommitCancel, CommitCompliance, CommitPublish, ConfirmTransaction, ConfirmEvent,
           ConfirmLedgerEvent
<1>5. QED
  BY <1>1, <1>3, <1>4 DEF Quiet

LEMMA AdminQuiet ==
    ASSUME TypeInv,
           \/ \E i \in Row, s \in InvestmentStatus : UpdateInvestment(i, s)
           \/ \E i \in Row, s \in TransactionStatus : UpdateTransaction(i, s)
           \/ \E p \in Project : ApproveProject(p) \/ RejectProject(p)
    PROVE  Quiet
<1>1. UNCHANGED <<idem, answered, req>>
  BY DEF UpdateInvestment, UpdateTransaction, ApproveProject, RejectProject, TransitionProject
<1>2. \/ UNCHANGED investment
      \/ \E i \in Row, s \in InvestmentStatus : Exists(i) /\ SetStatus(i, s)
  BY DEF UpdateInvestment, UpdateTransaction, ApproveProject, RejectProject, TransitionProject
<1>3. SameRows
  BY <1>2, UnchangedRows, StatusRows
<1>4. QED
  BY <1>1, <1>3 DEF Quiet, NoneSent

\* Answering from the cache or from the database, filling the cache, evicting.
LEMMA AnswerPromise ==
    ASSUME PromiseInv, TypeInv', NEW u \in Investor, NEW k \in Key, NEW i \in RowsOf(u, k),
           UNCHANGED investment, NoneSent,
           answered' = answered \cup {<<u, k, i>>},
           idem' = idem \/ idem' = [idem EXCEPT ![<<u, k>>] = i]
    PROVE  PromiseInv'
<1>1. SameRows
  BY UnchangedRows
<1>2. OneInvestmentPerKey'
  BY <1>1, SameRowsUnique DEF PromiseInv
<1>3. IdemBacked'
  <2>1. SUFFICES ASSUME NEW v \in Investor, NEW l \in Key, idem'[<<v, l>>] # None
                 PROVE  idem'[<<v, l>>] \in RowsOf(v, l)
    BY <1>1, SameRowsOf DEF IdemBacked
  <2>2. <<v, l>> \in Pair /\ idem \in [Pair -> Row \cup {None}]
    BY DEF Pair, PromiseInv, TypeInv, TypeOK
  <2>3. CASE idem' = [idem EXCEPT ![<<u, k>>] = i] /\ v = u /\ l = k
    BY <2>2, <2>3
  <2>4. CASE idem'[<<v, l>>] = idem[<<v, l>>]
    BY <2>1, <2>4 DEF PromiseInv, IdemBacked
  <2>5. QED
    BY <2>2, <2>3, <2>4
<1>4. AnswersBacked'
  BY <1>1, SameRowsOf DEF PromiseInv, AnswersBacked
<1>5. CachersBacked'
  BY <1>1, SameRowsOf DEF PromiseInv, CachersBacked, NoneSent, Caching
<1>6. QED
  BY <1>2, <1>3, <1>4, <1>5 DEF PromiseInv

LEMMA CachePromise ==
    ASSUME PromiseInv, TypeInv', NEW u \in Investor, NEW k \in Key, AnswerFromCache(u, k)
    PROVE  PromiseInv'
<1>1. idem[<<u, k>>] \in RowsOf(u, k)
  BY DEF AnswerFromCache, PromiseInv, IdemBacked
<1>2. NoneSent
  BY DEF AnswerFromCache, NoneSent
<1>3. QED
  BY <1>1, <1>2, AnswerPromise DEF AnswerFromCache, Answer, tables

LEMMA ForgetPromise ==
    ASSUME PromiseInv, TypeInv', NEW u \in Investor, NEW k \in Key, ForgetAnswer(u, k)
    PROVE  PromiseInv'
<1>1. SameRows
  BY UnchangedRows DEF ForgetAnswer, tables
<1>2. OneInvestmentPerKey'
  BY <1>1, SameRowsUnique DEF PromiseInv
<1>3. IdemBacked'
  <2>1. ASSUME NEW v \in Investor, NEW l \in Key, idem'[<<v, l>>] # None
        PROVE  idem'[<<v, l>>] = idem[<<v, l>>]
    <3>1. <<v, l>> \in Pair /\ idem \in [Pair -> Row \cup {None}]
      BY DEF Pair, PromiseInv, TypeInv, TypeOK
    <3>2. QED
      BY <2>1, <3>1 DEF ForgetAnswer
  <2>2. QED
    BY <1>1, <2>1, SameRowsOf DEF PromiseInv, IdemBacked
<1>4. AnswersBacked'
  BY <1>1, SameRowsOf DEF ForgetAnswer, PromiseInv, AnswersBacked
<1>5. CachersBacked'
  BY <1>1, SameRowsOf DEF ForgetAnswer, PromiseInv, CachersBacked, Caching
<1>6. QED
  BY <1>2, <1>3, <1>4, <1>5 DEF PromiseInv

LEMMA AnswerExistingPromise ==
    ASSUME PromiseInv, TypeInv', NEW r \in Request, AnswerExisting(r)
    PROVE  PromiseInv'
<1>1. req[r].investor \in Investor /\ req[r].key \in Key
  BY DEF AnswerExisting, PromiseInv, TypeInv, JobsReady, InvestJobReady
<1>2. NoneSent
  BY FinishSends DEF AnswerExisting, PromiseInv
<1>3. QED
  BY <1>1, <1>2, AnswerPromise DEF AnswerExisting, Answer, tables

LEMMA CacheAnswerPromise ==
    ASSUME PromiseInv, TypeInv', NEW r \in Request, CacheAnswer(r)
    PROVE  PromiseInv'
<1>1. req[r].investor \in Investor /\ req[r].key \in Key
  BY DEF CacheAnswer, PromiseInv, TypeInv, JobsReady, InvestJobReady
<1>2. req[r].row \in RowsOf(req[r].investor, req[r].key)
  BY DEF CacheAnswer, Caching, PromiseInv, CachersBacked
<1>3. NoneSent
  BY FinishSends DEF CacheAnswer, PromiseInv
<1>4. QED
  BY <1>1, <1>2, <1>3, AnswerPromise DEF CacheAnswer, Answer, tables

\* A commit adds its row to the rows of its pair.
LEMMA CommitRows ==
    ASSUME TypeInv, NEW r \in Request, NEW i \in Row, ~Exists(i), InsertInvestment(req[r], i),
           NEW u, NEW k, u = req[r].investor, k = req[r].key, RowsOf(u, k) = {}
    PROVE  \A v, l : RowsOf(v, l)' = IF v = u /\ l = k THEN {i} ELSE RowsOf(v, l)
<1>1. \A j \in Row : investment'[j] = IF j = i THEN NewInvestment(req[r]) ELSE investment[j]
  BY DEF InsertInvestment, TypeInv, TypeOK
<1>2. /\ Exists(i)' /\ investment'[i].investor = u /\ investment'[i].key = k
      /\ \A j \in Row : j # i => (Exists(j)' <=> Exists(j)) /\ investment'[j] = investment[j]
  BY <1>1 DEF NewInvestment, Exists
<1>3. QED
  BY <1>2 DEF RowsOf

\* A commit of either endpoint: the unique constraint let the pair through, so
\* the new row is the pair's first.
LEMMA CommitPromise ==
    ASSUME PromiseInv, TypeInv', NEW r \in Request, NEW i \in Row,
           CommitInvest(r, i) \/ CommitDealInvest(r, i)
    PROVE  PromiseInv'
<1>0. /\ TypeInv /\ ~Exists(i) /\ InsertInvestment(req[r], i)
      /\ RowsOf(req[r].investor, req[r].key) = {}
      /\ req[r].op \in {"invest", "dealInvest"} /\ req[r].pc = "commit" /\ UNCHANGED idem
  BY DEF PromiseInv, CommitInvest, CommitDealInvest, KeyTaken, InsertInvestment
<1>1. PICK u \in Investor, k \in Key : u = req[r].investor /\ k = req[r].key
  BY <1>0 DEF TypeInv, JobsReady, InvestJobReady
<1>2. RowsStay
  BY <1>0, InsertType
<1>3. \A j \in Row : investment'[j] = IF j = i THEN NewInvestment(req[r]) ELSE investment[j]
  BY <1>0 DEF InsertInvestment, TypeInv, TypeOK
<1>4. /\ Exists(i)' /\ investment'[i].investor = u /\ investment'[i].key = k
      /\ \A j \in Row : j # i => (Exists(j)' <=> Exists(j)) /\ investment'[j] = investment[j]
  BY <1>1, <1>3 DEF NewInvestment, Exists
<1>a. RowsOf(u, k) = {}
  BY <1>0, <1>1
<1>5. \A v \in Investor, l \in Key :
        RowsOf(v, l)' = IF v = u /\ l = k THEN {i} ELSE RowsOf(v, l)
  BY <1>0, <1>4, <1>a DEF RowsOf
<1>6. OneInvestmentPerKey'
  <2>1. ASSUME NEW j \in Row, j # i, Exists(j)
        PROVE  ~(investment[j].investor = u /\ investment[j].key = k)
    BY <1>a, <2>1 DEF RowsOf
  <2>2. QED
    BY <1>4, <2>1 DEF OneInvestmentPerKey, PromiseInv
<1>7. IdemBacked'
  BY <1>0, <1>5, <1>a DEF PromiseInv, IdemBacked
<1>8. i \in RowsOf(u, k)'
  BY <1>1, <1>5
<1>9. AnswersBacked'
  <2>1. answered' \subseteq answered \cup {<<u, k, i>>}
    BY <1>1 DEF CommitInvest, CommitDealInvest, InsertInvestment, Answer
  <2>2. QED
    BY <1>5, <1>8, <1>a, <2>1 DEF PromiseInv, AnswersBacked
<1>10. CachersBacked'
  <2>1. ASSUME NEW q \in Request, Caching(req[q])', q # r
        PROVE  req'[q] = req[q]
    BY <1>0, <2>1 DEF CommitInvest, CommitDealInvest, Finish, TypeInv, TypeOK
  <2>2. ASSUME NEW q \in Request, Caching(req[q]), NEW v, NEW l,
               v = req[q].investor, l = req[q].key
        PROVE  req[q].row \in RowsOf(v, l)' /\ v \in Investor /\ l \in Key
    <3>1. v \in Investor /\ l \in Key
      BY <1>0, <2>2 DEF TypeInv, JobsReady, InvestJobReady, Caching
    <3>2. QED
      BY <1>5, <1>a, <2>2, <3>1 DEF PromiseInv, CachersBacked
  <2>3. ASSUME Caching(req[r])'
        PROVE  req'[r].investor = u /\ req'[r].key = k /\ req'[r].row = i
    <3>1. CASE CommitDealInvest(r, i)
      <4>1. req'[r] = Idle
        BY <1>0, <3>1 DEF CommitDealInvest, Finish, TypeInv, TypeOK
      <4>2. QED
        BY <2>3, <4>1 DEF Caching, Idle
    <3>2. CASE CommitInvest(r, i)
      <4>1. req[r] \in Job
        BY <1>0 DEF TypeInv, TypeOK
      <4>2. req'[r] = [req[r] EXCEPT !.pc = "cache", !.row = i, !.seen = Unseen]
        BY <1>0, <3>2 DEF CommitInvest, TypeInv, TypeOK
      <4>3. QED
        BY <1>1, <4>1, <4>2 DEF Job
    <3>3. QED
      BY <3>1, <3>2
  <2>4. ASSUME NEW q \in Request, Caching(req[q])', q # r
        PROVE  req'[q].row \in RowsOf(req[q].investor, req[q].key)'
    <3>1. req'[q] = req[q] /\ Caching(req[q])
      BY <2>1, <2>4 DEF Caching
    <3>2. PICK v, l : v = req[q].investor /\ l = req[q].key
      OBVIOUS
    <3>3. req[q].row \in RowsOf(v, l)'
      BY <2>2, <3>1, <3>2
    <3>4. QED
      BY <3>1, <3>2, <3>3
  <2>5. ASSUME Caching(req[r])'
        PROVE  req'[r].row \in RowsOf(req[r].investor, req[r].key)'
    BY <1>8, <2>3, <2>5
  <2>6. QED
    BY <2>4, <2>5 DEF CachersBacked
<1>11. QED
  BY <1>6, <1>7, <1>9, <1>10 DEF PromiseInv

\* Every step is quiet, answers, evicts, or commits a new investment.
LEMMA StepKinds ==
    ASSUME TypeInv, [Next]_vars
    PROVE  \/ Quiet
           \/ \E u \in Investor, k \in Key : AnswerFromCache(u, k) \/ ForgetAnswer(u, k)
           \/ \E r \in Request : AnswerExisting(r) \/ CacheAnswer(r)
           \/ \E r \in Request, i \in Row : CommitInvest(r, i) \/ CommitDealInvest(r, i)
<1>1. CASE UNCHANGED vars
  BY <1>1, UnchangedRows DEF vars, tables, Quiet, NoneSent
<1>2. ASSUME NEW r \in Request, LaterStep(r)
      PROVE  Quiet
  BY <1>2, BeginQuiet, WriteQuiet DEF LaterStep
<1>3. ASSUME \/ \E i \in Row, s \in InvestmentStatus : UpdateInvestment(i, s)
             \/ \E i \in Row, s \in {"COMPLETED", "PENDING", "FLAGGED", "CANCELLED"} :
                  UpdateTransaction(i, s)
             \/ \E p \in Project : ApproveProject(p) \/ RejectProject(p)
      PROVE  Quiet
  BY <1>3, AdminQuiet DEF TransactionStatus
<1>4. ASSUME NEW r \in Request, InvestStep(r)
      PROVE  \/ Quiet
             \/ AnswerExisting(r) \/ CacheAnswer(r)
             \/ \E i \in Row : CommitInvest(r, i) \/ CommitDealInvest(r, i)
  BY <1>4, BeginQuiet, ReadOnlyQuiet DEF InvestStep
<1>5. QED
  BY <1>1, <1>2, <1>3, <1>4, ReadOnlyQuiet DEF Next

\* Every step keeps the invariant.
LEMMA PromiseNext == PromiseInv /\ [Next]_vars => PromiseInv'
<1> SUFFICES ASSUME PromiseInv, [Next]_vars
             PROVE  PromiseInv'
  OBVIOUS
<1>0. TypeInv'
  BY TypeNext DEF PromiseInv
<1>1. CASE Quiet
  BY <1>0, <1>1, QuietStep
<1>2. CASE \E u \in Investor, k \in Key : AnswerFromCache(u, k) \/ ForgetAnswer(u, k)
  BY <1>0, <1>2, CachePromise, ForgetPromise
<1>3. CASE \E r \in Request : AnswerExisting(r) \/ CacheAnswer(r)
  BY <1>0, <1>3, AnswerExistingPromise, CacheAnswerPromise
<1>4. CASE \E r \in Request, i \in Row : CommitInvest(r, i) \/ CommitDealInvest(r, i)
  BY <1>0, <1>4, CommitPromise
<1>5. QED
  BY <1>1, <1>2, <1>3, <1>4, StepKinds DEF PromiseInv

LEMMA PromiseHolds == Spec => []PromiseInv
BY PromiseInit, PromiseNext, PTL DEF Spec

\* Concurrent and repeated calls of both endpoints leave at most one investment
\* for an idempotency key: the check before the transaction is not enough, the
\* unique constraint in it is.
THEOREM OneInvestmentPerKeyHolds == Spec => []OneInvestmentPerKey
<1>1. PromiseInv => OneInvestmentPerKey
  BY DEF PromiseInv
<1>2. QED
  BY <1>1, PromiseHolds, PTL

\* All answers for an idempotency key name one stored investment, wherever the
\* handler that answered found it.
THEOREM SameAnswerHolds == Spec => []SameAnswer
<1>1. PromiseInv => SameAnswer
  <2> SUFFICES ASSUME PromiseInv, NEW x \in answered, NEW y \in answered
               PROVE  Exists(x[3]) /\ (x[1] = y[1] /\ x[2] = y[2] => x[3] = y[3])
    BY DEF SameAnswer
  <2>1. PICK u \in Investor, k \in Key, i \in Row : x = <<u, k, i>>
    BY DEF PromiseInv, TypeInv, TypeOK
  <2>2. PICK v \in Investor, l \in Key, j \in Row : y = <<v, l, j>>
    BY DEF PromiseInv, TypeInv, TypeOK
  <2>3. i \in RowsOf(u, k) /\ j \in RowsOf(v, l)
    BY <2>1, <2>2 DEF PromiseInv, AnswersBacked
  <2>4. QED
    BY <2>1, <2>2, <2>3 DEF RowsOf, PromiseInv, OneInvestmentPerKey
<1>2. QED
  BY <1>1, PromiseHolds, PTL

(***************************************************************************)
(* The refinement: a commit makes the commitment, every answer repeats it, *)
(* the other steps are invisible to the investor.                          *)
(***************************************************************************)

Made == [p \in Pair |-> RowOf(p)]

LEMMA RowOfPair ==
    ASSUME OneInvestmentPerKey, NEW u \in Investor, NEW k \in Key, NEW i \in RowsOf(u, k)
    PROVE  Made[<<u, k>>] = i
<1>1. RowsOf(u, k) = {i}
  BY DEF OneInvestmentPerKey, RowsOf
<1>2. RowOf(<<u, k>>) = i
  BY <1>1 DEF RowOf
<1>3. QED
  BY <1>2 DEF Made, Pair

LEMMA RowOfNone ==
    ASSUME NEW u \in Investor, NEW k \in Key, RowsOf(u, k) = {}
    PROVE  Made[<<u, k>>] = None
BY DEF Made, RowOf, Pair

\* The mapping reads the rows of the pairs and nothing else.
LEMMA SameMade == ASSUME SameRows PROVE Made' = Made
<1>1. ASSUME NEW p \in Pair PROVE RowOf(p)' = RowOf(p)
  <2>1. RowsOf(p[1], p[2])' = RowsOf(p[1], p[2])
    BY SameRowsOf
  <2>2. QED
    BY <2>1 DEF RowOf
<1>2. QED
  BY <1>1 DEF Made

LEMMA PromiseInitMaps == Init => Promise!Init
<1> SUFFICES ASSUME Init PROVE Made = [p \in Pair |-> None] /\ answered = {}
  BY DEF Promise!Init, Promise!Pair, Made, Pair
<1>1. \A p \in Pair : RowsOf(p[1], p[2]) = {}
  BY DEF Init, RowsOf, Exists, Absent
<1>2. \A p \in Pair : RowOf(p) = None
  BY <1>1 DEF RowOf
<1>3. QED
  BY <1>2 DEF Init, Made

\* An answer that names a row of the pair repeats the commitment.
LEMMA TellMaps ==
    ASSUME PromiseInv, NEW u \in Investor, NEW k \in Key, NEW i \in RowsOf(u, k),
           UNCHANGED investment, answered' = answered \cup {<<u, k, i>>}
    PROVE  Promise!Tell(u, k)
<1>1. Made[<<u, k>>] = i
  BY RowOfPair DEF PromiseInv
<1>2. i # None
  BY FundingAssumption DEF RowsOf
<1>3. Made' = Made
  BY SameMade, UnchangedRows
<1>4. QED
  BY <1>1, <1>2, <1>3 DEF Promise!Tell, Made

\* A commit makes the commitment of its pair, with a row no other pair has.
LEMMA MakeMaps ==
    ASSUME PromiseInv, PromiseInv', NEW r \in Request, NEW i \in Row,
           CommitInvest(r, i) \/ CommitDealInvest(r, i)
    PROVE  \E u \in Investor, k \in Key : Promise!Make(u, k, i)
<1>0. /\ TypeInv /\ ~Exists(i) /\ InsertInvestment(req[r], i)
      /\ RowsOf(req[r].investor, req[r].key) = {}
      /\ req[r].op \in {"invest", "dealInvest"} /\ req[r].pc = "commit"
  BY DEF PromiseInv, CommitInvest, CommitDealInvest, KeyTaken
<1>1. PICK u \in Investor, k \in Key : u = req[r].investor /\ k = req[r].key
  BY <1>0 DEF TypeInv, JobsReady, InvestJobReady
<1>2. RowsOf(u, k) = {}
  BY <1>0, <1>1
<1>3. \A v \in Investor, l \in Key :
        RowsOf(v, l)' = IF v = u /\ l = k THEN {i} ELSE RowsOf(v, l)
  BY <1>0, <1>1, <1>2, CommitRows
<1>4. Made[<<u, k>>] = None
  BY <1>2, RowOfNone
<1>5. ASSUME NEW p \in Pair
      PROVE  Made[p] # i
  <2>1. PICK v \in Investor, l \in Key : p = <<v, l>>
    BY DEF Pair
  <2>2. CASE RowsOf(v, l) = {}
    BY <2>1, <2>2, RowOfNone, FundingAssumption
  <2>3. CASE RowsOf(v, l) # {}
    <3>1. PICK j \in RowsOf(v, l) : TRUE
      BY <2>3
    <3>2. Made[p] = j
      BY <2>1, <3>1, RowOfPair DEF PromiseInv
    <3>3. QED
      BY <1>0, <3>1, <3>2 DEF RowsOf
  <2>4. QED
    BY <2>2, <2>3
<1>6. Made' = [Made EXCEPT ![<<u, k>>] = i]
  <2>1. ASSUME NEW p \in Pair
        PROVE  RowOf(p)' = IF p = <<u, k>> THEN i ELSE RowOf(p)
    <3>1. RowsOf(p[1], p[2])' = IF p = <<u, k>> THEN {i} ELSE RowsOf(p[1], p[2])
      BY <1>3 DEF Pair
    <3>2. CASE p = <<u, k>>
      <4>1. RowsOf(p[1], p[2])' = {i}
        BY <3>1, <3>2
      <4>2. (CHOOSE j \in {i} : TRUE) = i
        OBVIOUS
      <4>3. RowOf(p)' = i
        BY <4>1, <4>2 DEF RowOf
      <4>4. QED
        BY <3>2, <4>3
    <3>3. CASE p # <<u, k>>
      <4>1. RowsOf(p[1], p[2])' = RowsOf(p[1], p[2])
        BY <3>1, <3>3
      <4>2. RowOf(p)' = RowOf(p)
        BY <4>1 DEF RowOf
      <4>3. QED
        BY <3>3, <4>2
    <3>4. QED
      BY <3>2, <3>3
  <2>2. QED
    BY <2>1 DEF Made
<1>7. answered' \in {answered, answered \cup {<<u, k, i>>}}
  BY <1>1 DEF CommitInvest, CommitDealInvest, Answer
<1>8. QED
  BY <1>4, <1>5, <1>6, <1>7 DEF Promise!Make, Promise!Pair, Made, Pair

LEMMA PromiseStepMaps ==
    PromiseInv /\ PromiseInv' /\ [Next]_vars => [Promise!Next]_<<Made, answered>>
<1> SUFFICES ASSUME PromiseInv, PromiseInv', [Next]_vars
             PROVE  Promise!Next \/ UNCHANGED <<Made, answered>>
  OBVIOUS
<1> TypeInv
  BY DEF PromiseInv
<1>1. CASE Quiet
  BY <1>1, SameMade DEF Quiet
<1>2. ASSUME NEW u \in Investor, NEW k \in Key, AnswerFromCache(u, k)
      PROVE  Promise!Next
  <2>1. idem[<<u, k>>] \in RowsOf(u, k)
    BY <1>2 DEF AnswerFromCache, PromiseInv, IdemBacked
  <2>2. Promise!Tell(u, k)
    BY <1>2, <2>1, TellMaps DEF AnswerFromCache, Answer, tables
  <2>3. QED
    BY <2>2 DEF Promise!Next
<1>3. ASSUME NEW u \in Investor, NEW k \in Key, ForgetAnswer(u, k)
      PROVE  UNCHANGED <<Made, answered>>
  BY <1>3, SameMade, UnchangedRows DEF ForgetAnswer, tables
<1>4. ASSUME NEW r \in Request, AnswerExisting(r) \/ CacheAnswer(r)
      PROVE  Promise!Next
  <2>1. PICK u \in Investor, k \in Key : u = req[r].investor /\ k = req[r].key
    BY <1>4 DEF AnswerExisting, CacheAnswer, TypeInv, JobsReady, InvestJobReady
  <2>2. PICK i \in RowsOf(u, k) : answered' = answered \cup {<<u, k, i>>}
    BY <1>4, <2>1
       DEF AnswerExisting, CacheAnswer, Answer, Caching, PromiseInv, CachersBacked
  <2>3. Promise!Tell(u, k)
    BY <1>4, <2>2, TellMaps DEF AnswerExisting, CacheAnswer, tables
  <2>4. QED
    BY <2>3 DEF Promise!Next
<1>5. ASSUME NEW r \in Request, NEW i \in Row, CommitInvest(r, i) \/ CommitDealInvest(r, i)
      PROVE  Promise!Next
  BY <1>5, MakeMaps DEF Promise!Next
<1>6. QED
  BY <1>1, <1>2, <1>3, <1>4, <1>5, StepKinds

\* The endpoints, Redis and the unique constraint together implement the promise
\* about idempotency keys: one commitment per key, never replaced, and repeated
\* by every later answer.
THEOREM Refinement == Spec => KeepsPromise
<1>1. Init => Promise!Init
  BY PromiseInitMaps
<1>2. PromiseInv /\ PromiseInv' /\ [Next]_vars => [Promise!Next]_<<Made, answered>>
  BY PromiseStepMaps
<1>3. QED
  BY <1>1, <1>2, PromiseHolds, PTL DEF Spec, KeepsPromise, Promise!Spec, Made

(***************************************************************************)
(* Sums over finite sets: they exist, an element can be taken out of them  *)
(* in any order, and only the values on the set matter.                    *)
(***************************************************************************)

\* The library sums a set along a choice of its elements.
Chosen(S) == CHOOSE x \in S : TRUE
Sums(f, S, g) ==
    g = [T \in SUBSET S |-> IF T = {} THEN 0 ELSE f[Chosen(T)] + g[T \ {Chosen(T)}]]

LEMMA TotalIsOfSums ==
    ASSUME NEW f, NEW S, NEW g, Sums(f, S, g)
    PROVE  \E h : Sums(f, S, h) /\ Total(f, S) = h[S]
BY DEF Total, MapThenSumSet, MapThenFoldSet, Sums, Chosen

LEMMA ChosenIn == ASSUME NEW S, S # {} PROVE Chosen(S) \in S
BY DEF Chosen

\* In a finite set, a nonempty collection of subsets has a smallest one.
LEMMA SmallestSubset ==
    ASSUME NEW S, IsFiniteSet(S), NEW Bad, Bad \subseteq SUBSET S, Bad # {}
    PROVE  \E T \in Bad : \A R \in Bad : ~(R \subseteq T /\ R # T)
<1>1. IsWellFoundedOn(StrictSubsetOrdering(S), SUBSET S)
  BY FS_StrictSubsetOrderingWellFounded, FS_FiniteSubsetsOfFinite
<1>2. PICK T \in Bad : \A R \in Bad : ~(<<R, T>> \in StrictSubsetOrdering(S))
  BY <1>1, WFMin
<1>3. ASSUME NEW R \in Bad, R \subseteq T, R # T
      PROVE  FALSE
  BY <1>2, <1>3 DEF StrictSubsetOrdering
<1> QED
  BY <1>2, <1>3

LEMMA SumsAreOne ==
    ASSUME NEW f, NEW S, IsFiniteSet(S), NEW g, NEW h, Sums(f, S, g), Sums(f, S, h)
    PROVE  \A T \in SUBSET S : g[T] = h[T]
<1>1. PICK Bad : Bad = {T \in SUBSET S : g[T] # h[T]}
  OBVIOUS
<1>2. SUFFICES ASSUME Bad # {}
               PROVE  FALSE
  BY <1>1
<1>s. Bad \subseteq SUBSET S
  BY <1>1
<1>3. PICK T \in Bad : \A R \in Bad : ~(R \subseteq T /\ R # T)
  BY <1>s, <1>2, SmallestSubset
<1>4. T \in SUBSET S /\ g[T] # h[T]
  BY <1>1, <1>3
<1>5. T # {}
  BY <1>4 DEF Sums
<1>6. Chosen(T) \in T
  BY <1>5, ChosenIn
<1>7. g[T \ {Chosen(T)}] = h[T \ {Chosen(T)}]
  BY <1>1, <1>3, <1>4, <1>6
<1>8. g[T] = f[Chosen(T)] + g[T \ {Chosen(T)}] /\ h[T] = f[Chosen(T)] + h[T \ {Chosen(T)}]
  BY <1>4, <1>5 DEF Sums
<1> QED
  BY <1>4, <1>7, <1>8

\* A smaller set is summed the same way on its own.
LEMMA SumsOfSubset ==
    ASSUME NEW f, NEW S, NEW h, Sums(f, S, h), NEW T \in SUBSET S,
           NEW g, g = [R \in SUBSET T |-> h[R]]
    PROVE  Sums(f, T, g)
<1>1. ASSUME NEW R \in SUBSET T
      PROVE  g[R] = IF R = {} THEN 0 ELSE f[Chosen(R)] + g[R \ {Chosen(R)}]
  BY <1>1 DEF Sums
<1> QED
  BY <1>1 DEF Sums

\* Every finite set has a sum.
LEMMA SumsExist ==
    ASSUME NEW f, NEW S, IsFiniteSet(S)
    PROVE  \E g : Sums(f, S, g)
<1>1. PICK Bad : Bad = {T \in SUBSET S : ~\E g : Sums(f, T, g)}
  OBVIOUS
<1>2. SUFFICES ASSUME Bad # {}
               PROVE  FALSE
  BY <1>1
<1>s. Bad \subseteq SUBSET S
  BY <1>1
<1>3. PICK T \in Bad : \A R \in Bad : ~(R \subseteq T /\ R # T)
  BY <1>s, <1>2, SmallestSubset
<1>4. T \in SUBSET S /\ ~\E g : Sums(f, T, g)
  BY <1>1, <1>3
<1>5. IsFiniteSet(T)
  BY <1>4, FS_Subset
<1> DEFINE At(R) == CHOOSE g : Sums(f, R, g)
<1>6. ASSUME NEW R \in SUBSET T, R # T
      PROVE  Sums(f, R, At(R)) /\ IsFiniteSet(R)
  BY <1>1, <1>3, <1>4, <1>5, <1>6, FS_Subset
<1> DEFINE val(R) == IF R # T THEN At(R)[R]
                     ELSE IF T = {} THEN 0 ELSE f[Chosen(T)] + At(T \ {Chosen(T)})[T \ {Chosen(T)}]
<1>7. PICK g : g = [R \in SUBSET T |-> val(R)]
  OBVIOUS
<1> HIDE DEF At
<1>8. ASSUME NEW R \in SUBSET T
      PROVE  g[R] = IF R = {} THEN 0 ELSE f[Chosen(R)] + g[R \ {Chosen(R)}]
  <2>1. CASE R = T
    <3>1. CASE T = {}
      BY <1>7, <2>1, <3>1
    <3>2. CASE T # {}
      <4>1. T \ {Chosen(T)} # T /\ T \ {Chosen(T)} \in SUBSET T
        BY <3>2, ChosenIn
      <4> QED
        BY <1>7, <2>1, <3>2, <4>1
    <3> QED
      BY <3>1, <3>2
  <2>2. CASE R # T
    <3>1. Sums(f, R, At(R)) /\ IsFiniteSet(R) /\ g[R] = At(R)[R]
      BY <1>6, <1>7, <2>2
    <3>2. CASE R = {}
      BY <3>1, <3>2 DEF Sums
    <3>3. CASE R # {}
      <4>1. PICK Q : Q = R \ {Chosen(R)}
        OBVIOUS
      <4>2. Q \in SUBSET R /\ Q # R /\ Q \in SUBSET T /\ Q # T
        BY <3>3, <4>1, ChosenIn
      <4>3. At(R)[R] = f[Chosen(R)] + At(R)[Q]
        BY <3>1, <3>3, <4>1 DEF Sums
      <4>4. Sums(f, Q, At(Q)) /\ IsFiniteSet(Q) /\ g[Q] = At(Q)[Q]
        BY <1>6, <1>7, <4>2
      <4>5. At(R)[Q] = At(Q)[Q]
        <5>1. PICK k : k = [P \in SUBSET Q |-> At(R)[P]]
          OBVIOUS
        <5>2. Sums(f, Q, k)
          BY <3>1, <4>2, <5>1, SumsOfSubset
        <5>3. k[Q] = At(Q)[Q]
          BY <4>4, <5>2, SumsAreOne
        <5> QED
          BY <5>1, <5>3
      <4> QED
        BY <3>1, <3>3, <4>1, <4>3, <4>4, <4>5
    <3> QED
      BY <3>2, <3>3
  <2> QED
    BY <2>1, <2>2
<1>9. Sums(f, T, g)
  BY <1>7, <1>8 DEF Sums
<1> QED
  BY <1>4, <1>9

\* What a sum is, one element at a time.
LEMMA TotalStep ==
    ASSUME NEW f, NEW S, IsFiniteSet(S)
    PROVE  /\ S = {} => Total(f, S) = 0
           /\ S # {} => Total(f, S) = f[Chosen(S)] + Total(f, S \ {Chosen(S)})
<1>1. PICK h : Sums(f, S, h) /\ Total(f, S) = h[S]
  BY SumsExist, TotalIsOfSums
<1>2. CASE S = {}
  BY <1>1, <1>2 DEF Sums
<1>3. CASE S # {}
  <2>1. PICK T : T = S \ {Chosen(S)}
    OBVIOUS
  <2>2. T \in SUBSET S /\ IsFiniteSet(T)
    BY <2>1, FS_Subset
  <2>3. PICK k : Sums(f, T, k) /\ Total(f, T) = k[T]
    BY <2>2, SumsExist, TotalIsOfSums
  <2>4. PICK g : g = [R \in SUBSET T |-> h[R]]
    OBVIOUS
  <2>5. Sums(f, T, g)
    BY <1>1, <2>2, <2>4, SumsOfSubset
  <2>6. g[T] = k[T] /\ g[T] = h[T]
    BY <2>2, <2>3, <2>4, <2>5, SumsAreOne
  <2>7. h[S] = f[Chosen(S)] + h[T]
    BY <1>1, <1>3, <2>1 DEF Sums
  <2> QED
    BY <1>1, <1>3, <2>1, <2>3, <2>6, <2>7
<1> QED
  BY <1>2, <1>3

LEMMA TotalIsInt ==
    ASSUME NEW f, NEW S, IsFiniteSet(S), \A x \in S : f[x] \in Int
    PROVE  Total(f, S) \in Int
<1>1. PICK Bad : Bad = {T \in SUBSET S : Total(f, T) \notin Int}
  OBVIOUS
<1>2. SUFFICES ASSUME Bad # {}
               PROVE  FALSE
  BY <1>1
<1>s. Bad \subseteq SUBSET S
  BY <1>1
<1>3. PICK T \in Bad : \A R \in Bad : ~(R \subseteq T /\ R # T)
  BY <1>s, <1>2, SmallestSubset
<1>4. T \in SUBSET S /\ Total(f, T) \notin Int /\ IsFiniteSet(T)
  BY <1>1, <1>3, FS_Subset
<1>5. T # {}
  BY <1>4, TotalStep
<1>6. Chosen(T) \in T
  BY <1>5, ChosenIn
<1>7. Total(f, T \ {Chosen(T)}) \in Int
  BY <1>1, <1>3, <1>4, <1>6
<1> QED
  BY <1>4, <1>5, <1>6, <1>7, TotalStep

\* The order does not matter: any element may be taken out first.
LEMMA TotalTakesOut ==
    ASSUME NEW f, NEW S, IsFiniteSet(S), \A x \in S : f[x] \in Int, NEW y \in S
    PROVE  Total(f, S) = f[y] + Total(f, S \ {y})
<1>1. PICK Bad : Bad = {T \in SUBSET S : ~\A x \in T : Total(f, T) = f[x] + Total(f, T \ {x})}
  OBVIOUS
<1>2. SUFFICES ASSUME Bad # {}
               PROVE  FALSE
  BY <1>1
<1>s. Bad \subseteq SUBSET S
  BY <1>1
<1>3. PICK T \in Bad : \A R \in Bad : ~(R \subseteq T /\ R # T)
  BY <1>s, <1>2, SmallestSubset
<1>4. PICK x \in T : Total(f, T) # f[x] + Total(f, T \ {x})
  BY <1>1, <1>3
<1>5. T \in SUBSET S /\ IsFiniteSet(T)
  BY <1>1, <1>3, FS_Subset
<1>6. PICK c \in T : c = Chosen(T)
  BY ChosenIn
<1>7. Total(f, T) = f[c] + Total(f, T \ {c})
  BY <1>5, <1>6, TotalStep
<1>8. x # c
  BY <1>4, <1>7
<1>9. Total(f, T \ {c}) = f[x] + Total(f, (T \ {c}) \ {x})
  BY <1>1, <1>3, <1>5, <1>8
<1>10. Total(f, T \ {x}) = f[c] + Total(f, (T \ {x}) \ {c})
  BY <1>1, <1>3, <1>5, <1>8
<1>11. (T \ {x}) \ {c} = (T \ {c}) \ {x}
  OBVIOUS
<1>12. PICK R : R = (T \ {c}) \ {x}
  OBVIOUS
<1>13. R \subseteq T /\ R \subseteq S /\ IsFiniteSet(R)
  <2>1. R \subseteq T /\ R \subseteq S
    BY <1>5, <1>12
  <2> QED
    BY <1>5, <2>1, FS_Subset
<1>14. PICK t : t = Total(f, R)
  OBVIOUS
<1>15. t \in Int /\ f[c] \in Int /\ f[x] \in Int
  BY <1>5, <1>13, <1>14, TotalIsInt
<1>16. Total(f, T \ {c}) = f[x] + t
  BY <1>9, <1>12, <1>14
<1>17. Total(f, T \ {x}) = f[c] + t
  BY <1>10, <1>11, <1>12, <1>14
<1>18. Total(f, T) = f[c] + (f[x] + t) /\ Total(f, T) # f[x] + (f[c] + t)
  BY <1>4, <1>7, <1>16, <1>17
<1> QED
  BY <1>15, <1>18

LEMMA TotalAdds ==
    ASSUME NEW f, NEW S, IsFiniteSet(S), NEW y, y \notin S, \A x \in S \cup {y} : f[x] \in Int
    PROVE  Total(f, S \cup {y}) = f[y] + Total(f, S)
<1>1. IsFiniteSet(S \cup {y}) /\ (S \cup {y}) \ {y} = S
  BY FS_AddElement
<1> QED
  BY <1>1, TotalTakesOut

LEMMA TotalSame ==
    ASSUME NEW f, NEW g, NEW S, IsFiniteSet(S), \A x \in S : f[x] = g[x]
    PROVE  Total(f, S) = Total(g, S)
<1>1. PICK Bad : Bad = {T \in SUBSET S : Total(f, T) # Total(g, T)}
  OBVIOUS
<1>2. SUFFICES ASSUME Bad # {}
               PROVE  FALSE
  BY <1>1
<1>s. Bad \subseteq SUBSET S
  BY <1>1
<1>3. PICK T \in Bad : \A R \in Bad : ~(R \subseteq T /\ R # T)
  BY <1>s, <1>2, SmallestSubset
<1>4. T \in SUBSET S /\ Total(f, T) # Total(g, T) /\ IsFiniteSet(T)
  BY <1>1, <1>3, FS_Subset
<1>5. T # {}
  BY <1>4, TotalStep
<1>6. Chosen(T) \in T
  BY <1>5, ChosenIn
<1>7. Total(f, T \ {Chosen(T)}) = Total(g, T \ {Chosen(T)})
  BY <1>1, <1>3, <1>4, <1>6
<1> QED
  BY <1>4, <1>5, <1>6, <1>7, TotalStep

(***************************************************************************)
(* The books: what a project has raised, what its escrow account was       *)
(* credited, what was refunded, and what the outbox tells of it.           *)
(***************************************************************************)

\* An id without a row has no refund and no ledger entry, and both tables are
\* finite: what a step adds to a sum was not in it.
NewRowsAreBlank ==
    \A i \in Row : ~Exists(i) => refund[i] = 0 /\ \A e \in ledgerEntry : e.of # i
Stored == {i \in Row : Exists(i)}

BooksInv ==
    /\ TypeInv /\ NewRowsAreBlank /\ IsFiniteSet(ledgerEntry) /\ IsFiniteSet(Stored)
    /\ OutboxMatchesTables /\ FundingConservation

\* What a step leaves of the books.
RowsKept ==
    \A i \in Row :
        /\ Exists(i)' <=> Exists(i)
        /\ investment'[i].project = investment[i].project
        /\ investment'[i].amount = investment[i].amount
RaisedKept == \A p \in Project : project'[p].raised = project[p].raised
EventsKept ==
    \A i \in Row :
        /\ <<"investment.created", i>> \in outboxEvent' <=>
             <<"investment.created", i>> \in outboxEvent
        /\ <<"investment.cancelled", i>> \in outboxEvent' <=>
             <<"investment.cancelled", i>> \in outboxEvent
BooksKept == RowsKept /\ RaisedKept /\ EventsKept /\ UNCHANGED <<refund, ledgerEntry>>

LEMMA SameRowsKept == ASSUME UNCHANGED investment PROVE RowsKept
BY DEF RowsKept, Exists

LEMMA StatusRowsKept ==
    ASSUME TypeInv, NEW i \in Row, Exists(i), NEW s \in InvestmentStatus, SetStatus(i, s)
    PROVE  RowsKept
<1>1. \A j \in Row : investment'[j] = IF j = i THEN WithStatus(investment[i], s) ELSE investment[j]
  BY DEF SetStatus, TypeInv, TypeOK
<1>2. investment[i] \in Investment
  BY DEF TypeInv, TypeOK
<1>3. /\ WithStatus(investment[i], s).status = s
      /\ WithStatus(investment[i], s).project = investment[i].project
      /\ WithStatus(investment[i], s).amount = investment[i].amount
  BY <1>2 DEF WithStatus, Investment
<1>4. s # "ABSENT"
  BY DEF InvestmentStatus
<1>5. QED
  BY <1>1, <1>3, <1>4 DEF RowsKept, Exists

LEMMA EventKept ==
    ASSUME NEW x, NEW topic, topic # "investment.created", topic # "investment.cancelled",
           outboxEvent' = outboxEvent \cup {<<topic, x>>}
    PROVE  EventsKept
BY DEF EventsKept

LEMMA TablesBooks == ASSUME UNCHANGED tables PROVE BooksKept
BY SameRowsKept DEF tables, BooksKept, RaisedKept, EventsKept

\* The steps of the handlers that leave the books alone.
LEMMA HandlerBooks ==
    ASSUME TypeInv, NEW r \in Request,
           \/ CommitCompliance(r) \/ CommitPublish(r)
           \/ ConfirmTransaction(r) \/ ConfirmEvent(r) \/ ConfirmLedgerEvent(r)
           \/ \E i \in Row : ConfirmRow(r, i)
    PROVE  BooksKept
<1>2. CASE CommitCompliance(r)
  <2>1. req[r].row \in Row /\ Exists(req[r].row)
    BY <1>2 DEF CommitCompliance, TypeInv, JobsReady, RowJobReady
  <2>2. PICK s \in InvestmentStatus : SetStatus(req[r].row, s)
    BY <1>2 DEF CommitCompliance, InvestmentStatus
  <2>3. RowsKept
    BY <2>1, <2>2, StatusRowsKept
  <2>4. EventsKept
    BY <1>2, EventKept DEF CommitCompliance
  <2>5. QED
    BY <1>2, <2>3, <2>4 DEF CommitCompliance, BooksKept, RaisedKept
<1>3. CASE CommitPublish(r)
  <2>1. RowsKept /\ EventsKept /\ UNCHANGED <<refund, ledgerEntry>>
    BY <1>3, SameRowsKept, EventKept DEF CommitPublish
  <2>2. RaisedKept
    BY <1>3 DEF CommitPublish, RaisedKept, TypeInv, TypeOK
  <2>3. QED
    BY <2>1, <2>2 DEF BooksKept
<1>4. CASE ConfirmTransaction(r)
  BY <1>4, SameRowsKept DEF ConfirmTransaction, BooksKept, RaisedKept, EventsKept
<1>5. CASE ConfirmEvent(r)
  BY <1>5, SameRowsKept, EventKept DEF ConfirmEvent, BooksKept, RaisedKept
<1>6. CASE ConfirmLedgerEvent(r)
  BY <1>6, SameRowsKept, EventKept DEF ConfirmLedgerEvent, BooksKept, RaisedKept
<1>7. ASSUME NEW i \in Row, ConfirmRow(r, i)
      PROVE  BooksKept
  <2>1. RowsKept
    BY <1>7, StatusRowsKept DEF ConfirmRow, InvestmentStatus
  <2>2. QED
    BY <1>7, <2>1 DEF ConfirmRow, BooksKept, RaisedKept, EventsKept
<1>8. QED
  BY <1>2, <1>3, <1>4, <1>5, <1>6, <1>7

\* The administrators' steps.
LEMMA AdminBooks ==
    ASSUME TypeInv,
           \/ \E i \in Row, s \in InvestmentStatus : UpdateInvestment(i, s)
           \/ \E i \in Row, s \in TransactionStatus : UpdateTransaction(i, s)
           \/ \E p \in Project : ApproveProject(p) \/ RejectProject(p)
    PROVE  BooksKept
<1>1. ASSUME NEW i \in Row, NEW s \in InvestmentStatus, UpdateInvestment(i, s)
      PROVE  BooksKept
  BY <1>1, StatusRowsKept DEF UpdateInvestment, BooksKept, RaisedKept, EventsKept
<1>2. ASSUME NEW i \in Row, NEW s \in TransactionStatus, UpdateTransaction(i, s)
      PROVE  BooksKept
  BY <1>2, SameRowsKept DEF UpdateTransaction, BooksKept, RaisedKept, EventsKept
<1>3. ASSUME NEW p \in Project, NEW s \in {"ACTIVE", "REJECTED"}, TransitionProject(p, s),
             UNCHANGED refund
      PROVE  BooksKept
  <2>1. PICK topic \in {"project.approved", "project.rejected"} :
          outboxEvent' = outboxEvent \cup {<<topic, p>>}
    BY <1>3 DEF TransitionProject
  <2>2. EventsKept
    BY <2>1, EventKept
  <2>3. RaisedKept
    BY <1>3 DEF TransitionProject, RaisedKept, TypeInv, TypeOK
  <2>4. QED
    BY <1>3, <2>2, <2>3, SameRowsKept DEF TransitionProject, BooksKept
<1>4. QED
  BY <1>1, <1>2, <1>3 DEF ApproveProject, RejectProject, TransitionProject

\* Every step leaves the books alone, inserts an investment or cancels one.
LEMMA BookSteps ==
    ASSUME TypeInv, [Next]_vars
    PROVE  \/ BooksKept
           \/ \E r \in Request, i \in Row :
                /\ ~Exists(i)
                /\ req[r].op \in {"invest", "dealInvest"} /\ req[r].pc = "commit"
                /\ InsertInvestment(req[r], i)
           \/ \E r \in Request : CommitCancel(r)
<1>2. CASE UNCHANGED vars
  BY <1>2, TablesBooks DEF vars
<1>3. ASSUME NEW r \in Request, LaterStep(r)
      PROVE  BooksKept \/ CommitCancel(r)
  <2>1. CASE UNCHANGED tables
    BY <2>1, TablesBooks
  <2>2. QED
    BY <1>3, <2>1, HandlerBooks DEF LaterStep, BeginCancel, BeginCompliance, BeginPublish
<1>4. ASSUME NEW r \in Request, InvestStep(r)
      PROVE  \/ BooksKept
             \/ \E i \in Row :
                  /\ ~Exists(i)
                  /\ req[r].op \in {"invest", "dealInvest"} /\ req[r].pc = "commit"
                  /\ InsertInvestment(req[r], i)
  <2>1. CASE \E i \in Row : CommitInvest(r, i) \/ CommitDealInvest(r, i)
    BY <2>1 DEF CommitInvest, CommitDealInvest
  <2>2. CASE UNCHANGED tables
    BY <2>2, TablesBooks
  <2>3. QED
    BY <1>4, <2>1, <2>2 DEF InvestStep, BeginInvest, BeginDealInvest, AnswerExisting,
       MissExisting, ReadProject, CheckDeal, CheckCap, Conflict, CacheAnswer
<1>5. CASE \/ \E r \in Request : Fail(r)
           \/ \E u \in Investor, k \in Key : AnswerFromCache(u, k) \/ ForgetAnswer(u, k)
  BY <1>5, TablesBooks DEF Fail, AnswerFromCache, ForgetAnswer
<1>6. ASSUME \/ \E i \in Row, s \in InvestmentStatus : UpdateInvestment(i, s)
             \/ \E i \in Row, s \in {"COMPLETED", "PENDING", "FLAGGED", "CANCELLED"} :
                  UpdateTransaction(i, s)
             \/ \E p \in Project : ApproveProject(p) \/ RejectProject(p)
      PROVE  BooksKept
  BY <1>6, AdminBooks DEF TransactionStatus
<1>7. QED
  BY <1>2, <1>3, <1>4, <1>5, <1>6 DEF Next

LEMMA BooksInit == Init => BooksInv
<1> SUFFICES ASSUME Init
             PROVE  BooksInv
  OBVIOUS
<1>1. TypeInv
  BY InitType
<1>2. Stored = {} /\ ledgerEntry = {} /\ outboxEvent = {}
  BY DEF Init, Stored, Exists, Absent
<1>3. IsFiniteSet({})
  BY FS_EmptySet
<1>4. NewRowsAreBlank /\ OutboxMatchesTables
  BY <1>2 DEF Init, NewRowsAreBlank, OutboxMatchesTables, Stored
<1>5. ASSUME NEW p \in Project
      PROVE  project[p].raised = EscrowOf(p) - RefundedOf(p)
  <2>1. PICK e : e = [x \in ledgerEntry |-> x.amount]
    OBVIOUS
  <2>2. PICK f : f = [i \in Row |-> refund[i] * investment[i].amount]
    OBVIOUS
  <2>3. /\ {x \in ledgerEntry : x.dir = "CREDIT" /\ x.owner = p} = {}
        /\ {i \in Row : Exists(i) /\ investment[i].project = p} = {}
    BY <1>2 DEF Stored
  <2>4. EscrowOf(p) = 0
    BY <1>3, <2>1, <2>3, TotalStep DEF EscrowOf
  <2>5. RefundedOf(p) = 0
    BY <1>3, <2>2, <2>3, TotalStep DEF RefundedOf
  <2>6. project[p].raised = 0
    BY DEF Init
  <2>7. QED
    BY <2>4, <2>5, <2>6
<1>6. QED
  BY <1>1, <1>2, <1>3, <1>4, <1>5 DEF BooksInv, FundingConservation

\* The sums the conservation law speaks of, their sets named.
Credits(p) == {e \in ledgerEntry : e.dir = "CREDIT" /\ e.owner = p}
Invested(p) == {i \in Row : Exists(i) /\ investment[i].project = p}
Figure == [e \in ledgerEntry |-> e.amount]
RefundOf == [i \in Row |-> refund[i] * investment[i].amount]

LEMMA SumsNamed ==
    ASSUME NEW p
    PROVE  EscrowOf(p) = Total(Figure, Credits(p)) /\ RefundedOf(p) = Total(RefundOf, Invested(p))
BY DEF EscrowOf, RefundedOf, Credits, Invested, Figure, RefundOf

LEMMA AmountsAreNat == \A a \in Amount \cup {0} : a \in Nat
BY FundingAssumption

\* Both sums are of finite sets of integers.
LEMMA SumsAreInt ==
    ASSUME BooksInv, NEW p \in Project
    PROVE  /\ IsFiniteSet(Credits(p)) /\ IsFiniteSet(Invested(p))
           /\ \A e \in Credits(p) : Figure[e] \in Int
           /\ \A i \in Row : RefundOf[i] \in Int
           /\ EscrowOf(p) \in Int /\ RefundedOf(p) \in Int
<1>1. Credits(p) \subseteq ledgerEntry /\ Invested(p) \subseteq Stored /\ Invested(p) \subseteq Row
  BY DEF Credits, Invested, Stored
<1>2. IsFiniteSet(Credits(p)) /\ IsFiniteSet(Invested(p))
  BY <1>1, FS_Subset DEF BooksInv
<1>3. ASSUME NEW e \in Credits(p)
      PROVE  Figure[e] \in Int
  <2>1. e \in ledgerEntry
    BY <1>1
  <2>2. e.amount \in Amount
    BY <2>1 DEF BooksInv, TypeInv, TypeOK
  <2>3. Figure[e] = e.amount
    BY <2>1 DEF Figure
  <2>4. e.amount \in Nat
    BY <2>2, AmountsAreNat
  <2>5. QED
    BY <2>3, <2>4
<1>4. ASSUME NEW i \in Row
      PROVE  RefundOf[i] \in Int
  <2>1. investment[i] \in Investment /\ refund[i] \in Nat
    BY DEF BooksInv, TypeInv, TypeOK
  <2>2. investment[i].amount \in Nat
    BY <2>1, AmountsAreNat DEF Investment
  <2>3. QED
    BY <2>1, <2>2 DEF RefundOf
<1>5. Total(Figure, Credits(p)) \in Int
  BY <1>2, <1>3, TotalIsInt
<1>6. Total(RefundOf, Invested(p)) \in Int
  BY <1>1, <1>2, <1>4, TotalIsInt
<1>7. QED
  BY <1>2, <1>3, <1>4, <1>5, <1>6, SumsNamed

\* A step that leaves the books alone.
LEMMA KeptBooks ==
    ASSUME BooksInv, TypeInv', BooksKept
    PROVE  BooksInv'
<1>1. NewRowsAreBlank' /\ OutboxMatchesTables'
  BY DEF BooksInv, BooksKept, RowsKept, EventsKept, NewRowsAreBlank, OutboxMatchesTables
<1>2. Stored' = Stored
  BY DEF Stored, BooksKept, RowsKept
<1>3. ASSUME NEW p \in Project
      PROVE  (project[p].raised = EscrowOf(p) - RefundedOf(p))'
  <2>1. EscrowOf(p)' = EscrowOf(p)
    BY DEF EscrowOf, BooksKept
  <2>2. Invested(p)' = Invested(p)
    BY DEF Invested, BooksKept, RowsKept
  <2>3. RefundOf' = RefundOf
    BY DEF RefundOf, BooksKept, RowsKept
  <2>4. RefundedOf(p)' = RefundedOf(p)
    BY <2>2, <2>3 DEF RefundedOf, Invested, RefundOf
  <2>5. QED
    BY <2>1, <2>4 DEF BooksInv, FundingConservation, BooksKept, RaisedKept
<1>4. QED
  BY <1>1, <1>2, <1>3 DEF BooksInv, BooksKept, FundingConservation

\* A new investment: its project raises the amount, its escrow account is
\* credited the same amount, and nothing of it is refunded yet.
LEMMA InsertBooks ==
    ASSUME BooksInv, TypeInv', NEW r \in Request, NEW i \in Row, ~Exists(i),
           req[r].op \in {"invest", "dealInvest"}, req[r].pc = "commit",
           InsertInvestment(req[r], i)
    PROVE  BooksInv'
<1> TypeInv
  BY DEF BooksInv
<1>1. PICK job \in Job : job = req[r]
  BY DEF TypeInv, TypeOK
<1>2. PICK u, q, a :
        /\ u = job.investor /\ u \in Investor
        /\ q = job.project /\ q \in Project
        /\ a = job.amount /\ a \in Amount
  BY <1>1 DEF TypeInv, JobsReady, InvestJobReady
<1>3. a \in Nat
  BY <1>2, FundingAssumption
<1>4. /\ \A j \in Row \ {i} : investment'[j] = investment[j]
      /\ investment'[i].status = "PENDING_COMPLIANCE"
      /\ investment'[i].project = q /\ investment'[i].amount = a
  BY <1>1, <1>2 DEF InsertInvestment, NewInvestment, TypeInv, TypeOK
<1>5. Exists(i)' /\ \A j \in Row \ {i} : Exists(j)' <=> Exists(j)
  BY <1>4 DEF Exists
<1>6. PICK debit, credit :
        /\ debit = [of |-> i, dir |-> "DEBIT", owner |-> u, amount |-> a]
        /\ credit = [of |-> i, dir |-> "CREDIT", owner |-> q, amount |-> a]
  OBVIOUS
<1>7. ledgerEntry' = ledgerEntry \cup {debit, credit} /\ refund' = refund
  BY <1>1, <1>2, <1>6 DEF InsertInvestment, CommitmentLedger
<1>8. \A e \in ledgerEntry : e.of # i
  BY DEF BooksInv, NewRowsAreBlank
<1>9. /\ debit.of = i /\ debit.dir = "DEBIT" /\ credit.of = i /\ credit.dir = "CREDIT"
      /\ credit.owner = q /\ credit.amount = a
  BY <1>6
<1>10. refund[i] = 0
  BY DEF BooksInv, NewRowsAreBlank
<1>11. NewRowsAreBlank'
  BY <1>5, <1>7, <1>9 DEF BooksInv, NewRowsAreBlank
<1>12. IsFiniteSet(ledgerEntry')
  <2>1. IsFiniteSet(ledgerEntry \cup {debit})
    BY FS_AddElement DEF BooksInv
  <2>2. IsFiniteSet((ledgerEntry \cup {debit}) \cup {credit})
    BY <2>1, FS_AddElement
  <2>3. ledgerEntry' = (ledgerEntry \cup {debit}) \cup {credit}
    BY <1>7
  <2>4. QED
    BY <2>2, <2>3
<1>13. IsFiniteSet(Stored')
  <2>1. Stored' = Stored \cup {i}
    BY <1>5 DEF Stored
  <2>2. IsFiniteSet(Stored \cup {i})
    BY FS_AddElement DEF BooksInv
  <2>3. QED
    BY <2>1, <2>2
<1>14. OutboxMatchesTables'
  <2>1. outboxEvent' = outboxEvent \cup CommitEvents(job, i)
    BY <1>1 DEF InsertInvestment
  <2>2. \A j \in Row : /\ <<"investment.created", j>> \in CommitEvents(job, i) <=> j = i
                       /\ <<"investment.cancelled", j>> \notin CommitEvents(job, i)
    BY DEF CommitEvents
  <2>3. QED
    BY <1>5, <1>7, <2>1, <2>2 DEF BooksInv, OutboxMatchesTables
<1>15. \A p \in Project :
         project'[p].raised = IF p = q THEN project[q].raised + a ELSE project[p].raised
  BY <1>1, <1>2 DEF InsertInvestment, RaisedAfter, TypeInv, TypeOK
<1>16. ASSUME NEW p \in Project
       PROVE  RefundedOf(p)' = RefundedOf(p)
  <2>1. IsFiniteSet(Invested(p)) /\ \A j \in Row : RefundOf[j] \in Int
    BY SumsAreInt
  <2>2. PICK S, f, g : S = Invested(p) /\ f = RefundOf /\ g = RefundOf'
    OBVIOUS
  <2>3. i \notin S /\ S \subseteq Row
    BY <2>2 DEF Invested
  <2>4. \A j \in S : f[j] = g[j]
    BY <1>4, <1>7, <2>2, <2>3 DEF RefundOf
  <2>5. g[i] = 0
    BY <1>4, <1>3, <1>7, <1>10, <2>2 DEF RefundOf
  <2>6. Total(f, S) = Total(g, S)
    BY <2>1, <2>2, <2>4, TotalSame
  <2>7. CASE p = q
    <3>1. Invested(p)' = S \cup {i}
      BY <1>4, <1>5, <2>2, <2>7 DEF Invested
    <3>2. \A j \in S \cup {i} : g[j] \in Int
      BY <2>1, <2>2, <2>3, <2>4, <2>5
    <3>3. Total(g, S \cup {i}) = g[i] + Total(g, S)
      BY <2>1, <2>2, <2>3, <3>2, TotalAdds
    <3>4. Total(g, S) \in Int
      BY <2>1, <2>2, <3>2, TotalIsInt
    <3>5. Total(g, S \cup {i}) = Total(f, S)
      BY <2>5, <2>6, <3>3, <3>4
    <3>6. QED
      BY <2>2, <3>1, <3>5 DEF RefundedOf, Invested, RefundOf
  <2>8. CASE p # q
    <3>1. Invested(p)' = S
      BY <1>4, <1>5, <2>2, <2>8 DEF Invested
    <3>2. QED
      BY <2>2, <2>6, <3>1 DEF RefundedOf, Invested, RefundOf
  <2>9. QED
    BY <2>7, <2>8
<1>17. ASSUME NEW p \in Project
       PROVE  EscrowOf(p)' = IF p = q THEN a + EscrowOf(p) ELSE EscrowOf(p)
  <2>1. IsFiniteSet(Credits(p)) /\ \A e \in Credits(p) : Figure[e] \in Int
    BY SumsAreInt
  <2>2. PICK S, f, g : S = Credits(p) /\ f = Figure /\ g = Figure'
    OBVIOUS
  <2>3. credit \notin S /\ S \subseteq ledgerEntry
    BY <1>8, <1>9, <2>2 DEF Credits
  <2>4. \A e \in S : f[e] = g[e]
    BY <1>7, <2>2, <2>3 DEF Figure
  <2>5. g[credit] = a
    BY <1>7, <1>9, <2>2 DEF Figure
  <2>6. Total(f, S) = Total(g, S)
    BY <2>1, <2>2, <2>4, TotalSame
  <2>7. CASE p = q
    <3>1. Credits(p)' = S \cup {credit}
      BY <1>7, <1>9, <2>2, <2>7 DEF Credits
    <3>2. \A e \in S \cup {credit} : g[e] \in Int
      BY <1>3, <2>1, <2>2, <2>4, <2>5
    <3>3. Total(g, S \cup {credit}) = g[credit] + Total(g, S)
      BY <2>1, <2>2, <2>3, <3>2, TotalAdds
    <3>4. Total(g, S \cup {credit}) = a + Total(f, S)
      BY <2>5, <2>6, <3>3
    <3>5. QED
      BY <2>2, <2>7, <3>1, <3>4 DEF EscrowOf, Credits, Figure
  <2>8. CASE p # q
    <3>1. Credits(p)' = S
      BY <1>7, <1>9, <2>2, <2>8 DEF Credits
    <3>2. QED
      BY <2>2, <2>6, <2>8, <3>1 DEF EscrowOf, Credits, Figure
  <2>9. QED
    BY <2>7, <2>8
<1>18. ASSUME NEW p \in Project
       PROVE  (project[p].raised = EscrowOf(p) - RefundedOf(p))'
  <2>1. project[p].raised = EscrowOf(p) - RefundedOf(p)
    BY DEF BooksInv, FundingConservation
  <2>2. EscrowOf(p) \in Int /\ RefundedOf(p) \in Int
    BY SumsAreInt
  <2>3. QED
    BY <1>3, <1>15, <1>16, <1>17, <2>1, <2>2
<1>19. QED
  BY <1>11, <1>12, <1>13, <1>14, <1>18 DEF BooksInv, FundingConservation

LEMMA Distributes == \A m, n \in Nat : (n + 1) * m = n * m + m
OBVIOUS

\* A cancellation: one more refund of the investment, and its project raises that
\* much less.
LEMMA CancelBooks ==
    ASSUME BooksInv, TypeInv', NEW r \in Request, CommitCancel(r)
    PROVE  BooksInv'
<1> TypeInv
  BY DEF BooksInv
<1>1. PICK i \in Row : i = req[r].row /\ Exists(i)
  BY DEF CommitCancel, TypeInv, JobsReady, RowJobReady
<1>2. PICK q, a : /\ q = investment[i].project /\ q \in Project
                 /\ a = investment[i].amount /\ a \in Nat
  BY <1>1, FundingAssumption DEF TypeInv, TypeOK, RowsReady, Investment
<1>3. RowsKept
  <2>1. SetStatus(i, "CANCELLED") /\ "CANCELLED" \in InvestmentStatus
    BY <1>1 DEF CommitCancel, InvestmentStatus
  <2>2. QED
    BY <1>1, <2>1, StatusRowsKept
<1>4. /\ refund' = [refund EXCEPT ![i] = refund[i] + 1]
      /\ project' = [project EXCEPT ![q].raised = project[q].raised - a]
      /\ outboxEvent' = outboxEvent \cup {<<"investment.cancelled", i>>}
      /\ ledgerEntry' = ledgerEntry
  BY <1>1, <1>2 DEF CommitCancel
<1>5. refund \in [Row -> Nat]
  BY DEF TypeInv, TypeOK
<1>6. refund'[i] = refund[i] + 1 /\ \A j \in Row \ {i} : refund'[j] = refund[j]
  BY <1>4, <1>5
<1>7. NewRowsAreBlank'
  BY <1>1, <1>3, <1>4, <1>6 DEF BooksInv, NewRowsAreBlank, RowsKept
<1>8. Stored' = Stored
  BY <1>3 DEF Stored, RowsKept
<1>9. OutboxMatchesTables'
  <2>1. ASSUME NEW j \in Row
        PROVE  /\ <<"investment.created", j>> \in outboxEvent' <=>
                    <<"investment.created", j>> \in outboxEvent
               /\ <<"investment.cancelled", j>> \in outboxEvent' <=>
                    j = i \/ <<"investment.cancelled", j>> \in outboxEvent
    BY <1>4
  <2>2. ASSUME NEW j \in Row
        PROVE  refund'[j] > 0 <=> j = i \/ refund[j] > 0
    BY <1>5, <1>6
  <2>3. QED
    BY <1>3, <2>1, <2>2 DEF BooksInv, OutboxMatchesTables, RowsKept
<1>10. \A p \in Project :
         project'[p].raised = IF p = q THEN project[q].raised - a ELSE project[p].raised
  BY <1>2, <1>4 DEF TypeInv, TypeOK
<1>11. ASSUME NEW p \in Project
       PROVE  EscrowOf(p)' = EscrowOf(p)
  BY <1>4 DEF EscrowOf
<1>12. ASSUME NEW p \in Project
       PROVE  RefundedOf(p)' = IF p = q THEN RefundedOf(p) + a ELSE RefundedOf(p)
  <2>1. IsFiniteSet(Invested(p)) /\ \A j \in Row : RefundOf[j] \in Int
    BY SumsAreInt
  <2>2. PICK S, f, g : S = Invested(p) /\ f = RefundOf /\ g = RefundOf'
    OBVIOUS
  <2>3. S \subseteq Row /\ Invested(p)' = S
    BY <1>3, <2>2 DEF Invested, RowsKept
  <2>4. \A j \in Row \ {i} : f[j] = g[j]
    BY <1>3, <1>6, <2>2 DEF RefundOf, RowsKept
  <2>5. CASE p = q
    <3>1. i \in S
      BY <1>1, <1>2, <2>2, <2>5 DEF Invested
    <3>2. f[i] = refund[i] * a /\ g[i] = (refund[i] + 1) * a
      BY <1>2, <1>3, <1>6, <2>2 DEF RefundOf, RowsKept
    <3>3. g[i] = f[i] + a
      <4>1. PICK n \in Nat : n = refund[i]
        BY <1>5
      <4>2. (n + 1) * a = n * a + a
        BY <1>2, Distributes
      <4>3. QED
        BY <3>2, <4>1, <4>2
    <3>4. \A j \in S : f[j] \in Int
      BY <2>1, <2>2, <2>3
    <3>5. \A j \in S : g[j] \in Int
      BY <1>2, <2>3, <2>4, <3>3, <3>4
    <3>6. PICK R : R = S \ {i}
      OBVIOUS
    <3>7. IsFiniteSet(S) /\ IsFiniteSet(R) /\ R \subseteq Row \ {i} /\ R \subseteq S
      BY <2>1, <2>2, <2>3, <3>6, FS_Subset
    <3>8. Total(f, S) = f[i] + Total(f, R) /\ Total(g, S) = g[i] + Total(g, R)
      BY <3>1, <3>4, <3>5, <3>6, <3>7, TotalTakesOut
    <3>9. Total(f, R) = Total(g, R)
      BY <2>4, <3>7, TotalSame
    <3>10. Total(f, R) \in Int /\ f[i] \in Int
      BY <3>1, <3>4, <3>7, TotalIsInt
    <3>11. Total(g, S) = Total(f, S) + a
      BY <1>2, <3>3, <3>8, <3>9, <3>10
    <3>12. QED
      BY <2>2, <2>3, <2>5, <3>11 DEF RefundedOf, Invested, RefundOf
  <2>6. CASE p # q
    <3>1. i \notin S
      BY <1>2, <2>2, <2>6 DEF Invested
    <3>2. Total(f, S) = Total(g, S)
      BY <2>1, <2>2, <2>3, <2>4, <3>1, TotalSame
    <3>3. QED
      BY <2>2, <2>3, <2>6, <3>2 DEF RefundedOf, Invested, RefundOf
  <2>7. QED
    BY <2>5, <2>6
<1>13. ASSUME NEW p \in Project
       PROVE  (project[p].raised = EscrowOf(p) - RefundedOf(p))'
  <2>1. project[p].raised = EscrowOf(p) - RefundedOf(p)
    BY DEF BooksInv, FundingConservation
  <2>2. EscrowOf(p) \in Int /\ RefundedOf(p) \in Int
    BY SumsAreInt
  <2>3. QED
    BY <1>2, <1>10, <1>11, <1>12, <2>1, <2>2
<1>14. QED
  BY <1>4, <1>7, <1>8, <1>9, <1>13 DEF BooksInv, FundingConservation

\* Every step keeps the books.
LEMMA BooksNext == BooksInv /\ [Next]_vars => BooksInv'
<1> SUFFICES ASSUME BooksInv, [Next]_vars
             PROVE  BooksInv'
  OBVIOUS
<1>1. TypeInv /\ TypeInv'
  BY TypeNext DEF BooksInv
<1>2. QED
  BY <1>1, BookSteps, KeptBooks, InsertBooks, CancelBooks

LEMMA BooksHold == Spec => []BooksInv
BY BooksInit, BooksNext, PTL DEF Spec

\* However many handlers run and wherever they stop, what a project has raised is
\* what its escrow account was credited less what was refunded: increments and
\* decrements are applied by the database in the transaction that writes their
\* ledger entries or their REFUND.
THEOREM FundingIsConserved == Spec => []FundingConservation
<1>1. BooksInv => FundingConservation
  BY DEF BooksInv
<1>2. QED
  BY <1>1, BooksHold, PTL

\* The outbox has an investment.created event exactly for the stored investments
\* and an investment.cancelled event exactly for the refunded ones.
THEOREM OutboxMatches == Spec => []OutboxMatchesTables
<1>1. BooksInv => OutboxMatchesTables
  BY DEF BooksInv
<1>2. QED
  BY <1>1, BooksHold, PTL

(***************************************************************************)
(* What investment.confirmed tells: confirm opens no transaction, but it   *)
(* writes its event after the rows the event speaks of.                    *)
(***************************************************************************)

\* An event in the outbox is about a stored, confirmed, processed investment.
EventBacked ==
    \A i \in Row :
        <<"investment.confirmed", i>> \in outboxEvent =>
            Exists(i) /\ investment[i].confirmed /\ transaction[i].processed

\* A confirm that runs has confirmed its row; once at its events it has also
\* completed the transaction.
ConfirmJobBacked(job) ==
    job.op = "confirm" =>
        /\ investment[job.row].confirmed
        /\ job.pc # "write" => transaction[job.row].processed

ConfirmInv ==
    TypeInv /\ EventBacked /\ \A r \in Request : ConfirmJobBacked(req[r])

\* What was stored, confirmed or processed stays so.
Kept ==
    \A i \in Row : Exists(i) =>
        /\ Exists(i)'
        /\ investment[i].confirmed => investment'[i].confirmed
        /\ transaction[i].processed => transaction'[i].processed

\* No investment.confirmed event is added, no handler moves on in confirm.
NoEvent ==
    \A i \in Row :
        <<"investment.confirmed", i>> \in outboxEvent' =>
            <<"investment.confirmed", i>> \in outboxEvent
NoConfirm == \A r \in Request : req'[r].op = "confirm" => req'[r] = req[r]

LEMMA ConfirmInit == Init => ConfirmInv
BY InitType DEF Init, ConfirmInv, EventBacked, ConfirmJobBacked, Idle

\* Keeping the rows keeps the events and the confirms that do not move.
LEMMA KeptEvents ==
    ASSUME ConfirmInv, Kept, NoEvent
    PROVE  EventBacked'
BY DEF ConfirmInv, EventBacked, Kept, NoEvent, Exists

LEMMA KeptJob ==
    ASSUME ConfirmInv, Kept, NEW r \in Request, req'[r] = req[r]
    PROVE  ConfirmJobBacked(req[r])'
<1>1. CASE req[r].op # "confirm"
  BY <1>1 DEF ConfirmJobBacked
<1>2. CASE req[r].op = "confirm"
  <2>1. req[r].row \in Row /\ Exists(req[r].row)
    BY <1>2 DEF ConfirmInv, TypeInv, JobsReady, RowJobReady
  <2>2. ConfirmJobBacked(req[r])
    BY DEF ConfirmInv
  <2>3. QED
    BY <1>2, <2>1, <2>2 DEF ConfirmJobBacked, Kept
<1>3. QED
  BY <1>1, <1>2

LEMMA PlainStep ==
    ASSUME ConfirmInv, TypeInv', Kept, NoEvent, NoConfirm
    PROVE  ConfirmInv'
<1>1. EventBacked'
  BY KeptEvents
<1>2. ASSUME NEW r \in Request
      PROVE  ConfirmJobBacked(req[r])'
  <2>1. CASE req'[r].op = "confirm"
    BY <2>1, KeptJob DEF NoConfirm
  <2>2. CASE req'[r].op # "confirm"
    BY <2>2 DEF ConfirmJobBacked
  <2>3. QED
    BY <2>1, <2>2
<1>3. QED
  BY <1>1, <1>2 DEF ConfirmInv

\* Ways to keep the rows: not to touch them, to write a status, to insert.
LEMMA KeptSame == ASSUME UNCHANGED <<investment, transaction>> PROVE Kept
BY DEF Kept, Exists

LEMMA KeptStatus ==
    ASSUME TypeInv, NEW i \in Row, Exists(i), NEW s \in InvestmentStatus, SetStatus(i, s),
           UNCHANGED transaction
    PROVE  Kept /\ (s = "CONFIRMED" => investment'[i].confirmed)
<1>1. RowsStay
  BY StatusWrite
<1>2. \A j \in Row : investment'[j] = IF j = i THEN WithStatus(investment[i], s) ELSE investment[j]
  BY DEF SetStatus, TypeInv, TypeOK
<1>3. investment[i] \in Investment
  BY DEF TypeInv, TypeOK
<1>4. WithStatus(investment[i], s).confirmed = (investment[i].confirmed \/ s = "CONFIRMED")
  BY <1>3 DEF WithStatus, Investment
<1>5. QED
  BY <1>1, <1>2, <1>4 DEF Kept, RowsStay, Exists

LEMMA KeptInsert ==
    ASSUME TypeInv, NEW r \in Request, NEW i \in Row, ~Exists(i), InsertInvestment(req[r], i)
    PROVE  Kept
BY DEF InsertInvestment, NewInvestment, TypeInv, TypeOK, Kept, Exists

\* The slot that changes holds no confirm.
LEMMA PutOther ==
    ASSUME TypeInv, NEW r \in Request, NEW job, req' = [req EXCEPT ![r] = job],
           job.op # "confirm"
    PROVE  NoConfirm
BY DEF NoConfirm, TypeInv, TypeOK

LEMMA FinishOther == ASSUME TypeInv, NEW r \in Request, Finish(r) PROVE NoConfirm
<1>1. Idle.op # "confirm"
  BY DEF Idle
<1>2. QED
  BY <1>1, PutOther DEF Finish

LEMMA GotoOther ==
    ASSUME TypeInv, NEW r \in Request, NEW pc, Goto(r, pc), req[r].op # "confirm"
    PROVE  NoConfirm
<1>1. req[r] \in Job
  BY DEF TypeInv, TypeOK
<1>2. [req[r] EXCEPT !.pc = pc].op # "confirm"
  BY <1>1 DEF Job
<1>3. QED
  BY <1>2, PutOther DEF Goto

Plain == Kept /\ NoEvent /\ NoConfirm

\* The investment endpoints do not confirm anything.
LEMMA InvestPlain ==
    ASSUME TypeInv, NEW r \in Request, InvestStep(r) \/ Fail(r)
    PROVE  Plain
<1>1. Kept
  <2>1. CASE \E i \in Row : CommitInvest(r, i) \/ CommitDealInvest(r, i)
    BY <2>1, KeptInsert DEF CommitInvest, CommitDealInvest
  <2>2. CASE UNCHANGED tables
    BY <2>2, KeptSame DEF tables
  <2>3. QED
    BY <2>1, <2>2 DEF InvestStep, Fail, BeginInvest, BeginDealInvest, AnswerExisting,
       MissExisting, ReadProject, CheckDeal, CheckCap, Conflict, CacheAnswer, tables
<1>2. NoEvent
  <2>1. CASE \E i \in Row : CommitInvest(r, i) \/ CommitDealInvest(r, i)
    <3>1. PICK i \in Row : outboxEvent' = outboxEvent \cup CommitEvents(req[r], i)
      BY <2>1 DEF CommitInvest, CommitDealInvest, InsertInvestment
    <3>2. \A j \in Row : <<"investment.confirmed", j>> \notin CommitEvents(req[r], i)
      BY DEF CommitEvents
    <3>3. QED
      BY <3>1, <3>2 DEF NoEvent
  <2>2. CASE UNCHANGED tables
    BY <2>2 DEF tables, NoEvent
  <2>3. QED
    BY <2>1, <2>2 DEF InvestStep, Fail, BeginInvest, BeginDealInvest, AnswerExisting,
       MissExisting, ReadProject, CheckDeal, CheckCap, Conflict, CacheAnswer, tables
<1>3. NoConfirm
  <2>1. ASSUME NEW u \in Investor, NEW k \in Key, NEW p \in Project,
               NEW d \in Deal \cup {None}, NEW a \in Amount, BeginInvest(r, u, k, p, d, a)
        PROVE  NoConfirm
    <3>1. InvestJob(u, k, p, d, a).op # "confirm"
      BY DEF InvestJob, Idle
    <3>2. QED
      BY <2>1, <3>1, PutOther DEF BeginInvest
  <2>2. ASSUME NEW u \in Investor, NEW k \in Key, NEW d \in Deal, NEW a \in Amount,
               BeginDealInvest(r, u, k, d, a)
        PROVE  NoConfirm
    <3>1. DealInvestJob(u, k, d, a).op # "confirm"
      BY DEF DealInvestJob, Idle
    <3>2. QED
      BY <2>2, <3>1, PutOther DEF BeginDealInvest
  <2>3. CASE \E i \in Row : CommitInvest(r, i)
    <3>1. PICK i \in Row : CommitInvest(r, i)
      BY <2>3
    <3>2. req[r] \in Job /\ req[r].op = "invest"
      BY <3>1 DEF CommitInvest, TypeInv, TypeOK
    <3>3. [req[r] EXCEPT !.pc = "cache", !.row = i, !.seen = Unseen].op # "confirm"
      BY <3>2 DEF Job
    <3>4. QED
      BY <3>1, <3>3, PutOther DEF CommitInvest
  <2>4. CASE ReadProject(r) /\ ~Finish(r)
    <3>1. req[r] \in Job /\ req[r].op = "invest"
      BY <2>4 DEF ReadProject, TypeInv, TypeOK
    <3>2. PICK pc \in {"commit", "deal"} :
            req' = [req EXCEPT ![r] = [req[r] EXCEPT !.seen = project[req[r].project], !.pc = pc]]
      BY <2>4 DEF ReadProject
    <3>3. [req[r] EXCEPT !.seen = project[req[r].project], !.pc = pc].op # "confirm"
      BY <3>1 DEF Job
    <3>4. QED
      BY <3>2, <3>3, PutOther
  <2>5. CASE Finish(r)
    BY <2>5, FinishOther
  <2>6. CASE req[r].op # "confirm" /\ \E pc : Goto(r, pc)
    BY <2>6, GotoOther
  <2>7. QED
    BY <2>1, <2>2, <2>3, <2>4, <2>5, <2>6
       DEF InvestStep, Fail, AnswerExisting, MissExisting, CheckDeal, CheckCap, Conflict,
           CacheAnswer, CommitDealInvest
<1>4. QED
  BY <1>1, <1>2, <1>3 DEF Plain

\* Nor do the other handlers, the Redis steps and the administrators: they start a
\* handler, write a status, or add an event of their own.
LEMMA LaterPlain ==
    ASSUME TypeInv, NEW r \in Request,
           \/ \E i \in Row : BeginCancel(r, i)
           \/ \E i \in Row, passed \in BOOLEAN : BeginCompliance(r, i, passed)
           \/ \E p \in Project : BeginPublish(r, p)
           \/ CommitCancel(r) \/ CommitCompliance(r) \/ CommitPublish(r)
           \/ ConfirmLedgerEvent(r)
    PROVE  Plain
<1>1. Kept
  <2>1. CASE CommitCancel(r) \/ CommitCompliance(r)
    <3>1. req[r].row \in Row /\ Exists(req[r].row)
      BY <2>1 DEF CommitCancel, CommitCompliance, TypeInv, JobsReady, RowJobReady
    <3>2. PICK s \in InvestmentStatus : SetStatus(req[r].row, s)
      BY <2>1 DEF CommitCancel, CommitCompliance, InvestmentStatus
    <3>3. QED
      BY <2>1, <3>1, <3>2, KeptStatus DEF CommitCancel, CommitCompliance
  <2>2. CASE UNCHANGED <<investment, transaction>>
    BY <2>2, KeptSame
  <2>3. QED
    BY <2>1, <2>2 DEF BeginCancel, BeginCompliance, BeginPublish, CommitPublish,
       ConfirmLedgerEvent, tables
<1>2. NoEvent
  <2>1. CASE UNCHANGED tables
    BY <2>1 DEF NoEvent, tables
  <2>2. CASE \E topic \in Topic \ {"investment.confirmed"} :
               \/ outboxEvent' = outboxEvent \cup {<<topic, req[r].row>>}
               \/ outboxEvent' = outboxEvent \cup {<<topic, req[r].project>>}
    BY <2>2 DEF NoEvent
  <2>3. QED
    BY <2>1, <2>2 DEF BeginCancel, BeginCompliance, BeginPublish, CommitCancel,
       CommitCompliance, CommitPublish, ConfirmLedgerEvent, Topic
<1>3. NoConfirm
  <2>1. CASE \E op \in {"cancel", "compliance"}, i \in Row, b \in BOOLEAN :
               req' = [req EXCEPT ![r] = RowJob(op, i, b)]
    <3>1. PICK op \in {"cancel", "compliance"}, i \in Row, b \in BOOLEAN :
            req' = [req EXCEPT ![r] = RowJob(op, i, b)]
      BY <2>1
    <3>2. RowJob(op, i, b).op # "confirm"
      BY DEF RowJob, Idle
    <3>3. QED
      BY <3>1, <3>2, PutOther
  <2>2. ASSUME NEW p \in Project, BeginPublish(r, p)
        PROVE  NoConfirm
    <3>1. [Idle EXCEPT !.op = "publish", !.pc = "write", !.project = p].op # "confirm"
      BY DEF Idle
    <3>2. QED
      BY <2>2, <3>1, PutOther DEF BeginPublish
  <2>3. CASE Finish(r)
    BY <2>3, FinishOther
  <2>4. QED
    BY <2>1, <2>2, <2>3 DEF BeginCancel, BeginCompliance, CommitCancel, CommitCompliance,
       CommitPublish, ConfirmLedgerEvent
<1>4. QED
  BY <1>1, <1>2, <1>3 DEF Plain

LEMMA OtherPlain ==
    ASSUME TypeInv,
           \/ UNCHANGED vars
           \/ \E u \in Investor, k \in Key : AnswerFromCache(u, k) \/ ForgetAnswer(u, k)
           \/ \E i \in Row, s \in InvestmentStatus : UpdateInvestment(i, s)
           \/ \E i \in Row, s \in TransactionStatus : UpdateTransaction(i, s)
           \/ \E p \in Project : ApproveProject(p) \/ RejectProject(p)
    PROVE  Plain
<1>1. Kept
  <2>1. ASSUME NEW i \in Row, NEW s \in InvestmentStatus, UpdateInvestment(i, s)
        PROVE  Kept
    BY <2>1, KeptStatus DEF UpdateInvestment
  <2>2. ASSUME NEW i \in Row, NEW s \in TransactionStatus, UpdateTransaction(i, s)
        PROVE  Kept
    BY <2>2 DEF UpdateTransaction, Kept, Exists, TypeInv, TypeOK
  <2>3. CASE UNCHANGED <<investment, transaction>>
    BY <2>3, KeptSame
  <2>4. QED
    BY <2>1, <2>2, <2>3 DEF vars, tables, AnswerFromCache, ForgetAnswer, ApproveProject,
       RejectProject, TransitionProject
<1>2. NoEvent
  <2>1. \/ UNCHANGED outboxEvent
        \/ \E topic \in Topic \ {"investment.confirmed"}, x \in Row \cup Project :
             outboxEvent' = outboxEvent \cup {<<topic, x>>}
    BY DEF vars, tables, AnswerFromCache, ForgetAnswer, UpdateInvestment, UpdateTransaction,
           ApproveProject, RejectProject, TransitionProject, Topic
  <2>2. QED
    BY <2>1 DEF NoEvent
<1>3. NoConfirm
  BY DEF NoConfirm, vars, AnswerFromCache, ForgetAnswer, UpdateInvestment, UpdateTransaction,
         ApproveProject, RejectProject, TransitionProject
<1>4. QED
  BY <1>1, <1>2, <1>3 DEF Plain

\* A slot that changes to a backed confirm, the others as they were.
LEMMA PutConfirm ==
    ASSUME ConfirmInv, TypeInv', Kept, EventBacked', NEW r \in Request, NEW job,
           req' = [req EXCEPT ![r] = job], ConfirmJobBacked(job)'
    PROVE  ConfirmInv'
<1>1. req'[r] = job /\ \A q \in Request \ {r} : req'[q] = req[q]
  BY DEF ConfirmInv, TypeInv, TypeOK
<1>2. ASSUME NEW q \in Request
      PROVE  ConfirmJobBacked(req[q])'
  <2>1. CASE q = r
    BY <1>1, <2>1 DEF ConfirmJobBacked
  <2>2. CASE q # r
    BY <1>1, <2>2, KeptJob
  <2>3. QED
    BY <2>1, <2>2
<1>3. QED
  BY <1>2 DEF ConfirmInv

LEMMA ConfirmRowStep ==
    ASSUME ConfirmInv, TypeInv', NEW r \in Request, NEW i \in Row, ConfirmRow(r, i)
    PROVE  ConfirmInv'
<1>1. Kept /\ investment'[i].confirmed
  BY KeptStatus DEF ConfirmRow, ConfirmInv, InvestmentStatus
<1>2. PICK job : job = RowJob("confirm", i, TRUE)
  OBVIOUS
<1>3. job.pc = "write" /\ job.row = i
  BY <1>2 DEF RowJob, Idle
<1>4. ConfirmJobBacked(job)'
  BY <1>1, <1>3 DEF ConfirmJobBacked
<1>5. EventBacked'
  BY <1>1, KeptEvents DEF ConfirmRow, NoEvent
<1>6. QED
  BY <1>1, <1>2, <1>4, <1>5, PutConfirm DEF ConfirmRow

LEMMA ConfirmTransactionStep ==
    ASSUME ConfirmInv, TypeInv', NEW r \in Request, ConfirmTransaction(r)
    PROVE  ConfirmInv'
<1>1. req[r] \in Job /\ req[r].op = "confirm"
  BY DEF ConfirmTransaction, ConfirmInv, TypeInv, TypeOK
<1>2. PICK i \in Row : i = req[r].row /\ Exists(i) /\ investment[i].confirmed
  BY <1>1 DEF ConfirmInv, ConfirmJobBacked, TypeInv, JobsReady, RowJobReady
<1>3. /\ UNCHANGED <<investment, outboxEvent>> /\ transaction'[i].processed
      /\ \A j \in Row : transaction[j].processed => transaction'[j].processed
  BY <1>2 DEF ConfirmTransaction, ConfirmInv, TypeInv, TypeOK
<1>4. Kept
  BY <1>3 DEF Kept, Exists
<1>5. EventBacked'
  BY <1>3, <1>4, KeptEvents DEF NoEvent
<1>6. PICK job : job = [req[r] EXCEPT !.pc = "event"]
  OBVIOUS
<1>7. job.row = i
  BY <1>1, <1>2, <1>6 DEF Job
<1>8. ConfirmJobBacked(job)'
  BY <1>2, <1>3, <1>7 DEF ConfirmJobBacked
<1>9. QED
  BY <1>4, <1>5, <1>6, <1>8, PutConfirm DEF ConfirmTransaction, Goto

LEMMA ConfirmEventStep ==
    ASSUME ConfirmInv, TypeInv', NEW r \in Request, ConfirmEvent(r)
    PROVE  ConfirmInv'
<1>1. req[r] \in Job /\ req[r].op = "confirm" /\ req[r].pc = "event"
  BY DEF ConfirmEvent, ConfirmInv, TypeInv, TypeOK
<1>2. PICK i \in Row :
        i = req[r].row /\ Exists(i) /\ investment[i].confirmed /\ transaction[i].processed
  BY <1>1 DEF ConfirmInv, ConfirmJobBacked, TypeInv, JobsReady, RowJobReady
<1>3. /\ UNCHANGED <<investment, transaction>>
      /\ outboxEvent' = outboxEvent \cup {<<"investment.confirmed", i>>}
  BY <1>2 DEF ConfirmEvent
<1>4. Kept
  BY <1>3, KeptSame
<1>5. EventBacked'
  BY <1>2, <1>3 DEF ConfirmInv, EventBacked, Exists
<1>6. PICK job : job = [req[r] EXCEPT !.pc = "ledgerEvent"]
  OBVIOUS
<1>7. job.row = i
  BY <1>1, <1>2, <1>6 DEF Job
<1>8. ConfirmJobBacked(job)'
  BY <1>2, <1>3, <1>7 DEF ConfirmJobBacked
<1>9. QED
  BY <1>4, <1>5, <1>6, <1>8, PutConfirm DEF ConfirmEvent, Goto

\* Every step keeps the invariant.
LEMMA ConfirmNext == ConfirmInv /\ [Next]_vars => ConfirmInv'
<1> SUFFICES ASSUME ConfirmInv, [Next]_vars
             PROVE  ConfirmInv'
  OBVIOUS
<1> TypeInv
  BY DEF ConfirmInv
<1>1. TypeInv'
  BY TypeNext
<1>2. CASE Plain
  BY <1>1, <1>2, PlainStep DEF Plain
<1>3. ASSUME NEW r \in Request,
             ConfirmTransaction(r) \/ ConfirmEvent(r) \/ \E i \in Row : ConfirmRow(r, i)
      PROVE  ConfirmInv'
  BY <1>1, <1>3, ConfirmRowStep, ConfirmTransactionStep, ConfirmEventStep
<1>4. ASSUME NEW i \in Row, NEW s \in {"COMPLETED", "PENDING", "FLAGGED", "CANCELLED"},
             UpdateTransaction(i, s)
      PROVE  Plain
  BY <1>4, OtherPlain DEF TransactionStatus
<1>5. CASE UNCHANGED vars
  BY <1>2, <1>5, OtherPlain
<1>6. CASE Next
  BY <1>2, <1>3, <1>4, <1>6, InvestPlain, LaterPlain, OtherPlain DEF Next, LaterStep
<1>7. QED
  BY <1>5, <1>6

\* Wherever a confirm stops, and whatever other handlers do to the investment, an
\* investment.confirmed event is about an investment that was confirmed and whose
\* transaction was processed: the event is written last.
THEOREM ConfirmedEventIsBackedHolds == Spec => []ConfirmedEventIsBacked
<1>1. ConfirmInv => ConfirmedEventIsBacked
  BY DEF ConfirmInv, EventBacked, ConfirmedEventIsBacked
<1>2. QED
  BY <1>1, ConfirmInit, ConfirmNext, PTL DEF Spec

(***************************************************************************)
(* One handler at a time: what was checked still holds when it is written. *)
(* With two, none of the three limits does; PartsSpec's part "serial" is   *)
(* Funding with at most one handler in flight.                             *)
(***************************************************************************)

\* The sum over a table of investments, and what the table says of a deal.
AmountSum(inv, S) == MapThenSumSet(LAMBDA i : inv[i].amount, S)
RowsOfDeal(inv, d) == {i \in Row : inv[i].status # "ABSENT" /\ inv[i].deal = d}
DealSum(inv, d) == AmountSum(inv, RowsOfDeal(inv, d))
Fits(inv, d, a) == DealMax[d] > 0 => DealSum(inv, d) + a <= DealMax[d]

AmountSums(inv, S, g) ==
    g = [T \in SUBSET S |->
           IF T = {} THEN 0 ELSE inv[Chosen(T)].amount + g[T \ {Chosen(T)}]]

LEMMA AmountSumIsOfSums ==
    ASSUME NEW inv, NEW S, NEW g, AmountSums(inv, S, g)
    PROVE  \E h : AmountSums(inv, S, h) /\ AmountSum(inv, S) = h[S]
BY DEF AmountSum, MapThenSumSet, MapThenFoldSet, AmountSums, Chosen

LEMMA AmountSumIsTotal ==
    ASSUME NEW inv, NEW S, IsFiniteSet(S), NEW f, \A i \in S : f[i] = inv[i].amount
    PROVE  AmountSum(inv, S) = Total(f, S)
<1>1. ASSUME NEW g PROVE AmountSums(inv, S, g) <=> Sums(f, S, g)
  <2>1. ASSUME NEW T \in SUBSET S, T # {}
        PROVE  f[Chosen(T)] = inv[Chosen(T)].amount
    BY <2>1, ChosenIn
  <2>2. [T \in SUBSET S |->
           IF T = {} THEN 0 ELSE inv[Chosen(T)].amount + g[T \ {Chosen(T)}]]
        = [T \in SUBSET S |-> IF T = {} THEN 0 ELSE f[Chosen(T)] + g[T \ {Chosen(T)}]]
    BY <2>1
  <2>3. QED
    BY <2>2 DEF AmountSums, Sums
<1>2. PICK g : Sums(f, S, g)
  BY SumsExist
<1>3. PICK h : Sums(f, S, h) /\ AmountSum(inv, S) = h[S]
  BY <1>1, <1>2, AmountSumIsOfSums
<1>4. PICK k : Sums(f, S, k) /\ Total(f, S) = k[S]
  BY <1>2, TotalIsOfSums
<1>5. QED
  BY <1>3, <1>4, SumsAreOne

LEMMA SumOfDeal ==
    ASSUME NEW d
    PROVE  SumOf(DealRows(d)) = DealSum(investment, d)
BY DEF SumOf, DealRows, DealSum, RowsOfDeal, AmountSum, Exists

\* Table is a table of investments with finitely many rows.
Table(inv) ==
    /\ inv \in [Row -> Investment]
    /\ IsFiniteSet({i \in Row : inv[i].status # "ABSENT"})

LEMMA DealSumIsTotal ==
    ASSUME NEW inv, Table(inv), NEW d, NEW f, f = [i \in Row |-> inv[i].amount]
    PROVE  /\ IsFiniteSet(RowsOfDeal(inv, d))
           /\ \A i \in Row : f[i] \in Nat
           /\ DealSum(inv, d) = Total(f, RowsOfDeal(inv, d))
           /\ DealSum(inv, d) \in Int
<1>1. RowsOfDeal(inv, d) \subseteq Row /\ IsFiniteSet(RowsOfDeal(inv, d))
  <2>1. RowsOfDeal(inv, d) \subseteq {i \in Row : inv[i].status # "ABSENT"}
    BY DEF RowsOfDeal
  <2>2. QED
    BY <2>1, FS_Subset DEF Table
<1>2. \A i \in Row : f[i] = inv[i].amount /\ f[i] \in Nat
  BY AmountsAreNat DEF Table, Investment
<1>3. DealSum(inv, d) = Total(f, RowsOfDeal(inv, d))
  BY <1>1, <1>2, AmountSumIsTotal DEF DealSum
<1>4. Total(f, RowsOfDeal(inv, d)) \in Int
  BY <1>1, <1>2, TotalIsInt
<1>5. QED
  BY <1>1, <1>2, <1>3, <1>4

LEMMA DealSumIsInt == ASSUME NEW inv, Table(inv), NEW d PROVE DealSum(inv, d) \in Int
BY DealSumIsTotal

\* A change of status leaves the sums alone.
LEMMA DealSumSame ==
    ASSUME NEW inv, NEW new, Table(inv), Table(new), NEW d,
           \A i \in Row : /\ new[i].status = "ABSENT" <=> inv[i].status = "ABSENT"
                          /\ new[i].deal = inv[i].deal /\ new[i].amount = inv[i].amount
    PROVE  DealSum(new, d) = DealSum(inv, d)
<1>1. PICK f : f = [i \in Row |-> inv[i].amount]
  OBVIOUS
<1>2. f = [i \in Row |-> new[i].amount]
  BY <1>1
<1>3. RowsOfDeal(new, d) = RowsOfDeal(inv, d)
  BY DEF RowsOfDeal
<1>4. QED
  BY <1>1, <1>2, <1>3, DealSumIsTotal

\* A new row adds its amount to the sum of its deal.
LEMMA DealSumInsert ==
    ASSUME NEW inv, NEW new, Table(inv), Table(new), NEW d, NEW i \in Row,
           inv[i].status = "ABSENT", new[i].status # "ABSENT",
           \A j \in Row \ {i} : new[j] = inv[j]
    PROVE  DealSum(new, d) =
             IF new[i].deal = d THEN new[i].amount + DealSum(inv, d) ELSE DealSum(inv, d)
<1>1. PICK f, g : f = [j \in Row |-> inv[j].amount] /\ g = [j \in Row |-> new[j].amount]
  OBVIOUS
<1>2. PICK S : S = RowsOfDeal(inv, d)
  OBVIOUS
<1>3. i \notin S /\ S \subseteq Row
  BY <1>2 DEF RowsOfDeal
<1>4. /\ IsFiniteSet(S) /\ DealSum(inv, d) = Total(f, S)
      /\ DealSum(new, d) = Total(g, RowsOfDeal(new, d))
      /\ \A j \in Row : g[j] \in Nat
  BY <1>1, <1>2, DealSumIsTotal
<1>5. Total(f, S) = Total(g, S)
  <2>1. \A j \in S : f[j] = g[j]
    BY <1>1, <1>3
  <2>2. QED
    BY <1>4, <2>1, TotalSame
<1>6. CASE new[i].deal = d
  <2>1. RowsOfDeal(new, d) = S \cup {i}
    BY <1>2, <1>3, <1>6 DEF RowsOfDeal
  <2>2. \A j \in S \cup {i} : g[j] \in Int
    BY <1>3, <1>4
  <2>3. Total(g, S \cup {i}) = g[i] + Total(g, S)
    BY <1>3, <1>4, <2>2, TotalAdds
  <2>4. QED
    BY <1>1, <1>4, <1>5, <1>6, <2>1, <2>3
<1>7. CASE new[i].deal # d
  <2>1. RowsOfDeal(new, d) = S
    BY <1>2, <1>3, <1>7 DEF RowsOfDeal
  <2>2. QED
    BY <1>4, <1>5, <1>7, <2>1
<1>8. QED
  BY <1>6, <1>7
\* At most one handler is in flight.
Alone == \A q, r \in Request : req[q] # Idle /\ req[r] # Idle => q = r

\* What the handler in flight has checked is still true.
StillTrue(job) ==
    /\ job.op \in {"idle", "invest", "dealInvest", "cancel", "confirm"}
    /\ job.op \in {"invest", "dealInvest"} /\ job.pc \in {"deal", "cap", "commit"}
         => job.seen = project[job.project]
    /\ job.op = "dealInvest" => job.deal \in Deal
    /\ job.op = "dealInvest" /\ job.pc = "commit" => Fits(investment, job.deal, job.amount)
    /\ job.op = "cancel" => investment[job.row].status \in Cancellable

\* A refunded investment cannot be cancelled again.
RefundedIsClosed ==
    \A i \in Row : refund[i] > 0 => investment[i].status \notin Cancellable

Limits ==
    /\ \A d \in Deal : Fits(investment, d, 0)
    /\ RefundedAtMostOnce /\ RefundedIsClosed /\ FundedAtTarget

SerialInv == BooksInv /\ Alone /\ Limits /\ \A r \in Request : StillTrue(req[r])

LEMMA IdleIsTrue == StillTrue(Idle)
BY DEF StillTrue, Idle

\* With one handler at a time, a step that puts a job in a slot leaves no other:
\* the slot was busy before or is busy after.
LEMMA PutAlone ==
    ASSUME TypeInv, Alone, Alone', NEW r \in Request, NEW job, req[r] # Idle \/ job # Idle,
           req' = [req EXCEPT ![r] = job], StillTrue(job)', StillTrue(Idle)'
    PROVE  \A q \in Request : StillTrue(req[q])'
<1>1. \A q \in Request : req'[q] = IF q = r THEN job ELSE req[q]
  BY DEF TypeInv, TypeOK
<1>2. ASSUME NEW q \in Request, q # r
      PROVE  req'[q] = Idle
  BY <1>1, <1>2 DEF Alone
<1>3. ASSUME NEW q \in Request
      PROVE  StillTrue(req[q])'
  <2>1. CASE q = r
    <3>1. req'[q] = job
      BY <1>1, <2>1
    <3>2. QED
      BY <3>1 DEF StillTrue
  <2>2. CASE q # r
    <3>1. req'[q] = Idle
      BY <1>2, <2>2
    <3>2. QED
      BY <3>1 DEF StillTrue
  <2>3. QED
    BY <2>1, <2>2
<1>4. QED
  BY <1>3

LEMMA TablesOf ==
    ASSUME BooksInv
    PROVE  Table(investment)
BY DEF BooksInv, TypeInv, TypeOK, Table, Stored, Exists

\* Steps that leave the tables alone: reads, answers, checks.
LEMMA SameLimits ==
    ASSUME Limits, UNCHANGED tables
    PROVE  Limits'
BY DEF Limits, tables, Fits, RefundedAtMostOnce, RefundedIsClosed, FundedAtTarget

LEMMA SameTruth ==
    ASSUME UNCHANGED tables, NEW job, StillTrue(job)
    PROVE  StillTrue(job)'
BY DEF tables, StillTrue

LEMMA ReadSerial ==
    ASSUME SerialInv, BooksInv', Alone', UNCHANGED tables, NEW r \in Request, NEW job,
           req' = [req EXCEPT ![r] = job], req[r] # Idle \/ job # Idle, StillTrue(job)
    PROVE  SerialInv'
<1>1. Limits'
  BY SameLimits DEF SerialInv
<1>2. StillTrue(job)' /\ StillTrue(Idle)'
  BY IdleIsTrue, SameTruth
<1>3. \A q \in Request : StillTrue(req[q])'
  BY <1>2, PutAlone DEF SerialInv, BooksInv
<1>4. QED
  BY <1>1, <1>3 DEF SerialInv

LEMMA StillSerial ==
    ASSUME SerialInv, BooksInv', Alone', UNCHANGED <<tables, req>>
    PROVE  SerialInv'
<1>1. Limits'
  BY SameLimits DEF SerialInv
<1>2. ASSUME NEW q \in Request
      PROVE  StillTrue(req[q])'
  BY SameTruth DEF SerialInv, StillTrue, tables
<1>3. QED
  BY <1>1, <1>2 DEF SerialInv

LEMMA FinishSerial ==
    ASSUME SerialInv, BooksInv', Alone', UNCHANGED tables, NEW r \in Request, Finish(r),
           req[r] # Idle
    PROVE  SerialInv'
BY ReadSerial, IdleIsTrue DEF Finish

LEMMA CheckExceeds ==
    ASSUME BooksInv, NEW d \in Deal, NEW a \in Amount
    PROVE  ExceedsDealMax(d, a) <=> ~Fits(investment, d, a)
<1>1. SumOf(DealRows(d)) = DealSum(investment, d)
  BY SumOfDeal
<1>2. DealSum(investment, d) \in Int /\ a \in Nat /\ DealMax[d] \in Nat
  BY TablesOf, DealSumIsInt, FundingAssumption
<1>3. QED
  BY <1>1, <1>2 DEF ExceedsDealMax, Fits

\* A job in the slot of an endpoint that has begun or moves on.
LEMMA BeginInvestSerial ==
    ASSUME SerialInv, BooksInv', Alone', NEW r \in Request, NEW u \in Investor,
           NEW k \in Key, NEW p \in Project, NEW d \in Deal \cup {None}, NEW a \in Amount,
           BeginInvest(r, u, k, p, d, a)
    PROVE  SerialInv'
<1>1. PICK job : job = InvestJob(u, k, p, d, a)
  OBVIOUS
<1>2. job.op = "invest" /\ job.pc = "lookup"
  BY <1>1 DEF InvestJob, Idle
<1>3. job # Idle /\ StillTrue(job)
  BY <1>2 DEF StillTrue, Idle
<1>4. QED
  BY <1>1, <1>3, ReadSerial DEF BeginInvest

LEMMA BeginDealInvestSerial ==
    ASSUME SerialInv, BooksInv', Alone', NEW r \in Request, NEW u \in Investor,
           NEW k \in Key, NEW d \in Deal, NEW a \in Amount, BeginDealInvest(r, u, k, d, a)
    PROVE  SerialInv'
<1>1. PICK job : job = DealInvestJob(u, k, d, a)
  OBVIOUS
<1>2. /\ job.op = "dealInvest" /\ job.pc = (IF DealMax[d] > 0 THEN "cap" ELSE "commit")
      /\ job.project = DealProject[d] /\ job.deal = d /\ job.seen = project[DealProject[d]]
  BY <1>1 DEF DealInvestJob, Idle
<1>3. job # Idle /\ StillTrue(job)
  BY <1>2 DEF StillTrue, Idle, Fits
<1>4. QED
  BY <1>1, <1>3, ReadSerial DEF BeginDealInvest

LEMMA GotoSerial ==
    ASSUME SerialInv, BooksInv', Alone', UNCHANGED tables, NEW r \in Request, NEW pc, Goto(r, pc),
           req[r] # Idle,
           StillTrue([req[r] EXCEPT !.pc = pc])
    PROVE  SerialInv'
BY ReadSerial DEF Goto

LEMMA CheckSerial ==
    ASSUME SerialInv, BooksInv', Alone', NEW r \in Request,
           MissExisting(r) \/ CheckDeal(r) \/ CheckCap(r)
    PROVE  SerialInv'
<1> req[r] \in Job /\ StillTrue(req[r]) /\ InvestJobReady(req[r]) /\ BooksInv
  BY DEF SerialInv, BooksInv, TypeInv, TypeOK, JobsReady
<1>1. req[r].op \in {"invest", "dealInvest"} /\ req[r] # Idle /\ UNCHANGED tables
  BY DEF MissExisting, CheckDeal, CheckCap, Idle
<1>2. CASE Finish(r)
  BY <1>1, <1>2, FinishSerial
<1>3. CASE MissExisting(r) \/ (CheckDeal(r) /\ Goto(r, "commit"))
  <2>1. PICK pc \in {"read", "commit"} :
          Goto(r, pc) /\ (pc = "commit" => req[r].pc = "deal") /\ req[r].op = "invest"
    BY <1>3 DEF MissExisting, CheckDeal
  <2>2. PICK job : job = [req[r] EXCEPT !.pc = pc]
    OBVIOUS
  <2>3. job.op = "invest" /\ job.pc = pc /\ job.seen = req[r].seen /\ job.project = req[r].project
    BY <2>1, <2>2 DEF Job
  <2>4. StillTrue(job)
    BY <2>1, <2>3 DEF StillTrue
  <2>5. QED
    BY <1>1, <2>1, <2>2, <2>4, GotoSerial
<1>4. CASE CheckCap(r) /\ Goto(r, "commit") /\ ~ExceedsDealMax(req[r].deal, req[r].amount)
  <2>1. req[r].op = "dealInvest" /\ req[r].pc = "cap"
    BY <1>4 DEF CheckCap
  <2>2. PICK d \in Deal, a \in Amount : d = req[r].deal /\ a = req[r].amount
    BY <2>1 DEF StillTrue, InvestJobReady
  <2>3. Fits(investment, d, a)
    BY <1>4, <2>2, CheckExceeds
  <2>4. PICK job : job = [req[r] EXCEPT !.pc = "commit"]
    OBVIOUS
  <2>5. /\ job.op = "dealInvest" /\ job.pc = "commit" /\ job.seen = req[r].seen
        /\ job.project = req[r].project /\ job.deal = d /\ job.amount = a
    BY <2>1, <2>2, <2>4 DEF Job
  <2>6. StillTrue(job)
    BY <2>1, <2>3, <2>5 DEF StillTrue
  <2>7. QED
    BY <1>1, <1>4, <2>4, <2>6, GotoSerial
<1>5. QED
  BY <1>2, <1>3, <1>4 DEF MissExisting, CheckDeal, CheckCap

LEMMA ReadProjectSerial ==
    ASSUME SerialInv, BooksInv', Alone', NEW r \in Request, ReadProject(r)
    PROVE  SerialInv'
<1> req[r] \in Job
  BY DEF SerialInv, BooksInv, TypeInv, TypeOK
<1> DEFINE pc == IF req[r].deal = None THEN "commit" ELSE "deal"
<1>1. req[r].op = "invest" /\ req[r] # Idle /\ UNCHANGED tables
  BY DEF ReadProject, Idle
<1>2. CASE Finish(r)
  BY <1>1, <1>2, FinishSerial
<1>3. CASE req' = [req EXCEPT ![r] = [req[r] EXCEPT !.seen = project[req[r].project], !.pc = pc]]
  <2>1. PICK job : job = [req[r] EXCEPT !.seen = project[req[r].project], !.pc = pc]
    OBVIOUS
  <2>2. job.op = "invest" /\ job.seen = project[req[r].project] /\ job.project = req[r].project
    BY <1>1, <2>1 DEF Job
  <2>3. StillTrue(job)
    BY <2>2 DEF StillTrue
  <2>4. QED
    BY <1>1, <1>3, <2>1, <2>3, ReadSerial
<1>4. QED
  BY <1>2, <1>3 DEF ReadProject

LEMMA BeginCancelSerial ==
    ASSUME SerialInv, BooksInv', Alone', NEW r \in Request, NEW i \in Row, BeginCancel(r, i)
    PROVE  SerialInv'
<1>1. PICK job : job = RowJob("cancel", i, TRUE)
  OBVIOUS
<1>2. job.op = "cancel" /\ job.row = i
  BY <1>1 DEF RowJob, Idle
<1>3. job # Idle /\ StillTrue(job)
  BY <1>2 DEF StillTrue, Idle, BeginCancel
<1>4. QED
  BY <1>1, <1>3, ReadSerial DEF BeginCancel

(***************************************************************************)
(* The steps that write.                                                   *)
(***************************************************************************)

LEMMA WriteSerial ==
    ASSUME SerialInv, BooksInv', Alone', Limits', NEW r \in Request, NEW job,
           req' = [req EXCEPT ![r] = job], req[r] # Idle \/ job # Idle, StillTrue(job)'
    PROVE  SerialInv'
<1>1. StillTrue(Idle)'
  BY DEF StillTrue, Idle
<1>2. \A q \in Request : StillTrue(req[q])'
  BY <1>1, PutAlone DEF SerialInv, BooksInv
<1>3. QED
  BY <1>2 DEF SerialInv

\* A commit: what it read of its deal and its project is what it adds to.
LEMMA InsertLimits ==
    ASSUME SerialInv, BooksInv', NEW r \in Request, NEW i \in Row, ~Exists(i),
           req[r].op \in {"invest", "dealInvest"}, req[r].pc = "commit",
           InsertInvestment(req[r], i)
    PROVE  Limits'
<1> BooksInv /\ TypeInv /\ Limits
  BY DEF SerialInv, BooksInv
<1>1. PICK job \in Job : job = req[r]
  BY DEF TypeInv, TypeOK
<1>2. PICK p, a : /\ p = job.project /\ p \in Project
                 /\ a = job.amount /\ a \in Nat
  BY <1>1, FundingAssumption DEF TypeInv, JobsReady, InvestJobReady
<1>3. StillTrue(job) /\ job.op \in {"invest", "dealInvest"} /\ job.pc = "commit"
  BY <1>1 DEF SerialInv
<1>4. /\ \A j \in Row \ {i} : investment'[j] = investment[j]
      /\ investment'[i].status = "PENDING_COMPLIANCE"
      /\ investment'[i].deal = StoredDeal(job) /\ investment'[i].amount = a
  BY <1>1, <1>2 DEF InsertInvestment, NewInvestment, TypeInv, TypeOK
<1>5. Table(investment) /\ Table(investment')
  BY TablesOf DEF BooksInv, TypeInv, TypeOK, Table, Stored, Exists
<1>6. refund' = refund /\ refund[i] = 0
  BY DEF InsertInvestment, BooksInv, NewRowsAreBlank
<1>7. ASSUME NEW d \in Deal
      PROVE  Fits(investment', d, 0)
  <2>1. /\ DealSum(investment', d) = IF StoredDeal(job) = d THEN a + DealSum(investment, d)
                                                            ELSE DealSum(investment, d)
        /\ DealSum(investment, d) \in Int /\ DealMax[d] \in Nat
    <3>1. investment[i].status = "ABSENT" /\ investment'[i].status # "ABSENT"
      BY <1>4 DEF Exists
    <3>2. DealSum(investment', d) =
            IF investment'[i].deal = d THEN investment'[i].amount + DealSum(investment, d)
                                       ELSE DealSum(investment, d)
      BY <1>4, <1>5, <3>1, DealSumInsert
    <3>3. DealSum(investment, d) \in Int /\ DealMax[d] \in Nat
      BY <1>5, DealSumIsInt, FundingAssumption
    <3>4. QED
      BY <1>4, <3>2, <3>3
  <2>2. StoredDeal(job) = d => Fits(investment, d, a)
    BY <1>2, <1>3, FundingAssumption DEF StoredDeal, StillTrue
  <2>3. Fits(investment, d, 0)
    BY DEF Limits
  <2>4. QED
    BY <1>2, <2>1, <2>2, <2>3 DEF Fits
<1>8. RefundedAtMostOnce' /\ RefundedIsClosed'
  BY <1>4, <1>6 DEF Limits, RefundedAtMostOnce, RefundedIsClosed
<1>9. ASSUME NEW o \in Project, project'[o].raised >= Target[o]
      PROVE  project'[o].status = "FUNDED"
  <2>1. CASE o = p
    <3>1. /\ project'[p].status = StatusAfter(job)
          /\ project'[p].raised = project[p].raised + a
      BY <1>1, <1>2 DEF InsertInvestment, RaisedAfter, TypeInv, TypeOK
    <3>2. job.seen.raised = project[p].raised
      BY <1>2, <1>3 DEF StillTrue
    <3>3. job.seen.raised + job.amount >= Target[job.project]
      BY <1>2, <1>9, <2>1, <3>1, <3>2
    <3>4. StatusAfter(job) = "FUNDED"
      BY <3>3 DEF StatusAfter
    <3>5. QED
      BY <2>1, <3>1, <3>4
  <2>2. CASE o # p
    <3>1. project'[o] = project[o]
      BY <1>1, <1>2, <2>2 DEF InsertInvestment, TypeInv, TypeOK
    <3>2. QED
      BY <1>9, <3>1 DEF Limits, FundedAtTarget
  <2>3. QED
    BY <2>1, <2>2
<1>10. QED
  BY <1>7, <1>8, <1>9 DEF Limits, FundedAtTarget

LEMMA CommitSerial ==
    ASSUME SerialInv, BooksInv', Alone', NEW r \in Request, NEW i \in Row,
           CommitInvest(r, i) \/ CommitDealInvest(r, i)
    PROVE  SerialInv'
<1> req[r] \in Job
  BY DEF SerialInv, BooksInv, TypeInv, TypeOK
<1>1. req[r].op \in {"invest", "dealInvest"} /\ req[r].pc = "commit" /\ req[r] # Idle
  BY DEF CommitInvest, CommitDealInvest, Idle
<1>2. Limits'
  BY <1>1, InsertLimits DEF CommitInvest, CommitDealInvest
<1>3. CASE CommitInvest(r, i)
  <2>1. PICK job : job = [req[r] EXCEPT !.pc = "cache", !.row = i, !.seen = Unseen]
    OBVIOUS
  <2>2. job.op = "invest" /\ job.pc = "cache"
    BY <1>3, <2>1 DEF CommitInvest, Job
  <2>3. StillTrue(job)'
    BY <2>2 DEF StillTrue
  <2>4. QED
    BY <1>1, <1>2, <1>3, <2>1, <2>3, WriteSerial DEF CommitInvest
<1>4. CASE CommitDealInvest(r, i)
  <2>1. StillTrue(Idle)'
    BY DEF StillTrue, Idle
  <2>2. QED
    BY <1>1, <1>2, <1>4, <2>1, WriteSerial DEF CommitDealInvest, Finish
<1>5. QED
  BY <1>3, <1>4

\* Writing the status of a stored investment leaves the deals alone.
LEMMA StatusFits ==
    ASSUME BooksInv, BooksInv', NEW i \in Row, Exists(i), NEW s \in InvestmentStatus,
           SetStatus(i, s)
    PROVE  /\ \A d : DealSum(investment', d) = DealSum(investment, d)
           /\ investment'[i].status = s
           /\ \A j \in Row \ {i} : investment'[j] = investment[j]
<1>1. investment[i] \in Investment /\ investment \in [Row -> Investment]
  BY DEF BooksInv, TypeInv, TypeOK
<1>2. \A j \in Row : investment'[j] = IF j = i THEN WithStatus(investment[i], s) ELSE investment[j]
  BY <1>1 DEF SetStatus
<1>3. /\ WithStatus(investment[i], s).status = s
      /\ WithStatus(investment[i], s).deal = investment[i].deal
      /\ WithStatus(investment[i], s).amount = investment[i].amount
  BY <1>1 DEF WithStatus, Investment
<1>4. s # "ABSENT"
  BY DEF InvestmentStatus
<1>5. Table(investment) /\ Table(investment')
  BY TablesOf DEF BooksInv, TypeInv, TypeOK, Table, Stored, Exists
<1>6. \A j \in Row : /\ investment'[j].status = "ABSENT" <=> investment[j].status = "ABSENT"
                    /\ investment'[j].deal = investment[j].deal
                    /\ investment'[j].amount = investment[j].amount
  BY <1>2, <1>3, <1>4 DEF Exists
<1>7. ASSUME NEW d
      PROVE  DealSum(investment', d) = DealSum(investment, d)
  BY <1>5, <1>6, DealSumSame
<1>8. QED
  BY <1>2, <1>3, <1>7

\* A cancellation: the status it checked is still there, so this is the first.
LEMMA CancelSerial ==
    ASSUME SerialInv, BooksInv', Alone', NEW r \in Request, CommitCancel(r)
    PROVE  SerialInv'
<1> BooksInv /\ TypeInv /\ Limits
  BY DEF SerialInv, BooksInv
<1>1. PICK i \in Row : i = req[r].row /\ Exists(i)
  BY DEF CommitCancel, TypeInv, JobsReady, RowJobReady
<1>2. investment[i].status \in Cancellable
  BY <1>1 DEF CommitCancel, SerialInv, StillTrue
<1>3. refund \in [Row -> Nat] /\ refund[i] = 0
  BY <1>2 DEF TypeInv, TypeOK, Limits, RefundedIsClosed
<1>4. refund'[i] = 1 /\ \A j \in Row \ {i} : refund'[j] = refund[j]
  BY <1>1, <1>3 DEF CommitCancel
<1>5. /\ \A d : DealSum(investment', d) = DealSum(investment, d)
      /\ investment'[i].status = "CANCELLED"
      /\ \A j \in Row \ {i} : investment'[j] = investment[j]
  BY <1>1, StatusFits DEF CommitCancel, InvestmentStatus
<1>6. \A d \in Deal : Fits(investment', d, 0)
  BY <1>5 DEF Limits, Fits
<1>7. RefundedAtMostOnce' /\ RefundedIsClosed'
  BY <1>4, <1>5 DEF Limits, RefundedAtMostOnce, RefundedIsClosed, Cancellable
<1>8. ASSUME NEW p \in Project, project'[p].raised >= Target[p]
      PROVE  project'[p].status = "FUNDED"
  <2>1. PICK q, a : /\ q = investment[i].project /\ q \in Project
                   /\ a = investment[i].amount /\ a \in Nat
    BY <1>1, FundingAssumption DEF TypeInv, TypeOK, RowsReady, Investment
  <2>2. project' = [project EXCEPT ![q].raised = project[q].raised - a]
    BY <1>1, <2>1 DEF CommitCancel
  <2>3. /\ project'[p].status = project[p].status
        /\ project[p].raised \in Int
        /\ project'[p].raised = IF p = q THEN project[p].raised - a ELSE project[p].raised
    BY <2>1, <2>2 DEF TypeInv, TypeOK
  <2>4. project[p].raised >= Target[p]
    BY <1>8, <2>1, <2>3, FundingAssumption
  <2>5. QED
    BY <2>3, <2>4 DEF Limits, FundedAtTarget
<1>9. Limits'
  BY <1>6, <1>7, <1>8 DEF Limits, FundedAtTarget
<1>10. req[r] # Idle /\ StillTrue(Idle)'
  BY DEF CommitCancel, StillTrue, Idle
<1>11. QED
  BY <1>9, <1>10, WriteSerial DEF CommitCancel, Finish

LEMMA ConfirmSerial ==
    ASSUME SerialInv, BooksInv', Alone', NEW r \in Request, NEW i \in Row, ConfirmRow(r, i)
    PROVE  SerialInv'
<1> BooksInv /\ TypeInv /\ Limits
  BY DEF SerialInv, BooksInv
<1>1. /\ \A d : DealSum(investment', d) = DealSum(investment, d)
      /\ investment'[i].status = "CONFIRMED"
      /\ \A j \in Row \ {i} : investment'[j] = investment[j]
  BY StatusFits DEF ConfirmRow, InvestmentStatus
<1>2. Limits'
  BY <1>1 DEF ConfirmRow, Limits, Fits, RefundedAtMostOnce, RefundedIsClosed, FundedAtTarget,
              Cancellable
<1>3. PICK job : job = RowJob("confirm", i, TRUE)
  OBVIOUS
<1>4. job.op = "confirm"
  BY <1>3 DEF RowJob, Idle
<1>5. job # Idle /\ StillTrue(job)'
  BY <1>4 DEF StillTrue, Idle
<1>6. QED
  BY <1>2, <1>3, <1>5, WriteSerial DEF ConfirmRow

LEMMA ConfirmLaterSerial ==
    ASSUME SerialInv, BooksInv', Alone', NEW r \in Request,
           ConfirmTransaction(r) \/ ConfirmEvent(r) \/ ConfirmLedgerEvent(r)
    PROVE  SerialInv'
<1> req[r] \in Job
  BY DEF SerialInv, BooksInv, TypeInv, TypeOK
<1>1. req[r].op = "confirm" /\ UNCHANGED <<project, investment, refund>>
  BY DEF ConfirmTransaction, ConfirmEvent, ConfirmLedgerEvent
<1>5. req[r] # Idle
  BY <1>1 DEF Idle
<1>2. Limits'
  BY <1>1 DEF SerialInv, Limits, Fits, RefundedAtMostOnce, RefundedIsClosed, FundedAtTarget
<1>3. PICK job : /\ req' = [req EXCEPT ![r] = job]
                 /\ job.op \in {"confirm", "idle"}
  <2>1. CASE ConfirmLedgerEvent(r)
    <3>1. Idle.op = "idle"
      BY DEF Idle
    <3>2. QED
      BY <2>1, <3>1 DEF ConfirmLedgerEvent, Finish
  <2>2. CASE ConfirmTransaction(r) \/ ConfirmEvent(r)
    <3>1. PICK pc \in {"event", "ledgerEvent"} : Goto(r, pc)
      BY <2>2 DEF ConfirmTransaction, ConfirmEvent
    <3>2. PICK job : job = [req[r] EXCEPT !.pc = pc]
      OBVIOUS
    <3>3. job.op = "confirm"
      BY <1>1, <3>2 DEF Job
    <3>4. QED
      BY <3>1, <3>2, <3>3 DEF Goto
  <2>3. QED
    BY <2>1, <2>2
<1>4. StillTrue(job)'
  BY <1>3 DEF StillTrue
<1>6. QED
  BY <1>2, <1>3, <1>4, <1>5, WriteSerial

(***************************************************************************)
(* The theorem about the parts.                                            *)
(***************************************************************************)

\* A step changes one slot.
LEMMA OneSlot ==
    ASSUME Next
    PROVE  UNCHANGED req \/ \E r \in Request : \E job : req' = [req EXCEPT ![r] = job]
<1>1. ASSUME NEW r \in Request, InvestStep(r)
      PROVE  \E job : req' = [req EXCEPT ![r] = job]
  BY <1>1 DEF InvestStep, BeginInvest, BeginDealInvest, AnswerExisting, MissExisting,
              ReadProject, CheckDeal, CheckCap, Conflict, CacheAnswer, CommitInvest,
              CommitDealInvest, Finish, Goto
<1>2. ASSUME NEW r \in Request, LaterStep(r) \/ Fail(r)
      PROVE  \E job : req' = [req EXCEPT ![r] = job]
  BY <1>2 DEF LaterStep, Fail, BeginCancel, ConfirmRow, BeginCompliance, BeginPublish,
              CommitCancel, CommitCompliance, CommitPublish, ConfirmTransaction, ConfirmEvent,
              ConfirmLedgerEvent, Finish, Goto
<1>3. CASE \/ \E u \in Investor, k \in Key : AnswerFromCache(u, k) \/ ForgetAnswer(u, k)
           \/ \E i \in Row, s \in InvestmentStatus : UpdateInvestment(i, s)
           \/ \E i \in Row, s \in {"COMPLETED", "PENDING", "FLAGGED", "CANCELLED"} :
                UpdateTransaction(i, s)
           \/ \E p \in Project : ApproveProject(p) \/ RejectProject(p)
  BY <1>3 DEF AnswerFromCache, ForgetAnswer, UpdateInvestment, UpdateTransaction,
              ApproveProject, RejectProject, TransitionProject
<1>4. QED
  BY <1>1, <1>2, <1>3 DEF Next

\* What InFlight(1) bounds: with one slot busy and one changing, the busy slots of
\* the next state are finitely many, so that their number is 0 or 1.
LEMMA InFlightAlone ==
    ASSUME TypeInv, Alone, Next, InFlight(1)
    PROVE  Alone'
<1>1. PICK Busy : Busy = {r \in Request : req'[r] # Idle}
  OBVIOUS
<1>2. PICK X : X = {r \in Request : req[r] # Idle}
  OBVIOUS
<1>3. IsFiniteSet(X)
  <2>1. CASE X = {}
    BY <2>1, FS_EmptySet
  <2>2. CASE X # {}
    <3>1. PICK q \in X : X = {q}
      BY <1>2, <2>2 DEF Alone
    <3>2. QED
      BY <3>1, FS_Singleton
  <2>3. QED
    BY <2>1, <2>2
<1>4. \E r : Busy \subseteq X \cup {r}
  <2>1. CASE UNCHANGED req
    BY <1>1, <1>2, <2>1
  <2>2. ASSUME NEW r \in Request, NEW job, req' = [req EXCEPT ![r] = job]
        PROVE  Busy \subseteq X \cup {r}
    BY <1>1, <1>2, <2>2 DEF TypeInv, TypeOK
  <2>3. QED
    BY <2>1, <2>2, OneSlot
<1>5. PICK r : Busy \subseteq X \cup {r}
  BY <1>4
<1>6. IsFiniteSet(Busy)
  <2>1. IsFiniteSet(X \cup {r})
    BY <1>3, FS_AddElement
  <2>2. QED
    BY <1>5, <2>1, FS_Subset
<1>7. ASSUME NEW p \in Busy, NEW q \in Busy, p # q
      PROVE  FALSE
  <2>1. IsFiniteSet({p, q}) /\ Cardinality({p, q}) = 2
    <3>1. IsFiniteSet({p}) /\ Cardinality({p}) = 1
      BY FS_Singleton
    <3>2. IsFiniteSet({p} \cup {q}) /\ Cardinality({p} \cup {q}) = Cardinality({p}) + 1
      BY <1>7, <3>1, FS_AddElement
    <3>3. {p} \cup {q} = {p, q}
      OBVIOUS
    <3>4. QED
      BY <3>1, <3>2, <3>3
  <2>2. Cardinality({p, q}) <= Cardinality(Busy)
    BY <1>6, FS_Subset
  <2>3. Cardinality(Busy) <= 1 /\ Cardinality(Busy) \in Nat
    BY <1>1, <1>6, FS_CardinalityType DEF InFlight
  <2>4. QED
    BY <2>1, <2>2, <2>3
<1>8. QED
  BY <1>1, <1>7 DEF Alone

\* The clients of PartsAssumption call nothing else.
LEMMA SerialSteps ==
    ASSUME SerialInv, Next
    PROVE  \/ \E r \in Request : InvestStep(r) \/ Fail(r)
           \/ \E r \in Request : \/ \E i \in Row : BeginCancel(r, i) \/ ConfirmRow(r, i)
                                 \/ CommitCancel(r) \/ ConfirmTransaction(r)
                                 \/ ConfirmEvent(r) \/ ConfirmLedgerEvent(r)
           \/ \E u \in Investor, k \in Key : AnswerFromCache(u, k) \/ ForgetAnswer(u, k)
<1>1. \A op \in Calls : op \in {"invest", "dealInvest", "cancel", "confirm"}
  BY PartsAssumption DEF SerialCalls
<1>2. ASSUME NEW i \in Row, NEW s
      PROVE  ~UpdateInvestment(i, s) /\ ~UpdateTransaction(i, s)
  BY <1>1 DEF UpdateInvestment, UpdateTransaction
<1>3. ASSUME NEW p \in Project
      PROVE  ~ApproveProject(p) /\ ~RejectProject(p)
  BY <1>1 DEF ApproveProject, RejectProject
<1>4. ASSUME NEW r \in Request
      PROVE  /\ ~CommitCompliance(r) /\ ~CommitPublish(r)
             /\ \A i \in Row, passed \in BOOLEAN : ~BeginCompliance(r, i, passed)
             /\ \A p \in Project : ~BeginPublish(r, p)
  <2>1. req[r].op \notin {"compliance", "publish"}
    BY DEF SerialInv, StillTrue
  <2>2. QED
    BY <1>1, <2>1 DEF CommitCompliance, CommitPublish, BeginCompliance, BeginPublish
<1>5. QED
  BY <1>2, <1>3, <1>4 DEF Next, LaterStep

LEMMA SerialNext ==
    ASSUME SerialInv, Next, InFlight(1)
    PROVE  SerialInv'
<1>1. BooksInv' /\ Alone'
  BY BooksNext, InFlightAlone DEF SerialInv, BooksInv
<1>2. ASSUME NEW r \in Request, InvestStep(r)
      PROVE  SerialInv'
  <2>1. CASE \/ \E u \in Investor, k \in Key, p \in Project, d \in Deal \cup {None}, a \in Amount :
                  BeginInvest(r, u, k, p, d, a)
             \/ \E u \in Investor, k \in Key, d \in Deal, a \in Amount :
                  BeginDealInvest(r, u, k, d, a)
    BY <1>1, <2>1, BeginInvestSerial, BeginDealInvestSerial
  <2>2. CASE MissExisting(r) \/ ReadProject(r) \/ CheckDeal(r) \/ CheckCap(r)
    BY <1>1, <2>2, CheckSerial, ReadProjectSerial
  <2>3. CASE AnswerExisting(r) \/ Conflict(r) \/ CacheAnswer(r)
    <3>1. Finish(r) /\ req[r] # Idle /\ UNCHANGED tables
      BY <2>3 DEF AnswerExisting, Conflict, CacheAnswer, Idle
    <3>2. QED
      BY <1>1, <3>1, FinishSerial
  <2>4. CASE \E i \in Row : CommitInvest(r, i) \/ CommitDealInvest(r, i)
    BY <1>1, <2>4, CommitSerial
  <2>5. QED
    BY <1>2, <2>1, <2>2, <2>3, <2>4 DEF InvestStep
<1>3. ASSUME NEW r \in Request,
             \/ \E i \in Row : BeginCancel(r, i) \/ ConfirmRow(r, i)
             \/ CommitCancel(r) \/ ConfirmTransaction(r)
             \/ ConfirmEvent(r) \/ ConfirmLedgerEvent(r)
      PROVE  SerialInv'
  BY <1>1, <1>3, BeginCancelSerial, ConfirmSerial, CancelSerial, ConfirmLaterSerial
<1>4. ASSUME NEW r \in Request, Fail(r)
      PROVE  SerialInv'
  BY <1>1, <1>4, FinishSerial DEF Fail
<1>5. ASSUME NEW u \in Investor, NEW k \in Key, AnswerFromCache(u, k) \/ ForgetAnswer(u, k)
      PROVE  SerialInv'
  BY <1>1, <1>5, StillSerial DEF AnswerFromCache, ForgetAnswer
<1>6. QED
  BY <1>2, <1>3, <1>4, <1>5, SerialSteps

LEMMA SerialInit == Init => SerialInv
<1> SUFFICES ASSUME Init
             PROVE  SerialInv
  OBVIOUS
<1>1. BooksInv
  BY BooksInit
<1>2. \A r \in Request : req[r] = Idle
  BY DEF Init
<1>3. Alone /\ \A r \in Request : StillTrue(req[r])
  BY <1>2, IdleIsTrue DEF Alone
<1>4. ASSUME NEW d \in Deal
      PROVE  Fits(investment, d, 0)
  <2>1. PICK f : f = [i \in Row |-> investment[i].amount]
    OBVIOUS
  <2>2. RowsOfDeal(investment, d) = {}
    BY DEF Init, RowsOfDeal, Absent
  <2>3. DealSum(investment, d) = Total(f, {})
    BY <1>1, <2>1, <2>2, TablesOf, DealSumIsTotal
  <2>4. DealSum(investment, d) = 0
    BY <2>3, FS_EmptySet, TotalStep
  <2>5. QED
    BY <2>4, FundingAssumption DEF Fits
<1>5. RefundedAtMostOnce /\ RefundedIsClosed
  BY DEF Init, RefundedAtMostOnce, RefundedIsClosed
<1>6. FundedAtTarget
  BY PartsAssumption, FundingAssumption DEF Init, FundedAtTarget
<1>7. QED
  BY <1>1, <1>3, <1>4, <1>5, <1>6 DEF SerialInv, Limits

LEMMA SerialLimits ==
    ASSUME SerialInv
    PROVE  DealCapHolds /\ RefundedAtMostOnce /\ FundedAtTarget
<1>1. ASSUME NEW d \in Deal, DealMax[d] > 0
      PROVE  SumOf(DealRows(d)) <= DealMax[d]
  <2>1. SumOf(DealRows(d)) = DealSum(investment, d)
    BY SumOfDeal
  <2>2. DealSum(investment, d) \in Int /\ DealMax[d] \in Nat
    BY TablesOf, DealSumIsInt, FundingAssumption DEF SerialInv
  <2>3. Fits(investment, d, 0)
    BY DEF SerialInv, Limits
  <2>4. QED
    BY <1>1, <2>1, <2>2, <2>3 DEF Fits
<1>2. QED
  BY <1>1 DEF DealCapHolds, SerialInv, Limits

PartsInv == part = "serial" => SerialInv

LEMMA PartsStep == PartsInv /\ [PartsNext]_<<vars, part>> => PartsInv'
<1> SUFFICES ASSUME PartsInv, PartsNext \/ UNCHANGED <<vars, part>>, part' = "serial"
             PROVE  SerialInv'
  BY DEF PartsInv
<1>1. part = "serial" /\ SerialInv
  BY DEF PartsNext, PartsInv
<1>2. CASE PartsNext
  <2>1. Next /\ InFlight(1)
    BY <1>1, <1>2 DEF PartsNext
  <2>2. QED
    BY <1>1, <2>1, SerialNext
<1>3. CASE UNCHANGED <<vars, part>>
  <2>1. BooksInv'
    BY <1>1, <1>3, BooksNext DEF SerialInv
  <2>2. Alone'
    BY <1>1, <1>3 DEF SerialInv, Alone, vars
  <2>3. QED
    BY <1>1, <1>3, <2>1, <2>2, StillSerial DEF vars
<1>4. QED
  BY <1>2, <1>3

\* As long as handlers run one by one, the deal's cap, the single refund and the
\* FUNDED status are kept, for any number of deals, projects and investments: what
\* a handler checked is still so when it writes.
THEOREM ChecksHoldAloneHolds == PartsSpec => []ChecksHoldAlone
<1>1. PartsInit => PartsInv
  BY SerialInit DEF PartsInit, PartsInv
<1>2. PartsInv => ChecksHoldAlone
  BY SerialLimits DEF PartsInv, ChecksHoldAlone
<1>3. QED
  BY <1>1, <1>2, PartsStep, PTL DEF PartsSpec

=============================================================================
