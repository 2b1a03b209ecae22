------------------------------- MODULE Impact -------------------------------
(***************************************************************************)
(* Impact reports and their cache: ImpactReportingService (libs/impact).   *)
(*                                                                         *)
(* A project has one report row, written again by every submission.        *)
(* submitReport puts the metrics into Redis inside its transaction: the    *)
(* row becomes visible with the commit, the cache entry at once, and a     *)
(* roll-back takes back the row only.  The row stays locked until then.    *)
(***************************************************************************)
EXTENDS Naturals

CONSTANTS
    Project,
    Metrics,        \* what submissions report; each submission has its own
    Request,        \* calls in flight at a time
    None

VARIABLES
    report,         \* the ImpactReport row of each project
    cached,         \* Redis: impact:metrics:<project>
    submitted,      \* events "impact.report_submitted": <<project, metrics>>
    used,           \* metrics some submission has carried
    verified,       \* history: metrics that some review has verified
    answer,         \* history: the answers getProjectImpact gave
    req             \* the job of each slot

vars == <<report, cached, submitted, used, verified, answer, req>>

NoReport == [status |-> "ABSENT", metrics |-> None]
NoEntry == [metrics |-> None, ttl |-> TRUE]
Idle == [op |-> "idle"]

Free(p) == \A r \in Request : req[r].op = "submit" => req[r].project # p

\* Faulty variant: the entry has no time to live.
EntryForGood(m) == [metrics |-> m, ttl |-> FALSE]

\* setJson with a time to live.
Entry(m) == [metrics |-> m, ttl |-> TRUE]

\* RedisService.setJson, as both callers use it.
SetJson(p, m) == cached' = [cached EXCEPT ![p] = Entry(m)]

(***************************************************************************)
(* submitReport and reviewReport.                                          *)
(***************************************************************************)

\* The upsert, which locks the row, and the cache.
Submit(r, p, m) ==
    /\ req[r] = Idle /\ Free(p) /\ m \notin used
    /\ SetJson(p, m)
    /\ used' = used \cup {m}
    /\ req' = [req EXCEPT ![r] = [op |-> "submit", project |-> p, metrics |-> m]]
    /\ UNCHANGED <<report, submitted, verified, answer>>

\* The commit: row and event.
Commit(r) ==
    LET job == req[r] IN
    /\ job.op = "submit"
    /\ report' = [report EXCEPT ![job.project] =
                      [status |-> "SUBMITTED", metrics |-> job.metrics]]
    /\ submitted' = submitted \cup {<<job.project, job.metrics>>}
    /\ req' = [req EXCEPT ![r] = Idle]
    /\ UNCHANGED <<cached, used, verified, answer>>

\* reviewReport: by id, without a look at the status; the cache is not told.
ReviewReport(p, status) ==
    /\ report[p] # NoReport /\ Free(p)
    /\ report' = [report EXCEPT ![p].status = status]
    /\ verified' = IF status = "VERIFIED" THEN verified \cup {report[p].metrics} ELSE verified
    /\ UNCHANGED <<cached, submitted, used, answer, req>>

(***************************************************************************)
(* getProjectImpact.                                                       *)
(***************************************************************************)

Answered(p, source, m) ==
    answer' = answer \cup {[project |-> p, source |-> source, metrics |-> m]}

AnswerFromCache(p) ==
    /\ cached[p] # NoEntry
    /\ Answered(p, "cache", cached[p].metrics)
    /\ UNCHANGED <<report, cached, submitted, used, verified, req>>

\* Faulty variant: the row counts whatever its status is.
ReadAnyReport(r, p) ==
    /\ req[r] = Idle /\ cached[p] = NoEntry
    /\ req' = [req EXCEPT ![r] = [op |-> "get", project |-> p, metrics |-> report[p].metrics]]
    /\ UNCHANGED <<report, cached, submitted, used, verified, answer>>

\* The cache has nothing; the database has the row if it is VERIFIED.
ReadReport(r, p) ==
    /\ req[r] = Idle /\ cached[p] = NoEntry
    /\ LET m == IF report[p].status = "VERIFIED" THEN report[p].metrics ELSE None
       IN  req' = [req EXCEPT ![r] = [op |-> "get", project |-> p, metrics |-> m]]
    /\ UNCHANGED <<report, cached, submitted, used, verified, answer>>

\* What was found is cached, if anything was, and answered.
AnswerFromDatabase(r) ==
    LET job == req[r] IN
    /\ job.op = "get"
    /\ IF job.metrics = None THEN UNCHANGED cached ELSE SetJson(job.project, job.metrics)
    /\ Answered(job.project, "database", job.metrics)
    /\ req' = [req EXCEPT ![r] = Idle]
    /\ UNCHANGED <<report, submitted, used, verified>>

\* An error or the end of the process: a transaction rolls back.
Fail(r) ==
    /\ req[r] # Idle
    /\ req' = [req EXCEPT ![r] = Idle]
    /\ UNCHANGED <<report, cached, submitted, used, verified, answer>>

\* The hour is over.
Expire(p) ==
    /\ cached[p] # NoEntry /\ cached[p].ttl
    /\ cached' = [cached EXCEPT ![p] = NoEntry]
    /\ UNCHANGED <<report, submitted, used, verified, answer, req>>

Init ==
    /\ report = [p \in Project |-> NoReport]
    /\ cached = [p \in Project |-> NoEntry]
    /\ submitted = {} /\ used = {} /\ verified = {} /\ answer = {}
    /\ req = [r \in Request |-> Idle]

Next ==
    \/ \E r \in Request :
           \/ Commit(r) \/ AnswerFromDatabase(r) \/ Fail(r)
           \/ \E p \in Project : ReadReport(r, p) \/ \E m \in Metrics : Submit(r, p, m)
    \/ \E p \in Project :
           \/ AnswerFromCache(p) \/ Expire(p)
           \/ \E status \in {"VERIFIED", "REJECTED"} : ReviewReport(p, status)

Spec == Init /\ [][Next]_vars

\* Redis forgets what has a time to live.
FairSpec == Spec /\ \A p \in Project : WF_vars(Expire(p))

(***************************************************************************)
(* Properties.                                                             *)
(***************************************************************************)

TypeOK ==
    /\ report \in [Project -> {NoReport} \cup
           [status : {"SUBMITTED", "VERIFIED", "REJECTED"}, metrics : Metrics]]
    /\ cached \in [Project -> [metrics : Metrics \cup {None}, ttl : BOOLEAN]]
    /\ submitted \subseteq Project \X Metrics
    /\ used \subseteq Metrics /\ verified \subseteq used
    /\ answer \subseteq
           [project : Project, source : {"cache", "database"}, metrics : Metrics \cup {None}]
    /\ req \in [Request -> {Idle}
           \cup [op : {"submit"}, project : Project, metrics : Metrics]
           \cup [op : {"get"}, project : Project, metrics : Metrics \cup {None}]]

\* What getProjectImpact answers from the database, some review verified, although the
\* row is submitted again and reviewed again while the answer is under way
\* (impact-reporting.service.ts:179-188).  An answer from the cache need not be: the
\* cache is filled by submitReport (95), before any review.
DatabaseAnswersAreVerified ==
    /\ \A a \in answer : a.source = "database" /\ a.metrics # None => a.metrics \in verified
    /\ \A r \in Request : req[r].op = "get" /\ req[r].metrics # None => req[r].metrics \in verified

\* Metrics of a report that stays rejected do not stay in the cache: every entry has a
\* time to live, also one that a submission left behind when it rolled back
\* (impact-reporting.service.ts:95, 185).
RejectedIsForgotten ==
    \A p \in Project, m \in Metrics :
        report[p].status = "REJECTED" /\ cached[p].metrics = m
            ~> cached[p].metrics # m \/ report[p].status # "REJECTED"

=============================================================================
