------------------------------ MODULE Reports ------------------------------
(***************************************************************************)
(* The reports of the API: dashboards, statistics and summaries, each made *)
(* of several queries over the same tables.  The queries of a Promise.all  *)
(* are answered in any order, with other requests in between; those of     *)
(* getPortfolioStats one after the other; getPortfolio has only one.       *)
(* Reports write nothing, so a behaviour makes one report, and follows two *)
(* figures of it that speak of the same rows: the other queries do not     *)
(* matter to them.  A sum of amounts is that of the rows a query selects,  *)
(* whose amounts never change, and is told by their number.                *)
(***************************************************************************)
EXTENDS Naturals, FiniteSets, Folds

CONSTANTS
    Row,            \* rows of the table the figures are about
    ReportChanges   \* changes of the table while a report is made (a bound of the model)

VARIABLES
    table,          \* the rows; mine: of the tenant or user that asks; fresh: created after the period
    report          \* the report being made: what is compared, what has been answered

vars == <<table, report>>

Absent == [status |-> "ABSENT"]

Stored == {x \in Row : table[x] # Absent}
\* tenantWhere, ownerWhere: platform administrators see all rows.
Visible == {x \in Stored : report.scoped => table[x].mine}
Kept == {x \in Visible : table[x].kept}
Of(rows, words) == {x \in rows : table[x].status \in words}

(***************************************************************************)
(* The reports: the rows each figure is about.                             *)
(***************************************************************************)

\* Alerts and memberships; whoever asks, the assessors are those of the own tenant.
Dashboard == [
    alertsBySeverity |-> Visible,
    openAlerts |-> Of(Visible, {"OPEN"}),
    usersByRoleAssessor |-> Of(Visible, {"ACTIVE", "SUSPENDED"}),
    activeAssessors |-> {x \in Of(Stored, {"ACTIVE"}) : table[x].mine}]

ComplianceStats == [total |-> Visible, bySeverity |-> Visible, byStatus |-> Visible]

\* Of all tenants, whoever asks.
RiskStats == [
    projectsWithRiskAssessment |-> Stored \ Of(Stored, {"NULL"}),
    projectsWithoutDueDiligence |-> Of(Stored, {"NULL"}),
    criticalRiskProjects |-> Of(Stored, {"CRITICAL"})]

\* AdminService.
TransactionStats == [
    totalCount |-> Visible, byStatus |-> Visible, byType |-> Visible,
    totalVolume |-> Of(Visible, {"COMPLETED"})]

\* InvestmentsService, with names of its own.
TransactionTotals == [
    totalTransactions |-> Visible, byStatus |-> Visible, byType |-> Visible,
    totalVolume |-> Of(Visible, {"COMPLETED"})]

\* Faulty variant: the period ends when the query is answered.
InPeriodSoFar == Visible

\* getDateRange: the period ends at a date that is fixed before the queries are sent, now
\* unless the request names another.
InPeriod == {x \in Visible : report.future \/ ~table[x].fresh}

TransactionSummary == [
    totalCount |-> InPeriod, byType |-> InPeriod, byStatus |-> InPeriod, byCurrency |-> InPeriod]

\* Users belong to a tenant by their memberships, which are not rows of this table.
UserStats == [total |-> Visible, byStatus |-> Visible, byKycStatus |-> Visible]

EngagementStats == [
    totalEngagements |-> Stored, byStatus |-> Stored]

ProjectStats == [total |-> Visible, byStatus |-> Visible, bySector |-> Visible]

\* Faulty variant: the deleted projects are among the groups.
EntrepreneurDashboardOfAll == [
    totalProjects |-> Kept, projectsByStatus |-> Visible,
    underReview |-> Of(Kept, {"UNDER_REVIEW"}), pendingReviews |-> Of(Visible, {"UNDER_REVIEW"})]

\* pendingReviews alone counts deleted projects too; underReview is the group of that status.
EntrepreneurDashboard == [
    totalProjects |-> Kept, projectsByStatus |-> Kept,
    underReview |-> Of(Kept, {"UNDER_REVIEW"}), pendingReviews |-> Of(Visible, {"UNDER_REVIEW"})]

\* uncancelled: the groups of the other statuses, refunded investments among them.
ProjectAnalytics == [
    totalCount |-> Visible \ Of(Visible, {"CANCELLED"}),
    uncancelled |-> Visible \ Of(Visible, {"CANCELLED"})]

\* A refunded investment is pending and cancelled, a confirmed one active and completed.
Portfolio == [
    investments |-> Visible,
    active |-> Of(Visible, {"CONFIRMED"}), completed |-> Of(Visible, {"CONFIRMED"}),
    pending |-> Visible \ Of(Visible, {"CONFIRMED", "CANCELLED"}),
    cancelled |-> Of(Visible, {"CANCELLED", "REFUNDED"})]

\* Here whatever is not confirmed is pending, and a refunded one is not cancelled.
PortfolioStats == [
    activeInvestments |-> Of(Visible, {"CONFIRMED"}),
    pendingInvestments |-> Visible \ Of(Visible, {"CONFIRMED"}),
    cancelledInvestments |-> Of(Visible, {"CANCELLED"}),
    totalInvestments |-> Visible]

Selection == [
    getDashboard |-> Dashboard, getComplianceStats |-> ComplianceStats,
    getRiskStats |-> RiskStats, getTransactionStats |-> TransactionStats,
    getTransactionTotals |-> TransactionTotals,
    getTransactionSummaryReport |-> TransactionSummary, getUserStats |-> UserStats,
    getEngagementStats |-> EngagementStats, getProjectStats |-> ProjectStats,
    getEntrepreneurDashboard |-> EntrepreneurDashboard,
    getProjectAnalytics |-> ProjectAnalytics,
    getPortfolio |-> Portfolio, getPortfolioStats |-> PortfolioStats]

(***************************************************************************)
(* What figures of one report have to do with each other: those of less    *)
(* sum up to at most those of more, or to the same.                        *)
(***************************************************************************)
Alert == {"OPEN", "RESOLVED"}
Member == {"ACTIVE", "SUSPENDED", "INVESTOR"}
Rating == {"NULL", "LOW", "CRITICAL"}
Payment == {"PENDING", "COMPLETED"}
Draft == {"DRAFT", "UNDER_REVIEW"}
Holding == {"CONFIRMED", "CANCELLED", "REFUNDED"}

AtMost(name, words, less, more) ==
    [report |-> name, words |-> words, less |-> less, more |-> more, same |-> FALSE]
Same(name, words, less, more) == [AtMost(name, words, less, more) EXCEPT !.same = TRUE]

Relation == {
    AtMost("getDashboard", Alert, {"openAlerts"}, {"alertsBySeverity"}),
    AtMost("getDashboard", Member, {"activeAssessors"}, {"usersByRoleAssessor"}),
    Same("getComplianceStats", Alert, {"bySeverity"}, {"total"}),
    Same("getComplianceStats", Alert, {"byStatus"}, {"total"}),
    AtMost("getRiskStats", Rating, {"criticalRiskProjects"}, {"projectsWithRiskAssessment"}),
    Same("getTransactionStats", Payment, {"byStatus"}, {"totalCount"}),
    Same("getTransactionStats", Payment, {"byType"}, {"totalCount"}),
    AtMost("getTransactionStats", Payment, {"totalVolume"}, {"totalCount"}),
    Same("getTransactionTotals", Payment, {"byStatus"}, {"totalTransactions"}),
    Same("getTransactionTotals", Payment, {"byType"}, {"totalTransactions"}),
    AtMost("getTransactionTotals", Payment, {"totalVolume"}, {"totalTransactions"}),
    Same("getTransactionSummaryReport", Payment, {"byType"}, {"totalCount"}),
    Same("getTransactionSummaryReport", Payment, {"byStatus"}, {"totalCount"}),
    Same("getTransactionSummaryReport", Payment, {"byCurrency"}, {"totalCount"}),
    Same("getUserStats", {"USER"}, {"byStatus"}, {"total"}),
    Same("getUserStats", {"USER"}, {"byKycStatus"}, {"total"}),
    Same("getEngagementStats", {"CASE"}, {"byStatus"}, {"totalEngagements"}),
    Same("getProjectStats", {"DRAFT"}, {"byStatus"}, {"total"}),
    Same("getProjectStats", {"DRAFT"}, {"bySector"}, {"total"}),
    Same("getEntrepreneurDashboard", Draft, {"projectsByStatus"}, {"totalProjects"}),
    AtMost("getEntrepreneurDashboard", Draft, {"underReview"}, {"pendingReviews"}),
    Same("getProjectAnalytics", Holding, {"totalCount"}, {"uncancelled"}),
    AtMost("getPortfolio", Holding, {"investments"}, {"active", "pending", "cancelled"}),
    Same("getPortfolio", Holding, {"active"}, {"completed"}),
    Same("getPortfolioStats", Holding, {"activeInvestments", "pendingInvestments"}, {"totalInvestments"}),
    AtMost("getPortfolioStats", Holding, {"cancelledInvestments"}, {"pendingInvestments"})}

\* Who asks: an administrator of the platform or of a tenant; the owner or investor only;
\* or it makes no difference.
Scope(name) ==
    CASE name \in {"getEntrepreneurDashboard", "getPortfolio", "getPortfolioStats"} -> {TRUE}
      [] name \in {"getRiskStats", "getEngagementStats", "getProjectAnalytics"} -> {FALSE}
      [] OTHER -> BOOLEAN

(***************************************************************************)
(* The table, and whoever changes it: more freely here than the requests   *)
(* of the other modules do.                                                *)
(***************************************************************************)

\* A period that has ended; no row changes its createdAt, and so none leaves or enters it.
Ended == report.of.report = "getTransactionSummaryReport" /\ ~report.future

\* What a figure may see is counted while the report is made.
Changed(seen) ==
    IF report.at # "ask" \/ ~seen THEN UNCHANGED report
    ELSE /\ report.changes < ReportChanges
         /\ report' = [report EXCEPT !.changes = @ + 1]

\* The commit of a transaction that inserts a row: createdAt is the moment of the insert,
\* which may be before the end of the period although the commit comes after it.
Create(x, word, mine, fresh) ==
    /\ x \notin Stored
    /\ fresh => report.at = "ask"
    /\ table' = [table EXCEPT ![x] =
           [status |-> word, mine |-> mine, kept |-> TRUE, fresh |-> fresh]]
    /\ Changed(~Ended \/ ~fresh)

Move(x, word) ==
    /\ x \in Stored
    /\ table[x].status # word
    /\ table' = [table EXCEPT ![x].status = word]
    /\ Changed(~Ended)

\* Projects only: deletedAt.
Delete(x) ==
    /\ report.of.report = "getEntrepreneurDashboard"
    /\ x \in Stored /\ table[x].kept
    /\ table' = [table EXCEPT ![x].kept = FALSE]
    /\ Changed(TRUE)

(***************************************************************************)
(* The request.                                                            *)
(***************************************************************************)
Compared == report.of.less \cup report.of.more
Figure(f) == Cardinality(Selection[report.of.report][f])

Ask ==
    /\ report.at = "rest"
    /\ report' = [report EXCEPT !.at = "ask"]
    /\ UNCHANGED table

\* The queries one after the other.
Order == <<"activeInvestments", "pendingInvestments", "cancelledInvestments", "totalInvestments">>
Place(f) == CHOOSE i \in DOMAIN Order : Order[i] = f
Sent(f) ==
    report.of.report = "getPortfolioStats" =>
        \A g \in Compared : Place(g) < Place(f) => g \in DOMAIN report.answered

\* One query fetches the investments of getPortfolio.
Together(f) == IF report.of.report = "getPortfolio" THEN Compared ELSE {f}

\* changes: those since the first answer (history).
Answer(f) ==
    /\ report.at = "ask"
    /\ f \in Compared \ DOMAIN report.answered
    /\ Sent(f)
    /\ report' = [report EXCEPT
           !.answered = [g \in DOMAIN @ \cup Together(f) |->
               IF g \in DOMAIN @ THEN @[g] ELSE Figure(g)],
           !.changes = IF DOMAIN report.answered = {} THEN 0 ELSE @]
    /\ UNCHANGED table

Init ==
    /\ table = [x \in Row |-> Absent]
    /\ \E of \in Relation :
           report \in [at : {"rest"}, of : {of}, scoped : Scope(of.report),
                       future : IF of.report = "getTransactionSummaryReport" THEN BOOLEAN ELSE {FALSE},
                       answered : {<<>>}, changes : {0}]

Next ==
    \/ Ask
    \/ \E f \in Compared : Answer(f)
    \/ \E x \in Row :
           \/ \E word \in report.of.words : Move(x, word) \/ \E mine, fresh \in BOOLEAN : Create(x, word, mine, fresh)
           \/ Delete(x)

Spec == Init /\ [][Next]_vars

(***************************************************************************)
(* Properties.                                                             *)
(***************************************************************************)
Total(figures) == MapThenFoldSet(+, 0, LAMBDA f : report.answered[f], LAMBDA s : CHOOSE f \in s : TRUE, figures)

\* What getPortfolio lists is of one moment.
Slack == IF report.of.report = "getPortfolio" THEN 0 ELSE report.changes

\* The figures of a report agree, up to what changed between its queries; those over a
\* period that has ended, up to the rows inserted within it whose transactions commit
\* between the queries, whatever else happens meanwhile (admin.module.ts:151-194, 676-731,
\* and the statistics of the other modules).
FiguresMatch ==
    Compared = DOMAIN report.answered =>
        /\ Total(report.of.less) <= Total(report.of.more) + Slack
        /\ report.of.same => Total(report.of.more) <= Total(report.of.less) + Slack

\* Rows and report keep their types.
TypeOK ==
    /\ \A x \in Stored : table[x] \in
           [status : report.of.words, mine : BOOLEAN, kept : BOOLEAN, fresh : BOOLEAN]
    /\ report.of \in Relation
    /\ report.at \in {"rest", "ask"}
    /\ report.changes \in 0 .. ReportChanges
    /\ DOMAIN report.answered \subseteq Compared
    /\ \A f \in DOMAIN report.answered : report.answered[f] \in 0 .. Cardinality(Row)

=============================================================================
