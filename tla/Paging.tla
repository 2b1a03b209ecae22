------------------------------- MODULE Paging -------------------------------
(***************************************************************************)
(* The lists of the API: a page is findMany with skip and take, and its    *)
(* meta data come from a count, two queries sent together.  A client that  *)
(* goes from page to page while hasNextPage is true reads a list that      *)
(* changes under it: rows are created, leave or enter the list when what   *)
(* the filter looks at changes, and move when what they are sorted by      *)
(* does.  No two rows have the same place: where a column has equal values *)
(* the database may order them differently on every page.                  *)
(***************************************************************************)
EXTENDS Naturals, FiniteSets, Sequences, SequencesExt

CONSTANTS
    MaxRows,        \* rows that are ever created
    Limit,          \* rows of a page
    MaxChanges      \* changes of the list while a client reads it (a bound of the model)

VARIABLES
    list,           \* what the client asks for: which list, filtered and sorted how
    created,        \* rows created so far: 1 .. created, in the order of createdAt
    shown,          \* the rows that match the filter, in the order of the list
    walk            \* the client's walk through the pages

vars == <<list, created, shown, walk>>

Row == 1 .. MaxRows
Resting == [at |-> "rest"]

(***************************************************************************)
(* The lists.  moving: rows may leave and enter; sorted: by createdAt, by  *)
(* updatedAt, or by another column.                                        *)
(***************************************************************************)
Sort == {"created", "updated", "other"}
Listing(moving, sorted, ascending) == [moving : moving, sorted : sorted, ascending : ascending]

\* Always filtered by status or deletedAt.
ProjectList == Listing({TRUE}, Sort, BOOLEAN)
UserList == Listing({TRUE}, Sort, BOOLEAN)
\* Filtered if the request says so.
InvestmentList == Listing(BOOLEAN, Sort, BOOLEAN)
TransactionList == Listing(BOOLEAN, {"created", "other"}, BOOLEAN)
EngagementList == Listing(BOOLEAN, Sort, BOOLEAN)
\* The newest first.
DealList == Listing(BOOLEAN, {"created"}, {FALSE})
TenantList == Listing(BOOLEAN, {"created"}, {FALSE})
AlertList == Listing(BOOLEAN, {"created"}, {FALSE})
DisputeList == Listing(BOOLEAN, {"created"}, {FALSE})
MyDisputeList == Listing(BOOLEAN, {"created"}, {FALSE})
AssessorList == Listing(BOOLEAN, {"created"}, {FALSE})
AvailableAssessorList == Listing({TRUE}, {"created"}, {FALSE})
\* The newest first, of rows that stay what they are.
AllTransactionList == Listing({FALSE}, {"created"}, {FALSE})
AuditLogList == Listing({FALSE}, {"created"}, {FALSE})

List ==
    ProjectList \cup UserList \cup InvestmentList \cup TransactionList \cup EngagementList
    \cup DealList \cup TenantList \cup AlertList \cup DisputeList \cup MyDisputeList
    \cup AssessorList \cup AvailableAssessorList \cup AllTransactionList \cup AuditLogList

\* Where a row that is written now may have its place among the others.
Newest(rows) == IF list.ascending THEN Len(rows) + 1 ELSE 1
Places(x, rows) ==
    CASE list.sorted = "created" ->
             LET before == {i \in DOMAIN rows : (rows[i] < x) = list.ascending}
             IN  {Cardinality(before) + 1}
      [] list.sorted = "updated" -> {Newest(rows)}
      [] list.sorted = "other" -> 1 .. Len(rows) + 1

\* Faulty variant: pages are counted from zero.
PageFromZero(page) == {shown[i] : i \in {n \in DOMAIN shown : n > page * Limit /\ n <= (page + 1) * Limit}}

Page(page) == {shown[i] : i \in {n \in DOMAIN shown : n > (page - 1) * Limit /\ n <= page * Limit}}

\* toPaginationMeta.
HasNextPage(page, total) == page * Limit < total

(***************************************************************************)
(* The list.                                                               *)
(***************************************************************************)

\* A walk takes note of a change (history).
Change ==
    IF walk = Resting THEN UNCHANGED walk
    ELSE /\ walk.changes < MaxChanges
         /\ walk' = [walk EXCEPT !.changes = @ + 1]

Create ==
    /\ created < MaxRows
    /\ created' = created + 1
    /\ \E i \in Places(created + 1, shown) : shown' = InsertAt(shown, i, created + 1)
    /\ Change
    /\ UNCHANGED list

Leave(x) ==
    /\ list.moving
    /\ Contains(shown, x)
    /\ shown' = RemoveFirst(shown, x)
    /\ Change
    /\ UNCHANGED <<list, created>>

Enter(x) ==
    /\ list.moving
    /\ x \in 1 .. created
    /\ ~Contains(shown, x)
    /\ \E i \in Places(x, shown) : shown' = InsertAt(shown, i, x)
    /\ Change
    /\ UNCHANGED <<list, created>>

\* What the list is sorted by changes.
Touch(x) ==
    /\ list.sorted # "created"
    /\ Contains(shown, x)
    /\ \E i \in Places(x, RemoveFirst(shown, x)) : shown' = InsertAt(RemoveFirst(shown, x), i, x)
    /\ shown' # shown
    /\ Change
    /\ UNCHANGED <<list, created>>

(***************************************************************************)
(* The client.                                                             *)
(***************************************************************************)

\* listed: the rows of the list when the walk began (history).
Start ==
    /\ walk = Resting
    /\ walk' = [at |-> "ask", page |-> 1, data |-> FALSE, total |-> MaxRows + 1,
                listed |-> ToSet(shown), seen |-> {}, twice |-> 0, changes |-> 0]
    /\ UNCHANGED <<list, created, shown>>

ReadData ==
    /\ walk.at = "ask"
    /\ ~walk.data
    /\ walk' = [walk EXCEPT !.data = TRUE,
                            !.seen = @ \cup Page(walk.page),
                            !.twice = @ + Cardinality(walk.seen \cap Page(walk.page))]
    /\ UNCHANGED <<list, created, shown>>

ReadTotal ==
    /\ walk.at = "ask"
    /\ walk.total = MaxRows + 1
    /\ walk' = [walk EXCEPT !.total = Len(shown)]
    /\ UNCHANGED <<list, created, shown>>

GoOn ==
    /\ walk.at = "ask"
    /\ walk.data /\ walk.total # MaxRows + 1
    /\ walk' = IF HasNextPage(walk.page, walk.total)
               THEN [walk EXCEPT !.page = @ + 1, !.data = FALSE, !.total = MaxRows + 1]
               ELSE [walk EXCEPT !.at = "end"]
    /\ UNCHANGED <<list, created, shown>>

Finish ==
    /\ walk.at = "end"
    /\ walk' = Resting
    /\ UNCHANGED <<list, created, shown>>

Init ==
    /\ list \in List
    /\ created = 0
    /\ shown = <<>>
    /\ walk = Resting

Next ==
    \/ Create \/ \E x \in Row : Leave(x) \/ Enter(x) \/ Touch(x)
    \/ Start \/ ReadData \/ ReadTotal \/ GoOn \/ Finish

Spec == Init /\ [][Next]_vars

(***************************************************************************)
(* Properties.                                                             *)
(***************************************************************************)

\* A walk that has ended has missed, of the rows that were listed when it began and still
\* are, at most as many as there were changes meanwhile, and has met as many twice; it has
\* all of them, and each once, if the list only grows at its end (findAll of every module,
\* as projects.module.ts:470-490).
WalkIsClose ==
    walk.at = "end" =>
        LET missed == Cardinality((walk.listed \cap ToSet(shown)) \ walk.seen) IN
        /\ missed <= walk.changes
        /\ walk.twice <= walk.changes
        /\ list = [moving |-> FALSE, sorted |-> "created", ascending |-> TRUE] =>
               missed = 0 /\ walk.twice = 0

\* The list has each of its rows once, and the walk stays in bounds.
TypeOK ==
    /\ list \in List
    /\ created \in 0 .. MaxRows
    /\ ToSet(shown) \subseteq 1 .. created
    /\ IsInjective(shown)
    /\ walk.at \in {"rest", "ask", "end"}
    /\ walk # Resting =>
           /\ walk.page \in 1 .. MaxRows + 1
           /\ walk.total \in 0 .. MaxRows + 1
           /\ walk.seen \cup walk.listed \subseteq Row
           /\ walk.changes \in 0 .. MaxChanges

=============================================================================
