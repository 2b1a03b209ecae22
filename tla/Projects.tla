------------------------------ MODULE Projects ------------------------------
(***************************************************************************)
(* The life of a project: ProjectsService (apps/api/.../projects.module.ts)*)
(* and the two routes that invest in it (investments and deals), which     *)
(* write back the status they read.                                        *)
(*                                                                         *)
(* Each handler reads the row, checks it and writes later without looking  *)
(* again.  It is a job in a slot between the two; seen is the part of the  *)
(* row it read and will use.  How much was raised is in module Funding:    *)
(* here an investment reaches the target or does not.                      *)
(***************************************************************************)
EXTENDS FiniteSets

CONSTANTS
    Project,        \* project rows
    Request         \* handlers in flight at a time

VARIABLES
    project,        \* the rows: status, deleted, featured, terms
    outboxEvent,    \* outbox rows written about projects
    fundedByDeal,   \* those an investment in a deal has taken to its target (not stored anywhere)
    req             \* the job of each slot

vars == <<project, outboxEvent, fundedByDeal, req>>

ProjectStatus == {"DRAFT", "UNDER_REVIEW", "REJECTED", "ACTIVE", "LISTED", "FUNDED"}
OwnerEditable == {"DRAFT", "UNDER_REVIEW"}
Investable == {"ACTIVE", "LISTED"}

\* Title, target, limits and the rest of what the owner writes, in two versions.
Terms == {"first", "second"}

Topic ==
    {"project.created", "project.submitted", "project.approved", "project.rejected",
     "project.revision-requested", "project.published"}
Operation ==
    {"update", "remove", "submit", "approve", "reject", "revision", "feature", "publish"}
        \cup {"invest", "deal"}

NoRow == [status |-> "ABSENT", deleted |-> FALSE, featured |-> FALSE, terms |-> "first"]
Idle == [op |-> "idle"]

Stored(p) == project[p].status # "ABSENT"
Emitted(topic, p) == [topic |-> topic, project |-> p] \in outboxEvent

(***************************************************************************)
(* The two halves of a handler.                                            *)
(***************************************************************************)

Used(p, op) ==
    [status |-> IF op \in {"invest", "deal"} THEN project[p].status ELSE "ABSENT",
     featured |-> op = "feature" /\ project[p].featured]

Read(r, p, op) ==
    /\ req[r] = Idle
    /\ Stored(p)
    /\ req' = [req EXCEPT ![r] = [op |-> op, project |-> p, seen |-> Used(p, op)]]
    /\ UNCHANGED <<project, outboxEvent, fundedByDeal>>

\* getProjectForAccess: a deleted project is not found.
Check(r, p, op, statuses) ==
    /\ ~project[p].deleted
    /\ project[p].status \in statuses
    /\ Read(r, p, op)

Finish(r, op) ==
    /\ req[r].op = op
    /\ req' = [req EXCEPT ![r] = Idle]
Put(p, row) == project' = [project EXCEPT ![p] = row]
Emit(topic, p) == outboxEvent' = outboxEvent \cup {[topic |-> topic, project |-> p]}

\* The transaction of a handler that only moves the status.
Move(r, op, status, topic) ==
    LET p == req[r].project IN
    /\ Finish(r, op)
    /\ Put(p, [project[p] EXCEPT !.status = status])
    /\ Emit(topic, p)
    /\ UNCHANGED fundedByDeal

(***************************************************************************)
(* ProjectsService.                                                        *)
(***************************************************************************)

Create(p) ==
    /\ ~Stored(p)
    /\ Put(p, [NoRow EXCEPT !.status = "DRAFT"])
    /\ Emit("project.created", p)
    /\ UNCHANGED <<fundedByDeal, req>>

\* Administrators update whatever the status is.
CheckUpdate(r, p, admin) ==
    Check(r, p, "update", IF admin THEN ProjectStatus ELSE OwnerEditable)
Update(r, terms) ==
    LET p == req[r].project IN
    /\ Finish(r, "update")
    /\ Put(p, [project[p] EXCEPT !.terms = terms])
    /\ UNCHANGED <<outboxEvent, fundedByDeal>>

CheckRemove(r, p) == Check(r, p, "remove", ProjectStatus)
Remove(r) ==
    LET p == req[r].project IN
    /\ Finish(r, "remove")
    /\ Put(p, [project[p] EXCEPT !.deleted = TRUE])
    /\ UNCHANGED <<outboxEvent, fundedByDeal>>

CheckSubmit(r, p) == Check(r, p, "submit", {"DRAFT"})

Submit(r) == Move(r, "submit", "UNDER_REVIEW", "project.submitted")

\* approve and reject take a project in any status.
CheckApprove(r, p) == Check(r, p, "approve", ProjectStatus)
Approve(r) == Move(r, "approve", "ACTIVE", "project.approved")

CheckReject(r, p) == Check(r, p, "reject", ProjectStatus)
Reject(r) == Move(r, "reject", "REJECTED", "project.rejected")

CheckRevision(r, p) == Check(r, p, "revision", {"UNDER_REVIEW"})
RequestRevision(r) == Move(r, "revision", "DRAFT", "project.revision-requested")

\* Faulty variant: a project may be published while it is under review.
CheckPublishEarly(r, p) == Check(r, p, "publish", {"UNDER_REVIEW", "ACTIVE"})

CheckPublish(r, p) == Check(r, p, "publish", {"ACTIVE"})
Publish(r) == Move(r, "publish", "LISTED", "project.published")

\* toggleFeatured does not ask whether the project is deleted.
ReadFeatured(r, p) == Read(r, p, "feature")
ToggleFeatured(r) ==
    LET p == req[r].project IN
    /\ Finish(r, "feature")
    /\ Put(p, [project[p] EXCEPT !.featured = ~req[r].seen.featured])
    /\ UNCHANGED <<outboxEvent, fundedByDeal>>

(***************************************************************************)
(* Investments.                                                            *)
(***************************************************************************)

\* InvestmentsService.create asks for an open project; DealsService.invest for a
\* live deal, and takes the project as it is.
CheckInvest(r, p) == Check(r, p, "invest", Investable)
ReadForDeal(r, p) == Read(r, p, "deal")

\* Both write FUNDED, or the status they read.
Invest(r, op, reachesTarget) ==
    LET p == req[r].project IN
    /\ op \in {"invest", "deal"}
    /\ Finish(r, op)
    /\ Put(p, [project[p] EXCEPT !.status = IF reachesTarget THEN "FUNDED" ELSE req[r].seen.status])
    /\ fundedByDeal' = IF op = "deal" /\ reachesTarget THEN fundedByDeal \cup {p} ELSE fundedByDeal
    /\ UNCHANGED outboxEvent

\* An error, a lost connection, the end of the process: the transaction rolls back.
Fail(r) ==
    /\ req[r] # Idle
    /\ req' = [req EXCEPT ![r] = Idle]
    /\ UNCHANGED <<project, outboxEvent, fundedByDeal>>

Init ==
    /\ project = [p \in Project |-> NoRow]
    /\ outboxEvent = {}
    /\ fundedByDeal = {}
    /\ req = [r \in Request |-> Idle]

Begin(r, p) ==
    \/ CheckRemove(r, p) \/ CheckSubmit(r, p) \/ CheckApprove(r, p) \/ CheckReject(r, p)
    \/ CheckRevision(r, p) \/ CheckPublish(r, p) \/ ReadFeatured(r, p)
    \/ CheckInvest(r, p) \/ ReadForDeal(r, p)
    \/ \E admin \in BOOLEAN : CheckUpdate(r, p, admin)
Commit(r) ==
    \/ Remove(r) \/ Submit(r) \/ Approve(r) \/ Reject(r) \/ RequestRevision(r) \/ Publish(r)
    \/ ToggleFeatured(r)
    \/ \E terms \in Terms : Update(r, terms)
    \/ \E op \in {"invest", "deal"}, reachesTarget \in BOOLEAN : Invest(r, op, reachesTarget)

Next ==
    \/ \E p \in Project : Create(p)
    \/ \E r \in Request : Fail(r) \/ Commit(r) \/ \E p \in Project : Begin(r, p)

Spec == Init /\ [][Next]_vars

(***************************************************************************)
(* Properties.                                                             *)
(***************************************************************************)

Row == [status : ProjectStatus, deleted : BOOLEAN, featured : BOOLEAN, terms : Terms]
Seen == [status : ProjectStatus \cup {"ABSENT"}, featured : BOOLEAN]

\* SUBMITTED, DUE_DILIGENCE, APPROVED, FUNDING, COMPLETED and SUSPENDED, the other
\* statuses of the schema, are never written by any handler.
TypeOK ==
    /\ project \in [Project -> Row \cup {NoRow}]
    /\ outboxEvent \subseteq [topic : Topic, project : Project]
    /\ fundedByDeal \subseteq Project
    /\ req \in [Request -> {Idle} \cup [op : Operation, project : Project, seen : Seen]]

\* The events without which no project has the status.
AnnouncedBy ==
    [UNDER_REVIEW |-> {"project.submitted"},
     REJECTED |-> {"project.rejected"},
     ACTIVE |-> {"project.approved"},
     LISTED |-> {"project.approved", "project.published"},
     FUNDED |-> {"project.approved"}]
\* An investment in a live deal funds whatever project the deal is for.
Announced(status, p) ==
    \/ status \notin DOMAIN AnnouncedBy
    \/ \A topic \in AnnouncedBy[status] : Emitted(topic, p)
    \/ status = "FUNDED" /\ p \in fundedByDeal

\* However handlers overtake each other, and whatever status an investment in flight
\* will write back over a newer one, a project never has a status that was not decided:
\* one that is public (ACTIVE, LISTED or FUNDED) was approved, a listed one also published,
\* one under review submitted, and the outbox says so; with one exception: an investment
\* in a live deal that reaches the target makes the deal's project FUNDED, and so public,
\* whether anybody approved it or not (projects.module.ts:597, 749, 1095, 1176;
\* investments.module.ts:310; deals.module.ts:672).
OfferedWasApproved ==
    \A p \in Project :
        /\ Announced(project[p].status, p)
        /\ \A r \in Request :
               req[r].op \in {"invest", "deal"} /\ req[r].project = p =>
                   Announced(req[r].seen.status, p)

=============================================================================
