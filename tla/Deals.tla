------------------------------- MODULE Deals -------------------------------
(***************************************************************************)
(* The life of a deal: DealsService (apps/api/.../deals.module.ts) and the *)
(* scheduler's sweep over expired deals (apps/scheduler).                  *)
(*                                                                         *)
(* Each handler reads the deal, checks its status and writes in a          *)
(* transaction that does not look again; the sweep is one conditional      *)
(* update.  A handler is a job in a slot: the operation and its deal       *)
(* between the check and the write.  Of an investment only its existence   *)
(* matters here; amounts and caps are in module Funding.                   *)
(***************************************************************************)
EXTENDS FiniteSets

CONSTANTS
    Deal,           \* deal rows
    Request         \* handlers in flight at a time

VARIABLES
    deal,           \* status and closesAt of each row
    invested,       \* deals with at least one investment
    outboxEvent,    \* outbox rows written about deals
    req             \* the job of each slot

vars == <<deal, invested, outboxEvent, req>>

DealStatus ==
    {"DRAFT", "COMPLIANCE_REVIEW", "APPROVED", "LIVE", "PAUSED",
     "CLOSED_SUCCESSFUL", "CLOSED_FAILED", "CANCELLED"}
NotLiveYet == {"DRAFT", "COMPLIANCE_REVIEW"}

\* closesAt: null, in the future, or passed.
ClosesAt == {"never", "later", "due"}

Topic ==
    {"deal.created", "deal.submitted", "deal.approved", "deal.rejected", "deal.opened",
     "deal.paused", "deal.resumed", "deal.closed"}
Operation ==
    {"update", "submit", "approve", "reject", "open", "pause", "resume", "close", "invest"}

NoRow == [status |-> "ABSENT", closesAt |-> "never"]
Idle == [op |-> "idle"]

Stored(d) == deal[d].status # "ABSENT"
Emitted(topic, d) == [topic |-> topic, deal |-> d] \in outboxEvent

(***************************************************************************)
(* The two halves of a handler.                                            *)
(***************************************************************************)

\* It reads the deal and finds it in one of the statuses its operation accepts.
Check(r, d, op, statuses) ==
    /\ req[r] = Idle
    /\ deal[d].status \in statuses
    /\ req' = [req EXCEPT ![r] = [op |-> op, deal |-> d]]
    /\ UNCHANGED <<deal, invested, outboxEvent>>

Finish(r, op, d) ==
    /\ req[r] = [op |-> op, deal |-> d]
    /\ req' = [req EXCEPT ![r] = Idle]
Emit(topic, d) == outboxEvent' = outboxEvent \cup {[topic |-> topic, deal |-> d]}

\* The transaction of a handler that only moves the status.
Move(r, d, op, status, topic) ==
    /\ Finish(r, op, d)
    /\ deal' = [deal EXCEPT ![d].status = status]
    /\ Emit(topic, d)
    /\ UNCHANGED invested

(***************************************************************************)
(* DealsService.                                                           *)
(***************************************************************************)

\* Its project exists and is not deleted; what becomes of it later is in module Projects.
Create(d, closes) ==
    /\ ~Stored(d)
    /\ deal' = [deal EXCEPT ![d] = [status |-> "DRAFT", closesAt |-> closes]]
    /\ Emit("deal.created", d)
    /\ UNCHANGED <<invested, req>>

\* update may set or move closesAt but not remove it; it writes no event.
CheckUpdate(r, d) == Check(r, d, "update", NotLiveYet)
Update(r, d, closes) ==
    /\ Finish(r, "update", d)
    /\ closes = "never" => deal[d].closesAt = "never"
    /\ deal' = [deal EXCEPT ![d].closesAt = closes]
    /\ UNCHANGED <<invested, outboxEvent>>

CheckSubmit(r, d) == Check(r, d, "submit", {"DRAFT"})
Submit(r, d) == Move(r, d, "submit", "COMPLIANCE_REVIEW", "deal.submitted")

CheckApprove(r, d) == Check(r, d, "approve", NotLiveYet)
Approve(r, d) == Move(r, d, "approve", "APPROVED", "deal.approved")

CheckReject(r, d) == Check(r, d, "reject", {"COMPLIANCE_REVIEW"})
Reject(r, d) == Move(r, d, "reject", "CANCELLED", "deal.rejected")

\* Faulty variant: a deal under review may be opened.
CheckOpenEarly(r, d) == Check(r, d, "open", {"COMPLIANCE_REVIEW", "APPROVED"})

CheckOpen(r, d) == Check(r, d, "open", {"APPROVED"})
Open(r, d) == Move(r, d, "open", "LIVE", "deal.opened")

CheckPause(r, d) == Check(r, d, "pause", {"LIVE"})
Pause(r, d) == Move(r, d, "pause", "PAUSED", "deal.paused")

CheckResume(r, d) == Check(r, d, "resume", {"PAUSED"})
Resume(r, d) == Move(r, d, "resume", "LIVE", "deal.resumed")

\* close also sets closesAt to now.
CheckClose(r, d) == Check(r, d, "close", {"LIVE", "PAUSED"})
Close(r, d, status) ==
    /\ Finish(r, "close", d)
    /\ status \in {"CLOSED_SUCCESSFUL", "CLOSED_FAILED"}
    /\ deal' = [deal EXCEPT ![d] = [status |-> status, closesAt |-> "due"]]
    /\ Emit("deal.closed", d)
    /\ UNCHANGED invested

\* remove asks only for the row; it has no transaction and writes no event.
Remove(d) ==
    /\ Stored(d)
    /\ deal' = [deal EXCEPT ![d].status = "CANCELLED"]
    /\ UNCHANGED <<invested, outboxEvent, req>>

CheckInvest(r, d) == Check(r, d, "invest", {"LIVE"})
Invest(r, d) ==
    /\ Finish(r, "invest", d)
    /\ invested' = invested \cup {d}
    /\ UNCHANGED <<deal, outboxEvent>>

\* An error, a lost connection, the end of the process: the transaction rolls back.
Fail(r) ==
    /\ req[r] # Idle
    /\ req' = [req EXCEPT ![r] = Idle]
    /\ UNCHANGED <<deal, invested, outboxEvent>>

(***************************************************************************)
(* The scheduler.                                                          *)
(***************************************************************************)

Expired(d) == deal[d].status = "LIVE" /\ deal[d].closesAt = "due"

\* Faulty variant: a status the schema does not have.
SweepToClosed ==
    /\ \E d \in Deal : Expired(d)
    /\ deal' = [d \in Deal |-> IF Expired(d) THEN [deal[d] EXCEPT !.status = "CLOSED"] ELSE deal[d]]
    /\ UNCHANGED <<invested, outboxEvent, req>>

\* closeExpiredDeals: one updateMany over all rows; no event.  (The scheduler's bootstrap asks
\* for a service its module does not have and stops before its loop, so at this commit no
\* sweep runs: nothing here relies on one, and nothing goes wrong with one.)
Sweep ==
    /\ \E d \in Deal : Expired(d)
    /\ deal' = [d \in Deal |->
           IF Expired(d) THEN [deal[d] EXCEPT !.status = "CLOSED_SUCCESSFUL"] ELSE deal[d]]
    /\ UNCHANGED <<invested, outboxEvent, req>>

\* The clock passes closesAt.
ClosingTime(d) ==
    /\ deal[d].closesAt = "later"
    /\ deal' = [deal EXCEPT ![d].closesAt = "due"]
    /\ UNCHANGED <<invested, outboxEvent, req>>

Init ==
    /\ deal = [d \in Deal |-> NoRow]
    /\ invested = {}
    /\ outboxEvent = {}
    /\ req = [r \in Request |-> Idle]

Begin(r, d) ==
    \/ CheckUpdate(r, d) \/ CheckSubmit(r, d) \/ CheckApprove(r, d) \/ CheckReject(r, d)
    \/ CheckOpen(r, d) \/ CheckPause(r, d) \/ CheckResume(r, d) \/ CheckClose(r, d)
    \/ CheckInvest(r, d)
Commit(r, d) ==
    \/ Submit(r, d) \/ Approve(r, d) \/ Reject(r, d) \/ Open(r, d) \/ Pause(r, d) \/ Resume(r, d)
    \/ Invest(r, d)
    \/ \E closes \in ClosesAt : Update(r, d, closes)
    \/ \E status \in DealStatus : Close(r, d, status)

Next ==
    \/ \E d \in Deal : Remove(d) \/ ClosingTime(d) \/ \E closes \in ClosesAt : Create(d, closes)
    \/ \E r \in Request : Fail(r) \/ \E d \in Deal : Begin(r, d) \/ Commit(r, d)
    \/ Sweep

Spec == Init /\ [][Next]_vars

(***************************************************************************)
(* Properties.                                                             *)
(***************************************************************************)

TypeOK ==
    /\ deal \in [Deal -> [status : {"ABSENT"} \cup DealStatus, closesAt : ClosesAt]]
    /\ invested \subseteq Deal
    /\ outboxEvent \subseteq [topic : Topic, deal : Deal]
    /\ req \in [Request -> {Idle} \cup [op : Operation, deal : Deal]]

Began(d) == deal[d].status \in {"LIVE", "PAUSED", "CLOSED_SUCCESSFUL", "CLOSED_FAILED"}

\* However handlers and the sweep overtake each other, a deal that is or was open
\* to investors, or has an investment, was approved and then opened, and the outbox
\* says so: no status that was read too early opens a deal that was not
\* (deals.module.ts:365, 404, 568, 624; scheduler/main.ts:50).
OpenedFirst ==
    \A d \in Deal : Began(d) \/ d \in invested => Emitted("deal.approved", d) /\ Emitted("deal.opened", d)

=============================================================================
