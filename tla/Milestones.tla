----------------------------- MODULE Milestones -----------------------------
(***************************************************************************)
(* The milestones of a project: ProjectsService of projects.module.ts.     *)
(* Each call finds the milestone and checks who asks, then writes its row  *)
(* by a second query; completeMilestone notes who vouches for it.          *)
(***************************************************************************)
CONSTANTS
    Milestone,
    StageRequest    \* calls under way together

VARIABLES
    milestone,      \* status, and whether someone vouched for the completion
    call            \* the milestone each call has found, and what it is to do

vars == <<milestone, call>>

MilestoneStatus == {"PENDING", "IN_PROGRESS", "COMPLETED", "OVERDUE"}
NoMilestone == [status |-> "ABSENT", completed |-> FALSE]
Idle == [op |-> "idle"]
Present == {m \in Milestone : milestone[m].status \in MilestoneStatus}

CreateMilestone(m) ==
    /\ milestone[m] = NoMilestone
    /\ milestone' = [milestone EXCEPT ![m].status = "PENDING"]
    /\ UNCHANGED call

\* findUnique, and whether the caller may.
FindMilestone(q, m) ==
    /\ call[q] = Idle
    /\ m \in Present
    /\ \/ \E op \in {"remove", "complete"} : call' = [call EXCEPT ![q] = [op |-> op, of |-> m]]
       \/ \E asked \in MilestoneStatus \cup {""} :
              call' = [call EXCEPT ![q] = [op |-> "update", of |-> m, asked |-> asked]]
    /\ UNCHANGED milestone

Finish(q, row) ==
    /\ milestone' = [milestone EXCEPT ![call[q].of] = IF @.status = "REMOVED" THEN @ ELSE row]
    /\ call' = [call EXCEPT ![q] = Idle]

\* Faulty variant: the update writes the whole row it read.
WriteMilestone(q) ==
    /\ call[q].op = "update"
    /\ milestone' = [milestone EXCEPT ![call[q].of] = [status |-> "PENDING", completed |-> FALSE]]
    /\ call' = [call EXCEPT ![q] = Idle]

\* Any status, also of a milestone that was completed; without one it stays.
UpdateMilestone(q) ==
    /\ call[q].op = "update"
    /\ Finish(q, [milestone[call[q].of] EXCEPT !.status = IF call[q].asked = "" THEN @ ELSE call[q].asked])

CompleteMilestone(q) ==
    /\ call[q].op = "complete"
    /\ Finish(q, [status |-> "COMPLETED", completed |-> TRUE])

RemoveMilestone(q) ==
    /\ call[q].op = "remove"
    /\ Finish(q, [milestone[call[q].of] EXCEPT !.status = "REMOVED"])

Fail(q) ==
    /\ call[q] # Idle
    /\ call' = [call EXCEPT ![q] = Idle]
    /\ UNCHANGED milestone

Init ==
    /\ milestone = [m \in Milestone |-> NoMilestone]
    /\ call = [q \in StageRequest |-> Idle]

Next ==
    \/ \E m \in Milestone : CreateMilestone(m) \/ \E q \in StageRequest : FindMilestone(q, m)
    \/ \E q \in StageRequest :
           UpdateMilestone(q) \/ CompleteMilestone(q) \/ RemoveMilestone(q) \/ Fail(q)

Spec == Init /\ [][Next]_vars

(***************************************************************************)
(* Properties.                                                             *)
(***************************************************************************)

\* Who vouched for a completion stays on record whatever else is changed about the milestone,
\* and what was removed stays removed (projects.module.ts:888-985).
VouchedStays ==
    [][\A m \in Milestone :
           /\ milestone[m].completed => milestone'[m].completed
           /\ milestone[m].status = "REMOVED" => milestone'[m] = milestone[m]]_vars

\* Milestones and calls keep their types.
TypeOK ==
    /\ \A m \in Milestone :
           milestone[m] \in [status : MilestoneStatus \cup {"ABSENT", "REMOVED"}, completed : BOOLEAN]
    /\ \A q \in StageRequest : call[q] = Idle \/ call[q].of \in Milestone

=============================================================================
