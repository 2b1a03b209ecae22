---------------------------- MODULE DueDiligence ----------------------------
(***************************************************************************)
(* The due diligence case of a project and its tasks: DueDiligenceService  *)
(* (apps/api/.../due-diligence.module.ts).                                 *)
(*                                                                         *)
(* A project has one case row, used again when its case is over.  Handlers *)
(* read the row, check it and write later without looking again: a job in  *)
(* a slot.  Reports, scores, assessments and evidence are left out, since  *)
(* no status depends on them, and so are the events that the handlers      *)
(* write in the transactions of their rows.                                *)
(***************************************************************************)

CONSTANTS
    Project,        \* projects; each has at most one case
    Assessor,       \* users who are assessors
    Admin,          \* an administrator
    Asked,          \* the status texts that requests ask for
    Task,           \* task rows of the cases
    Request         \* handlers in flight at a time

VARIABLES
    case,           \* the case row of each project
    task,           \* the task rows
    req             \* the job of each slot

vars == <<case, task, req>>

CaseStatus ==
    {"ASSIGNED", "IN_PROGRESS", "NEEDS_INFORMATION", "REPORT_DRAFTED", "QUALITY_REVIEW",
     "APPROVED", "REJECTED", "EXPIRED", "NOT_STARTED"}
Decided == {"APPROVED", "REJECTED"}
Inactive == Decided \cup {"EXPIRED"}
Submittable == {"ASSIGNED", "IN_PROGRESS", "NEEDS_INFORMATION"}

\* Faulty variant: the text is the status.
TakenLiterally(text) == text

\* normalizeStatus: two texts stand for another status, the rest for themselves.
Normalize(text) ==
    CASE text = "UNDER_REVIEW" -> "QUALITY_REVIEW"
      [] text = "COMPLETED" -> "APPROVED"
      [] OTHER -> text

\* assertValidTransition: where a task may go from each status.
TaskMoves ==
    [OPEN |-> {"IN_PROGRESS", "BLOCKED"},
     IN_PROGRESS |-> {"COMPLETED", "BLOCKED", "OPEN"},
     BLOCKED |-> {"OPEN", "IN_PROGRESS"},
     COMPLETED |-> {"IN_PROGRESS"},
     CANCELLED |-> {}]
TaskStatus == DOMAIN TaskMoves

User == Assessor \cup {Admin}

NoCase == [status |-> "ABSENT", assessor |-> Admin]
NoTask == [status |-> "ABSENT", begun |-> FALSE]
DeletedTask == [status |-> "DELETED", begun |-> FALSE]
Idle == [op |-> "idle"]

Stored(p) == case[p].status # "ABSENT"
TaskStored(t) == task[t] \notin {NoTask, DeletedTask}

(***************************************************************************)
(* The two halves of a handler.                                            *)
(***************************************************************************)

Take(r, job) ==
    /\ req[r] = Idle
    /\ req' = [req EXCEPT ![r] = job]
    /\ UNCHANGED <<case, task>>
Finish(r, op) ==
    /\ req[r].op = op
    /\ req' = [req EXCEPT ![r] = Idle]

\* The transaction of a handler.
Put(p, row) ==
    /\ case' = [case EXCEPT ![p] = row]
    /\ UNCHANGED task

(***************************************************************************)
(* DueDiligenceService: the case.                                          *)
(***************************************************************************)

\* createEngagement: no case yet, or one that is over.
CheckAssign(r, p, a) ==
    /\ case[p].status \in Inactive \cup {"ABSENT"}
    /\ Take(r, [op |-> "assign", project |-> p, assessor |-> a])
Assign(r) ==
    LET p == req[r].project IN
    /\ Finish(r, "assign")
    /\ Put(p, [status |-> "ASSIGNED", assessor |-> req[r].assessor])

\* Faulty variant: the status is looked at before it is normalized.
MayAskRaw(user, text) == user = Admin \/ text \notin Decided

\* What an assessor may not ask for.
MayAsk(user, text) == user = Admin \/ Normalize(text) \notin Decided

\* updateEngagement: "" stands for a request without a status.
CheckUpdate(r, p, user, text) ==
    /\ Stored(p)
    /\ user \in {Admin, case[p].assessor}
    /\ MayAsk(user, text)
    /\ Take(r, [op |-> "update", project |-> p, by |-> user, text |-> text])
Update(r) ==
    LET p == req[r].project
        text == req[r].text
    IN
    /\ Finish(r, "update")
    /\ Put(p, [case[p] EXCEPT !.status = IF text = "" THEN @ ELSE Normalize(text)])

CheckStart(r, p) ==
    /\ case[p].status = "ASSIGNED"
    /\ Take(r, [op |-> "start", project |-> p, by |-> case[p].assessor])
Start(r) ==
    LET p == req[r].project IN
    /\ Finish(r, "start")
    /\ Put(p, [case[p] EXCEPT !.status = "IN_PROGRESS"])

CheckReport(r, p) ==
    /\ case[p].status \in Submittable
    /\ Take(r, [op |-> "report", project |-> p, by |-> case[p].assessor])
SubmitReport(r) ==
    LET p == req[r].project IN
    /\ Finish(r, "report")
    /\ Put(p, [case[p] EXCEPT !.status = "QUALITY_REVIEW"])

\* reviewReport reads nothing first: its status is the administrator's.
ReviewReport(p, status) ==
    /\ Stored(p)
    /\ status \in Decided
    /\ Put(p, [case[p] EXCEPT !.status = status])
    /\ UNCHANGED req

(***************************************************************************)
(* DueDiligenceService: the tasks.                                         *)
(***************************************************************************)

CreateTask(t) ==
    /\ task[t] = NoTask
    /\ \E p \in Project : Stored(p)
    /\ task' = [task EXCEPT ![t] = [status |-> "OPEN", begun |-> FALSE]]
    /\ UNCHANGED <<case, req>>

DeleteTask(t) ==
    /\ TaskStored(t)
    /\ task' = [task EXCEPT ![t] = DeletedTask]
    /\ UNCHANGED <<case, req>>

\* Faulty variant: an open task may be completed at once.
CheckTaskEarly(r, t, status) ==
    /\ TaskStored(t)
    /\ status \in TaskMoves[task[t].status] \cup {"COMPLETED"}
    /\ Take(r, [op |-> "task", task |-> t, status |-> status])

\* updateTaskStatus
CheckTask(r, t, status) ==
    /\ TaskStored(t)
    /\ status \in TaskMoves[task[t].status]
    /\ Take(r, [op |-> "task", task |-> t, status |-> status])
\* begun is history: some handler has set the row to IN_PROGRESS.  Of a row deleted
\* meanwhile nothing is written.
MoveTask(r) ==
    LET t == req[r].task IN
    /\ Finish(r, "task")
    /\ task' = IF ~TaskStored(t) THEN task
               ELSE [task EXCEPT ![t] = [status |-> req[r].status,
                                         begun |-> @.begun \/ req[r].status = "IN_PROGRESS"]]
    /\ UNCHANGED case

\* An error, a lost connection, the end of the process: the transaction rolls back.
Fail(r) ==
    /\ req[r] # Idle
    /\ req' = [req EXCEPT ![r] = Idle]
    /\ UNCHANGED <<case, task>>

Init ==
    /\ case = [p \in Project |-> NoCase]
    /\ task = [t \in Task |-> NoTask]
    /\ req = [r \in Request |-> Idle]

Begin(r, p) ==
    \/ CheckStart(r, p) \/ CheckReport(r, p)
    \/ \E a \in Assessor : CheckAssign(r, p, a)
    \/ \E user \in User, text \in Asked : CheckUpdate(r, p, user, text)
Commit(r) == Assign(r) \/ Update(r) \/ Start(r) \/ SubmitReport(r) \/ MoveTask(r)

Next ==
    \/ \E r \in Request :
           \/ Fail(r) \/ Commit(r)
           \/ \E p \in Project : Begin(r, p)
           \/ \E t \in Task, status \in TaskStatus : CheckTask(r, t, status)
    \/ \E p \in Project, status \in CaseStatus : ReviewReport(p, status)
    \/ \E t \in Task : CreateTask(t) \/ DeleteTask(t)

Spec == Init /\ [][Next]_vars

(***************************************************************************)
(* Properties.                                                             *)
(***************************************************************************)

Job ==
    [op : {"assign"}, project : Project, assessor : Assessor]
    \cup [op : {"update"}, project : Project, by : User, text : Asked]
    \cup [op : {"start", "report"}, project : Project, by : Assessor]
    \cup [op : {"task"}, task : Task, status : TaskStatus]

\* A task is never CANCELLED: no transition leads there.
TypeOK ==
    /\ case \in [Project -> {NoCase} \cup [status : CaseStatus, assessor : Assessor]]
    /\ task \in [Task -> {NoTask, DeletedTask} \cup [status : TaskStatus \ {"CANCELLED"}, begun : BOOLEAN]]
    /\ req \in [Request -> {Idle} \cup Job]

\* A case is decided by an administrator, whatever text an assessor asks for and however
\* long its request is in flight: a step that decides one is a review, or the update of
\* an administrator (updateEngagement, due-diligence.module.ts:363; reviewReport, 516).
NoAssessorDecides ==
    [][\A p \in Project :
           case'[p].status \in Decided /\ case'[p].status # case[p].status =>
               \A r \in Request : req'[r] # req[r] => req[r].by = Admin]_vars

\* Handlers that overtake each other may move a task in ways the table does not have, but
\* a completed task was worked on (assertValidTransition, due-diligence.module.ts:826).
CompletedWasBegun ==
    /\ \A t \in Task : task[t].status = "COMPLETED" => task[t].begun
    /\ \A r \in Request :
           req[r].op = "task" /\ req[r].status = "COMPLETED" /\ TaskStored(req[r].task) =>
               task[req[r].task].begun

=============================================================================
