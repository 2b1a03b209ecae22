----------------------------- MODULE DeskProofs -----------------------------
(***************************************************************************)
(* The inductive invariants of the parts of MCServices, first half: the    *)
(* groups desk (Projects, DueDiligence, Logins, Sessions) and hall         *)
(* (Verification, Votes, Disputes), and Reports of the group room, for any *)
(* number of rows and requests.  Each part has an invariant that its       *)
(* initial states satisfy and its steps and stutters keep, and that        *)
(* implies its properties; ServicesProofs has the others and puts them     *)
(* together.                                                               *)
(***************************************************************************)
EXTENDS MCServices, FiniteSetTheorems, SequenceTheorems, WellFoundedInduction, TLAPS

(***************************************************************************)
(* Projects.                                                               *)
(***************************************************************************)

\* A handler works on a row that is there, and writes back a status the row had.  One that
\* publishes has read an approved project; events are never taken back, so the approval
\* still stands when it writes.
ProjectJobBacked(job) ==
    /\ job # P!Idle => P!Stored(job.project)
    /\ job.op \in {"invest", "deal"} => job.seen.status \in P!ProjectStatus
    /\ job.op \in {"publish", "invest"} => P!Emitted("project.approved", job.project)

ProjectsInv ==
    /\ P!TypeOK
    /\ P!OfferedWasApproved
    /\ \A r \in ProjectRequest : ProjectJobBacked(projectReq[r])

LEMMA ProjectsInit == P!Init => ProjectsInv
BY DEF P!Init, ProjectsInv, P!TypeOK, P!OfferedWasApproved, P!Announced, P!AnnouncedBy, ProjectJobBacked, P!NoRow, P!Idle

\* What was announced stays announced.
LEMMA AnnouncedStays ==
    ASSUME NEW status, NEW p, P!Announced(status, p), projectEvent \subseteq projectEvent',
           fundedByDeal \subseteq fundedByDeal'
    PROVE  P!Announced(status, p)'
BY DEF P!Announced, P!Emitted

\* A check takes note of the status it has read, which is announced.
LEMMA ReadStep ==
    ASSUME ProjectsInv, NEW r \in ProjectRequest, NEW p \in Project, NEW op \in P!Operation,
           P!Read(r, p, op),
           op \in {"publish", "invest"} => project[p].status \in P!Investable
    PROVE  ProjectsInv'
<1> DEFINE job == [op |-> op, project |-> p, seen |-> P!Used(p, op)]
<1>1. projectReq' = [projectReq EXCEPT ![r] = job] /\ UNCHANGED <<project, projectEvent, fundedByDeal>>
  BY DEF P!Read
<1>2. P!Used(p, op) \in P!Seen
  <2>1. project[p] \in P!Row \cup {P!NoRow}
    BY DEF ProjectsInv, P!TypeOK
  <2>2. project[p].status \in P!ProjectStatus \cup {"ABSENT"}
    BY <2>1 DEF P!Row, P!NoRow
  <2>3. P!Used(p, op).status \in P!ProjectStatus \cup {"ABSENT"}
    BY <2>2 DEF P!Used
  <2>4. P!Used(p, op).featured \in BOOLEAN
    <3>1. CASE project[p] \in P!Row
      BY <3>1, Zenon DEF P!Used, P!Row
    <3>2. CASE project[p] = P!NoRow
      BY <3>2, Zenon DEF P!Used, P!NoRow
    <3>3. QED
      BY <2>1, <3>1, <3>2
  <2>5. QED
    BY <2>3, <2>4 DEF P!Used, P!Seen
<1>3. P!TypeOK'
  BY <1>1, <1>2 DEF ProjectsInv, P!TypeOK
<1>4. ASSUME NEW q \in Project PROVE P!Announced(project[q].status, q)'
  BY <1>1 DEF ProjectsInv, P!OfferedWasApproved, P!Announced, P!Emitted
<1>5. ASSUME NEW s \in ProjectRequest, NEW q \in Project, projectReq'[s].op \in {"invest", "deal"}, projectReq'[s].project = q
      PROVE  P!Announced(projectReq[s].seen.status, q)'
  <2>1. CASE s = r
    <3>1. projectReq'[s] = job
      BY <1>1, <2>1 DEF ProjectsInv, P!TypeOK
    <3>2. op \in {"invest", "deal"} /\ q = p /\ projectReq'[s].seen.status = project[p].status
      BY <1>5, <3>1 DEF P!Used
    <3>3. P!Announced(project[p].status, p)
      BY DEF ProjectsInv, P!OfferedWasApproved
    <3>4. QED
      BY <1>1, <3>2, <3>3 DEF P!Announced, P!Emitted
  <2>2. CASE s # r
    BY <1>1, <1>5, <2>2 DEF ProjectsInv, P!TypeOK, P!OfferedWasApproved, P!Announced, P!Emitted
  <2>3. QED
    BY <2>1, <2>2
<1>6. ASSUME NEW s \in ProjectRequest PROVE ProjectJobBacked(projectReq[s])'
  <2>1. CASE s = r
    <3>1. projectReq'[s] = job
      BY <1>1, <2>1 DEF ProjectsInv, P!TypeOK
    <3>2. op \in {"publish", "invest"} => P!Emitted("project.approved", p)
      BY DEF ProjectsInv, P!OfferedWasApproved, P!Announced, P!AnnouncedBy, P!Investable
    <3>3. P!Stored(p) /\ (op \in {"invest", "deal"} => P!Used(p, op).status \in P!ProjectStatus)
      <4>1. P!Stored(p) /\ project[p] \in P!Row \cup {P!NoRow}
        BY DEF P!Read, ProjectsInv, P!TypeOK
      <4>2. project[p].status \in P!ProjectStatus
        BY <4>1 DEF P!Stored, P!Row, P!NoRow
      <4>3. QED
        BY <4>1, <4>2 DEF P!Used
    <3>4. QED
      BY <1>1, <3>1, <3>2, <3>3 DEF ProjectJobBacked, P!Emitted, P!Stored
  <2>2. CASE s # r
    <3>1. projectReq'[s] = projectReq[s] /\ ProjectJobBacked(projectReq[s])
      BY <1>1, <2>2 DEF ProjectsInv, P!TypeOK
    <3>2. QED
      BY <1>1, <3>1 DEF ProjectJobBacked, P!Emitted, P!Stored
  <2>3. QED
    BY <2>1, <2>2
<1>7. P!OfferedWasApproved'
  BY <1>4, <1>5 DEF P!OfferedWasApproved
<1>8. QED
  BY <1>3, <1>6, <1>7 DEF ProjectsInv

\* The row of one project is written, by a handler that ends or by none, and the status
\* it gets is announced: the rest is as it was.
LEMMA WriteStep ==
    ASSUME ProjectsInv, NEW p \in Project, NEW row \in P!Row,
           project' = [project EXCEPT ![p] = row],
           \/ projectReq' = projectReq
           \/ \E r \in ProjectRequest : projectReq' = [projectReq EXCEPT ![r] = P!Idle],
           projectEvent \subseteq projectEvent',
           fundedByDeal \subseteq fundedByDeal', fundedByDeal' \subseteq Project,
           projectEvent' \subseteq [topic : P!Topic, project : Project],
           P!Announced(row.status, p)'
    PROVE  ProjectsInv'
<1>1. \A s \in ProjectRequest : projectReq'[s] = projectReq[s] \/ projectReq'[s] = P!Idle
  BY DEF ProjectsInv, P!TypeOK
<1>2. P!TypeOK'
  BY DEF ProjectsInv, P!TypeOK
<1>3. ASSUME NEW q \in Project PROVE P!Announced(project[q].status, q)'
  <2>1. CASE q = p
    <3>1. project'[q] = row
      BY <2>1 DEF ProjectsInv, P!TypeOK
    <3>2. QED
      BY <2>1, <3>1 DEF P!Announced
  <2>2. CASE q # p
    <3>1. project'[q] = project[q]
      BY <2>2 DEF ProjectsInv, P!TypeOK
    <3>2. P!Announced(project[q].status, q)
      BY DEF ProjectsInv, P!OfferedWasApproved
    <3>3. QED
      BY <3>1, <3>2, AnnouncedStays
  <2>3. QED
    BY <2>1, <2>2
<1>4. ASSUME NEW s \in ProjectRequest, NEW q \in Project, projectReq'[s].op \in {"invest", "deal"}, projectReq'[s].project = q
      PROVE  P!Announced(projectReq[s].seen.status, q)'
  <2>1. projectReq'[s] = projectReq[s]
    BY <1>1, <1>4 DEF P!Idle
  <2>2. P!Announced(projectReq[s].seen.status, q)
    BY <1>4, <2>1 DEF ProjectsInv, P!OfferedWasApproved
  <2>3. QED
    BY <2>1, <2>2, AnnouncedStays
<1>5. ASSUME NEW s \in ProjectRequest PROVE ProjectJobBacked(projectReq[s])'
  <2>1. ProjectJobBacked(projectReq[s])
    BY DEF ProjectsInv
  <2>2. CASE projectReq'[s] = projectReq[s]
    <3>1. \A q \in Project : P!Stored(q) => P!Stored(q)'
      BY DEF ProjectsInv, P!TypeOK, P!Stored, P!Row, P!ProjectStatus
    <3>2. projectReq[s] # P!Idle => projectReq[s].project \in Project
      BY DEF ProjectsInv, P!TypeOK
    <3>3. QED
      BY <2>1, <2>2, <3>1, <3>2 DEF ProjectJobBacked, P!Emitted
  <2>3. CASE projectReq'[s] = P!Idle
    BY <2>3 DEF ProjectJobBacked, P!Idle
  <2>4. QED
    BY <1>1, <2>2, <2>3
<1>6. P!OfferedWasApproved'
  BY <1>3, <1>4 DEF P!OfferedWasApproved
<1>7. QED
  BY <1>2, <1>5, <1>6 DEF ProjectsInv

\* The job of a handler is about a project that has a row.
LEMMA JobOf ==
    ASSUME ProjectsInv, NEW r \in ProjectRequest, NEW op \in P!Operation, projectReq[r].op = op
    PROVE  /\ projectReq[r] \in [op : P!Operation, project : Project, seen : P!Seen]
           /\ projectReq[r].project \in Project
           /\ project[projectReq[r].project] \in P!Row
<1>1. projectReq[r] # P!Idle
  BY DEF P!Operation, P!Idle
<1>2. projectReq[r] \in [op : P!Operation, project : Project, seen : P!Seen]
  BY <1>1 DEF ProjectsInv, P!TypeOK
<1>3. P!Stored(projectReq[r].project)
  BY <1>1 DEF ProjectsInv, ProjectJobBacked
<1>4. project[projectReq[r].project] \in P!Row
  BY <1>2, <1>3 DEF ProjectsInv, P!TypeOK, P!Stored, P!NoRow
<1>5. QED
  BY <1>2, <1>4

LEMMA MoveProjectStep ==
    ASSUME ProjectsInv, NEW r \in ProjectRequest, NEW op \in P!Operation, NEW status \in P!ProjectStatus,
           NEW topic \in P!Topic,
           NEW p, p = projectReq[r].project,
           P!Move(r, op, status, topic),
           P!Announced(status, p)'
    PROVE  ProjectsInv'
<1> PICK row : row = [project[p] EXCEPT !.status = status]
  OBVIOUS
<1>1. projectReq[r].op = op /\ projectReq' = [projectReq EXCEPT ![r] = P!Idle]
  BY DEF P!Move, P!Finish
<1>2. project' = [project EXCEPT ![p] = row]
  BY DEF P!Move, P!Put
<1>3. projectEvent' = projectEvent \cup {[topic |-> topic, project |-> p]} /\ fundedByDeal' = fundedByDeal
  BY DEF P!Move, P!Emit
<1>4. p \in Project /\ project[p] \in P!Row
  BY <1>1, JobOf
<1>5. row \in P!Row /\ row.status = status
  BY <1>4 DEF P!Row
<1>6. projectEvent' \subseteq [topic : P!Topic, project : Project] /\ fundedByDeal' \subseteq Project
  BY <1>3, <1>4 DEF ProjectsInv, P!TypeOK
<1>7. QED
  BY <1>1, <1>2, <1>3, <1>4, <1>5, <1>6, WriteStep

\* What a handler writes beside the status leaves what was announced as it is.
LEMMA TouchStep ==
    ASSUME ProjectsInv, NEW r \in ProjectRequest, NEW op \in P!Operation, NEW row,
           NEW p, p = projectReq[r].project,
           P!Finish(r, op), UNCHANGED projectEvent, P!Put(p, row),
           fundedByDeal' \in {fundedByDeal, fundedByDeal \cup {p}},
           project[p] \in P!Row => row \in P!Row /\ P!Announced(row.status, p)'
    PROVE  ProjectsInv'
<1>1. projectReq[r].op = op /\ projectReq' = [projectReq EXCEPT ![r] = P!Idle] /\ project' = [project EXCEPT ![p] = row]
  BY DEF P!Finish, P!Put
<1>2. p \in Project /\ project[p] \in P!Row
  BY <1>1, JobOf
<1>3. row \in P!Row /\ P!Announced(row.status, p)'
  BY <1>2
<1>4. /\ projectEvent' \subseteq [topic : P!Topic, project : Project]
      /\ fundedByDeal \subseteq fundedByDeal' /\ fundedByDeal' \subseteq Project
  BY <1>2 DEF ProjectsInv, P!TypeOK
<1>5. QED
  BY <1>1, <1>2, <1>3, <1>4, WriteStep

LEMMA CommitStep ==
    ASSUME ProjectsInv, NEW r \in ProjectRequest, P!Commit(r)
    PROVE  ProjectsInv'
<1> PICK p : p = projectReq[r].project
  OBVIOUS
<1>1. CASE P!Submit(r)
  <2>1. P!Announced("UNDER_REVIEW", p)'
    BY <1>1 DEF P!Submit, P!Move, P!Emit, P!Announced, P!AnnouncedBy, P!Emitted
  <2>2. QED
    BY <1>1, <2>1, MoveProjectStep DEF P!Submit, P!Operation, P!ProjectStatus, P!Topic
<1>2. CASE P!Approve(r)
  <2>1. P!Announced("ACTIVE", p)'
    BY <1>2 DEF P!Approve, P!Move, P!Emit, P!Announced, P!AnnouncedBy, P!Emitted
  <2>2. QED
    BY <1>2, <2>1, MoveProjectStep DEF P!Approve, P!Operation, P!ProjectStatus, P!Topic
<1>3. CASE P!Reject(r)
  <2>1. P!Announced("REJECTED", p)'
    BY <1>3 DEF P!Reject, P!Move, P!Emit, P!Announced, P!AnnouncedBy, P!Emitted
  <2>2. QED
    BY <1>3, <2>1, MoveProjectStep DEF P!Reject, P!Operation, P!ProjectStatus, P!Topic
<1>4. CASE P!RequestRevision(r)
  <2>1. P!Announced("DRAFT", p)'
    BY DEF P!Announced, P!AnnouncedBy
  <2>2. QED
    BY <1>4, <2>1, MoveProjectStep DEF P!RequestRevision, P!Operation, P!ProjectStatus, P!Topic
<1>5. CASE P!Publish(r)
  <2>1. projectReq[r].op = "publish"
    BY <1>5 DEF P!Publish, P!Move, P!Finish
  <2>2. P!Emitted("project.approved", p)
    BY <2>1 DEF ProjectsInv, ProjectJobBacked
  <2>3. projectEvent' = projectEvent \cup {[topic |-> "project.published", project |-> p]}
    BY <1>5 DEF P!Publish, P!Move, P!Emit
  <2>4. P!Announced("LISTED", p)'
    BY <2>2, <2>3 DEF P!Announced, P!AnnouncedBy, P!Emitted
  <2>5. QED
    BY <1>5, <2>4, MoveProjectStep DEF P!Publish, P!Operation, P!ProjectStatus, P!Topic
<1>6. CASE P!Remove(r)
  <2> PICK row : row = [project[p] EXCEPT !.deleted = TRUE]
    OBVIOUS
  <2>1. P!Finish(r, "remove") /\ P!Put(p, row) /\ UNCHANGED <<projectEvent, fundedByDeal>>
    BY <1>6 DEF P!Remove
  <2>2. project[p] \in P!Row => row \in P!Row /\ row.status = project[p].status
    BY DEF P!Row
  <2>3. project[p] \in P!Row => P!Announced(row.status, p)'
    BY <2>1, <2>2, JobOf DEF P!Finish, P!Operation, ProjectsInv, P!OfferedWasApproved, P!Announced, P!Emitted
  <2>4. QED
    BY <2>1, <2>2, <2>3, TouchStep DEF P!Operation
<1>7. CASE P!ToggleFeatured(r)
  <2> PICK row : row = [project[p] EXCEPT !.featured = ~projectReq[r].seen.featured]
    OBVIOUS
  <2>1. P!Finish(r, "feature") /\ P!Put(p, row) /\ UNCHANGED <<projectEvent, fundedByDeal>>
    BY <1>7 DEF P!ToggleFeatured
  <2>2. projectReq[r].seen.featured \in BOOLEAN
    BY <2>1, JobOf DEF P!Finish, P!Operation, P!Seen
  <2>3. project[p] \in P!Row => row \in P!Row /\ row.status = project[p].status
    BY <2>2 DEF P!Row
  <2>4. project[p] \in P!Row => P!Announced(row.status, p)'
    BY <2>1, <2>3, JobOf DEF P!Finish, P!Operation, ProjectsInv, P!OfferedWasApproved, P!Announced, P!Emitted
  <2>5. QED
    BY <2>1, <2>3, <2>4, TouchStep DEF P!Operation
<1>8. ASSUME NEW terms \in P!Terms, P!Update(r, terms)
      PROVE  ProjectsInv'
  <2> PICK row : row = [project[p] EXCEPT !.terms = terms]
    OBVIOUS
  <2>1. P!Finish(r, "update") /\ P!Put(p, row) /\ UNCHANGED <<projectEvent, fundedByDeal>>
    BY <1>8 DEF P!Update
  <2>2. project[p] \in P!Row => row \in P!Row /\ row.status = project[p].status
    BY <1>8 DEF P!Row
  <2>3. project[p] \in P!Row => P!Announced(row.status, p)'
    BY <2>1, <2>2, JobOf DEF P!Finish, P!Operation, ProjectsInv, P!OfferedWasApproved, P!Announced, P!Emitted
  <2>4. QED
    BY <2>1, <2>2, <2>3, TouchStep DEF P!Operation
<1>9. ASSUME NEW op \in {"invest", "deal"}, NEW reaches \in BOOLEAN, P!Invest(r, op, reaches)
      PROVE  ProjectsInv'
  <2> PICK status : status = IF reaches THEN "FUNDED" ELSE projectReq[r].seen.status
    OBVIOUS
  <2> PICK row : row = [project[p] EXCEPT !.status = status]
    OBVIOUS
  <2>1. /\ P!Finish(r, op) /\ P!Put(p, row) /\ UNCHANGED projectEvent
        /\ fundedByDeal' = IF op = "deal" /\ reaches THEN fundedByDeal \cup {p} ELSE fundedByDeal
    BY <1>9 DEF P!Invest
  <2>2. status \in P!ProjectStatus
    BY <2>1 DEF P!Finish, ProjectsInv, ProjectJobBacked, P!ProjectStatus
  <2>3. project[p] \in P!Row => row \in P!Row /\ row.status = status
    BY <2>2 DEF P!Row
  <2>4. p \in Project
    BY <2>1, JobOf DEF P!Finish, P!Operation
  <2>5. P!Announced(projectReq[r].seen.status, p)
    BY <2>1, <2>4 DEF P!Finish, ProjectsInv, P!OfferedWasApproved
  <2>6. fundedByDeal \subseteq fundedByDeal'
    BY <2>1
  <2>7. P!Announced(status, p)'
    <3>1. CASE ~reaches
      BY <2>1, <2>5, <2>6, <3>1, AnnouncedStays
    <3>2. CASE reaches /\ op = "deal"
      BY <2>1, <3>2 DEF P!Announced
    <3>3. CASE reaches /\ op = "invest"
      <4>1. P!Emitted("project.approved", p)
        BY <2>1, <3>3 DEF P!Finish, ProjectsInv, ProjectJobBacked
      <4>2. status = "FUNDED" /\ P!Emitted("project.approved", p)'
        BY <2>1, <3>3, <4>1 DEF P!Emitted
      <4>3. QED
        BY <4>2 DEF P!Announced, P!AnnouncedBy
    <3>4. QED
      BY <3>1, <3>2, <3>3
  <2>8. QED
    BY <2>1, <2>3, <2>7, TouchStep DEF P!Operation
<1>10. QED
  BY <1>1, <1>2, <1>3, <1>4, <1>5, <1>6, <1>7, <1>8, <1>9 DEF P!Commit

LEMMA BeginProjectStep ==
    ASSUME ProjectsInv, NEW r \in ProjectRequest, NEW p \in Project, P!Begin(r, p)
    PROVE  ProjectsInv'
<1>1. CASE P!CheckPublish(r, p) \/ P!CheckInvest(r, p)
  BY <1>1, ReadStep DEF P!CheckPublish, P!CheckInvest, P!Check, P!Operation, P!Investable
<1>2. CASE P!CheckRemove(r, p) \/ P!CheckSubmit(r, p) \/ P!CheckApprove(r, p) \/ P!CheckReject(r, p)
  BY <1>2, ReadStep DEF P!CheckRemove, P!CheckSubmit, P!CheckApprove, P!CheckReject, P!Check, P!Operation
<1>3. CASE P!CheckRevision(r, p) \/ P!ReadFeatured(r, p) \/ P!ReadForDeal(r, p)
  BY <1>3, ReadStep DEF P!CheckRevision, P!ReadFeatured, P!ReadForDeal, P!Check, P!Operation
<1>4. CASE \E admin \in BOOLEAN : P!CheckUpdate(r, p, admin)
  BY <1>4, ReadStep DEF P!CheckUpdate, P!Check, P!Operation
<1>5. QED
  BY <1>1, <1>2, <1>3, <1>4 DEF P!Begin

LEMMA CreateProjectStep ==
    ASSUME ProjectsInv, NEW p \in Project, P!Create(p)
    PROVE  ProjectsInv'
<1> DEFINE row == [P!NoRow EXCEPT !.status = "DRAFT"]
<1>1. project' = [project EXCEPT ![p] = row] /\ UNCHANGED <<fundedByDeal, projectReq>>
  BY DEF P!Create, P!Put
<1>2. projectEvent' = projectEvent \cup {[topic |-> "project.created", project |-> p]}
  BY DEF P!Create, P!Emit
<1>3. row \in P!Row /\ row.status = "DRAFT"
  BY DEF P!Row, P!NoRow, P!ProjectStatus, P!Terms
<1>4. P!Announced("DRAFT", p)'
  BY DEF P!Announced, P!AnnouncedBy
<1>5. projectEvent' \subseteq [topic : P!Topic, project : Project] /\ fundedByDeal' \subseteq Project
  BY <1>1, <1>2 DEF ProjectsInv, P!TypeOK, P!Topic
<1>6. QED
  BY <1>1, <1>2, <1>3, <1>4, <1>5, WriteStep

LEMMA ProjectFails ==
    ASSUME ProjectsInv, NEW r \in ProjectRequest, P!Fail(r)
    PROVE  ProjectsInv'
BY DEF ProjectsInv, P!TypeOK, P!Fail, P!OfferedWasApproved, P!Announced, P!Emitted, ProjectJobBacked, P!Stored, P!Idle

LEMMA ProjectsNext ==
    ASSUME ProjectsInv, P!Next \/ UNCHANGED P!vars
    PROVE  ProjectsInv'
<1>1. CASE UNCHANGED P!vars
  BY <1>1 DEF P!vars, ProjectsInv, P!TypeOK, P!OfferedWasApproved, P!Announced, P!Emitted, ProjectJobBacked, P!Stored
<1>2. CASE P!Next
  BY <1>2, CreateProjectStep, ProjectFails, CommitStep, BeginProjectStep DEF P!Next
<1>3. QED
  BY <1>1, <1>2

(***************************************************************************)
(* Due diligence.  A handler works on a case that is there, asks only for  *)
(* what its user may ask, and completes only a task that was in progress;  *)
(* no later write takes back that it was.                                  *)
(***************************************************************************)

TextsAssumption == Asked \subseteq G!CaseStatus \cup {"", "UNDER_REVIEW", "COMPLETED"}

CaseRow == [status : G!CaseStatus, assessor : Assessor]
TaskRow == [status : G!TaskStatus \ {"CANCELLED"}, begun : BOOLEAN]
AssignJob == [op : {"assign"}, project : Assessed, assessor : Assessor]
UpdateJob == [op : {"update"}, project : Assessed, by : G!User, text : Asked]
WorkJob == [op : {"start", "report"}, project : Assessed, by : Assessor]
TaskJob == [op : {"task"}, task : Task, status : G!TaskStatus]

Begun(t) == task[t].status \in {"IN_PROGRESS", "COMPLETED"} => task[t].begun
CaseJobHolds(job) ==
    /\ job.op \in {"update", "start", "report"} => G!Stored(job.project)
    /\ job.op = "update" => G!MayAsk(job.by, job.text)
TaskJobHolds(job) ==
    job.op = "task" =>
        /\ job.status # "CANCELLED"
        /\ task[job.task] # G!NoTask
        /\ job.status = "COMPLETED" /\ G!TaskStored(job.task) => task[job.task].begun

CasesHold ==
    /\ diligence \in [Assessed -> {G!NoCase} \cup CaseRow]
    /\ \A r \in CaseRequest : CaseJobHolds(diligenceReq[r])
TasksHold ==
    /\ task \in [Task -> {G!NoTask, G!DeletedTask} \cup TaskRow]
    /\ \A t \in Task : Begun(t)
    /\ \A r \in CaseRequest : TaskJobHolds(diligenceReq[r])
DiligenceInv == diligenceReq \in [CaseRequest -> {G!Idle} \cup G!Job] /\ CasesHold /\ TasksHold

LEMMA DiligenceInit == G!Init => DiligenceInv
BY DEF G!Init, DiligenceInv, CasesHold, TasksHold, CaseJobHolds, TaskJobHolds, Begun, G!Idle, G!NoTask

\* A job by its kind.
LEMMA Kinds ==
    ASSUME DiligenceInv, NEW r \in CaseRequest
    PROVE  /\ diligenceReq[r] = G!Idle \/ diligenceReq[r] \in AssignJob \/ diligenceReq[r] \in UpdateJob \/ diligenceReq[r] \in WorkJob
              \/ diligenceReq[r] \in TaskJob
           /\ diligenceReq[r].op = "assign" => diligenceReq[r] \in AssignJob
           /\ diligenceReq[r].op = "update" => diligenceReq[r] \in UpdateJob
           /\ diligenceReq[r].op \in {"start", "report"} => diligenceReq[r] \in WorkJob
           /\ diligenceReq[r].op = "task" => diligenceReq[r] \in TaskJob
BY DEF DiligenceInv, G!Job, G!Idle, AssignJob, UpdateJob, WorkJob, TaskJob

LEMMA CaseOf ==
    ASSUME CasesHold, NEW p \in Assessed, G!Stored(p)
    PROVE  diligence[p] \in CaseRow
BY DEF CasesHold, G!Stored, G!NoCase

LEMMA TaskOf ==
    ASSUME TasksHold, NEW t \in Task, G!TaskStored(t)
    PROVE  task[t] \in TaskRow
BY DEF TasksHold, G!TaskStored

\* A job is taken up.
LEMMA TakeStep ==
    ASSUME DiligenceInv, NEW r \in CaseRequest, NEW job \in G!Job, G!Take(r, job),
           CaseJobHolds(job), TaskJobHolds(job)
    PROVE  DiligenceInv'
<1>1. diligenceReq' = [diligenceReq EXCEPT ![r] = job] /\ UNCHANGED <<diligence, task>>
  BY DEF G!Take
<1>2. \A s \in CaseRequest : diligenceReq'[s] = IF s = r THEN job ELSE diligenceReq[s]
  BY <1>1 DEF DiligenceInv
<1>3. ASSUME NEW s \in CaseRequest PROVE CaseJobHolds(diligenceReq[s])' /\ TaskJobHolds(diligenceReq[s])'
  <2>1. CaseJobHolds(diligenceReq'[s]) /\ TaskJobHolds(diligenceReq'[s])
    BY <1>2 DEF DiligenceInv, CasesHold, TasksHold, CaseJobHolds, TaskJobHolds
  <2>2. QED
    BY <1>1, <2>1 DEF CaseJobHolds, TaskJobHolds, G!Stored, G!TaskStored
<1>4. diligenceReq' \in [CaseRequest -> {G!Idle} \cup G!Job]
  BY <1>1 DEF DiligenceInv
<1>5. QED
  BY <1>1, <1>3, <1>4 DEF DiligenceInv, CasesHold, TasksHold, Begun

\* The row of one case is written; the handlers go on, or one ends.
LEMMA PutStep ==
    ASSUME DiligenceInv, NEW p \in Assessed, NEW row \in CaseRow, G!Put(p, row),
           \/ diligenceReq' = diligenceReq
           \/ \E r \in CaseRequest : diligenceReq' = [diligenceReq EXCEPT ![r] = G!Idle]
    PROVE  DiligenceInv'
<1>1. diligence' = [diligence EXCEPT ![p] = row] /\ UNCHANGED task
  BY DEF G!Put
<1>2. diligence' \in [Assessed -> {G!NoCase} \cup CaseRow]
  BY <1>1 DEF DiligenceInv, CasesHold
<1>3. \A q \in Assessed : G!Stored(q) => G!Stored(q)'
  <2>1. row.status # "ABSENT"
    BY DEF CaseRow, G!CaseStatus, G!Decided
  <2>2. QED
    BY <1>1, <2>1 DEF DiligenceInv, CasesHold, G!Stored
<1>4. diligenceReq' \in [CaseRequest -> {G!Idle} \cup G!Job] /\ \A s \in CaseRequest : diligenceReq'[s] = diligenceReq[s] \/ diligenceReq'[s] = G!Idle
  BY DEF DiligenceInv
<1>5. ASSUME NEW s \in CaseRequest PROVE CaseJobHolds(diligenceReq[s])' /\ TaskJobHolds(diligenceReq[s])'
  <2>1. CASE diligenceReq'[s] = G!Idle
    BY <2>1 DEF CaseJobHolds, TaskJobHolds, G!Idle
  <2>2. CASE diligenceReq'[s] = diligenceReq[s]
    <3>1. diligenceReq[s].op \in {"update", "start", "report"} => diligenceReq[s].project \in Assessed
      BY Kinds DEF UpdateJob, WorkJob
    <3>2. CaseJobHolds(diligenceReq[s]) /\ TaskJobHolds(diligenceReq[s])
      BY DEF DiligenceInv, CasesHold, TasksHold
    <3>3. CaseJobHolds(diligenceReq[s])'
      BY <1>3, <2>2, <3>1, <3>2 DEF CaseJobHolds
    <3>4. QED
      BY <1>1, <2>2, <3>2, <3>3 DEF TaskJobHolds, G!TaskStored
  <2>3. QED
    BY <1>4, <2>1, <2>2
<1>6. QED
  BY <1>1, <1>2, <1>4, <1>5 DEF DiligenceInv, CasesHold, TasksHold, Begun

\* The row of one task is written: what was begun stays begun.
LEMMA TaskWrite ==
    ASSUME DiligenceInv, NEW t \in Task, NEW row \in {G!DeletedTask} \cup TaskRow,
           task' = [task EXCEPT ![t] = row], UNCHANGED diligence,
           \/ diligenceReq' = diligenceReq
           \/ \E r \in CaseRequest : diligenceReq' = [diligenceReq EXCEPT ![r] = G!Idle],
           row.status \in {"IN_PROGRESS", "COMPLETED"} => row.begun,
           task[t] = G!NoTask \/ row = G!DeletedTask \/ (G!TaskStored(t) /\ (task[t].begun => row.begun))
    PROVE  DiligenceInv'
<1>1. task' \in [Task -> {G!NoTask, G!DeletedTask} \cup TaskRow] /\ \A u \in Task : Begun(u)'
  BY DEF DiligenceInv, TasksHold, Begun
<1>2. diligenceReq' \in [CaseRequest -> {G!Idle} \cup G!Job] /\ \A s \in CaseRequest : diligenceReq'[s] = diligenceReq[s] \/ diligenceReq'[s] = G!Idle
  BY DEF DiligenceInv
<1>3. row # G!NoTask
  <2>1. row.status # "ABSENT"
    BY DEF G!DeletedTask, TaskRow, G!TaskStatus, G!TaskMoves
  <2>2. QED
    BY <2>1 DEF G!NoTask
<1>4. ASSUME NEW s \in CaseRequest PROVE CaseJobHolds(diligenceReq[s])' /\ TaskJobHolds(diligenceReq[s])'
  <2>1. CASE diligenceReq'[s] = G!Idle
    BY <2>1 DEF CaseJobHolds, TaskJobHolds, G!Idle
  <2>2. CASE diligenceReq'[s] = diligenceReq[s]
    <3>1. diligenceReq[s].op = "task" => diligenceReq[s].task \in Task
      BY Kinds DEF TaskJob
    <3>2. CaseJobHolds(diligenceReq[s]) /\ TaskJobHolds(diligenceReq[s])
      BY DEF DiligenceInv, CasesHold, TasksHold
    <3>3. \A u \in Task : task'[u] = IF u = t THEN row ELSE task[u]
      BY DEF DiligenceInv, TasksHold
    <3>4. TaskJobHolds(diligenceReq[s])'
      BY <1>3, <2>2, <3>1, <3>2, <3>3 DEF TaskJobHolds, G!TaskStored
    <3>5. QED
      BY <2>2, <3>2, <3>4 DEF CaseJobHolds, G!Stored
  <2>3. QED
    BY <1>2, <2>1, <2>2
<1>5. QED
  BY <1>1, <1>2, <1>4 DEF DiligenceInv, CasesHold, TasksHold

LEMMA DiligenceBegins ==
    ASSUME DiligenceInv, NEW r \in CaseRequest, NEW p \in Assessed, G!Begin(r, p)
    PROVE  DiligenceInv'
<1>1. ASSUME G!CheckStart(r, p) \/ G!CheckReport(r, p)
      PROVE  DiligenceInv'
  <2> PICK op \in {"start", "report"} : G!Take(r, [op |-> op, project |-> p, by |-> diligence[p].assessor])
    BY <1>1 DEF G!CheckStart, G!CheckReport
  <2> PICK job : job = [op |-> op, project |-> p, by |-> diligence[p].assessor]
    OBVIOUS
  <2>1. G!Stored(p)
    BY <1>1 DEF G!CheckStart, G!CheckReport, G!Submittable, G!Stored
  <2>2. diligence[p].assessor \in Assessor
    BY <2>1, CaseOf DEF DiligenceInv, CaseRow
  <2>3. job \in G!Job /\ job.op \in {"start", "report"} /\ job.project = p
    BY <2>2 DEF G!Job
  <2>4. QED
    BY <2>1, <2>3, TakeStep DEF CaseJobHolds, TaskJobHolds
<1>2. ASSUME NEW a \in Assessor, G!CheckAssign(r, p, a)
      PROVE  DiligenceInv'
  <2> PICK job : job = [op |-> "assign", project |-> p, assessor |-> a]
    OBVIOUS
  <2>1. job \in G!Job /\ job.op = "assign" /\ G!Take(r, job)
    BY <1>2 DEF G!Job, G!CheckAssign
  <2>2. QED
    BY <2>1, TakeStep DEF CaseJobHolds, TaskJobHolds
<1>3. ASSUME NEW user \in G!User, NEW text \in Asked, G!CheckUpdate(r, p, user, text)
      PROVE  DiligenceInv'
  <2> PICK job : job = [op |-> "update", project |-> p, by |-> user, text |-> text]
    OBVIOUS
  <2>1. job \in G!Job /\ job.op = "update" /\ job.project = p /\ job.by = user /\ job.text = text
    BY DEF G!Job
  <2>2. G!Stored(p) /\ G!MayAsk(user, text) /\ G!Take(r, job)
    BY <1>3 DEF G!CheckUpdate
  <2>3. QED
    BY <2>1, <2>2, TakeStep DEF CaseJobHolds, TaskJobHolds
<1>4. QED
  BY <1>1, <1>2, <1>3 DEF G!Begin

LEMMA CheckTaskStep ==
    ASSUME DiligenceInv, NEW r \in CaseRequest, NEW t \in Task, NEW status \in G!TaskStatus,
           G!CheckTask(r, t, status)
    PROVE  DiligenceInv'
<1> PICK job : job = [op |-> "task", task |-> t, status |-> status]
  OBVIOUS
<1>1. job \in G!Job /\ job.op = "task" /\ job.task = t /\ job.status = status
  BY DEF G!Job
<1>2. G!TaskStored(t) /\ G!Take(r, job) /\ status \in G!TaskMoves[task[t].status]
  BY DEF G!CheckTask
<1>3. task[t].status \in G!TaskStatus \ {"CANCELLED"}
  BY <1>2, TaskOf DEF DiligenceInv, TaskRow
<1>4. status # "CANCELLED" /\ (status = "COMPLETED" => task[t].status = "IN_PROGRESS")
  BY <1>2, <1>3 DEF G!TaskStatus, G!TaskMoves
<1>5. task[t] # G!NoTask /\ Begun(t)
  BY <1>2 DEF G!TaskStored, DiligenceInv, TasksHold
<1>6. CaseJobHolds(job) /\ TaskJobHolds(job)
  BY <1>1, <1>4, <1>5 DEF CaseJobHolds, TaskJobHolds, Begun
<1>7. QED
  BY <1>1, <1>2, <1>6, TakeStep

\* What a request may ask for stands for a status of a case.
LEMMA NormalizeFinds ==
    ASSUME TextsAssumption, NEW text \in Asked, text # ""
    PROVE  G!Normalize(text) \in G!CaseStatus
<1>1. G!Normalize(text) = IF text = "UNDER_REVIEW" THEN "QUALITY_REVIEW"
                          ELSE IF text = "COMPLETED" THEN "APPROVED" ELSE text
  <2>1. CASE text = "UNDER_REVIEW"
    <3>1. text # "COMPLETED"
      BY <2>1
    <3>2. QED
      BY <2>1, <3>1, Zenon DEF G!Normalize
  <2>2. CASE text = "COMPLETED"
    <3>1. text # "UNDER_REVIEW"
      BY <2>2
    <3>2. QED
      BY <2>2, <3>1, Zenon DEF G!Normalize
  <2>3. CASE text # "UNDER_REVIEW" /\ text # "COMPLETED"
    BY <2>3, Zenon DEF G!Normalize
  <2>4. QED
    BY <2>1, <2>2, <2>3
<1>2. QED
  BY <1>1 DEF TextsAssumption, G!CaseStatus

\* What each handler writes to its case.
LEMMA CaseWrite ==
    ASSUME TextsAssumption, DiligenceInv, NEW r \in CaseRequest,
           G!Assign(r) \/ G!Update(r) \/ G!Start(r) \/ G!SubmitReport(r)
    PROVE  /\ diligenceReq' = [diligenceReq EXCEPT ![r] = G!Idle]
           /\ \E row \in CaseRow :
                  /\ G!Put(diligenceReq[r].project, row)
                  /\ row.status \in G!Decided /\ row.status # diligence[diligenceReq[r].project].status =>
                         diligenceReq[r].by = Admin
           /\ diligenceReq[r].project \in Assessed
<1> PICK p : p = diligenceReq[r].project
  OBVIOUS
<1>1. diligenceReq' = [diligenceReq EXCEPT ![r] = G!Idle]
  BY DEF G!Assign, G!Update, G!Start, G!SubmitReport, G!Finish
<1>2. CASE G!Assign(r)
  <2> PICK row : row = [status |-> "ASSIGNED", assessor |-> diligenceReq[r].assessor]
    OBVIOUS
  <2>1. diligenceReq[r].op = "assign" /\ G!Put(p, row)
    BY <1>2 DEF G!Assign, G!Finish
  <2>2. diligenceReq[r] \in AssignJob
    BY <2>1, Kinds
  <2>3. p \in Assessed /\ row \in CaseRow /\ row.status = "ASSIGNED"
    BY <2>2 DEF AssignJob, CaseRow, G!CaseStatus
  <2>4. QED
    BY <1>1, <2>1, <2>3 DEF G!Decided
<1>3. CASE G!Start(r) \/ G!SubmitReport(r)
  <2> PICK op \in {"start", "report"}, status \in {"IN_PROGRESS", "QUALITY_REVIEW"} :
           diligenceReq[r].op = op /\ G!Put(p, [diligence[p] EXCEPT !.status = status])
    BY <1>3 DEF G!Start, G!SubmitReport, G!Finish
  <2> PICK row : row = [diligence[p] EXCEPT !.status = status]
    OBVIOUS
  <2>1. diligenceReq[r] \in WorkJob
    BY Kinds
  <2>2. p \in Assessed /\ G!Stored(p)
    BY <2>1 DEF WorkJob, DiligenceInv, CasesHold, CaseJobHolds
  <2>3. diligence[p] \in CaseRow
    BY <2>2, CaseOf DEF DiligenceInv
  <2>4. row \in CaseRow /\ row.status = status
    BY <2>3 DEF CaseRow, G!CaseStatus
  <2>5. QED
    BY <1>1, <2>2, <2>4 DEF G!Decided
<1>4. CASE G!Update(r)
  <2> PICK text : text = diligenceReq[r].text
    OBVIOUS
  <2> PICK status : status = IF text = "" THEN diligence[p].status ELSE G!Normalize(text)
    OBVIOUS
  <2> PICK row : row = [diligence[p] EXCEPT !.status = status]
    OBVIOUS
  <2>1. diligenceReq[r].op = "update" /\ G!Put(p, row)
    BY <1>4 DEF G!Update, G!Finish
  <2>2. diligenceReq[r] \in UpdateJob
    BY <2>1, Kinds
  <2>3. p \in Assessed /\ text \in Asked /\ G!Stored(p) /\ G!MayAsk(diligenceReq[r].by, text)
    BY <2>1, <2>2 DEF UpdateJob, DiligenceInv, CasesHold, CaseJobHolds
  <2>4. diligence[p] \in CaseRow
    BY <2>3, CaseOf DEF DiligenceInv
  <2>5. status \in G!CaseStatus
    BY <2>3, <2>4, NormalizeFinds DEF CaseRow
  <2>6. row \in CaseRow /\ row.status = status
    BY <2>4, <2>5 DEF CaseRow
  <2>7. status \in G!Decided /\ status # diligence[p].status => diligenceReq[r].by = Admin
    BY <2>3 DEF G!MayAsk
  <2>8. QED
    BY <1>1, <2>1, <2>3, <2>6, <2>7
<1>5. QED
  BY <1>2, <1>3, <1>4

LEMMA MoveTaskStep ==
    ASSUME DiligenceInv, NEW r \in CaseRequest, G!MoveTask(r)
    PROVE  DiligenceInv'
<1> PICK t : t = diligenceReq[r].task
  OBVIOUS
<1> PICK status : status = diligenceReq[r].status
  OBVIOUS
<1> PICK row : row = [status |-> status, begun |-> task[t].begun \/ status = "IN_PROGRESS"]
  OBVIOUS
<1>1. /\ diligenceReq[r].op = "task" /\ diligenceReq' = [diligenceReq EXCEPT ![r] = G!Idle]
      /\ UNCHANGED diligence
  BY DEF G!MoveTask, G!Finish
<1>2. diligenceReq[r] \in TaskJob
  BY <1>1, Kinds
<1>3. t \in Task /\ status \in G!TaskStatus \ {"CANCELLED"}
      /\ (status = "COMPLETED" /\ G!TaskStored(t) => task[t].begun)
  BY <1>1, <1>2 DEF TaskJob, DiligenceInv, TasksHold, TaskJobHolds
<1>4. CASE ~G!TaskStored(t)
  <2>1. UNCHANGED task
    BY <1>4 DEF G!MoveTask
  <2>2. diligenceReq' \in [CaseRequest -> {G!Idle} \cup G!Job] /\ \A s \in CaseRequest : diligenceReq'[s] = diligenceReq[s] \/ diligenceReq'[s] = G!Idle
    BY <1>1 DEF DiligenceInv
  <2>3. \A s \in CaseRequest : CaseJobHolds(diligenceReq[s])' /\ TaskJobHolds(diligenceReq[s])'
    BY <1>1, <2>1, <2>2 DEF DiligenceInv, CasesHold, TasksHold, CaseJobHolds, TaskJobHolds, G!Stored,
       G!TaskStored, G!Idle
  <2>4. QED
    BY <1>1, <2>1, <2>2, <2>3 DEF DiligenceInv, CasesHold, TasksHold, Begun
<1>5. CASE G!TaskStored(t)
  <2>1. task[t] \in TaskRow
    BY <1>3, <1>5, TaskOf DEF DiligenceInv
  <2>2. task' = [task EXCEPT ![t] = row]
    BY <1>3, <1>5 DEF G!MoveTask, DiligenceInv, TasksHold
  <2>3. row \in TaskRow /\ (row.status \in {"IN_PROGRESS", "COMPLETED"} => row.begun)
        /\ (task[t].begun => row.begun)
    BY <1>3, <1>5, <2>1 DEF TaskRow
  <2>4. QED
    BY <1>1, <1>3, <1>5, <2>2, <2>3, TaskWrite
<1>6. QED
  BY <1>4, <1>5

LEMMA CaseStep ==
    ASSUME TextsAssumption, DiligenceInv, NEW r \in CaseRequest,
           G!Assign(r) \/ G!Update(r) \/ G!Start(r) \/ G!SubmitReport(r)
    PROVE  DiligenceInv'
BY CaseWrite, PutStep

\* Reviews, which no handler has prepared.
LEMMA ReviewStep ==
    ASSUME DiligenceInv, NEW p \in Assessed, NEW status \in G!CaseStatus, G!ReviewReport(p, status)
    PROVE  DiligenceInv'
<1> PICK row : row = [diligence[p] EXCEPT !.status = status]
  OBVIOUS
<1>1. G!Stored(p) /\ G!Put(p, row) /\ diligenceReq' = diligenceReq
  BY DEF G!ReviewReport
<1>2. row \in CaseRow
  BY <1>1, CaseOf DEF DiligenceInv, CaseRow
<1>3. QED
  BY <1>1, <1>2, PutStep

LEMMA TaskRowStep ==
    ASSUME DiligenceInv, NEW t \in Task, G!CreateTask(t) \/ G!DeleteTask(t)
    PROVE  DiligenceInv'
<1>1. CASE G!CreateTask(t)
  <2> PICK row : row = [status |-> "OPEN", begun |-> FALSE]
    OBVIOUS
  <2>1. row \in TaskRow /\ row.status = "OPEN"
    BY DEF TaskRow, G!TaskStatus, G!TaskMoves
  <2>2. /\ task[t] = G!NoTask /\ task' = [task EXCEPT ![t] = row]
        /\ UNCHANGED diligence /\ diligenceReq' = diligenceReq
    BY <1>1 DEF G!CreateTask
  <2>3. QED
    BY <2>1, <2>2, TaskWrite
<1>2. CASE G!DeleteTask(t)
  <2>1. task' = [task EXCEPT ![t] = G!DeletedTask] /\ UNCHANGED diligence /\ diligenceReq' = diligenceReq
    BY <1>2 DEF G!DeleteTask
  <2>2. G!DeletedTask.status = "DELETED"
    BY DEF G!DeletedTask
  <2>3. QED
    BY <2>1, <2>2, TaskWrite
<1>3. QED
  BY <1>1, <1>2

LEMMA DiligenceFails ==
    ASSUME DiligenceInv, NEW r \in CaseRequest, G!Fail(r)
    PROVE  DiligenceInv'
<1>1. diligenceReq' = [diligenceReq EXCEPT ![r] = G!Idle] /\ UNCHANGED <<diligence, task>>
  BY DEF G!Fail
<1>2. diligenceReq' \in [CaseRequest -> {G!Idle} \cup G!Job] /\ \A s \in CaseRequest : diligenceReq'[s] = diligenceReq[s] \/ diligenceReq'[s] = G!Idle
  BY <1>1 DEF DiligenceInv
<1>3. \A s \in CaseRequest : CaseJobHolds(diligenceReq[s])' /\ TaskJobHolds(diligenceReq[s])'
  BY <1>1, <1>2 DEF DiligenceInv, CasesHold, TasksHold, CaseJobHolds, TaskJobHolds, G!Stored,
     G!TaskStored, G!Idle
<1>4. QED
  BY <1>1, <1>2, <1>3 DEF DiligenceInv, CasesHold, TasksHold, Begun

LEMMA DiligenceNext ==
    ASSUME TextsAssumption, DiligenceInv, G!Next \/ UNCHANGED G!vars
    PROVE  DiligenceInv'
<1>1. CASE UNCHANGED G!vars
  BY <1>1 DEF G!vars, DiligenceInv, CasesHold, TasksHold, CaseJobHolds, TaskJobHolds, Begun, G!Stored,
     G!TaskStored
<1>2. CASE G!Next
  BY <1>2, DiligenceBegins, CheckTaskStep, CaseStep, MoveTaskStep, ReviewStep, TaskRowStep,
     DiligenceFails DEF G!Next, G!Commit
<1>3. QED
  BY <1>1, <1>2

LEMMA DiligenceHolds == DiligenceInv => G!TypeOK /\ G!CompletedWasBegun
BY Kinds DEF DiligenceInv, CasesHold, TasksHold, CaseRow, TaskRow, G!TypeOK, Begun, TaskJobHolds,
   G!CompletedWasBegun, TaskJob

\* Whoever decides a case by a handler is the administrator.
LEMMA DecidesStep ==
    ASSUME TextsAssumption, DiligenceInv, G!Next \/ UNCHANGED G!vars,
           NEW p \in Assessed, diligence'[p].status \in G!Decided, diligence'[p].status # diligence[p].status,
           NEW r \in CaseRequest, diligenceReq'[r] # diligenceReq[r]
    PROVE  diligenceReq[r].by = Admin
<1>1. PICK s \in CaseRequest : G!Assign(s) \/ G!Update(s) \/ G!Start(s) \/ G!SubmitReport(s)
  <2>1. diligence' # diligence /\ diligenceReq' # diligenceReq
    OBVIOUS
  <2>2. G!Next
    BY <2>1 DEF G!vars
  <2>3. QED
    BY <2>1, <2>2 DEF G!Next, G!Commit, G!Fail, G!Begin, G!CheckStart, G!CheckReport, G!CheckAssign, G!CheckUpdate, G!CheckTask, G!Take, G!MoveTask,
       G!ReviewReport, G!CreateTask, G!DeleteTask
<1>2. diligenceReq' = [diligenceReq EXCEPT ![s] = G!Idle]
  BY <1>1, CaseWrite
<1>3. r = s
  BY <1>2 DEF DiligenceInv
<1>4. PICK row \in CaseRow :
          /\ G!Put(diligenceReq[s].project, row)
          /\ row.status \in G!Decided /\ row.status # diligence[diligenceReq[s].project].status => diligenceReq[s].by = Admin
  BY <1>1, CaseWrite
<1>5. p = diligenceReq[s].project /\ diligence'[p] = row
  BY <1>1, <1>4, CaseWrite DEF G!Put, DiligenceInv, CasesHold
<1>6. QED
  BY <1>3, <1>4, <1>5

(***************************************************************************)
(* Logins.  A failed login works on a copy that stood, and of the failures *)
(* it knows all but those it missed and those that were overwritten.       *)
(***************************************************************************)

\* The constant: it takes at least one failure to lock.
LoginsAssumption == Tries \in Nat \ {0}

Account == [exists : BOOLEAN, status : I!UserStatus,
            attempts : 0 .. Tries, lockout : I!Lockout, mfa : BOOLEAN]
LoginJob == [at : I!Step, attempts : 0 .. Tries, lockout : I!Lockout, missed : Nat]

\* The two columns, in the row or in a copy of it, are those of one state of the account.
Stands(copy) == copy.lockout # "none" <=> copy.attempts >= Tries
AccountKnows == account.lockout = "none" => past.failed <= account.attempts + past.overlapped
CopyKnows(job) ==
    job.at = "fail" /\ job.lockout = "none" => past.failed <= job.attempts + past.overlapped + job.missed
CopiesStand == \A r \in LoginRequest : Stands(loginReq[r])
CopiesKnow == \A r \in LoginRequest : CopyKnows(loginReq[r])

LoginsInv ==
    /\ I!TypeOK
    /\ Stands(account)
    /\ AccountKnows
    /\ CopiesStand
    /\ CopiesKnow

LEMMA IdleLogin ==
    LoginsAssumption => I!Idle \in LoginJob /\ Stands(I!Idle) /\ I!Idle.at # "fail"
BY DEF LoginsAssumption, I!Idle, LoginJob, I!Step, I!Lockout, Stands

LEMMA LoginsInit == LoginsAssumption /\ I!Init => LoginsInv
<1> SUFFICES ASSUME LoginsAssumption, I!Init PROVE LoginsInv
  OBVIOUS
<1>1. account \in Account /\ Stands(account)
  <2>1. 0 \in 0 .. Tries /\ ~(0 >= Tries)
    BY DEF LoginsAssumption
  <2>2. account \in {I!Absent, [I!Absent EXCEPT !.exists = TRUE, !.mfa = TRUE]}
    BY DEF I!Init
  <2>3. CASE account = I!Absent
    BY <2>1, <2>3, Zenon DEF I!Absent, Account, I!UserStatus, I!Lockout, Stands
  <2>4. CASE account = [I!Absent EXCEPT !.exists = TRUE, !.mfa = TRUE]
    BY <2>1, <2>4, Zenon DEF I!Absent, Account, I!UserStatus, I!Lockout, Stands
  <2>5. QED
    BY <2>2, <2>3, <2>4
<1>2. past = [failed |-> 0, overlapped |-> 0] /\ otp = FALSE /\ loginReq = [r \in LoginRequest |-> I!Idle]
  BY DEF I!Init
<1>3. I!TypeOK
  BY <1>1, <1>2, IdleLogin DEF I!TypeOK, Account, LoginJob
<1>4. AccountKnows
  BY <1>1, <1>2 DEF AccountKnows, Account
<1>5. CopiesStand /\ CopiesKnow
  BY <1>2, IdleLogin DEF CopiesStand, CopiesKnow, CopyKnows
<1>6. QED
  BY <1>1, <1>3, <1>4, <1>5 DEF LoginsInv

\* What a step has to keep, unless it counts a failure or begins the count anew.
LEMMA LoginKeeps ==
    ASSUME LoginsInv, UNCHANGED past, otp' \in BOOLEAN,
           account' \in Account, Stands(account)', AccountKnows',
           loginReq' \in [LoginRequest -> LoginJob],
           \A s \in LoginRequest :
               loginReq'[s] = loginReq[s] \/ (Stands(loginReq'[s]) /\ CopyKnows(loginReq'[s]))
    PROVE  LoginsInv'
<1>1. I!TypeOK'
  BY DEF LoginsInv, I!TypeOK, Account, LoginJob
<1>2. CopiesStand'
  BY DEF LoginsInv, CopiesStand
<1>3. CopiesKnow'
  <2>1. SUFFICES ASSUME NEW s \in LoginRequest PROVE CopyKnows(loginReq[s])'
    BY DEF CopiesKnow
  <2>2. CopyKnows(loginReq'[s])
    BY DEF LoginsInv, CopiesKnow
  <2>3. QED
    BY <2>2 DEF CopyKnows
<1>4. QED
  BY <1>1, <1>2, <1>3 DEF LoginsInv

\* A request takes up a job that does not write a failure, or none.
LEMMA LoginJobStep ==
    ASSUME LoginsInv, NEW r \in LoginRequest, NEW job \in LoginJob,
           loginReq' = [loginReq EXCEPT ![r] = job], Stands(job), CopyKnows(job)
    PROVE  /\ loginReq' \in [LoginRequest -> LoginJob]
           /\ \A s \in LoginRequest :
                  loginReq'[s] = loginReq[s] \/ (Stands(loginReq'[s]) /\ CopyKnows(loginReq'[s]))
BY DEF LoginsInv, I!TypeOK, LoginJob

LEMMA LoginTyped ==
    ASSUME LoginsInv
    PROVE  /\ account \in Account /\ Stands(account) /\ AccountKnows /\ otp \in BOOLEAN
           /\ loginReq \in [LoginRequest -> LoginJob]
           /\ past \in [failed : Nat, overlapped : Nat]
BY DEF LoginsInv, I!TypeOK, Account, LoginJob

\* Login takes its copy of the account.
LEMMA LoginStep ==
    ASSUME LoginsAssumption, LoginsInv, NEW r \in LoginRequest, NEW right \in BOOLEAN, I!Login(r, right)
    PROVE  LoginsInv'
<1> PICK at : at = IF ~right THEN "fail" ELSE IF account.mfa THEN "challenge" ELSE "write"
  OBVIOUS
<1> PICK job : job = [at |-> at, attempts |-> account.attempts, lockout |-> account.lockout, missed |-> 0]
  OBVIOUS
<1>1. loginReq' = [loginReq EXCEPT ![r] = job] /\ UNCHANGED <<account, otp, past>>
  BY DEF I!Login
<1>2. at \in I!Step
  BY DEF I!Step
<1>3. account.attempts \in 0 .. Tries /\ account.lockout \in I!Lockout
  BY LoginTyped DEF Account
<1>4. job \in LoginJob /\ Stands(job)
  <2>1. job \in LoginJob
    BY <1>2, <1>3 DEF LoginJob
  <2>2. Stands(job)
    BY LoginTyped, Zenon DEF Stands
  <2>3. QED
    BY <2>1, <2>2
<1>5. CopyKnows(job)
  <2>1. past.failed \in Nat /\ past.overlapped \in Nat
    BY LoginTyped
  <2>2. account.lockout = "none" => past.failed <= account.attempts + past.overlapped
    BY LoginTyped DEF AccountKnows
  <2>3. QED
    BY <1>3, <2>1, <2>2 DEF CopyKnows, LoginsAssumption
<1>6. AccountKnows' /\ Stands(account)'
  BY <1>1, LoginTyped DEF AccountKnows, Stands
<1>7. QED
  BY <1>1, <1>4, <1>5, <1>6, LoginTyped, LoginJobStep, LoginKeeps

\* A failed login writes both columns from its copy; the failures it missed are now
\* overwritten, and the others under way miss this one.
LEMMA LoginFailsStep ==
    ASSUME LoginsAssumption, LoginsInv, NEW r \in LoginRequest, I!LoginFails(r)
    PROVE  LoginsInv'
<1> PICK job : job = loginReq[r]
  OBVIOUS
<1>1. job \in LoginJob /\ job.at = "fail" /\ Stands(job) /\ CopyKnows(job)
  BY LoginTyped DEF LoginsInv, CopiesStand, CopiesKnow, I!LoginFails, I!Is
<1>2. /\ past' = [past EXCEPT !.failed = @ + 1, !.overlapped = @ + job.missed]
      /\ loginReq' = [s \in LoginRequest |->
             IF s = r THEN I!Idle
             ELSE IF I!Is(s, "fail") THEN [loginReq[s] EXCEPT !.missed = @ + 1] ELSE loginReq[s]]
      /\ UNCHANGED otp
  BY DEF I!LoginFails, I!CountFailure
<1>3. /\ past'.failed = past.failed + 1 /\ past'.overlapped = past.overlapped + job.missed
      /\ past' \in [failed : Nat, overlapped : Nat]
  <2>1. past \in [failed : Nat, overlapped : Nat] /\ job.missed \in Nat
    BY <1>1, LoginTyped DEF LoginJob
  <2> PICK failed, overlapped : failed = past.failed + 1 /\ overlapped = past.overlapped + job.missed
    OBVIOUS
  <2>2. past' = [failed |-> failed, overlapped |-> overlapped]
    BY <1>2, <2>1
  <2>3. failed \in Nat /\ overlapped \in Nat
    BY <2>1
  <2>4. QED
    BY <2>2, <2>3
<1> PICK attempts : attempts = I!Attempts(r)
  OBVIOUS
<1> PICK lockout : lockout = IF attempts >= Tries THEN "running" ELSE job.lockout
  OBVIOUS
<1>4. account' = [account EXCEPT !.attempts = attempts, !.lockout = lockout]
  BY DEF I!LoginFails
<1>5. /\ attempts \in 0 .. Tries
      /\ job.attempts < Tries => attempts = job.attempts + 1
      /\ job.attempts >= Tries => attempts = Tries
  BY <1>1 DEF LoginsAssumption, I!Attempts, LoginJob
<1>6. lockout \in I!Lockout /\ (lockout # "none" <=> attempts >= Tries)
  BY <1>1, <1>5 DEF LoginsAssumption, I!Lockout, LoginJob, Stands
<1>7. /\ account' \in Account /\ account'.attempts = attempts /\ account'.lockout = lockout
  BY <1>4, <1>5, <1>6, LoginTyped DEF Account
<1>8. Stands(account)'
  BY <1>6, <1>7 DEF Stands
<1>9. AccountKnows'
  <2>1. SUFFICES ASSUME lockout = "none" PROVE past'.failed <= attempts + past'.overlapped
    BY <1>7 DEF AccountKnows
  <2>2. job.lockout = "none" /\ job.attempts < Tries
    BY <1>1, <1>5, <1>6, <2>1 DEF Stands, LoginsAssumption, LoginJob
  <2>3. past.failed <= job.attempts + past.overlapped + job.missed
    BY <1>1, <2>2 DEF CopyKnows
  <2>4. QED
    BY <1>1, <1>3, <1>5, <2>2, <2>3, LoginTyped DEF LoginJob
<1>10. ASSUME NEW s \in LoginRequest
       PROVE  loginReq'[s] \in LoginJob /\ Stands(loginReq'[s]) /\ CopyKnows(loginReq[s])'
  <2>1. loginReq[s] \in LoginJob /\ Stands(loginReq[s]) /\ CopyKnows(loginReq[s])
    BY LoginTyped DEF LoginsInv, CopiesStand, CopiesKnow
  <2>2. CASE s = r
    <3>1. loginReq'[s] = I!Idle
      BY <1>2, <2>2
    <3>2. QED
      BY <3>1, IdleLogin DEF CopyKnows
  <2>3. CASE s # r /\ I!Is(s, "fail")
    <3> PICK copy : copy = loginReq[s]
      OBVIOUS
    <3>1. loginReq'[s] = [copy EXCEPT !.missed = @ + 1]
      BY <1>2, <2>3
    <3>2. /\ loginReq'[s] \in LoginJob /\ loginReq'[s].attempts = copy.attempts
          /\ loginReq'[s].lockout = copy.lockout /\ loginReq'[s].missed = copy.missed + 1
          /\ copy.at = "fail" /\ copy.attempts \in 0 .. Tries /\ copy.missed \in Nat
      BY <2>1, <2>3, <3>1 DEF LoginJob, I!Is
    <3>3. CopyKnows(loginReq[s])'
      BY <1>1, <1>3, <2>1, <3>2, LoginTyped DEF CopyKnows, LoginJob, LoginsAssumption
    <3>4. QED
      BY <2>1, <3>2, <3>3 DEF Stands
  <2>4. CASE s # r /\ ~I!Is(s, "fail")
    <3>1. loginReq'[s] = loginReq[s] /\ loginReq[s].at # "fail"
      BY <1>2, <2>4 DEF I!Is
    <3>2. QED
      BY <2>1, <3>1 DEF CopyKnows
  <2>5. QED
    BY <2>2, <2>3, <2>4
<1>11. loginReq' \in [LoginRequest -> LoginJob]
  <2>1. loginReq' = [s \in LoginRequest |-> loginReq'[s]]
    BY <1>2
  <2>2. QED
    BY <1>10, <2>1
<1>12. I!TypeOK'
  BY <1>2, <1>3, <1>7, <1>11, LoginTyped DEF I!TypeOK, Account, LoginJob
<1>13. CopiesStand' /\ CopiesKnow'
  BY <1>10 DEF CopiesStand, CopiesKnow
<1>14. QED
  BY <1>8, <1>9, <1>12, <1>13 DEF LoginsInv

\* A login that succeeds begins the count anew.
LEMMA LoginSucceedsStep ==
    ASSUME LoginsAssumption, LoginsInv, NEW r \in LoginRequest, I!LoginSucceeds(r)
    PROVE  LoginsInv'
<1>1. /\ account' = [account EXCEPT !.attempts = 0, !.lockout = "none"]
      /\ loginReq' = [s \in LoginRequest |-> IF s = r THEN I!Idle ELSE [loginReq[s] EXCEPT !.missed = 0]]
      /\ past' = [failed |-> 0, overlapped |-> 0] /\ UNCHANGED otp
  BY DEF I!LoginSucceeds
<1>2. account' \in Account /\ account'.attempts = 0 /\ account'.lockout = "none"
  <2>1. account \in Account /\ 0 \in 0 .. Tries
    BY LoginTyped DEF LoginsAssumption
  <2>2. QED
    BY <1>1, <2>1 DEF Account, I!Lockout
<1>3. Stands(account)' /\ AccountKnows'
  BY <1>1, <1>2 DEF Stands, AccountKnows, LoginsAssumption
<1>4. ASSUME NEW s \in LoginRequest
      PROVE  loginReq'[s] \in LoginJob /\ Stands(loginReq'[s])
  <2>1. loginReq[s] \in LoginJob /\ Stands(loginReq[s])
    BY LoginTyped DEF LoginsInv, CopiesStand
  <2>2. CASE s = r
    BY <1>1, <2>2, IdleLogin
  <2>3. CASE s # r
    <3>1. loginReq'[s] = [loginReq[s] EXCEPT !.missed = 0]
      BY <1>1, <2>3
    <3>2. QED
      BY <2>1, <3>1 DEF LoginJob, Stands
  <2>4. QED
    BY <2>2, <2>3
<1>5. loginReq' \in [LoginRequest -> LoginJob]
  <2>1. loginReq' = [s \in LoginRequest |-> loginReq'[s]]
    BY <1>1
  <2>2. QED
    BY <1>4, <2>1
<1>6. I!TypeOK'
  BY <1>1, <1>2, <1>5, LoginTyped DEF I!TypeOK, Account, LoginJob
<1>7. CopiesKnow'
  <2>1. SUFFICES ASSUME NEW s \in LoginRequest PROVE CopyKnows(loginReq[s])'
    BY DEF CopiesKnow
  <2>2. past'.failed = 0 /\ past'.overlapped = 0
    BY <1>1
  <2>3. loginReq'[s].attempts \in 0 .. Tries /\ loginReq'[s].missed \in Nat
    BY <1>4 DEF LoginJob
  <2>4. QED
    BY <2>2, <2>3 DEF CopyKnows, LoginsAssumption
<1>8. QED
  BY <1>3, <1>4, <1>6, <1>7 DEF LoginsInv, CopiesStand

\* Requests that begin something else, and requests that end.
LEMMA LoginGoesOn ==
    ASSUME LoginsAssumption, LoginsInv, NEW r \in LoginRequest,
           I!Challenge(r) \/ I!ReadCode(r) \/ I!VerifyMfa(r) \/ I!Stop(r)
    PROVE  LoginsInv'
<1>1. UNCHANGED <<account, past>> /\ otp' \in BOOLEAN
  BY LoginTyped DEF I!Challenge, I!ReadCode, I!VerifyMfa, I!Stop
<1>2. I!Finish(r) \/ I!Do(r, "code")
  BY DEF I!Challenge, I!ReadCode, I!VerifyMfa, I!Stop
<1> PICK job : job = IF I!Finish(r) THEN I!Idle ELSE [I!Idle EXCEPT !.at = "code"]
  OBVIOUS
<1>3. job \in LoginJob /\ Stands(job) /\ CopyKnows(job)
  BY IdleLogin DEF I!Idle, LoginJob, I!Step, Stands, CopyKnows
<1>4. loginReq' = [loginReq EXCEPT ![r] = job]
  BY <1>2 DEF I!Finish, I!Do
<1>5. AccountKnows' /\ Stands(account)'
  BY <1>1, LoginTyped DEF AccountKnows, Stands
<1>6. QED
  BY <1>1, <1>3, <1>4, <1>5, LoginTyped, LoginJobStep, LoginKeeps

\* The clock and the administrators: the account alone is written, or the code with it.
LEMMA StatusStep ==
    ASSUME LoginsInv,
           \/ I!Register \/ I!LockoutPasses \/ I!CodeExpires \/ I!DisableMfa \/ I!SoftDelete
           \/ \E status \in I!UserStatus : I!SetStatus(status)
    PROVE  LoginsInv'
<1>1. /\ account' \in Account /\ account'.attempts = account.attempts
      /\ account'.lockout = "none" <=> account.lockout = "none"
  <2>1. CASE I!LockoutPasses
    BY <2>1, LoginTyped DEF I!LockoutPasses, I!Set, Account, I!Lockout
  <2>2. CASE I!DisableMfa
    BY <2>2, LoginTyped DEF I!DisableMfa, I!Set, Account
  <2>3. CASE I!SoftDelete
    BY <2>3, LoginTyped DEF I!SoftDelete, I!Set, Account, I!UserStatus
  <2>4. ASSUME NEW status \in I!UserStatus, I!SetStatus(status)
        PROVE  /\ account' \in Account /\ account'.attempts = account.attempts
               /\ account'.lockout = "none" <=> account.lockout = "none"
    BY <2>4, LoginTyped DEF I!SetStatus, I!Set, Account, I!UserStatus
  <2>5. CASE I!Register
    BY <2>5, LoginTyped DEF I!Register, I!Set, Account
  <2>6. CASE I!CodeExpires
    BY <2>6, LoginTyped DEF I!CodeExpires
  <2>7. QED
    BY <2>1, <2>2, <2>3, <2>4, <2>5, <2>6
<1>2. UNCHANGED <<past, loginReq>> /\ otp' \in BOOLEAN
  BY LoginTyped DEF I!LockoutPasses, I!DisableMfa, I!SoftDelete, I!SetStatus, I!Register, I!CodeExpires
<1>3. Stands(account)' /\ AccountKnows'
  BY <1>1, <1>2, LoginTyped DEF Stands, AccountKnows
<1>4. QED
  BY <1>1, <1>2, <1>3, LoginTyped, LoginKeeps

LEMMA LoginsNext ==
    ASSUME LoginsAssumption, LoginsInv, I!Next \/ UNCHANGED I!vars
    PROVE  LoginsInv'
<1>1. CASE UNCHANGED I!vars
  <2>1. UNCHANGED <<account, otp, loginReq, past>>
    BY <1>1 DEF I!vars
  <2>2. AccountKnows' /\ Stands(account)'
    BY <2>1, LoginTyped DEF AccountKnows, Stands
  <2>3. QED
    BY <2>1, <2>2, LoginTyped, LoginKeeps
<1>2. ASSUME NEW r \in LoginRequest,
             \/ I!LoginFails(r) \/ I!Challenge(r) \/ I!LoginSucceeds(r) \/ I!ReadCode(r)
             \/ I!VerifyMfa(r) \/ I!Stop(r)
             \/ \E right \in BOOLEAN : I!Login(r, right)
      PROVE  LoginsInv'
  BY <1>2, LoginStep, LoginFailsStep, LoginSucceedsStep, LoginGoesOn
<1>3. CASE I!Next
  BY <1>2, <1>3, StatusStep DEF I!Next
<1>4. QED
  BY <1>1, <1>3

LEMMA LoginsHold == LoginsAssumption /\ LoginsInv => I!TypeOK /\ I!FullCountLocks /\ I!FailuresLock
<1> SUFFICES ASSUME LoginsAssumption, LoginsInv PROVE I!TypeOK /\ I!FullCountLocks /\ I!FailuresLock
  OBVIOUS
<1>1. I!TypeOK /\ I!FullCountLocks
  BY DEF LoginsInv, Stands, I!FullCountLocks
<1>2. I!FailuresLock
  <2>1. SUFFICES ASSUME account.lockout = "none" PROVE past.failed < Tries + past.overlapped
    BY DEF I!FailuresLock
  <2>2. account.attempts < Tries
    BY <2>1, LoginTyped DEF Stands, Account, LoginsAssumption
  <2>3. QED
    BY <2>1, <2>2, LoginTyped DEF AccountKnows, Account, LoginsAssumption
<1>3. QED
  BY <1>1, <1>2

(***************************************************************************)
(* Sessions.  A token that is not refreshed twice is held by one refresh   *)
(* at most, which issues its only successor.                               *)
(***************************************************************************)

\* The constant: NoToken is no token.
SessionsAssumption == NoToken \notin Token

SessionJob == [at : S!Step, old : Token \cup {NoToken}, reset : Reset \cup {NoToken}]
TokenStatus == {"none", "live", "spent", "ended"}

HasSuccessor(t) == \E u \in Token : replaces[u] = t
Held(t) == \E r \in SessionRequest : sessionReq[r].old = t
Issued(t) == t \in Token => token[t] # "none"

\* Only refresh holds a token, which was issued; about to spend it, it has issued another.
Backed(job) ==
    /\ job.at \notin {"issue", "revoke"} => job.old = NoToken
    /\ Issued(job.old)
    /\ job.at = "revoke" => job.old \in Token /\ HasSuccessor(job.old)
\* A token that is not issued yet replaces nothing, and none replaces it.
OneReplaces(t) == (token[t] = "none" => replaces[t] = NoToken) /\ Issued(replaces[t])
\* A token that was not refreshed twice.
Rotates(t) ==
    /\ \A r, s \in SessionRequest : sessionReq[r].old = t /\ sessionReq[s].old = t => r = s
    /\ \A r \in SessionRequest : sessionReq[r].at = "issue" /\ sessionReq[r].old = t => ~HasSuccessor(t)
    /\ token[t] = "live" /\ ~Held(t) => ~HasSuccessor(t)
    /\ \A u, v \in Token : replaces[u] = t /\ replaces[v] = t => u = v

AllBacked == \A r \in SessionRequest : Backed(sessionReq[r])
AllReplace == \A t \in Token : OneReplaces(t)
AllRotate == \A t \in Token \ repeated : Rotates(t)
SessionsInv == S!TypeOK /\ S!SpentForASuccessor /\ AllBacked /\ AllReplace /\ AllRotate

LEMMA SessionsTyped ==
    ASSUME SessionsInv
    PROVE  /\ token \in [Token -> TokenStatus] /\ replaces \in [Token -> Token \cup {NoToken}]
           /\ repeated \subseteq Token /\ reset \in [Reset -> {"none", "open", "used"}]
           /\ sessionReq \in [SessionRequest -> SessionJob]
BY DEF SessionsInv, S!TypeOK, SessionJob, TokenStatus

LEMMA IdleJob ==
    S!Idle \in SessionJob /\ S!Idle.old = NoToken /\ S!Idle.at = "idle"
BY DEF S!Idle, SessionJob, S!Step

LEMMA SessionsInit == SessionsAssumption /\ S!Init => SessionsInv
<1> SUFFICES ASSUME SessionsAssumption, S!Init PROVE SessionsInv
  OBVIOUS
<1>1. S!TypeOK
  BY IdleJob DEF S!Init, S!TypeOK, SessionJob
<1>2. S!SpentForASuccessor /\ AllReplace
  BY DEF S!Init, S!SpentForASuccessor, AllReplace, OneReplaces, Issued, SessionsAssumption
<1>3. AllBacked
  BY IdleJob DEF S!Init, AllBacked, Backed, Issued, SessionsAssumption
<1>4. AllRotate
  BY IdleJob DEF S!Init, AllRotate, Rotates, HasSuccessor, SessionsAssumption
<1>5. QED
  BY <1>1, <1>2, <1>3, <1>4 DEF SessionsInv

\* Tokens end, or do nothing; requests take up jobs that hold no token, or go on.
LEMMA QuietStep ==
    ASSUME SessionsAssumption, SessionsInv, UNCHANGED <<replaces, repeated>>,
           token' \in [Token -> TokenStatus],
           \A t \in Token : token'[t] = token[t] \/ (token[t] # "none" /\ token'[t] = "ended"),
           reset' \in [Reset -> {"none", "open", "used"}],
           sessionReq' \in [SessionRequest -> SessionJob],
           \A s \in SessionRequest :
               \/ sessionReq'[s] = sessionReq[s]
               \/ sessionReq[s].old = NoToken /\ sessionReq'[s].old = NoToken /\ sessionReq'[s].at # "revoke"
    PROVE  SessionsInv'
<1>1. S!TypeOK'
  BY SessionsTyped DEF S!TypeOK, SessionJob, TokenStatus
<1>2. \A t : (HasSuccessor(t) <=> HasSuccessor(t)') /\ (Issued(t) => Issued(t)')
  BY DEF HasSuccessor, Issued
<1>3. S!SpentForASuccessor'
  BY DEF SessionsInv, S!SpentForASuccessor
<1>4. AllBacked'
  <2>1. SUFFICES ASSUME NEW s \in SessionRequest PROVE Backed(sessionReq[s])'
    BY DEF AllBacked
  <2>2. CASE sessionReq'[s] = sessionReq[s]
    BY <1>2, <2>2 DEF SessionsInv, AllBacked, Backed
  <2>3. CASE sessionReq'[s].old = NoToken /\ sessionReq'[s].at # "revoke"
    BY <2>3 DEF Backed, Issued, SessionsAssumption
  <2>4. QED
    BY <2>2, <2>3
<1>5. AllReplace'
  BY <1>2 DEF SessionsInv, AllReplace, OneReplaces
<1>6. AllRotate'
  <2>1. SUFFICES ASSUME NEW t \in Token \ repeated PROVE Rotates(t)'
    BY DEF AllRotate
  <2>2. Rotates(t) /\ t # NoToken
    BY DEF SessionsInv, AllRotate, SessionsAssumption
  <2>3. \A s \in SessionRequest : /\ sessionReq'[s].old = t <=> sessionReq[s].old = t
                                  /\ sessionReq'[s].old = t => sessionReq'[s] = sessionReq[s]
    BY <2>2
  <2>4. Held(t) <=> Held(t)'
    BY <2>3 DEF Held
  <2>5. QED
    BY <1>2, <2>2, <2>3, <2>4 DEF Rotates
<1>7. QED
  BY <1>1, <1>3, <1>4, <1>5, <1>6 DEF SessionsInv

\* A request that holds nothing takes up a job that holds nothing.
LEMMA JobStep ==
    ASSUME SessionsInv, NEW r \in SessionRequest, NEW job \in SessionJob,
           sessionReq' = [sessionReq EXCEPT ![r] = job],
           sessionReq[r].old = NoToken, job.old = NoToken, job.at # "revoke"
    PROVE  /\ sessionReq' \in [SessionRequest -> SessionJob]
           /\ \A s \in SessionRequest :
                 \/ sessionReq'[s] = sessionReq[s]
                 \/ sessionReq[s].old = NoToken /\ sessionReq'[s].old = NoToken
                    /\ sessionReq'[s].at # "revoke"
BY SessionsTyped

LEMMA EndAllStep ==
    ASSUME SessionsInv, S!EndAll
    PROVE  /\ token' \in [Token -> TokenStatus]
           /\ \A t \in Token : token'[t] = token[t] \/ (token[t] # "none" /\ token'[t] = "ended")
BY SessionsTyped DEF S!EndAll, TokenStatus

LEMMA HoldsNothing ==
    ASSUME SessionsInv, NEW r \in SessionRequest, sessionReq[r].at \notin {"issue", "revoke"}
    PROVE  sessionReq[r].old = NoToken
BY DEF SessionsInv, AllBacked, Backed

\* The answer of a refresh or of a login: a token is issued.
LEMMA IssueStep ==
    ASSUME SessionsAssumption, SessionsInv, NEW r \in SessionRequest, NEW t \in Token, S!Issue(r, t)
    PROVE  SessionsInv'
<1> PICK old : old = sessionReq[r].old
  OBVIOUS
<1> PICK job : job = IF old = NoToken THEN S!Idle ELSE [sessionReq[r] EXCEPT !.at = "revoke"]
  OBVIOUS
<1>1. /\ sessionReq[r] \in SessionJob /\ old \in Token \cup {NoToken} /\ sessionReq[r].at = "issue"
      /\ token[t] = "none" /\ replaces[t] = NoToken /\ Issued(old)
  BY SessionsTyped DEF SessionsInv, AllBacked, Backed, AllReplace, OneReplaces, S!Issue, S!Is, SessionJob
<1>2. /\ token' = [token EXCEPT ![t] = "live"]
      /\ replaces' = [replaces EXCEPT ![t] = old]
      /\ sessionReq' = [sessionReq EXCEPT ![r] = job]
      /\ UNCHANGED <<reset, repeated>>
  BY DEF S!Issue
<1>3. /\ job \in SessionJob /\ job.old = old /\ job.at # "issue"
      /\ old # NoToken => job.at = "revoke"
      /\ old = NoToken => job.at = "idle"
  <2>1. CASE old = NoToken
    BY <2>1, IdleJob
  <2>2. CASE old # NoToken
    BY <1>1, <2>2 DEF SessionJob, S!Step
  <2>3. QED
    BY <2>1, <2>2
<1>4. /\ token' \in [Token -> TokenStatus] /\ replaces' \in [Token -> Token \cup {NoToken}]
      /\ sessionReq' \in [SessionRequest -> SessionJob]
      /\ token'[t] = "live" /\ replaces'[t] = old /\ sessionReq'[r] = job
      /\ \A u \in Token \ {t} : token'[u] = token[u] /\ replaces'[u] = replaces[u]
      /\ \A s \in SessionRequest \ {r} : sessionReq'[s] = sessionReq[s]
  BY <1>1, <1>2, <1>3, SessionsTyped DEF TokenStatus
<1>5. S!TypeOK'
  BY <1>2, <1>4, SessionsTyped DEF S!TypeOK, SessionJob, TokenStatus
<1>6. \A u : Issued(u) => Issued(u)'
  BY <1>4 DEF Issued
<1>7. \A u \in Token : /\ HasSuccessor(u) => HasSuccessor(u)'
                       /\ u # old /\ HasSuccessor(u)' => HasSuccessor(u)
  BY <1>1, <1>4 DEF HasSuccessor, SessionsAssumption
<1>8. old # NoToken => HasSuccessor(old)'
  BY <1>4 DEF HasSuccessor
<1>9. S!SpentForASuccessor'
  BY <1>4, <1>7 DEF SessionsInv, S!SpentForASuccessor, HasSuccessor
<1>10. AllReplace'
  BY <1>1, <1>4, <1>6 DEF SessionsInv, AllReplace, OneReplaces
<1>11. AllBacked'
  <2>1. SUFFICES ASSUME NEW s \in SessionRequest PROVE Backed(sessionReq[s])'
    BY DEF AllBacked
  <2>2. CASE s = r
    <3>1. sessionReq'[s] = job
      BY <1>4, <2>2
    <3>2. QED
      BY <1>1, <1>3, <1>6, <1>8, <3>1 DEF Backed
  <2>3. CASE s # r
    <3>1. sessionReq'[s] = sessionReq[s] /\ Backed(sessionReq[s])
      BY <1>4, <2>3 DEF SessionsInv, AllBacked
    <3>2. QED
      BY <1>6, <1>7, <3>1 DEF Backed
  <2>4. QED
    BY <2>2, <2>3
<1>12. AllRotate'
  <2>1. SUFFICES ASSUME NEW x \in Token \ repeated PROVE Rotates(x)'
    BY <1>2 DEF AllRotate
  <2>2. Rotates(x) /\ x # NoToken
    BY DEF SessionsInv, AllRotate, SessionsAssumption
  <2>3. \A s \in SessionRequest : sessionReq'[s].old = sessionReq[s].old
    BY <1>3, <1>4
  <2>4. Held(x)' <=> Held(x)
    BY <2>3 DEF Held
  <2>5. x = t => ~HasSuccessor(x)
    BY <1>1 DEF HasSuccessor, SessionsInv, AllReplace, OneReplaces, Issued
  <2>6. CASE x = old
    <3>1. ~HasSuccessor(x) /\ Held(x)
      BY <1>1, <2>2, <2>6 DEF Rotates, Held
    <3>2. \A s \in SessionRequest : sessionReq'[s].old = x => s = r /\ sessionReq'[s].at # "issue"
      <4>1. sessionReq[r].old = x /\ sessionReq'[r].at # "issue"
        BY <1>3, <1>4, <2>6
      <4>2. \A s \in SessionRequest : sessionReq[s].old = x => s = r
        BY <2>2, <4>1 DEF Rotates
      <4>3. QED
        BY <2>3, <4>1, <4>2
    <3>3. \A u \in Token : replaces'[u] = x => u = t
      BY <1>4, <3>1 DEF HasSuccessor
    <3>4. QED
      BY <2>4, <3>1, <3>2, <3>3 DEF Rotates
  <2>7. CASE x # old
    <3>1. HasSuccessor(x)' <=> HasSuccessor(x)
      BY <1>7, <2>7
    <3>2. \A s \in SessionRequest : sessionReq'[s].at = "issue" => sessionReq[s].at = "issue"
      BY <1>3, <1>4
    <3>3. \A u \in Token : replaces'[u] = x => replaces[u] = x
      BY <1>4, <2>7
    <3>4. token'[x] = "live" /\ ~Held(x)' => ~HasSuccessor(x)'
      BY <1>4, <2>2, <2>4, <2>5, <3>1 DEF Rotates
    <3>5. QED
      BY <2>2, <2>3, <3>1, <3>2, <3>3, <3>4 DEF Rotates
  <2>8. QED
    BY <2>6, <2>7
<1>13. QED
  BY <1>5, <1>9, <1>10, <1>11, <1>12 DEF SessionsInv

\* The end of a refresh: its token is spent, and has its successor.
LEMMA RevokeStep ==
    ASSUME SessionsAssumption, SessionsInv, NEW r \in SessionRequest, S!Revoke(r)
    PROVE  SessionsInv'
<1> PICK old : old = sessionReq[r].old
  OBVIOUS
<1>1. old \in Token /\ HasSuccessor(old) /\ Issued(old)
  BY DEF SessionsInv, AllBacked, Backed, S!Revoke, S!Is
<1>2. /\ token' = [token EXCEPT ![old] = "spent"]
      /\ sessionReq' = [sessionReq EXCEPT ![r] = S!Idle]
      /\ UNCHANGED <<replaces, repeated, reset>>
  BY DEF S!Revoke, S!Finish
<1>3. /\ token' \in [Token -> TokenStatus] /\ token'[old] = "spent"
      /\ \A t \in Token \ {old} : token'[t] = token[t]
      /\ sessionReq' \in [SessionRequest -> SessionJob] /\ sessionReq'[r] = S!Idle
      /\ \A s \in SessionRequest \ {r} : sessionReq'[s] = sessionReq[s]
  BY <1>1, <1>2, SessionsTyped, IdleJob DEF TokenStatus
<1>4. S!TypeOK'
  BY <1>2, <1>3, SessionsTyped DEF S!TypeOK, SessionJob, TokenStatus
<1>5. \A t : (HasSuccessor(t) <=> HasSuccessor(t)') /\ (Issued(t) => Issued(t)')
  BY <1>2, <1>3 DEF HasSuccessor, Issued
<1>6. S!SpentForASuccessor'
  BY <1>1, <1>2, <1>3 DEF SessionsInv, S!SpentForASuccessor, HasSuccessor
<1>7. AllReplace'
  <2>1. \A t \in Token : token'[t] = "none" => token[t] = "none"
    BY <1>3
  <2>2. QED
    BY <1>2, <1>5, <2>1 DEF SessionsInv, AllReplace, OneReplaces
<1>8. AllBacked'
  <2>1. SUFFICES ASSUME NEW s \in SessionRequest PROVE Backed(sessionReq[s])'
    BY DEF AllBacked
  <2>2. CASE s = r
    BY <1>3, <2>2, IdleJob DEF Backed, Issued, SessionsAssumption
  <2>3. CASE s # r
    BY <1>3, <1>5, <2>3 DEF SessionsInv, AllBacked, Backed
  <2>4. QED
    BY <2>2, <2>3
<1>9. AllRotate'
  <2>1. SUFFICES ASSUME NEW x \in Token \ repeated PROVE Rotates(x)'
    BY <1>2 DEF AllRotate
  <2>2. Rotates(x) /\ x # NoToken
    BY DEF SessionsInv, AllRotate, SessionsAssumption
  <2>3. \A s \in SessionRequest : sessionReq'[s].old = x => s # r /\ sessionReq'[s] = sessionReq[s]
    BY <1>3, <2>2, IdleJob
  <2>4. token'[x] = "live" /\ Held(x) => Held(x)'
    BY <1>3 DEF Held
  <2>5. token'[x] = "live" => token[x] = "live"
    BY <1>3
  <2>6. QED
    BY <1>2, <1>5, <2>2, <2>3, <2>4, <2>5 DEF Rotates
<1>10. QED
  BY <1>4, <1>6, <1>7, <1>8, <1>9 DEF SessionsInv

\* A refresh looks its token up: nobody holds it, or it is refreshed twice.
LEMMA RefreshStep ==
    ASSUME SessionsAssumption, SessionsInv, NEW r \in SessionRequest, NEW t \in Token, S!Refresh(r, t)
    PROVE  SessionsInv'
<1> PICK job : job = [at |-> "issue", old |-> t, reset |-> NoToken]
  OBVIOUS
<1>1. job \in SessionJob
  BY DEF SessionJob, S!Step
<1>2. /\ sessionReq' = [sessionReq EXCEPT ![r] = job] /\ UNCHANGED <<token, replaces, reset>>
      /\ repeated' = IF Held(t) THEN repeated \cup {t} ELSE repeated
      /\ sessionReq[r].at = "idle" /\ token[t] = "live"
  BY DEF S!Refresh, S!Is, Held
<1>3. /\ sessionReq' \in [SessionRequest -> SessionJob] /\ sessionReq'[r] = job
      /\ \A s \in SessionRequest \ {r} : sessionReq'[s] = sessionReq[s]
      /\ sessionReq[r].old = NoToken
  BY <1>1, <1>2, SessionsTyped, HoldsNothing
<1>4. S!TypeOK'
  BY <1>2, <1>3, SessionsTyped DEF S!TypeOK, SessionJob, TokenStatus
<1>5. \A x : (HasSuccessor(x) <=> HasSuccessor(x)') /\ (Issued(x) <=> Issued(x)')
  BY <1>2 DEF HasSuccessor, Issued
<1>6. S!SpentForASuccessor' /\ AllReplace'
  BY <1>2, <1>5 DEF SessionsInv, S!SpentForASuccessor, AllReplace, OneReplaces
<1>7. AllBacked'
  <2>1. SUFFICES ASSUME NEW s \in SessionRequest PROVE Backed(sessionReq[s])'
    BY DEF AllBacked
  <2>2. CASE s = r
    BY <1>2, <1>3, <2>2 DEF Backed, Issued
  <2>3. CASE s # r
    BY <1>3, <1>5, <2>3 DEF SessionsInv, AllBacked, Backed
  <2>4. QED
    BY <2>2, <2>3
<1>8. AllRotate'
  <2>1. SUFFICES ASSUME NEW x \in Token, x \notin repeated' PROVE Rotates(x)'
    BY DEF AllRotate
  <2>2. Rotates(x) /\ x # NoToken
    BY <1>2, <2>1 DEF SessionsInv, AllRotate, SessionsAssumption
  <2>3. CASE x = t
    <3>1. ~Held(t)
      BY <1>2, <2>1, <2>3
    <3>2. \A s \in SessionRequest : sessionReq'[s].old = t => s = r
      BY <1>3, <3>1 DEF Held
    <3>3. ~HasSuccessor(t)
      BY <1>2, <2>2, <2>3, <3>1 DEF Rotates
    <3>4. QED
      BY <1>2, <1>5, <2>2, <2>3, <3>2, <3>3 DEF Rotates
  <2>4. CASE x # t
    <3>1. \A s \in SessionRequest : /\ sessionReq'[s].old = x <=> sessionReq[s].old = x
                                    /\ sessionReq'[s].old = x => sessionReq'[s] = sessionReq[s]
      BY <1>3, <2>2, <2>4
    <3>2. Held(x) <=> Held(x)'
      BY <3>1 DEF Held
    <3>3. QED
      BY <1>2, <1>5, <2>2, <3>1, <3>2 DEF Rotates
  <2>5. QED
    BY <2>3, <2>4
<1>9. QED
  BY <1>4, <1>6, <1>7, <1>8 DEF SessionsInv

\* A request stops: its token has no successor yet, or is refreshed twice.
LEMMA StopStep ==
    ASSUME SessionsAssumption, SessionsInv, NEW r \in SessionRequest, S!Stop(r)
    PROVE  SessionsInv'
<1> PICK old : old = sessionReq[r].old
  OBVIOUS
<1>1. /\ sessionReq' = [sessionReq EXCEPT ![r] = S!Idle] /\ UNCHANGED <<token, replaces, reset>>
      /\ repeated' = IF sessionReq[r].at = "revoke" THEN repeated \cup {old} ELSE repeated
  BY DEF S!Stop, S!Finish, S!Is
<1>2. /\ sessionReq' \in [SessionRequest -> SessionJob] /\ sessionReq'[r] = S!Idle
      /\ \A s \in SessionRequest \ {r} : sessionReq'[s] = sessionReq[s]
  BY <1>1, SessionsTyped, IdleJob
<1>3. Backed(sessionReq[r])
  BY DEF SessionsInv, AllBacked
<1>4. S!TypeOK'
  BY <1>1, <1>2, <1>3, SessionsTyped DEF S!TypeOK, SessionJob, TokenStatus, Backed
<1>5. \A x : (HasSuccessor(x) <=> HasSuccessor(x)') /\ (Issued(x) <=> Issued(x)')
  BY <1>1 DEF HasSuccessor, Issued
<1>6. S!SpentForASuccessor' /\ AllReplace'
  BY <1>1, <1>5 DEF SessionsInv, S!SpentForASuccessor, AllReplace, OneReplaces
<1>7. AllBacked'
  <2>1. SUFFICES ASSUME NEW s \in SessionRequest PROVE Backed(sessionReq[s])'
    BY DEF AllBacked
  <2>2. CASE s = r
    BY <1>2, <2>2, IdleJob DEF Backed, Issued, SessionsAssumption
  <2>3. CASE s # r
    BY <1>2, <1>5, <2>3 DEF SessionsInv, AllBacked, Backed
  <2>4. QED
    BY <2>2, <2>3
<1>8. AllRotate'
  <2>1. SUFFICES ASSUME NEW x \in Token, x \notin repeated' PROVE Rotates(x)'
    BY DEF AllRotate
  <2>2. Rotates(x) /\ x # NoToken
    BY <1>1, <2>1 DEF SessionsInv, AllRotate, SessionsAssumption
  <2>3. \A s \in SessionRequest : sessionReq'[s].old = x => s # r /\ sessionReq'[s] = sessionReq[s]
    BY <1>2, <2>2, IdleJob
  <2>4. CASE x = old
    <3>1. sessionReq[r].at = "issue"
      BY <1>1, <1>3, <2>1, <2>2, <2>4 DEF Backed
    <3>2. ~HasSuccessor(x)
      BY <2>2, <2>4, <3>1 DEF Rotates
    <3>3. QED
      BY <1>1, <1>5, <2>2, <2>3, <3>2 DEF Rotates
  <2>5. CASE x # old
    <3>1. Held(x) => Held(x)'
      BY <1>2, <2>5 DEF Held
    <3>2. QED
      BY <1>1, <1>5, <2>2, <2>3, <3>1 DEF Rotates
  <2>6. QED
    BY <2>4, <2>5
<1>9. QED
  BY <1>4, <1>6, <1>7, <1>8 DEF SessionsInv

\* Sessions that are ended together, and the requests that lead there.
LEMMA EndStep ==
    ASSUME SessionsAssumption, SessionsInv, NEW r \in SessionRequest,
           \/ S!LogoutAll(r) \/ S!ResetPassword(r) \/ S!Logout(r) \/ S!SignIn(r)
           \/ \E x \in Reset : S!ReadReset(r, x)
    PROVE  SessionsInv'
<1>1. sessionReq[r].old = NoToken
  BY HoldsNothing DEF S!LogoutAll, S!ResetPassword, S!Logout, S!SignIn, S!ReadReset, S!Is
<1>2. /\ UNCHANGED <<replaces, repeated>> /\ reset' \in [Reset -> {"none", "open", "used"}]
      /\ S!EndAll \/ UNCHANGED token
  BY SessionsTyped DEF S!LogoutAll, S!ResetPassword, S!Logout, S!SignIn, S!ReadReset
<1>3. \E job \in SessionJob :
          sessionReq' = [sessionReq EXCEPT ![r] = job] /\ job.old = NoToken /\ job.at # "revoke"
  <2>1. CASE S!LogoutAll(r) \/ S!ResetPassword(r)
    BY <2>1, IdleJob DEF S!LogoutAll, S!ResetPassword, S!Finish
  <2>2. CASE S!Logout(r) \/ S!SignIn(r)
    <3>1. PICK step \in {"issue", "end"} : S!Do(r, step)
      BY <2>2 DEF S!Logout, S!SignIn
    <3> PICK job : job = [S!Idle EXCEPT !.at = step]
      OBVIOUS
    <3>2. job \in SessionJob /\ job.old = NoToken /\ job.at # "revoke"
      BY DEF S!Idle, SessionJob, S!Step
    <3>3. QED
      BY <3>1, <3>2 DEF S!Do
  <2>3. ASSUME NEW x \in Reset, S!ReadReset(r, x)
        PROVE  \E job \in SessionJob :
                   sessionReq' = [sessionReq EXCEPT ![r] = job] /\ job.old = NoToken /\ job.at # "revoke"
    <3> PICK job : job = [at |-> "reset", old |-> NoToken, reset |-> x]
      OBVIOUS
    <3>1. job \in SessionJob /\ job.old = NoToken /\ job.at # "revoke"
      BY DEF SessionJob, S!Step
    <3>2. sessionReq' = [sessionReq EXCEPT ![r] = job]
      BY <2>3 DEF S!ReadReset
    <3>3. QED
      BY <3>1, <3>2
  <2>4. QED
    BY <2>1, <2>2, <2>3
<1>4. PICK job \in SessionJob :
          sessionReq' = [sessionReq EXCEPT ![r] = job] /\ job.old = NoToken /\ job.at # "revoke"
  BY <1>3
<1>5. /\ token' \in [Token -> TokenStatus]
      /\ \A t \in Token : token'[t] = token[t] \/ (token[t] # "none" /\ token'[t] = "ended")
  BY <1>2, EndAllStep, SessionsTyped
<1>6. QED
  BY <1>1, <1>2, <1>4, <1>5, JobStep, QuietStep

\* Tokens that expire, links that are asked for and links that expire.
LEMMA TimeStep ==
    ASSUME SessionsAssumption, SessionsInv,
           \/ \E t \in Token : S!TokenExpires(t)
           \/ \E x \in Reset : S!ForgotPassword(x) \/ S!ResetExpires(x)
    PROVE  SessionsInv'
<1>1. CASE \E t \in Token : S!TokenExpires(t)
  <2>1. /\ token' \in [Token -> TokenStatus]
        /\ \A t \in Token : token'[t] = token[t] \/ (token[t] # "none" /\ token'[t] = "ended")
        /\ UNCHANGED <<replaces, repeated, reset, sessionReq>>
    BY <1>1, SessionsTyped DEF S!TokenExpires, TokenStatus
  <2>2. QED
    BY <2>1, QuietStep, SessionsTyped
<1>2. CASE \E x \in Reset : S!ForgotPassword(x) \/ S!ResetExpires(x)
  <2>1. /\ reset' \in [Reset -> {"none", "open", "used"}]
        /\ UNCHANGED <<token, replaces, repeated, sessionReq>>
    BY <1>2, SessionsTyped DEF S!ForgotPassword, S!ResetExpires
  <2>2. QED
    BY <2>1, QuietStep, SessionsTyped
<1>3. QED
  BY <1>1, <1>2

LEMMA SessionsNext ==
    ASSUME SessionsAssumption, SessionsInv, S!Next \/ UNCHANGED S!vars
    PROVE  SessionsInv'
<1>1. CASE UNCHANGED S!vars
  BY <1>1, QuietStep, SessionsTyped DEF S!vars
<1>2. CASE S!Next
  BY <1>2, IssueStep, RevokeStep, RefreshStep, StopStep, EndStep, TimeStep DEF S!Next
<1>3. QED
  BY <1>1, <1>2

LEMMA SessionsHold == SessionsInv => S!TypeOK /\ S!SpentForASuccessor /\ S!RotatedOnce
BY DEF SessionsInv, AllRotate, Rotates, S!RotatedOnce

(***************************************************************************)
(* Verification.  From the write of the provider's answer on, the row has  *)
(* the reference the provider uses, and only the webhook writes it.        *)
(***************************************************************************)

CallState == {"none", "asked", "recorded", "over"}
KycRow == [status : K!ApplicationStatus \cup {"ABSENT"}, reference : {"own", "theirs"}]

Findable(a) == call[a] = "recorded" \/ K!Submitted(a) \in kycEvent => K!Known(a)
StandsAsTold(a) ==
    told[a] # "none" => application[a].status = told[a] /\ call[a] \in {"recorded", "over"}

VerificationInv ==
    /\ K!TypeOK
    /\ K!RejectionIsRaised
    /\ \A a \in Application : Findable(a) /\ StandsAsTold(a)

LEMMA VerificationInit == K!Init => VerificationInv
BY DEF K!Init, VerificationInv, K!TypeOK, K!RejectionIsRaised, Findable, StandsAsTold, K!NoApplication, K!KycStatus

EventsTyped == \A e \in kycEvent : e[2] \in Application \cup {"user"}
AlertsTyped == kycAlert \subseteq {"KYC Verification Rejected"} \X Application
FormTyped == kyc \in K!KycStatus /\ form \in {"none", "read", "kyc.submitted", "kyc.verified"}
CallsTyped == call \in [Application -> CallState] /\ told \in [Application -> K!ApplicationStatus \cup {"none"}]

LEMMA Typed ==
    ASSUME VerificationInv
    PROVE  EventsTyped /\ AlertsTyped /\ FormTyped /\ CallsTyped /\ application \in [Application -> KycRow]
BY DEF VerificationInv, K!TypeOK, EventsTyped, AlertsTyped, FormTyped, CallsTyped, KycRow, CallState

\* What a step has to keep: references that are known, words that stand, rejections that
\* are raised.
LEMMA Keeps ==
    ASSUME VerificationInv, UNCHANGED renamed,
           FormTyped', CallsTyped', EventsTyped', AlertsTyped',
           application' \in [Application -> KycRow],
           kycAlert \subseteq kycAlert',
           \A b \in Application : <<"kyc.rejected", b>> \in kycEvent' =>
               <<"kyc.rejected", b>> \in kycEvent \/ <<"KYC Verification Rejected", b>> \in kycAlert',
           \A b \in Application : Findable(b)' /\ StandsAsTold(b)'
    PROVE  VerificationInv'
<1>1. K!TypeOK'
  BY DEF VerificationInv, K!TypeOK, KycRow, EventsTyped, AlertsTyped, FormTyped, CallsTyped, CallState
<1>2. K!RejectionIsRaised'
  BY DEF VerificationInv, K!RejectionIsRaised
<1>3. QED
  BY <1>1, <1>2 DEF VerificationInv

\* A row whose call, words and announcement are as they were, and that keeps its status and
\* its reference, is as it has to be.
LEMMA LeftAlone ==
    ASSUME VerificationInv, UNCHANGED renamed, NEW b \in Application,
           application'[b] = application[b], call'[b] = call[b], told'[b] = told[b],
           K!Submitted(b) \in kycEvent' => K!Submitted(b) \in kycEvent
    PROVE  Findable(b)' /\ StandsAsTold(b)'
<1>1. Findable(b) /\ StandsAsTold(b) /\ K!Reference(b)' = K!Reference(b) /\ K!Submitted(b)' = K!Submitted(b)
  BY DEF VerificationInv, K!Reference, K!Submitted
<1>2. K!Known(b)' <=> K!Known(b)
  BY <1>1 DEF K!Known
<1>3. QED
  BY <1>1, <1>2 DEF Findable, StandsAsTold

\* The writes of submitKyc.
LEMMA CallStep ==
    ASSUME VerificationInv, NEW a \in Application,
           K!Create(a) \/ K!AnnounceSubmitted(a) \/ K!Abandon(a)
           \/ \E status \in K!ApplicationStatus : K!RecordAnswer(a, status)
    PROVE  VerificationInv'
<1>1. UNCHANGED <<kyc, told, form, kycAlert, renamed>>
  BY DEF K!Create, K!AnnounceSubmitted, K!Abandon, K!RecordAnswer
<1>2. FormTyped' /\ AlertsTyped' /\ EventsTyped
  BY <1>1, Typed DEF FormTyped, AlertsTyped
<1> PICK row : row = application[a]
  OBVIOUS
<1>3. row \in KycRow /\ K!Reference(a) \in {"own", "theirs"}
  BY Typed DEF K!Reference
<1>4. Findable(a) /\ StandsAsTold(a)
  BY DEF VerificationInv
<1>5. \A b \in Application \ {a} :
          K!Submitted(b) \in kycEvent \cup {K!Submitted(a)} => K!Submitted(b) \in kycEvent
  BY DEF K!Submitted
<1>6. CASE K!Create(a)
  <2>1. /\ application' = [application EXCEPT ![a].status = "PENDING"]
        /\ call' = [call EXCEPT ![a] = "asked"] /\ call[a] = "none" /\ UNCHANGED kycEvent
    BY <1>6 DEF K!Create, K!SetStatus
  <2>2. /\ application' = [application EXCEPT ![a] = [row EXCEPT !.status = "PENDING"]]
        /\ [row EXCEPT !.status = "PENDING"] \in KycRow
        /\ [row EXCEPT !.status = "PENDING"].reference = row.reference
    BY <1>3, <2>1, Typed DEF KycRow, K!ApplicationStatus
  <2>3. /\ application' \in [Application -> KycRow] /\ application'[a].reference = row.reference
        /\ \A b \in Application \ {a} : application'[b] = application[b] /\ call'[b] = call[b]
        /\ CallsTyped' /\ call'[a] = "asked" /\ EventsTyped'
    BY <1>1, <1>2, <2>1, <2>2, Typed DEF CallsTyped, CallState, EventsTyped
  <2>4. Findable(a)' /\ StandsAsTold(a)'
    <3>1. K!Submitted(a)' = K!Submitted(a) /\ (K!Known(a)' <=> K!Known(a))
      BY <1>1, <2>3 DEF K!Submitted, K!Known, K!Reference
    <3>2. QED
      BY <1>1, <1>4, <2>1, <2>3, <3>1 DEF Findable, StandsAsTold
  <2>5. \A b \in Application : Findable(b)' /\ StandsAsTold(b)'
    BY <1>1, <2>1, <2>3, <2>4, LeftAlone
  <2>6. QED
    BY <1>1, <1>2, <2>1, <2>3, <2>5, Keeps
<1>7. CASE K!AnnounceSubmitted(a)
  <2>1. /\ kycEvent' = kycEvent \cup {K!Submitted(a)} /\ UNCHANGED application
        /\ call[a] = "recorded" /\ call' = [call EXCEPT ![a] = "over"]
    BY <1>7 DEF K!AnnounceSubmitted
  <2>2. /\ application' \in [Application -> KycRow]
        /\ \A b \in Application \ {a} : application'[b] = application[b] /\ call'[b] = call[b]
        /\ CallsTyped' /\ call'[a] = "over"
    BY <1>1, <2>1, Typed DEF CallsTyped, CallState
  <2>3. EventsTyped'
    <3>1. K!Submitted(a)[2] = a
      BY DEF K!Submitted
    <3>2. QED
      BY <1>2, <2>1, <3>1 DEF EventsTyped
  <2>4. \A b \in Application : <<"kyc.rejected", b>> \in kycEvent' => <<"kyc.rejected", b>> \in kycEvent
    BY <2>1 DEF K!Submitted
  <2>5. Findable(a)' /\ StandsAsTold(a)'
    <3>1. K!Known(a)' <=> K!Known(a)
      BY <1>1, <2>1 DEF K!Known, K!Reference
    <3>2. QED
      BY <1>1, <1>4, <2>1, <2>2, <3>1 DEF Findable, StandsAsTold
  <2>6. \A b \in Application : Findable(b)' /\ StandsAsTold(b)'
    BY <1>1, <1>5, <2>1, <2>2, <2>5, LeftAlone
  <2>7. QED
    BY <1>1, <1>2, <2>2, <2>3, <2>4, <2>6, Keeps
<1>8. CASE K!Abandon(a)
  <2>1. /\ UNCHANGED <<application, kycEvent>> /\ call' = [call EXCEPT ![a] = "over"]
        /\ call[a] \in {"asked", "recorded"}
    BY <1>8 DEF K!Abandon
  <2>2. /\ application' \in [Application -> KycRow]
        /\ \A b \in Application \ {a} : application'[b] = application[b] /\ call'[b] = call[b]
        /\ CallsTyped' /\ call'[a] = "over" /\ EventsTyped'
    BY <1>1, <1>2, <2>1, Typed DEF CallsTyped, CallState, EventsTyped
  <2>3. Findable(a)' /\ StandsAsTold(a)'
    <3>1. K!Submitted(a)' = K!Submitted(a) /\ (K!Known(a)' <=> K!Known(a))
      BY <1>1, <2>1 DEF K!Submitted, K!Known, K!Reference
    <3>2. QED
      BY <1>1, <1>4, <2>1, <2>2, <3>1 DEF Findable, StandsAsTold
  <2>4. \A b \in Application : Findable(b)' /\ StandsAsTold(b)'
    BY <1>1, <2>1, <2>2, <2>3, LeftAlone
  <2>5. QED
    BY <1>1, <1>2, <2>1, <2>2, <2>4, Keeps
<1>9. ASSUME NEW status \in K!ApplicationStatus, K!RecordAnswer(a, status)
      PROVE  VerificationInv'
  <2>1. /\ application' = [application EXCEPT ![a].status = status, ![a].reference = K!Reference(a)]
        /\ UNCHANGED kycEvent /\ call[a] = "asked" /\ call' = [call EXCEPT ![a] = "recorded"]
    BY <1>9 DEF K!RecordAnswer
  <2> PICK new : new = [row EXCEPT !.status = status, !.reference = K!Reference(a)]
    OBVIOUS
  <2>2. new \in KycRow /\ new.reference = K!Reference(a)
    BY <1>3 DEF KycRow
  <2>3. application' = [application EXCEPT ![a] = new]
    BY <2>1, Typed DEF KycRow
  <2>4. /\ application' \in [Application -> KycRow] /\ application'[a] = new
        /\ \A b \in Application \ {a} : application'[b] = application[b] /\ call'[b] = call[b]
        /\ CallsTyped' /\ EventsTyped'
    BY <1>1, <1>2, <2>1, <2>2, <2>3, Typed DEF CallsTyped, CallState, EventsTyped
  <2>5. Findable(a)' /\ StandsAsTold(a)'
    <3>1. K!Known(a)'
      BY <1>1, <2>2, <2>4 DEF K!Known, K!Reference
    <3>2. told'[a] = "none"
      BY <1>1, <1>4, <2>1 DEF StandsAsTold
    <3>3. QED
      BY <3>1, <3>2 DEF Findable, StandsAsTold
  <2>6. \A b \in Application : Findable(b)' /\ StandsAsTold(b)'
    BY <1>1, <2>1, <2>4, <2>5, LeftAlone
  <2>7. QED
    BY <1>1, <1>2, <2>1, <2>4, <2>6, Keeps
<1>10. QED
  BY <1>6, <1>7, <1>8, <1>9

\* What the webhook does to the row and to the provider's last word.
LEMMA WebhookStep ==
    ASSUME VerificationInv, NEW a \in Application, NEW status \in K!ApplicationStatus, K!Webhook(a, status),
           \A b \in Application : K!Submitted(b) \in kycEvent' => K!Submitted(b) \in kycEvent
    PROVE  /\ UNCHANGED <<call, form, renamed>>
           /\ CallsTyped' /\ application' \in [Application -> KycRow]
           /\ \A b \in Application : Findable(b)' /\ StandsAsTold(b)'
<1> PICK row : row = application[a]
  OBVIOUS
<1>1. /\ application' = [application EXCEPT ![a].status = status]
      /\ told' = IF call[a] = "asked" THEN told ELSE [told EXCEPT ![a] = status]
      /\ UNCHANGED <<call, form, renamed>> /\ call[a] # "none" /\ K!Known(a)
  BY DEF K!Webhook, K!SetStatus
<1> PICK new : new = [row EXCEPT !.status = status]
  OBVIOUS
<1>2. new \in KycRow /\ new.status = status /\ new.reference = row.reference
  BY Typed DEF KycRow
<1>3. application' = [application EXCEPT ![a] = new]
  BY <1>1, Typed DEF KycRow
<1>4. application' \in [Application -> KycRow] /\ application'[a] = new
  BY <1>2, <1>3, Typed
<1>5. CallsTyped'
  BY <1>1, Typed DEF CallsTyped
<1>6. \A b \in Application \ {a} : application'[b] = application[b] /\ told'[b] = told[b]
  BY <1>1, <1>3, Typed DEF CallsTyped
<1>7. Findable(a)' /\ StandsAsTold(a)'
  <2>1. K!Known(a)'
    BY <1>1, <1>2, <1>4 DEF K!Known, K!Reference
  <2>2. CASE call[a] = "asked"
    <3>1. told'[a] = "none"
      BY <1>1, <2>2 DEF VerificationInv, StandsAsTold
    <3>2. QED
      BY <2>1, <3>1 DEF Findable, StandsAsTold
  <2>3. CASE call[a] # "asked"
    <3>1. told'[a] = status /\ call'[a] \in {"recorded", "over"}
      BY <1>1, <2>3, Typed DEF CallsTyped, CallState
    <3>2. QED
      BY <1>2, <1>4, <2>1, <3>1 DEF Findable, StandsAsTold
  <2>4. QED
    BY <2>2, <2>3
<1>8. \A b \in Application : Findable(b)' /\ StandsAsTold(b)'
  BY <1>1, <1>6, <1>7, LeftAlone
<1>9. QED
  BY <1>1, <1>4, <1>5, <1>8

\* The provider's words.
LEMMA WordStep ==
    ASSUME VerificationInv, NEW a \in Application,
           K!Verify(a) \/ K!Reject(a) \/ \E status \in K!ApplicationStatus : K!Interim(a, status)
    PROVE  VerificationInv'
<1>1. CASE K!Verify(a)
  <2>1. /\ kycEvent' = kycEvent \cup {<<"kyc.verified", a>>, <<"user.verified", a>>}
        /\ UNCHANGED kycAlert /\ kyc' = "VERIFIED" /\ K!Webhook(a, "VERIFIED")
    BY <1>1 DEF K!Verify
  <2>2. /\ \A b : <<"kyc.rejected", b>> \in kycEvent' => <<"kyc.rejected", b>> \in kycEvent
        /\ \A b \in Application : K!Submitted(b) \in kycEvent' => K!Submitted(b) \in kycEvent
    BY <2>1 DEF K!Submitted
  <2>3. EventsTyped'
    <3>1. \A topic : <<topic, a>>[2] = a
      OBVIOUS
    <3>2. QED
      BY <2>1, <3>1, Typed DEF EventsTyped
  <2>4. AlertsTyped' /\ FormTyped'
    BY <2>1, Typed DEF AlertsTyped, FormTyped, K!KycStatus, K!Webhook
  <2>5. QED
    BY <2>1, <2>2, <2>3, <2>4, WebhookStep, Keeps DEF K!ApplicationStatus
<1>2. CASE K!Reject(a)
  <2>1. /\ kycEvent' = kycEvent \cup {<<"kyc.rejected", a>>}
        /\ kycAlert' = kycAlert \cup {<<"KYC Verification Rejected", a>>}
        /\ UNCHANGED kyc /\ K!Webhook(a, "REJECTED")
    BY <1>2 DEF K!Reject, K!Raise
  <2>2. /\ \A b : <<"kyc.rejected", b>> \in kycEvent' => <<"kyc.rejected", b>> \in kycEvent \/ b = a
        /\ \A b \in Application : K!Submitted(b) \in kycEvent' => K!Submitted(b) \in kycEvent
    BY <2>1 DEF K!Submitted
  <2>3. EventsTyped'
    <3>1. <<"kyc.rejected", a>>[2] = a
      OBVIOUS
    <3>2. QED
      BY <2>1, <3>1, Typed DEF EventsTyped
  <2>4. /\ AlertsTyped' /\ FormTyped' /\ kycAlert \subseteq kycAlert'
        /\ <<"KYC Verification Rejected", a>> \in kycAlert'
    <3>1. <<"KYC Verification Rejected", a>> \in {"KYC Verification Rejected"} \X Application
      OBVIOUS
    <3>2. QED
      BY <2>1, <3>1, Typed DEF AlertsTyped, FormTyped, K!Webhook
  <2>5. QED
    BY <2>1, <2>2, <2>3, <2>4, WebhookStep, Keeps DEF K!ApplicationStatus
<1>3. ASSUME NEW status \in K!ApplicationStatus, K!Interim(a, status)
      PROVE  VerificationInv'
  <2>1. UNCHANGED <<kyc, kycEvent, kycAlert>> /\ K!Webhook(a, status)
    BY <1>3 DEF K!Interim
  <2>2. AlertsTyped' /\ FormTyped' /\ EventsTyped'
    BY <2>1, Typed DEF AlertsTyped, FormTyped, EventsTyped, K!Webhook
  <2>3. QED
    BY <2>1, <2>2, WebhookStep, Keeps
<1>4. QED
  BY <1>1, <1>2, <1>3

\* By hand: the user's status, and events about the user.
LEMMA FormStep ==
    ASSUME "user" \notin Application, VerificationInv,
           \/ K!OpenForm \/ K!FillForm \/ K!AnnounceForm \/ K!AbandonForm \/ K!VerifyAssessor
           \/ \E status \in K!KycStatus : K!VerifyKyc(status)
    PROVE  VerificationInv'
<1>1. UNCHANGED <<application, call, told, kycAlert, renamed>>
  BY DEF K!OpenForm, K!FillForm, K!AnnounceForm, K!AbandonForm, K!VerifyAssessor, K!VerifyKyc
<1>2. FormTyped'
  BY Typed DEF FormTyped, K!OpenForm, K!FillForm, K!AnnounceForm, K!AbandonForm, K!VerifyAssessor,
     K!VerifyKyc, K!KycStatus
<1>3. kycEvent' = kycEvent \/ kycEvent' = kycEvent \cup {<<form, "user">>}
  BY DEF K!OpenForm, K!FillForm, K!AnnounceForm, K!AbandonForm, K!VerifyAssessor, K!VerifyKyc
<1>4. /\ \A a \in Application : <<"kyc.rejected", a>> \in kycEvent' => <<"kyc.rejected", a>> \in kycEvent
      /\ \A a \in Application : K!Submitted(a) \in kycEvent' => K!Submitted(a) \in kycEvent
  BY <1>3 DEF K!Submitted
<1>5. EventsTyped'
  <2> PICK user : user = <<form, "user">>
    OBVIOUS
  <2>1. user[2] = "user" /\ kycEvent' \subseteq kycEvent \cup {user}
    BY <1>3
  <2>2. QED
    BY <2>1, Typed DEF EventsTyped
<1>6. application' \in [Application -> KycRow] /\ AlertsTyped' /\ CallsTyped'
  BY <1>1, Typed DEF AlertsTyped, CallsTyped
<1>7. \A b \in Application : Findable(b)' /\ StandsAsTold(b)'
  BY <1>1, <1>4, LeftAlone
<1>8. QED
  BY <1>1, <1>2, <1>4, <1>5, <1>6, <1>7, Keeps

\* The constants: what the provider tells is mapped to a status, and "user" is no row.
VerificationAssumption == "user" \notin Application /\ AnswerNow \subseteq K!ApplicationStatus

LEMMA VerificationNext ==
    ASSUME VerificationAssumption, VerificationInv, K!Next \/ UNCHANGED K!vars
    PROVE  VerificationInv'
<1>1. CASE UNCHANGED K!vars
  <2>1. UNCHANGED <<kyc, application, call, told, form, kycEvent, kycAlert, renamed>>
    BY <1>1 DEF K!vars
  <2>2. FormTyped' /\ CallsTyped' /\ EventsTyped' /\ AlertsTyped' /\ application' \in [Application -> KycRow]
    BY <2>1, Typed DEF FormTyped, CallsTyped, EventsTyped, AlertsTyped
  <2>3. \A b \in Application : Findable(b)' /\ StandsAsTold(b)'
    BY <2>1, LeftAlone
  <2>4. QED
    BY <2>1, <2>2, <2>3, Keeps
<1>2. ASSUME NEW a \in Application,
             \/ K!Create(a) \/ K!AnnounceSubmitted(a) \/ K!Abandon(a) \/ K!Verify(a) \/ K!Reject(a)
             \/ \E status \in AnswerNow : K!RecordAnswer(a, status) \/ K!Interim(a, status)
      PROVE  VerificationInv'
  BY <1>2, CallStep, WordStep DEF VerificationAssumption
<1>3. CASE K!Next
  BY <1>2, <1>3, FormStep DEF K!Next, VerificationAssumption
<1>4. QED
  BY <1>1, <1>3

LEMMA VerificationHolds == VerificationInv => K!TypeOK /\ K!LastWordStands /\ K!RejectionIsRaised
BY DEF VerificationInv, Findable, StandsAsTold, K!LastWordStands

(***************************************************************************)
(* Votes.  A count that is under way, with the figures it still asks for   *)
(* as they are now, is off by no more than what was cast meanwhile.        *)
(***************************************************************************)

VotersAssumption == IsFiniteSet(Voter) /\ VoteChanges \in Nat

Ballots == [Voter -> V!Choice \cup {"none"}]
Storing == [at : {"store"}, voter : Voter, choice : V!Choice]
Tally == [at : {"count"}, queries : {V!AfterCast, V!ForList},
          figure : Seq(0 .. Cardinality(Voter)), meanwhile : 0 .. VoteChanges]

VotesTyped ==
    /\ voteOpen \in BOOLEAN
    /\ investor \subseteq Voter
    /\ ballot \in Ballots
    /\ voteReq \in [VoteRequest -> {V!Idle} \cup Storing \cup Tally]

BallotsOf(b, figure) ==
    Cardinality({v \in Voter : IF figure = "total" THEN b[v] # "none" ELSE b[v] = figure})

\* What the query of a count answered, or would answer now.
Told(job, b, i) == IF i \in DOMAIN job.figure THEN job.figure[i] ELSE BallotsOf(b, job.queries[i])

TallyInv(job, b) ==
    /\ DOMAIN job.figure \subseteq 1 .. 4
    /\ \A i \in 1 .. 4 : V!Distance(Told(job, b, i), BallotsOf(b, job.queries[i])) <= job.meanwhile
    /\ IF job.queries = V!AfterCast
       THEN V!Distance(Told(job, b, 4), Told(job, b, 1) + Told(job, b, 2) + Told(job, b, 3)) <= job.meanwhile
       ELSE V!Distance(Told(job, b, 1), Told(job, b, 2) + Told(job, b, 3) + Told(job, b, 4)) <= job.meanwhile

VotesInv ==
    /\ VotesTyped
    /\ \A r \in VoteRequest : voteReq[r] \in Tally => TallyInv(voteReq[r], ballot)

\* Counting is the same in the part and here.
LEMMA VotesCounted == \A s : V!Cardinality(s) = Cardinality(s)
BY DEF V!Cardinality, Cardinality

LEMMA VotesInit == V!Init => VotesInv
BY DEF V!Init, VotesInv, VotesTyped, Ballots, V!Idle, Tally

LEMMA BallotsCounted ==
    ASSUME VotersAssumption, NEW b \in Ballots, NEW figure \in V!Figure
    PROVE  BallotsOf(b, figure) \in 0 .. Cardinality(Voter)
<1> PICK voters : voters = {v \in Voter : IF figure = "total" THEN b[v] # "none" ELSE b[v] = figure}
  OBVIOUS
<1>1. voters \subseteq Voter
  OBVIOUS
<1>2. Cardinality(voters) \in Nat /\ Cardinality(voters) <= Cardinality(Voter) /\ Cardinality(Voter) \in Nat
  BY <1>1, FS_Subset, FS_CardinalityType DEF VotersAssumption
<1>3. QED
  BY <1>2 DEF BallotsOf

\* Every ballot is one of the three.
LEMMA BallotsAddUp ==
    ASSUME VotersAssumption, NEW b \in Ballots
    PROVE  BallotsOf(b, "total") = BallotsOf(b, "for") + BallotsOf(b, "against") + BallotsOf(b, "abstain")
<1> PICK yes, no, none, some :
        /\ yes = {v \in Voter : b[v] = "for"}
        /\ no = {v \in Voter : b[v] = "against"}
        /\ none = {v \in Voter : b[v] = "abstain"}
        /\ some = {v \in Voter : b[v] # "none"}
  OBVIOUS
<1>1. IsFiniteSet(yes) /\ IsFiniteSet(no) /\ IsFiniteSet(none)
  BY FS_Subset DEF VotersAssumption
<1>2. yes \cap no = {} /\ (yes \cup no) \cap none = {}
  OBVIOUS
<1>3. some = (yes \cup no) \cup none
  BY DEF Ballots, V!Choice
<1>4. /\ Cardinality(yes \cap no) = 0 /\ Cardinality((yes \cup no) \cap none) = 0
      /\ Cardinality(yes) \in Nat /\ Cardinality(no) \in Nat /\ Cardinality(none) \in Nat
  <2>1. Cardinality(yes \cap no) = 0 /\ Cardinality((yes \cup no) \cap none) = 0
    BY <1>2, FS_EmptySet, Zenon
  <2>2. QED
    BY <1>1, <2>1, FS_CardinalityType
<1>5. /\ IsFiniteSet(yes \cup no)
      /\ Cardinality(yes \cup no) = Cardinality(yes) + Cardinality(no) - Cardinality(yes \cap no)
  BY <1>1, FS_Union
<1>6. Cardinality(some) = Cardinality(yes) + Cardinality(no) + Cardinality(none)
  <2>1. Cardinality(some) = Cardinality(yes \cup no) + Cardinality(none) - Cardinality((yes \cup no) \cap none)
    BY <1>1, <1>3, <1>5, FS_Union
  <2>2. QED
    BY <1>4, <1>5, <2>1
<1>7. /\ BallotsOf(b, "total") = Cardinality(some)
      /\ BallotsOf(b, "for") = Cardinality(yes)
      /\ BallotsOf(b, "against") = Cardinality(no)
      /\ BallotsOf(b, "abstain") = Cardinality(none)
  BY DEF BallotsOf
<1>8. QED
  BY <1>6, <1>7

\* c: the ballots b with a new one of v.
Cast(b, v, choice, c) == b[v] # choice /\ c = [b EXCEPT ![v] = choice]

\* A ballot that is cast anew is one more of its choice and one less of the one before.
LEMMA BallotsChange ==
    ASSUME VotersAssumption, NEW b \in Ballots, NEW v \in Voter, NEW choice \in V!Choice,
           NEW c, Cast(b, v, choice, c), NEW figure \in V!Figure
    PROVE  BallotsOf(c, figure) =
               BallotsOf(b, figure)
               + (IF figure = choice \/ (figure = "total" /\ b[v] = "none") THEN 1 ELSE 0)
               - (IF figure = b[v] THEN 1 ELSE 0)
<1> PICK old, new :
        /\ old = {w \in Voter : IF figure = "total" THEN b[w] # "none" ELSE b[w] = figure}
        /\ new = {w \in Voter : IF figure = "total" THEN c[w] # "none" ELSE c[w] = figure}
  OBVIOUS
<1>1. IsFiniteSet(old) /\ IsFiniteSet(new) /\ Cardinality(old) \in Nat /\ Cardinality(new) \in Nat
  BY FS_Subset, FS_CardinalityType DEF VotersAssumption
<1>2. BallotsOf(b, figure) = Cardinality(old) /\ BallotsOf(c, figure) = Cardinality(new)
  BY DEF BallotsOf
<1>a. /\ "total" \notin V!Choice \cup {"none"} /\ "none" \notin V!Choice
      /\ \A w \in Voter : c[w] = IF w = v THEN choice ELSE b[w]
      /\ \A w \in Voter : b[w] \in V!Choice \cup {"none"}
      /\ b[v] # choice
  BY DEF Ballots, V!Choice, Cast
<1>3. CASE figure = choice \/ (figure = "total" /\ b[v] = "none")
  <2>a. v \notin old /\ figure # b[v]
    BY <1>3, <1>a
  <2>b. \A w \in Voter : w \in new <=> w \in old \/ w = v
    BY <1>3, <1>a
  <2>1. v \notin old /\ new = old \cup {v} /\ figure # b[v]
    BY <2>a, <2>b
  <2>2. Cardinality(new) = Cardinality(old) + 1
    BY <1>1, <2>1, FS_AddElement
  <2>3. QED
    BY <1>1, <1>2, <1>3, <2>1, <2>2
<1>4. CASE ~(figure = choice \/ (figure = "total" /\ b[v] = "none")) /\ figure = b[v]
  <2>a. b[v] # "none" /\ figure # "total" /\ figure # choice
    BY <1>4, <1>a DEF V!Figure
  <2>b. \A w \in Voter : w \in new <=> w \in old /\ w # v
    BY <1>4, <1>a, <2>a
  <2>1. v \in old /\ new = old \ {v}
    BY <1>4, <2>a, <2>b
  <2>2. Cardinality(old \ {v}) = Cardinality(old) - 1
    BY <1>1, <2>1, FS_RemoveElement
  <2>3. QED
    <3>1. BallotsOf(c, figure) = BallotsOf(b, figure) - 1
      BY <1>2, <2>1, <2>2, Zenon
    <3>2. BallotsOf(b, figure) \in Nat
      BY <1>1, <1>2
    <3>3. QED
      BY <1>4, <3>1, <3>2
<1>5. CASE ~(figure = choice \/ (figure = "total" /\ b[v] = "none")) /\ figure # b[v]
  <2>a. ASSUME NEW w \in Voter
        PROVE  w \in new <=> w \in old
    <3>1. CASE w = v
      <4>1. CASE figure = "total"
        BY <1>5, <1>a, <3>1, <4>1
      <4>2. CASE figure # "total"
        BY <1>5, <1>a, <3>1, <4>2
      <4>3. QED
        BY <4>1, <4>2
    <3>2. CASE w # v
      BY <1>a, <3>2
    <3>3. QED
      BY <3>1, <3>2
  <2>1. new = old
    BY <2>a
  <2>2. QED
    <3>1. BallotsOf(c, figure) = BallotsOf(b, figure)
      BY <1>2, <2>1, Zenon
    <3>2. BallotsOf(b, figure) \in Nat
      BY <1>1, <1>2
    <3>3. QED
      BY <1>5, <3>1, <3>2
<1>6. QED
  BY <1>3, <1>4, <1>5

LEMMA Queries ==
    /\ \A queries \in {V!AfterCast, V!ForList} : Len(queries) = 4 /\ \A i \in 1 .. 4 : queries[i] \in V!Figure
    /\ V!AfterCast[1] = "for" /\ V!AfterCast[2] = "against" /\ V!AfterCast[3] = "abstain" /\ V!AfterCast[4] = "total"
    /\ V!ForList[1] = "total" /\ V!ForList[2] = "for" /\ V!ForList[3] = "against" /\ V!ForList[4] = "abstain"
    /\ V!AfterCast # V!ForList
<1>1. /\ V!AfterCast[1] = "for" /\ V!AfterCast[2] = "against" /\ V!AfterCast[3] = "abstain" /\ V!AfterCast[4] = "total"
      /\ V!ForList[1] = "total" /\ V!ForList[2] = "for" /\ V!ForList[3] = "against" /\ V!ForList[4] = "abstain"
      /\ Len(V!AfterCast) = 4 /\ Len(V!ForList) = 4
  BY DEF V!AfterCast, V!ForList
<1>2. \A i \in 1 .. 4 : i = 1 \/ i = 2 \/ i = 3 \/ i = 4
  OBVIOUS
<1>3. QED
  BY <1>1, <1>2 DEF V!Figure, V!Choice

LEMMA ToldIsNumber ==
    ASSUME VotersAssumption, NEW b \in Ballots, NEW job \in Tally, NEW i \in 1 .. 4
    PROVE  /\ job.queries[i] \in V!Figure
           /\ Told(job, b, i) \in Nat
           /\ BallotsOf(b, job.queries[i]) \in Nat
<1>1. job.queries[i] \in V!Figure
  BY Queries DEF Tally
<1>2. Cardinality(Voter) \in Nat
  BY FS_CardinalityType DEF VotersAssumption
<1>3. BallotsOf(b, job.queries[i]) \in Nat
  BY <1>1, <1>2, BallotsCounted
<1>4. job.figure \in Seq(0 .. Cardinality(Voter))
  BY DEF Tally
<1>5. i \in DOMAIN job.figure => job.figure[i] \in Nat
  BY <1>2, <1>4
<1>6. QED
  BY <1>1, <1>3, <1>5 DEF Told

\* A count begins with the ballots as they are.
LEMMA CountingStarts ==
    ASSUME VotersAssumption, NEW b \in Ballots, NEW queries \in {V!AfterCast, V!ForList}
    PROVE  V!Counting(queries) \in Tally /\ TallyInv(V!Counting(queries), b)
<1> PICK job : job = V!Counting(queries)
  OBVIOUS
<1>1. job.queries = queries /\ job.figure = <<>> /\ job.meanwhile = 0
  BY DEF V!Counting
<1>2. job \in Tally
  BY DEF V!Counting, Tally, VotersAssumption
<1>3. \A i \in 1 .. 4 : Told(job, b, i) = BallotsOf(b, queries[i])
  BY <1>1 DEF Told
<1>4. \A i \in 1 .. 4 : Told(job, b, i) \in Nat
  BY <1>2, ToldIsNumber
<1>5. \A i \in 1 .. 4 : V!Distance(Told(job, b, i), BallotsOf(b, job.queries[i])) <= job.meanwhile
  BY <1>1, <1>3, <1>4 DEF V!Distance
<1>6. CASE queries = V!AfterCast
  <2>1. Told(job, b, 4) = Told(job, b, 1) + Told(job, b, 2) + Told(job, b, 3)
    BY <1>3, <1>6, BallotsAddUp, Queries
  <2>2. Told(job, b, 4) \in Nat
    BY <1>4
  <2>3. QED
    BY <1>1, <1>2, <1>5, <1>6, <2>1, <2>2 DEF TallyInv, V!Distance
<1>7. CASE queries = V!ForList
  <2>1. Told(job, b, 1) = Told(job, b, 2) + Told(job, b, 3) + Told(job, b, 4)
    BY <1>3, <1>7, BallotsAddUp, Queries
  <2>2. Told(job, b, 1) \in Nat
    BY <1>4
  <2>3. QED
    BY <1>1, <1>2, <1>5, <1>7, <2>1, <2>2, Queries DEF TallyInv, V!Distance
<1>8. QED
  BY <1>6, <1>7

\* A query that is answered tells what it would have told before.
LEMMA QueryTells ==
    ASSUME VotersAssumption, NEW b \in Ballots, NEW job \in Tally, TallyInv(job, b),
           Len(job.figure) < 4,
           NEW next, next = job.queries[Len(job.figure) + 1],
           NEW new, new = [job EXCEPT !.figure = Append(job.figure, BallotsOf(b, next))]
    PROVE  new \in Tally /\ TallyInv(new, b)
<1>1. job.figure \in Seq(0 .. Cardinality(Voter)) /\ Len(job.figure) \in Nat
  BY DEF Tally
<1> PICK n \in Nat : n = Len(job.figure)
  BY <1>1
<1>2. n + 1 \in 1 .. 4
  OBVIOUS
<1>3. next \in V!Figure
  BY <1>2, ToldIsNumber
<1>4. BallotsOf(b, next) \in 0 .. Cardinality(Voter)
  BY <1>3, BallotsCounted
<1> PICK figure : figure = Append(job.figure, BallotsOf(b, next))
  OBVIOUS
<1>5. /\ figure \in Seq(0 .. Cardinality(Voter)) /\ Len(figure) = n + 1
      /\ DOMAIN figure = 1 .. n + 1 /\ DOMAIN job.figure = 1 .. n
      /\ figure[n + 1] = BallotsOf(b, next)
      /\ \A i \in 1 .. n : figure[i] = job.figure[i]
  BY <1>1, <1>4
<1>6. new \in Tally /\ new.figure = figure /\ new.queries = job.queries /\ new.meanwhile = job.meanwhile
  BY <1>5 DEF Tally
<1>7. \A i \in 1 .. 4 : Told(new, b, i) = Told(job, b, i)
  BY <1>5, <1>6 DEF Told
<1>8. QED
  BY <1>2, <1>5, <1>6, <1>7 DEF TallyInv

\* The ballots that a new one changes: each figure by at most one, and figures that are asked
\* for one after the other, together by at most one.
LEMMA BallotsMove ==
    ASSUME VotersAssumption, NEW b \in Ballots, NEW v \in Voter, NEW choice \in V!Choice,
           NEW c, Cast(b, v, choice, c)
    PROVE  \E yes, no, none, all \in -1 .. 1 :
               /\ BallotsOf(c, "for") = BallotsOf(b, "for") + yes
               /\ BallotsOf(c, "against") = BallotsOf(b, "against") + no
               /\ BallotsOf(c, "abstain") = BallotsOf(b, "abstain") + none
               /\ BallotsOf(c, "total") = BallotsOf(b, "total") + all
               /\ all = yes + no + none
               /\ yes + no \in -1 .. 1 /\ no + none \in -1 .. 1
<1> PICK old : old = b[v]
  OBVIOUS
<1>1. old \in V!Choice \cup {"none"} /\ old # choice
  BY DEF Ballots, Cast
<1>2. \A f \in V!Figure : BallotsOf(b, f) \in Nat
  BY BallotsCounted, FS_CardinalityType DEF VotersAssumption
<1>3. /\ BallotsOf(c, "for") = BallotsOf(b, "for") + (IF choice = "for" THEN 1 ELSE 0) - (IF old = "for" THEN 1 ELSE 0)
      /\ BallotsOf(c, "against") = BallotsOf(b, "against") + (IF choice = "against" THEN 1 ELSE 0) - (IF old = "against" THEN 1 ELSE 0)
      /\ BallotsOf(c, "abstain") = BallotsOf(b, "abstain") + (IF choice = "abstain" THEN 1 ELSE 0) - (IF old = "abstain" THEN 1 ELSE 0)
      /\ BallotsOf(c, "total") = BallotsOf(b, "total") + (IF old = "none" THEN 1 ELSE 0)
  <2>1. \A f \in V!Figure : BallotsOf(c, f) = BallotsOf(b, f)
                + (IF f = choice \/ (f = "total" /\ old = "none") THEN 1 ELSE 0)
                - (IF f = old THEN 1 ELSE 0)
    BY BallotsChange
  <2>2. "for" \in V!Figure /\ "against" \in V!Figure /\ "abstain" \in V!Figure /\ "total" \in V!Figure
    BY DEF V!Figure, V!Choice
  <2>3. choice # "total" /\ old # "total"
    BY <1>1 DEF V!Choice
  <2>4. QED
    BY <1>2, <2>1, <2>2, <2>3
<1> PICK yes, no, none, all :
        /\ yes = (IF choice = "for" THEN 1 ELSE 0) - (IF old = "for" THEN 1 ELSE 0)
        /\ no = (IF choice = "against" THEN 1 ELSE 0) - (IF old = "against" THEN 1 ELSE 0)
        /\ none = (IF choice = "abstain" THEN 1 ELSE 0) - (IF old = "abstain" THEN 1 ELSE 0)
        /\ all = (IF old = "none" THEN 1 ELSE 0)
  OBVIOUS
<1>4. yes \in -1 .. 1 /\ no \in -1 .. 1 /\ none \in -1 .. 1 /\ all \in -1 .. 1
  OBVIOUS
<1>5. all = yes + no + none /\ yes + no \in -1 .. 1 /\ no + none \in -1 .. 1
  BY <1>1 DEF V!Choice
<1>6. "for" \in V!Figure /\ "against" \in V!Figure /\ "abstain" \in V!Figure /\ "total" \in V!Figure
  BY DEF V!Figure, V!Choice
<1>7. /\ BallotsOf(c, "for") = BallotsOf(b, "for") + yes
      /\ BallotsOf(c, "against") = BallotsOf(b, "against") + no
      /\ BallotsOf(c, "abstain") = BallotsOf(b, "abstain") + none
      /\ BallotsOf(c, "total") = BallotsOf(b, "total") + all
  BY <1>2, <1>3, <1>4, <1>6
<1>8. QED
  BY <1>4, <1>5, <1>7

\* One figure of a count that takes note of the ballot.
LEMMA FigureIsNoted ==
    ASSUME VotersAssumption, NEW b \in Ballots, NEW c \in Ballots,
           NEW job \in Tally, TallyInv(job, b),
           NEW new \in Tally, new.figure = job.figure, new.queries = job.queries,
           new.meanwhile = job.meanwhile + 1,
           NEW i \in 1 .. 4, NEW more \in -1 .. 1,
           BallotsOf(c, job.queries[i]) = BallotsOf(b, job.queries[i]) + more
    PROVE  /\ Told(job, b, i) \in Nat
           /\ Told(new, c, i) = Told(job, b, i) + (IF i \in DOMAIN job.figure THEN 0 ELSE more)
           /\ V!Distance(Told(new, c, i), BallotsOf(c, new.queries[i])) <= new.meanwhile
<1>1. Told(job, b, i) \in Nat /\ BallotsOf(b, job.queries[i]) \in Nat
  BY ToldIsNumber
<1>2. job.meanwhile \in Nat
  BY DEF Tally, VotersAssumption
<1>3. V!Distance(Told(job, b, i), BallotsOf(b, job.queries[i])) <= job.meanwhile
  BY DEF TallyInv
<1>4. CASE i \in DOMAIN job.figure
  <2>1. Told(new, c, i) = Told(job, b, i)
    BY <1>2, <1>4 DEF Told
  <2>2. V!Distance(Told(new, c, i), BallotsOf(c, new.queries[i])) <= new.meanwhile
    BY <1>1, <1>2, <1>3, <2>1 DEF V!Distance
  <2>3. QED
    BY <1>1, <1>4, <2>1, <2>2
<1>5. CASE i \notin DOMAIN job.figure
  <2>1. Told(new, c, i) = BallotsOf(c, job.queries[i]) /\ Told(job, b, i) = BallotsOf(b, job.queries[i])
    BY <1>2, <1>5 DEF Told
  <2>2. V!Distance(Told(new, c, i), BallotsOf(c, new.queries[i])) <= new.meanwhile
    BY <1>1, <1>2, <2>1 DEF V!Distance
  <2>3. QED
    BY <1>1, <1>5, <2>1, <2>2
<1>6. QED
  BY <1>4, <1>5

Noted(job, new) ==
    new = [job EXCEPT !.meanwhile = job.meanwhile + 1] /\ new.meanwhile <= VoteChanges

\* A ballot cast while a count is under way moves it by at most one.
LEMMA CastIsNoted ==
    ASSUME VotersAssumption, NEW b \in Ballots, NEW v \in Voter, NEW choice \in V!Choice,
           NEW c, Cast(b, v, choice, c),
           NEW job \in Tally, TallyInv(job, b),
           NEW new, Noted(job, new)
    PROVE  new \in Tally /\ TallyInv(new, c)
<1>1. new \in Tally /\ new.figure = job.figure /\ new.queries = job.queries
      /\ new.meanwhile = job.meanwhile + 1 /\ job.meanwhile \in Nat
  BY DEF Tally, VotersAssumption, Noted
<1>2. c \in Ballots
  BY DEF Ballots, Cast
<1>n. /\ 2 \in DOMAIN job.figure => 1 \in DOMAIN job.figure
      /\ 3 \in DOMAIN job.figure => 2 \in DOMAIN job.figure
      /\ 4 \in DOMAIN job.figure => 3 \in DOMAIN job.figure
  <2>1. job.figure \in Seq(0 .. Cardinality(Voter))
    BY DEF Tally
  <2> PICK n \in Nat : DOMAIN job.figure = 1 .. n
    BY <2>1
  <2>2. QED
    OBVIOUS
<1>d. DOMAIN job.figure \subseteq 1 .. 4
  BY DEF TallyInv
<1>3. PICK yes, no, none, all \in -1 .. 1 :
          /\ BallotsOf(c, "for") = BallotsOf(b, "for") + yes
          /\ BallotsOf(c, "against") = BallotsOf(b, "against") + no
          /\ BallotsOf(c, "abstain") = BallotsOf(b, "abstain") + none
          /\ BallotsOf(c, "total") = BallotsOf(b, "total") + all
          /\ all = yes + no + none
          /\ yes + no \in -1 .. 1 /\ no + none \in -1 .. 1
  BY BallotsMove
<1>5. 1 \in 1 .. 4 /\ 2 \in 1 .. 4 /\ 3 \in 1 .. 4 /\ 4 \in 1 .. 4
  OBVIOUS
<1>6. \A i \in 1 .. 4 : i = 1 \/ i = 2 \/ i = 3 \/ i = 4
  OBVIOUS
<1>7. CASE job.queries = V!AfterCast
  <2>1. /\ Told(job, b, 1) \in Nat
        /\ Told(new, c, 1) = Told(job, b, 1) + (IF 1 \in DOMAIN job.figure THEN 0 ELSE yes)
        /\ V!Distance(Told(new, c, 1), BallotsOf(c, new.queries[1])) <= new.meanwhile
    BY <1>1, <1>2, <1>3, <1>5, <1>7, Queries, FigureIsNoted
  <2>2. /\ Told(job, b, 2) \in Nat
        /\ Told(new, c, 2) = Told(job, b, 2) + (IF 2 \in DOMAIN job.figure THEN 0 ELSE no)
        /\ V!Distance(Told(new, c, 2), BallotsOf(c, new.queries[2])) <= new.meanwhile
    BY <1>1, <1>2, <1>3, <1>5, <1>7, Queries, FigureIsNoted
  <2>3. /\ Told(job, b, 3) \in Nat
        /\ Told(new, c, 3) = Told(job, b, 3) + (IF 3 \in DOMAIN job.figure THEN 0 ELSE none)
        /\ V!Distance(Told(new, c, 3), BallotsOf(c, new.queries[3])) <= new.meanwhile
    BY <1>1, <1>2, <1>3, <1>5, <1>7, Queries, FigureIsNoted
  <2>4. /\ Told(job, b, 4) \in Nat
        /\ Told(new, c, 4) = Told(job, b, 4) + (IF 4 \in DOMAIN job.figure THEN 0 ELSE all)
        /\ V!Distance(Told(new, c, 4), BallotsOf(c, new.queries[4])) <= new.meanwhile
    BY <1>1, <1>2, <1>3, <1>5, <1>7, Queries, FigureIsNoted
  <2>5. V!Distance(Told(job, b, 4), Told(job, b, 1) + Told(job, b, 2) + Told(job, b, 3)) <= job.meanwhile
    BY <1>7 DEF TallyInv
  <2>6. V!Distance(Told(new, c, 4), Told(new, c, 1) + Told(new, c, 2) + Told(new, c, 3)) <= new.meanwhile
    BY <1>1, <1>3, <1>n, <2>1, <2>2, <2>3, <2>4, <2>5 DEF V!Distance
  <2>7. \A i \in 1 .. 4 : V!Distance(Told(new, c, i), BallotsOf(c, new.queries[i])) <= new.meanwhile
    BY <1>6, <2>1, <2>2, <2>3, <2>4
  <2>8. QED
    <3>1. new.queries = V!AfterCast /\ DOMAIN new.figure \subseteq 1 .. 4
      BY <1>1, <1>7, <1>d
    <3>2. QED
      BY <1>1, <2>6, <2>7, <3>1, Zenon DEF TallyInv
<1>8. CASE job.queries = V!ForList
  <2>1. /\ Told(job, b, 1) \in Nat
        /\ Told(new, c, 1) = Told(job, b, 1) + (IF 1 \in DOMAIN job.figure THEN 0 ELSE all)
        /\ V!Distance(Told(new, c, 1), BallotsOf(c, new.queries[1])) <= new.meanwhile
    BY <1>1, <1>2, <1>3, <1>5, <1>8, Queries, FigureIsNoted
  <2>2. /\ Told(job, b, 2) \in Nat
        /\ Told(new, c, 2) = Told(job, b, 2) + (IF 2 \in DOMAIN job.figure THEN 0 ELSE yes)
        /\ V!Distance(Told(new, c, 2), BallotsOf(c, new.queries[2])) <= new.meanwhile
    BY <1>1, <1>2, <1>3, <1>5, <1>8, Queries, FigureIsNoted
  <2>3. /\ Told(job, b, 3) \in Nat
        /\ Told(new, c, 3) = Told(job, b, 3) + (IF 3 \in DOMAIN job.figure THEN 0 ELSE no)
        /\ V!Distance(Told(new, c, 3), BallotsOf(c, new.queries[3])) <= new.meanwhile
    BY <1>1, <1>2, <1>3, <1>5, <1>8, Queries, FigureIsNoted
  <2>4. /\ Told(job, b, 4) \in Nat
        /\ Told(new, c, 4) = Told(job, b, 4) + (IF 4 \in DOMAIN job.figure THEN 0 ELSE none)
        /\ V!Distance(Told(new, c, 4), BallotsOf(c, new.queries[4])) <= new.meanwhile
    BY <1>1, <1>2, <1>3, <1>5, <1>8, Queries, FigureIsNoted
  <2>5. V!Distance(Told(job, b, 1), Told(job, b, 2) + Told(job, b, 3) + Told(job, b, 4)) <= job.meanwhile
    BY <1>8, Queries DEF TallyInv
  <2>6. V!Distance(Told(new, c, 1), Told(new, c, 2) + Told(new, c, 3) + Told(new, c, 4)) <= new.meanwhile
    BY <1>1, <1>3, <1>n, <2>1, <2>2, <2>3, <2>4, <2>5 DEF V!Distance
  <2>7. \A i \in 1 .. 4 : V!Distance(Told(new, c, i), BallotsOf(c, new.queries[i])) <= new.meanwhile
    BY <1>6, <2>1, <2>2, <2>3, <2>4
  <2>8. QED
    <3>1. new.queries # V!AfterCast /\ DOMAIN new.figure \subseteq 1 .. 4
      BY <1>1, <1>8, <1>d, Queries
    <3>2. QED
      BY <1>1, <2>6, <2>7, <3>1, Zenon DEF TallyInv
<1>9. QED
  BY <1>7, <1>8 DEF Tally

\* A request goes on to its next step, and nothing else happens.
LEMMA VoteRequestStep ==
    ASSUME VotesInv, NEW r \in VoteRequest, NEW new \in {V!Idle} \cup Storing \cup Tally,
           voteReq' = [voteReq EXCEPT ![r] = new], UNCHANGED <<voteOpen, investor, ballot>>,
           new \in Tally => TallyInv(new, ballot)
    PROVE  VotesInv'
<1>1. VotesTyped'
  BY DEF VotesInv, VotesTyped
<1>2. ASSUME NEW q \in VoteRequest, voteReq'[q] \in Tally
      PROVE  TallyInv(voteReq'[q], ballot')
  <2>1. voteReq'[q] = new \/ voteReq'[q] = voteReq[q]
    BY DEF VotesInv, VotesTyped
  <2>2. QED
    BY <1>2, <2>1, Zenon DEF VotesInv
<1>3. QED
  BY <1>1, <1>2 DEF VotesInv

LEMMA StoreBallotStep ==
    ASSUME VotersAssumption, VotesInv, NEW r \in VoteRequest, V!StoreBallot(r)
    PROVE  VotesInv'
<1>1. voteReq[r] \in Storing
  BY DEF VotesInv, VotesTyped, V!StoreBallot, V!Idle, Tally
<1> PICK v \in Voter, choice \in V!Choice : v = voteReq[r].voter /\ choice = voteReq[r].choice
  BY <1>1 DEF Storing
<1>2. ballot' = [ballot EXCEPT ![v] = choice] /\ UNCHANGED <<voteOpen, investor>>
  BY DEF V!StoreBallot
<1>3. ballot \in Ballots /\ ballot' \in Ballots
  BY <1>2 DEF VotesInv, VotesTyped, Ballots
<1>4. \A q \in VoteRequest :
          /\ q = r => voteReq'[q] = V!Counting(V!AfterCast)
          /\ q # r /\ voteReq[q].at = "count" /\ ballot' # ballot =>
                 voteReq'[q] = [voteReq[q] EXCEPT !.meanwhile = @ + 1] /\ voteReq'[q].meanwhile <= VoteChanges
          /\ q # r /\ ~(voteReq[q].at = "count" /\ ballot' # ballot) => voteReq'[q] = voteReq[q]
  <2>1. \A q \in VoteRequest :
            voteReq'[q] = IF q = r THEN V!Counting(V!AfterCast)
                      ELSE IF voteReq[q].at = "count" /\ ballot' # ballot
                           THEN [voteReq[q] EXCEPT !.meanwhile = @ + 1]
                      ELSE voteReq[q]
    BY Zenon DEF V!StoreBallot
  <2>2. \A q \in VoteRequest : voteReq'[q].at = "count" => voteReq'[q].meanwhile <= VoteChanges
    BY Zenon DEF V!StoreBallot
  <2>3. \A q \in VoteRequest : voteReq[q] \in {V!Idle} \cup Storing \cup Tally
    BY DEF VotesInv, VotesTyped
  <2>4. ASSUME NEW q \in VoteRequest, q # r, voteReq[q].at = "count", ballot' # ballot
        PROVE  voteReq'[q] = [voteReq[q] EXCEPT !.meanwhile = @ + 1] /\ voteReq'[q].meanwhile <= VoteChanges
    <3>1. voteReq'[q] = [voteReq[q] EXCEPT !.meanwhile = @ + 1]
      BY <2>1, <2>4, Zenon
    <3>2. voteReq[q] \in Tally
      BY <2>3, <2>4 DEF V!Idle, Storing
    <3>3. voteReq'[q].at = "count"
      BY <3>1, <3>2 DEF Tally
    <3>4. QED
      BY <2>2, <3>1, <3>3
  <2>5. QED
    BY <2>1, <2>4, Zenon
<1>5. DOMAIN voteReq' = VoteRequest /\ voteReq' = [q \in VoteRequest |-> voteReq'[q]]
  BY DEF V!StoreBallot
<1>6. V!Counting(V!AfterCast) \in Tally /\ TallyInv(V!Counting(V!AfterCast), ballot')
  BY <1>3, CountingStarts
<1>7. ASSUME NEW q \in VoteRequest
      PROVE  /\ voteReq'[q] \in {V!Idle} \cup Storing \cup Tally
             /\ voteReq'[q] \in Tally => TallyInv(voteReq'[q], ballot')
  <2>1. voteReq[q] \in {V!Idle} \cup Storing \cup Tally /\ (voteReq[q] \in Tally => TallyInv(voteReq[q], ballot))
    BY DEF VotesInv, VotesTyped
  <2>2. CASE q = r
    BY <1>4, <1>6, <2>2
  <2>3. CASE q # r /\ voteReq[q].at = "count" /\ ballot' # ballot
    <3>1. voteReq[q] \in Tally /\ TallyInv(voteReq[q], ballot)
      BY <2>1, <2>3 DEF V!Idle, Storing
    <3>2. Noted(voteReq[q], voteReq'[q])
      BY <1>4, <2>3 DEF Noted
    <3>3. Cast(ballot, v, choice, ballot')
      BY <1>2, <1>3, <2>3 DEF Cast, Ballots
    <3>4. QED
      BY <1>3, <3>1, <3>2, <3>3, CastIsNoted
  <2>4. CASE q # r /\ ~(voteReq[q].at = "count" /\ ballot' # ballot)
    <3>1. voteReq'[q] = voteReq[q]
      BY <1>4, <2>4
    <3>2. CASE voteReq[q] \in Tally
      <4>1. ballot' = ballot
        BY <2>4, <3>2 DEF Tally
      <4>2. QED
        BY <2>1, <3>1, <3>2, <4>1
    <3>3. QED
      BY <2>1, <3>1, <3>2
  <2>5. QED
    BY <2>2, <2>3, <2>4
<1>8. voteReq' \in [VoteRequest -> {V!Idle} \cup Storing \cup Tally]
  BY <1>5, <1>7
<1>9. QED
  BY <1>2, <1>3, <1>7, <1>8 DEF VotesInv, VotesTyped

LEMMA QueryStep ==
    ASSUME VotersAssumption, VotesInv, NEW r \in VoteRequest, V!Query(r)
    PROVE  VotesInv'
<1>1. voteReq[r] \in Tally /\ TallyInv(voteReq[r], ballot) /\ ballot \in Ballots
  BY DEF VotesInv, VotesTyped, V!Query, V!Idle, Storing
<1>2. Len(voteReq[r].queries) = 4 /\ Len(voteReq[r].figure) < 4
  BY <1>1, Queries DEF V!Query, Tally
<1> PICK next : next = voteReq[r].queries[Len(voteReq[r].figure) + 1]
  OBVIOUS
<1>3. next \in V!Figure
  <2>1. Len(voteReq[r].figure) \in Nat
    BY <1>1 DEF Tally
  <2>2. Len(voteReq[r].figure) + 1 \in 1 .. 4
    BY <1>2, <2>1
  <2>3. QED
    BY <1>1, <2>2, ToldIsNumber
<1>4. V!Count(next) = BallotsOf(ballot, next)
  <2>1. CASE next = "total"
    <3>1. {v \in Voter : ballot[v] \in V!Choice} = {v \in Voter : ballot[v] # "none"}
      BY <1>1 DEF Ballots, V!Choice
    <3>2. QED
      BY VotesCounted, <2>1, <3>1 DEF V!Count, V!Having, BallotsOf
  <2>2. CASE next # "total"
    <3>1. {v \in Voter : ballot[v] \in {next}} = {v \in Voter : ballot[v] = next}
      OBVIOUS
    <3>2. QED
      BY VotesCounted, <2>2, <3>1 DEF V!Count, V!Having, BallotsOf
  <2>3. QED
    BY <2>1, <2>2
<1> PICK new : new = [voteReq[r] EXCEPT !.figure = Append(voteReq[r].figure, BallotsOf(ballot, next))]
  OBVIOUS
<1>5. voteReq' = [voteReq EXCEPT ![r] = new] /\ UNCHANGED <<voteOpen, investor, ballot>>
  BY <1>4 DEF V!Query, VotesInv, VotesTyped
<1>6. new \in Tally /\ TallyInv(new, ballot)
  BY <1>1, <1>2, QueryTells
<1>7. QED
  BY <1>5, <1>6, VoteRequestStep

\* Once a vote is over and nobody is about to store a ballot, its outcome stays.
OutcomeKept ==
    ~voteOpen /\ (\A r \in VoteRequest : voteReq[r].at # "store") =>
        ballot' = ballot /\ \A r \in VoteRequest : voteReq'[r].at # "store"

LEMMA VotesNext ==
    ASSUME VotersAssumption, VotesInv, V!Next \/ UNCHANGED V!vars
    PROVE  VotesInv' /\ OutcomeKept
<1>1. ballot \in Ballots /\ voteReq \in [VoteRequest -> {V!Idle} \cup Storing \cup Tally]
  BY DEF VotesInv, VotesTyped
<1>2. CASE UNCHANGED V!vars
  BY <1>2 DEF V!vars, VotesInv, VotesTyped, OutcomeKept
<1>3. ASSUME NEW r \in VoteRequest, NEW v \in Voter, NEW choice \in V!Choice, V!CheckBallot(r, v, choice)
      PROVE  VotesInv' /\ OutcomeKept
  <2> PICK new : new = [at |-> "store", voter |-> v, choice |-> choice]
    OBVIOUS
  <2>1. voteReq' = [voteReq EXCEPT ![r] = new] /\ UNCHANGED <<voteOpen, investor, ballot>> /\ voteOpen
    BY <1>3 DEF V!CheckBallot
  <2>2. new \in Storing /\ new \notin Tally
    BY DEF Storing, Tally
  <2>3. QED
    BY <2>1, <2>2, VoteRequestStep DEF OutcomeKept
<1>4. ASSUME NEW r \in VoteRequest, V!StoreBallot(r)
      PROVE  VotesInv' /\ OutcomeKept
  BY <1>4, StoreBallotStep DEF OutcomeKept, V!StoreBallot
<1>5. ASSUME NEW r \in VoteRequest, V!FindForUser(r)
      PROVE  VotesInv' /\ OutcomeKept
  <2>1. V!Counting(V!ForList) \in Tally /\ TallyInv(V!Counting(V!ForList), ballot)
    BY <1>1, CountingStarts
  <2>2. voteReq' = [voteReq EXCEPT ![r] = V!Counting(V!ForList)] /\ UNCHANGED <<voteOpen, investor, ballot>>
    BY <1>5 DEF V!FindForUser
  <2>3. VotesInv'
    BY <2>1, <2>2, VoteRequestStep
  <2>4. OutcomeKept
    BY <1>1, <2>1, <2>2 DEF OutcomeKept, Tally
  <2>5. QED
    BY <2>3, <2>4
<1>6. ASSUME NEW r \in VoteRequest, V!Query(r)
      PROVE  VotesInv' /\ OutcomeKept
  <2>1. VotesInv'
    BY <1>6, QueryStep
  <2>2. ballot' = ballot /\ \A q \in VoteRequest : q # r => voteReq'[q] = voteReq[q]
    BY <1>1, <1>6 DEF V!Query
  <2>3. voteReq'[r].at = "count"
    <3> PICK figure : voteReq' = [voteReq EXCEPT ![r].figure = figure]
      BY <1>1, <1>6 DEF V!Query
    <3>1. voteReq[r].at = "count" /\ voteReq[r] \in Tally
      BY <1>1, <1>6 DEF V!Query, V!Idle, Storing
    <3>2. voteReq'[r] = [voteReq[r] EXCEPT !.figure = figure]
      BY <1>1
    <3>3. QED
      BY <3>1, <3>2 DEF Tally
  <2>4. QED
    BY <2>1, <2>2, <2>3 DEF OutcomeKept
<1>7. ASSUME NEW r \in VoteRequest, V!Answer(r) \/ V!Fail(r)
      PROVE  VotesInv' /\ OutcomeKept
  <2>1. voteReq' = [voteReq EXCEPT ![r] = V!Idle] /\ UNCHANGED <<voteOpen, investor, ballot>>
    BY <1>7 DEF V!Answer, V!Fail
  <2>2. V!Idle \notin Tally
    BY DEF V!Idle, Tally
  <2>3. VotesInv'
    BY <2>1, <2>2, VoteRequestStep
  <2>4. OutcomeKept
    BY <1>1, <2>1 DEF OutcomeKept, V!Idle
  <2>5. QED
    BY <2>3, <2>4
<1>8. CASE V!Close \/ \E v \in Voter : V!Invest(v)
  <2>1. UNCHANGED <<ballot, voteReq>> /\ voteOpen' \in BOOLEAN /\ investor' \subseteq Voter
    BY <1>8 DEF V!Close, V!Invest, VotesInv, VotesTyped
  <2>2. QED
    BY <2>1 DEF VotesInv, VotesTyped, OutcomeKept
<1>9. QED
  BY <1>2, <1>3, <1>4, <1>5, <1>6, <1>7, <1>8 DEF V!Next

LEMMA VotesHold ==
    ASSUME VotersAssumption, VotesInv
    PROVE  V!TypeOK /\ V!TallyIsClose
<1>1. V!TypeOK
  <2>1. ASSUME NEW r \in VoteRequest
        PROVE  \/ voteReq[r] = V!Idle
               \/ voteReq[r] \in [at : {"store"}, voter : Voter, choice : V!Choice]
               \/ /\ voteReq[r].at = "count"
                  /\ voteReq[r].queries \in {V!AfterCast, V!ForList}
                  /\ voteReq[r].figure \in Seq(0 .. Cardinality(Voter))
                  /\ voteReq[r].meanwhile \in 0 .. VoteChanges
    <3>1. voteReq[r] \in {V!Idle} \cup Storing \cup Tally
      BY DEF VotesInv, VotesTyped
    <3>2. CASE voteReq[r] \in Tally
      BY <3>2 DEF Tally
    <3>3. QED
      BY <3>1, <3>2 DEF Storing
  <2>2. QED
    BY VotesCounted, <2>1 DEF VotesInv, VotesTyped, Ballots, V!TypeOK
<1>2. ASSUME NEW r \in VoteRequest, voteReq[r].at = "count"
      PROVE  /\ \A i \in DOMAIN voteReq[r].figure :
                    V!Distance(voteReq[r].figure[i], V!BallotsFor(voteReq[r].queries[i])) <= voteReq[r].meanwhile
             /\ Len(voteReq[r].figure) = 4 => V!Distance(V!Total(voteReq[r]), V!Parts(voteReq[r])) <= voteReq[r].meanwhile
  <2>1. voteReq[r] \in Tally /\ TallyInv(voteReq[r], ballot) /\ ballot \in Ballots
    BY <1>2 DEF VotesInv, VotesTyped, V!Idle, Storing
  <2> PICK job \in Tally : job = voteReq[r]
    BY <2>1
  <2>2. \A i \in DOMAIN job.figure :
            i \in 1 .. 4 /\ Told(job, ballot, i) = job.figure[i]
    BY <2>1 DEF TallyInv, Told
  <2>3. \A i \in 1 .. 4 : V!BallotsFor(job.queries[i]) = BallotsOf(ballot, job.queries[i])
    BY VotesCounted, Zenon DEF V!BallotsFor, BallotsOf
  <2>4. \A i \in DOMAIN job.figure : V!Distance(job.figure[i], V!BallotsFor(job.queries[i])) <= job.meanwhile
    BY <2>1, <2>2, <2>3, Zenon DEF TallyInv
  <2>5. ASSUME Len(job.figure) = 4
        PROVE  V!Distance(V!Total(job), V!Parts(job)) <= job.meanwhile
    <3>1. job.figure \in Seq(0 .. Cardinality(Voter))
      BY DEF Tally
    <3>2. DOMAIN job.figure = 1 .. 4
      BY <2>5, <3>1
    <3>3. /\ Told(job, ballot, 1) = job.figure[1] /\ Told(job, ballot, 2) = job.figure[2]
          /\ Told(job, ballot, 3) = job.figure[3] /\ Told(job, ballot, 4) = job.figure[4]
      BY <2>2, <3>2
    <3>4. /\ Told(job, ballot, 1) \in Nat /\ Told(job, ballot, 2) \in Nat
          /\ Told(job, ballot, 3) \in Nat /\ Told(job, ballot, 4) \in Nat
      BY <2>1, ToldIsNumber
    <3>5. \A i \in 1 .. 4 : i = 1 \/ i = 2 \/ i = 3 \/ i = 4
      OBVIOUS
    <3>6. CASE job.queries = V!AfterCast
      <4>1. (CHOOSE j \in 1 .. 4 : job.queries[j] = "total") = 4
        BY <3>5, <3>6, Queries
      <4>2. V!Total(job) = job.figure[4]
        BY <4>1 DEF V!Total
      <4>3. V!Distance(Told(job, ballot, 4), Told(job, ballot, 1) + Told(job, ballot, 2) + Told(job, ballot, 3))
                <= job.meanwhile
        BY <2>1, <3>6 DEF TallyInv
      <4>4. V!Parts(job) = job.figure[1] + job.figure[2] + job.figure[3]
        BY <3>3, <3>4, <4>2 DEF V!Parts
      <4>5. QED
        BY <3>3, <4>2, <4>3, <4>4, Zenon
    <3>7. CASE job.queries = V!ForList
      <4>1. (CHOOSE j \in 1 .. 4 : job.queries[j] = "total") = 1
        BY <3>5, <3>7, Queries
      <4>2. V!Total(job) = job.figure[1]
        BY <4>1 DEF V!Total
      <4>3. V!Distance(Told(job, ballot, 1), Told(job, ballot, 2) + Told(job, ballot, 3) + Told(job, ballot, 4))
                <= job.meanwhile
        BY <2>1, <3>7, Queries DEF TallyInv
      <4>4. V!Parts(job) = job.figure[2] + job.figure[3] + job.figure[4]
        BY <3>3, <3>4, <4>2 DEF V!Parts
      <4>5. QED
        BY <3>3, <4>2, <4>3, <4>4, Zenon
    <3>8. QED
      BY <3>6, <3>7 DEF Tally
  <2>6. QED
    BY <2>4, <2>5, Zenon
<1>3. V!TallyIsClose
  BY <1>2, Zenon DEF V!TallyIsClose
<1>4. QED
  BY <1>1, <1>3

(***************************************************************************)
(* Disputes.  Every figure of a report counted no more rows than there     *)
(* are, and all but those that came since.                                 *)
(***************************************************************************)

DisputesAssumption == IsFiniteSet(Dispute) /\ DisputeAsked \subseteq D!DisputeStatus

DisputeRow == [status : D!DisputeStatus, dated : BOOLEAN]
DisputeTable == [Dispute -> {D!Absent} \cup DisputeRow]
Mine == [at : {"mine"}, dispute : Dispute, status : DisputeAsked \cup {""}]
Sums == UNION {[figures -> Nat] : figures \in SUBSET D!Figure}
Stats == [at : {"stats"}, sum : Sums, meanwhile : Nat]

\* A report that is being made, and the number of rows.
StatsInv(job, rows) ==
    /\ job.meanwhile <= rows
    /\ \A f \in DOMAIN job.sum : job.sum[f] <= rows /\ rows <= job.sum[f] + job.meanwhile

DisputesInv ==
    /\ dispute \in DisputeTable
    /\ disputeReq \in [DisputeRequest -> {D!Idle, [at |-> "ask"]} \cup Mine \cup Stats]
    /\ \A r \in DisputeRequest :
           /\ disputeReq[r] \in Mine => disputeReq[r].dispute \in D!Rows
           /\ disputeReq[r] \in Stats => StatsInv(disputeReq[r], Cardinality(D!Rows))
    /\ \A d \in D!Rows : dispute[d].status = "RESOLVED" => dispute[d].dated

\* Counting is the same in the part and here.
LEMMA DisputesCounted == \A s : D!Cardinality(s) = Cardinality(s)
BY DEF D!Cardinality, Cardinality

LEMMA DisputesInit == D!Init => DisputesInv
<1>1. D!Init => D!Rows = {}
  BY DEF D!Init, D!Rows
<1>2. D!Idle \notin Mine /\ D!Idle \notin Stats
  BY DEF D!Idle, Mine, Stats
<1>3. QED
  BY <1>1, <1>2 DEF D!Init, DisputesInv, DisputeTable

LEMMA RowsAreRows ==
    ASSUME DisputesInv, NEW d \in D!Rows
    PROVE  d \in Dispute /\ dispute[d] \in DisputeRow
<1>1. dispute \in DisputeTable
  BY DEF DisputesInv
<1>2. QED
  BY <1>1 DEF D!Rows, DisputeTable

LEMMA RequestsAreTyped ==
    ASSUME DisputesInv, NEW r \in DisputeRequest
    PROVE  /\ disputeReq[r].at = "mine" => disputeReq[r] \in Mine /\ disputeReq[r].dispute \in D!Rows
           /\ disputeReq[r].at = "stats" => disputeReq[r] \in Stats /\ StatsInv(disputeReq[r], Cardinality(D!Rows))
<1>1. disputeReq[r] \in {D!Idle, [at |-> "ask"]} \cup Mine \cup Stats
  BY DEF DisputesInv
<1>2. D!Idle.at = "idle" /\ [at |-> "ask"].at = "ask"
  BY DEF D!Idle
<1>3. disputeReq[r] \in Mine => disputeReq[r].at = "mine"
  BY DEF Mine
<1>4. disputeReq[r] \in Stats => disputeReq[r].at = "stats"
  BY DEF Stats
<1>5. QED
  BY <1>1, <1>2, <1>3, <1>4 DEF DisputesInv

\* new: the rows old with both fields of row d written.
Written(new, old, d, status, dated) == new = [old EXCEPT ![d].status = status, ![d].dated = dated]

Rewritten(new, old, d, row) == new = [old EXCEPT ![d] = row]

LEMMA RowIsWritten ==
    ASSUME NEW old \in DisputeTable, NEW d \in Dispute, old[d] \in DisputeRow,
           NEW status \in D!DisputeStatus, NEW dated \in BOOLEAN,
           NEW new, Written(new, old, d, status, dated)
    PROVE  \E row \in DisputeRow :
               row.status = status /\ row.dated = dated /\ Rewritten(new, old, d, row)
<1> PICK moved : moved = [old[d] EXCEPT !.status = status]
  OBVIOUS
<1> PICK row : row = [moved EXCEPT !.dated = dated]
  OBVIOUS
<1>2. moved \in DisputeRow /\ moved.status = status
  BY DEF DisputeRow
<1>3. row \in DisputeRow /\ row.status = status /\ row.dated = dated
  BY <1>2 DEF DisputeRow
<1> PICK next : next = [old EXCEPT ![d] = moved]
  OBVIOUS
<1>4. next = [old EXCEPT ![d].status = status]
  OBVIOUS
<1>5. new = [next EXCEPT ![d].dated = dated]
  BY <1>4, Zenon DEF Written
<1>6. next \in DisputeTable /\ next[d] = moved
  BY <1>2 DEF DisputeTable
<1>7. new = [next EXCEPT ![d] = row]
  BY <1>5, <1>6
<1>8. new = [old EXCEPT ![d] = row]
  BY <1>6, <1>7 DEF DisputeTable
<1>9. QED
  BY <1>3, <1>8 DEF Rewritten

LEMMA RowsCounted ==
    ASSUME DisputesAssumption
    PROVE  IsFiniteSet(D!Rows) /\ Cardinality(D!Rows) \in Nat /\ Cardinality(D!Rows) <= Cardinality(Dispute)
BY FS_Subset, FS_CardinalityType DEF DisputesAssumption, D!Rows

LEMMA CreateDisputeStep ==
    ASSUME DisputesAssumption, DisputesInv, NEW d \in Dispute, D!CreateDispute(d)
    PROVE  DisputesInv'
<1> PICK row : row = [status |-> "OPEN", dated |-> FALSE]
  OBVIOUS
<1>1. row \in DisputeRow /\ row # D!Absent /\ row.status = "OPEN"
  BY DEF DisputeRow, D!DisputeStatus, D!Absent
<1>2. dispute' = [dispute EXCEPT ![d] = row] /\ d \notin D!Rows
  BY DEF D!CreateDispute
<1>3. dispute' \in DisputeTable
      /\ \A e \in Dispute : dispute'[e] = IF e = d THEN row ELSE dispute[e]
  BY <1>1, <1>2 DEF DisputesInv, DisputeTable
<1>4. D!Rows' = D!Rows \cup {d}
  BY <1>1, <1>3 DEF D!Rows
<1> PICK rows \in Nat : rows = Cardinality(D!Rows)
  BY RowsCounted
<1>5. Cardinality(D!Rows') = rows + 1
  BY <1>2, <1>4, RowsCounted, FS_AddElement
<1>6. ASSUME NEW r \in DisputeRequest
      PROVE  /\ disputeReq'[r] \in {D!Idle, [at |-> "ask"]} \cup Mine \cup Stats
             /\ disputeReq'[r] \in Mine => disputeReq'[r].dispute \in D!Rows'
             /\ disputeReq'[r] \in Stats => StatsInv(disputeReq'[r], rows + 1)
  <2>1. disputeReq'[r] = IF disputeReq[r].at = "stats" THEN [disputeReq[r] EXCEPT !.meanwhile = disputeReq[r].meanwhile + 1] ELSE disputeReq[r]
    BY DEF D!CreateDispute
  <2>2. CASE disputeReq[r].at = "stats"
    <3>1. disputeReq[r] \in Stats /\ StatsInv(disputeReq[r], rows)
      BY <2>2, RequestsAreTyped
    <3> PICK job \in Stats : job = disputeReq[r]
      BY <3>1
    <3> PICK new : new = [job EXCEPT !.meanwhile = job.meanwhile + 1]
      OBVIOUS
    <3>1a. job.meanwhile + 1 \in Nat /\ job.sum \in Sums
      BY DEF Stats
    <3>2. new \in Stats /\ new.sum = job.sum /\ new.meanwhile = job.meanwhile + 1 /\ new \notin Mine
      BY <3>1a DEF Stats, Mine
    <3>3. job.meanwhile \in Nat /\ \A f \in DOMAIN job.sum : job.sum[f] \in Nat
      BY DEF Stats, Sums
    <3>4. StatsInv(new, rows + 1)
      BY <3>1, <3>2, <3>3 DEF StatsInv
    <3>5. QED
      BY <2>1, <2>2, <3>2, <3>4
  <2>3. CASE disputeReq[r].at # "stats"
    BY <1>4, <2>1, <2>3 DEF DisputesInv, Stats
  <2>4. QED
    BY <2>2, <2>3
<1>7. disputeReq' \in [DisputeRequest -> {D!Idle, [at |-> "ask"]} \cup Mine \cup Stats]
  <2>1. disputeReq' = [r \in DisputeRequest |-> disputeReq'[r]]
    BY DEF D!CreateDispute
  <2>2. QED
    BY <1>6, <2>1
<1>8. \A e \in D!Rows' : dispute'[e].status = "RESOLVED" => dispute'[e].dated
  BY <1>1, <1>2, <1>3, <1>4 DEF DisputesInv, D!Rows
<1>9. QED
  BY <1>3, <1>5, <1>6, <1>7, <1>8 DEF DisputesInv

\* A row is written: dated if it is resolved.
LEMMA DisputeWrite ==
    ASSUME DisputesInv, NEW d \in D!Rows, NEW row \in DisputeRow, row.status = "RESOLVED" => row.dated,
           Rewritten(dispute', dispute, d, row),
           disputeReq' \in [DisputeRequest -> {D!Idle, [at |-> "ask"]} \cup Mine \cup Stats],
           \A r \in DisputeRequest : disputeReq'[r] = D!Idle \/ disputeReq'[r] = disputeReq[r]
    PROVE  DisputesInv'
<1>1. row # D!Absent
  BY DEF DisputeRow, D!DisputeStatus, D!Absent
<1>2. d \in Dispute
  BY DEF D!Rows
<1>3. dispute' \in DisputeTable
      /\ \A e \in Dispute : dispute'[e] = IF e = d THEN row ELSE dispute[e]
  BY <1>2 DEF DisputesInv, DisputeTable, Rewritten
<1>4. D!Rows' = D!Rows
  BY <1>1, <1>3 DEF D!Rows
<1>5. D!Idle \notin Mine /\ D!Idle \notin Stats
  BY DEF D!Idle, Mine, Stats
<1>6. QED
  BY <1>3, <1>4, <1>5 DEF DisputesInv, D!Rows

\* A request goes on, and nothing else happens.
LEMMA DisputeRequestStep ==
    ASSUME DisputesInv, NEW r \in DisputeRequest, NEW new \in {D!Idle, [at |-> "ask"]} \cup Mine \cup Stats,
           disputeReq' = [disputeReq EXCEPT ![r] = new], UNCHANGED dispute,
           new \in Mine => new.dispute \in D!Rows,
           new \in Stats => StatsInv(new, Cardinality(D!Rows))
    PROVE  DisputesInv'
<1>1. D!Rows' = D!Rows
  BY DEF D!Rows
<1>2. disputeReq' \in [DisputeRequest -> {D!Idle, [at |-> "ask"]} \cup Mine \cup Stats]
      /\ \A q \in DisputeRequest : disputeReq'[q] = new \/ disputeReq'[q] = disputeReq[q]
  BY DEF DisputesInv
<1>3. QED
  BY <1>1, <1>2 DEF DisputesInv

LEMMA UpdateStep ==
    ASSUME DisputesAssumption, DisputesInv
    PROVE  /\ \A d \in Dispute, status \in DisputeAsked : D!UpdateDispute(d, status) => DisputesInv'
           /\ \A r \in DisputeRequest : D!UpdateMine(r) => DisputesInv'
<1>1. ASSUME NEW d \in Dispute, NEW status \in DisputeAsked, D!UpdateDispute(d, status)
      PROVE  DisputesInv'
  <2>1. d \in D!Rows /\ d \in Dispute /\ dispute[d] \in DisputeRow /\ dispute \in DisputeTable
    BY <1>1, RowsAreRows DEF D!UpdateDispute, DisputesInv
  <2> PICK dated \in BOOLEAN : dated = (dispute[d].dated \/ status \in {"RESOLVED", "CLOSED"})
    OBVIOUS
  <2>2. status \in D!DisputeStatus /\ (status = "RESOLVED" => dated)
    BY DEF DisputesAssumption
  <2>3. Written(dispute', dispute, d, status, dated)
    BY <1>1 DEF D!UpdateDispute, Written
  <2>4. disputeReq' = disputeReq
    BY <1>1 DEF D!UpdateDispute
  <2>5. PICK row \in DisputeRow :
            row.status = status /\ row.dated = dated /\ Rewritten(dispute', dispute, d, row)
    BY <2>1, <2>2, <2>3, RowIsWritten, Zenon
  <2>6. QED
    BY <2>1, <2>2, <2>4, <2>5, DisputeWrite DEF DisputesInv
<1>2. ASSUME NEW r \in DisputeRequest, D!UpdateMine(r)
      PROVE  DisputesInv'
  <2>1. disputeReq[r] \in Mine
    BY <1>2, RequestsAreTyped DEF D!UpdateMine
  <2>p. PICK d, status : d = disputeReq[r].dispute /\ status = disputeReq[r].status
    OBVIOUS
  <2>2. /\ d \in D!Rows /\ status \in DisputeAsked \cup {""} /\ d \in Dispute
        /\ dispute[d] \in DisputeRow /\ dispute \in DisputeTable
    BY <2>1, <2>p, RowsAreRows DEF Mine, DisputesInv
  <2>n. PICK next : next = IF status = "" THEN dispute[d].status ELSE status
    OBVIOUS
  <2>t. PICK dated \in BOOLEAN : dated = (dispute[d].dated \/ status = "RESOLVED")
    OBVIOUS
  <2>3. next \in D!DisputeStatus
    BY <2>2, <2>n DEF DisputeRow, DisputesAssumption
  <2>4. next = "RESOLVED" => dated
    BY <2>2, <2>n, <2>t DEF DisputesInv, DisputeRow
  <2>5. Written(dispute', dispute, d, next, dated)
    BY <1>2, <2>n, <2>t, <2>p DEF D!UpdateMine, Written
  <2>6. disputeReq' = [disputeReq EXCEPT ![r] = D!Idle]
    BY <1>2 DEF D!UpdateMine
  <2>7. PICK row \in DisputeRow :
            row.status = next /\ row.dated = dated /\ Rewritten(dispute', dispute, d, row)
    <3>1. d \in Dispute /\ dispute[d] \in DisputeRow
      BY <2>2
    <3>2. dispute \in DisputeTable
      BY <2>2
    <3>3. QED
      BY <2>3, <2>5, <3>1, <3>2, RowIsWritten
  <2>8. QED
    BY <2>2, <2>4, <2>6, <2>7, DisputeWrite DEF DisputesInv
<1>3. QED
  BY <1>1, <1>2

\* A query counts the rows there are.
LEMMA DisputeQueryStep ==
    ASSUME DisputesAssumption, DisputesInv, NEW r \in DisputeRequest, NEW figure \in D!Figure, D!Query(r, figure)
    PROVE  DisputesInv'
<1> PICK rows \in Nat : rows = Cardinality(D!Rows)
  BY RowsCounted
<1>1. UNCHANGED dispute /\ disputeReq' = [disputeReq EXCEPT ![r] = D!Answered(r, figure)]
  BY DEF D!Query
<1>2. CASE disputeReq[r].at = "ask"
  <2> PICK new : new = D!Answered(r, figure)
    OBVIOUS
  <2>1. new = [at |-> "stats", sum |-> [f \in {figure} |-> rows], meanwhile |-> 0]
    BY DisputesCounted, <1>2 DEF D!Answered, D!SumOf
  <2>a. [f \in {figure} |-> rows] \in [{figure} -> Nat] /\ {figure} \in SUBSET D!Figure
    OBVIOUS
  <2>2. [f \in {figure} |-> rows] \in Sums
    BY <2>a DEF Sums
  <2>3. new \in Stats /\ new \notin Mine
    BY <2>1, <2>2 DEF Stats, Mine
  <2>4. StatsInv(new, rows)
    BY <2>1 DEF StatsInv
  <2>5. QED
    BY <1>1, <2>3, <2>4, DisputeRequestStep
<1>3. CASE disputeReq[r].at = "stats"
  <2>1. disputeReq[r] \in Stats /\ StatsInv(disputeReq[r], rows)
    BY <1>3, RequestsAreTyped
  <2> PICK job \in Stats : job = disputeReq[r]
    BY <2>1
  <2> PICK sum : sum = [f \in {figure} \cup DOMAIN job.sum |-> IF f = figure THEN rows ELSE job.sum[f]]
    OBVIOUS
  <2> PICK new : new = [job EXCEPT !.sum = sum]
    OBVIOUS
  <2>2. D!Answered(r, figure) = new
    BY DisputesCounted, <1>3 DEF D!Answered, D!SumOf, Stats
  <2>3. job.sum \in Sums /\ job.meanwhile \in Nat
    BY DEF Stats
  <2>4. DOMAIN job.sum \subseteq D!Figure /\ \A f \in DOMAIN job.sum : job.sum[f] \in Nat
    BY <2>3 DEF Sums
  <2>5. sum \in [{figure} \cup DOMAIN job.sum -> Nat] /\ {figure} \cup DOMAIN job.sum \in SUBSET D!Figure
    BY <2>4
  <2>6. sum \in Sums
    BY <2>5 DEF Sums
  <2>7. new \in Stats /\ new \notin Mine /\ new.sum = sum /\ new.meanwhile = job.meanwhile
    BY <2>6 DEF Stats, Mine
  <2>8. \A f \in DOMAIN sum : sum[f] = rows \/ (f \in DOMAIN job.sum /\ sum[f] = job.sum[f])
    OBVIOUS
  <2>9. StatsInv(new, rows)
    BY <2>1, <2>3, <2>7, <2>8 DEF StatsInv
  <2>10. QED
    BY <1>1, <2>2, <2>7, <2>9, DisputeRequestStep
<1>4. QED
  BY <1>2, <1>3 DEF D!Query

LEMMA DisputesNext ==
    ASSUME DisputesAssumption, DisputesInv, D!Next \/ UNCHANGED D!vars
    PROVE  DisputesInv'
<1>1. CASE UNCHANGED D!vars
  BY <1>1 DEF D!vars, DisputesInv, D!Rows
<1>2. ASSUME NEW d \in Dispute, D!CreateDispute(d) PROVE DisputesInv'
  BY <1>2, CreateDisputeStep
<1>3. ASSUME NEW d \in Dispute, NEW status \in DisputeAsked, D!UpdateDispute(d, status) PROVE DisputesInv'
  BY <1>3, UpdateStep
<1>4. ASSUME NEW r \in DisputeRequest, D!UpdateMine(r) PROVE DisputesInv'
  BY <1>4, UpdateStep
<1>5. ASSUME NEW r \in DisputeRequest, D!GetStats(r) \/ D!Done(r) PROVE DisputesInv'
  <2>1. UNCHANGED dispute /\ (disputeReq' = [disputeReq EXCEPT ![r] = [at |-> "ask"]] \/ disputeReq' = [disputeReq EXCEPT ![r] = D!Idle])
    BY <1>5 DEF D!GetStats, D!Done
  <2>2. [at |-> "ask"] \notin Mine \cup Stats /\ D!Idle \notin Mine \cup Stats
    BY DEF Mine, Stats, D!Idle
  <2>3. QED
    BY <2>1, <2>2, DisputeRequestStep
<1>6. ASSUME NEW r \in DisputeRequest, NEW d \in Dispute, NEW status \in DisputeAsked \cup {""}, D!CheckMine(r, d, status)
      PROVE  DisputesInv'
  <2> PICK new : new = [at |-> "mine", dispute |-> d, status |-> status]
    OBVIOUS
  <2>1. new \in Mine /\ new \notin Stats /\ new.dispute = d
    BY DEF Mine, Stats
  <2>2. UNCHANGED dispute /\ disputeReq' = [disputeReq EXCEPT ![r] = new] /\ d \in D!Rows
    BY <1>6 DEF D!CheckMine
  <2>3. QED
    BY <2>1, <2>2, DisputeRequestStep
<1>7. ASSUME NEW r \in DisputeRequest, NEW figure \in D!Figure, D!Query(r, figure) PROVE DisputesInv'
  BY <1>7, DisputeQueryStep
<1>8. QED
  BY <1>1, <1>2, <1>3, <1>4, <1>5, <1>6, <1>7 DEF D!Next

LEMMA DisputesHold ==
    ASSUME DisputesAssumption, DisputesInv
    PROVE  D!TypeOK /\ D!FiguresAgree /\ D!ResolvedIsDated
<1> PICK rows \in Nat : rows = Cardinality(D!Rows)
  BY RowsCounted
<1>1. ASSUME NEW r \in DisputeRequest, disputeReq[r].at = "stats"
      PROVE  /\ DOMAIN disputeReq[r].sum \subseteq D!Figure
             /\ disputeReq[r].meanwhile \in 0 .. Cardinality(Dispute)
             /\ \A f, g \in DOMAIN disputeReq[r].sum : disputeReq[r].sum[f] <= disputeReq[r].sum[g] + disputeReq[r].meanwhile
  <2>1. disputeReq[r] \in Stats /\ StatsInv(disputeReq[r], rows)
    BY <1>1, RequestsAreTyped
  <2> PICK job \in Stats : job = disputeReq[r]
    BY <2>1
  <2>2. job.sum \in Sums /\ job.meanwhile \in Nat
    BY DEF Stats
  <2>3. DOMAIN job.sum \subseteq D!Figure /\ \A f \in DOMAIN job.sum : job.sum[f] \in Nat
    BY <2>2 DEF Sums
  <2>4. \A f, g \in DOMAIN job.sum : job.sum[f] <= job.sum[g] + job.meanwhile
    BY <2>1, <2>2, <2>3 DEF StatsInv
  <2>5. rows <= Cardinality(Dispute) /\ Cardinality(Dispute) \in Nat
    BY RowsCounted, FS_CardinalityType DEF DisputesAssumption
  <2>6. job.meanwhile \in 0 .. Cardinality(Dispute)
    BY <2>1, <2>2, <2>5 DEF StatsInv
  <2>7. QED
    BY <2>3, <2>4, <2>6
<1>2. \A r \in DisputeRequest : disputeReq[r] \in Stats => disputeReq[r].at = "stats"
  BY DEF Stats
<1>3. D!TypeOK
  BY DisputesCounted, <1>1, <1>2 DEF D!TypeOK, DisputesInv, DisputeRow, Mine, DisputeTable
<1>4. QED
  BY <1>1, <1>3, Zenon DEF D!FiguresAgree, D!ResolvedIsDated, DisputesInv

(***************************************************************************)
(* Reports.  A figure counts rows of the table.                            *)
(***************************************************************************)

RowsAssumption == IsFiniteSet(ReportRow) /\ ReportChanges \in Nat

Compare(of) == of.less \cup of.more
TableRow(of) == [status : of.words, mine : BOOLEAN, kept : BOOLEAN, fresh : BOOLEAN]
Answers(of) == UNION {[figures -> 0 .. Cardinality(ReportRow)] : figures \in SUBSET Compare(of)}
ReportOf(of) ==
    [at : {"rest", "ask"}, of : {of}, scoped : BOOLEAN, future : BOOLEAN,
     answered : Answers(of), changes : 0 .. ReportChanges]

\* Somebody changes a row of the table.
TableChange(x) ==
    \/ \E word \in report.of.words :
           R!Move(x, word) \/ \E mine, fresh \in BOOLEAN : R!Create(x, word, mine, fresh)
    \/ R!Delete(x)

ReportsInv ==
    \E of \in R!Relation :
        /\ report \in ReportOf(of)
        /\ table \in [ReportRow -> {R!Absent} \cup TableRow(of)]

\* Counting is the same in the part and here.
LEMMA ReportsCounted == \A s : R!Cardinality(s) = Cardinality(s)
BY DEF R!Cardinality, Cardinality

\* The figures of each report are about rows of the table.
LEMMA FiguresOfRows ==
    \A name \in DOMAIN R!Selection : \A f \in DOMAIN R!Selection[name] : R!Selection[name][f] \subseteq ReportRow
<1>1. R!Visible \subseteq ReportRow /\ R!Stored \subseteq ReportRow /\ R!Kept \subseteq ReportRow /\ R!InPeriod \subseteq ReportRow
      /\ \A rows \in SUBSET ReportRow : \A words : R!Of(rows, words) \subseteq ReportRow
  BY DEF R!Visible, R!Stored, R!Kept, R!InPeriod, R!Of
<1>2. \A f \in DOMAIN R!Dashboard : R!Dashboard[f] \subseteq ReportRow
  BY <1>1 DEF R!Dashboard
<1>3. \A f \in DOMAIN R!ComplianceStats : R!ComplianceStats[f] \subseteq ReportRow
  BY <1>1 DEF R!ComplianceStats
<1>4. \A f \in DOMAIN R!RiskStats : R!RiskStats[f] \subseteq ReportRow
  BY <1>1 DEF R!RiskStats
<1>5. \A f \in DOMAIN R!TransactionStats : R!TransactionStats[f] \subseteq ReportRow
  BY <1>1 DEF R!TransactionStats
<1>6. \A f \in DOMAIN R!TransactionTotals : R!TransactionTotals[f] \subseteq ReportRow
  BY <1>1 DEF R!TransactionTotals
<1>7. \A f \in DOMAIN R!TransactionSummary : R!TransactionSummary[f] \subseteq ReportRow
  BY <1>1 DEF R!TransactionSummary
<1>8. \A f \in DOMAIN R!UserStats : R!UserStats[f] \subseteq ReportRow
  BY <1>1 DEF R!UserStats
<1>9. \A f \in DOMAIN R!EngagementStats : R!EngagementStats[f] \subseteq ReportRow
  BY <1>1 DEF R!EngagementStats
<1>10. \A f \in DOMAIN R!ProjectStats : R!ProjectStats[f] \subseteq ReportRow
  BY <1>1 DEF R!ProjectStats
<1>11. \A f \in DOMAIN R!EntrepreneurDashboard : R!EntrepreneurDashboard[f] \subseteq ReportRow
  BY <1>1 DEF R!EntrepreneurDashboard
<1>12. \A f \in DOMAIN R!ProjectAnalytics : R!ProjectAnalytics[f] \subseteq ReportRow
  BY <1>1 DEF R!ProjectAnalytics
<1>13. \A f \in DOMAIN R!Portfolio : R!Portfolio[f] \subseteq ReportRow
  BY <1>1 DEF R!Portfolio
<1>14. \A f \in DOMAIN R!PortfolioStats : R!PortfolioStats[f] \subseteq ReportRow
  BY <1>1 DEF R!PortfolioStats
<1>15. QED
  BY <1>2, <1>3, <1>4, <1>5, <1>6, <1>7, <1>8, <1>9, <1>10, <1>11, <1>12, <1>13, <1>14 DEF R!Selection

\* What is compared are figures of the report.
LEMMA FiguresAreAsked ==
    ASSUME NEW of \in R!Relation
    PROVE  of.report \in DOMAIN R!Selection /\ Compare(of) \subseteq DOMAIN R!Selection[of.report]
<1>1. \A name, words, less, more :
          LET new == R!AtMost(name, words, less, more) IN
          new.report = name /\ new.less = less /\ new.more = more
  BY DEF R!AtMost
<1>2. \A name, words, less, more :
          LET new == R!Same(name, words, less, more) IN
          new.report = name /\ new.less = less /\ new.more = more
  BY DEF R!AtMost, R!Same
<1>3. DOMAIN R!Selection = {"getDashboard", "getComplianceStats", "getRiskStats", "getTransactionStats",
          "getTransactionTotals", "getTransactionSummaryReport", "getUserStats", "getEngagementStats",
          "getProjectStats", "getEntrepreneurDashboard", "getProjectAnalytics", "getPortfolio",
          "getPortfolioStats"}
  BY DEF R!Selection
<1>4. of.report \in DOMAIN R!Selection
  BY <1>1, <1>2, <1>3 DEF R!Relation
<1>5. CASE of.report = "getDashboard"
  BY <1>1, <1>2, <1>5 DEF R!Relation, Compare, R!Selection, R!Dashboard
<1>6. CASE of.report = "getComplianceStats"
  BY <1>1, <1>2, <1>6 DEF R!Relation, Compare, R!Selection, R!ComplianceStats
<1>7. CASE of.report = "getRiskStats"
  BY <1>1, <1>2, <1>7 DEF R!Relation, Compare, R!Selection, R!RiskStats
<1>8. CASE of.report = "getTransactionStats"
  BY <1>1, <1>2, <1>8 DEF R!Relation, Compare, R!Selection, R!TransactionStats
<1>9. CASE of.report = "getTransactionTotals"
  BY <1>1, <1>2, <1>9 DEF R!Relation, Compare, R!Selection, R!TransactionTotals
<1>10. CASE of.report = "getTransactionSummaryReport"
  BY <1>1, <1>2, <1>10 DEF R!Relation, Compare, R!Selection, R!TransactionSummary
<1>11. CASE of.report = "getUserStats"
  BY <1>1, <1>2, <1>11 DEF R!Relation, Compare, R!Selection, R!UserStats
<1>12. CASE of.report = "getEngagementStats"
  BY <1>1, <1>2, <1>12 DEF R!Relation, Compare, R!Selection, R!EngagementStats
<1>13. CASE of.report = "getProjectStats"
  BY <1>1, <1>2, <1>13 DEF R!Relation, Compare, R!Selection, R!ProjectStats
<1>14. CASE of.report = "getEntrepreneurDashboard"
  BY <1>1, <1>2, <1>14 DEF R!Relation, Compare, R!Selection, R!EntrepreneurDashboard
<1>15. CASE of.report = "getProjectAnalytics"
  BY <1>1, <1>2, <1>15 DEF R!Relation, Compare, R!Selection, R!ProjectAnalytics
<1>16. CASE of.report = "getPortfolio"
  BY <1>1, <1>2, <1>16 DEF R!Relation, Compare, R!Selection, R!Portfolio
<1>17. CASE of.report = "getPortfolioStats"
  BY <1>1, <1>2, <1>17 DEF R!Relation, Compare, R!Selection, R!PortfolioStats
<1>18. QED
  BY <1>3, <1>4, <1>5, <1>6, <1>7, <1>8, <1>9, <1>10, <1>11, <1>12, <1>13, <1>14, <1>15, <1>16, <1>17

LEMMA FigureCounts ==
    ASSUME RowsAssumption, ReportsInv, NEW f \in R!Compared
    PROVE  R!Figure(f) \in 0 .. Cardinality(ReportRow)
<1>1. PICK of \in R!Relation : report \in ReportOf(of)
  BY DEF ReportsInv
<1>2. report.of = of
  BY <1>1 DEF ReportOf
<1>3. of.report \in DOMAIN R!Selection /\ f \in DOMAIN R!Selection[of.report]
  BY <1>2, FiguresAreAsked DEF R!Compared, Compare
<1>4. R!Selection[of.report][f] \subseteq ReportRow
  BY <1>3, FiguresOfRows
<1> PICK rows : rows = R!Selection[of.report][f]
  OBVIOUS
<1>5. Cardinality(rows) \in Nat /\ Cardinality(rows) <= Cardinality(ReportRow) /\ Cardinality(ReportRow) \in Nat
  BY <1>4, FS_Subset, FS_CardinalityType DEF RowsAssumption
<1>6. R!Figure(f) = Cardinality(rows)
  BY ReportsCounted, <1>2 DEF R!Figure
<1>7. QED
  BY <1>5, <1>6

LEMMA ReportsInit == RowsAssumption /\ R!Init => ReportsInv
<1> SUFFICES ASSUME RowsAssumption, R!Init PROVE ReportsInv
  OBVIOUS
<1>1. PICK of \in R!Relation :
          report \in [at : {"rest"}, of : {of}, scoped : R!Scope(of.report),
                      future : IF of.report = "getTransactionSummaryReport" THEN BOOLEAN ELSE {FALSE},
                      answered : {<<>>}, changes : {0}]
  BY DEF R!Init
<1>2. R!Scope(of.report) \subseteq BOOLEAN
  BY DEF R!Scope
<1>3. (IF of.report = "getTransactionSummaryReport" THEN BOOLEAN ELSE {FALSE}) \subseteq BOOLEAN
  OBVIOUS
<1>4. <<>> \in [{} -> 0 .. Cardinality(ReportRow)] /\ {} \in SUBSET Compare(of)
  OBVIOUS
<1>5. <<>> \in Answers(of)
  BY <1>4 DEF Answers
<1>6. report \in ReportOf(of)
  <2>1. PICK scopes \in SUBSET BOOLEAN, futures \in SUBSET BOOLEAN :
            report \in [at : {"rest"}, of : {of}, scoped : scopes, future : futures,
                        answered : {<<>>}, changes : {0}]
    BY <1>1, <1>2, <1>3
  <2>2. 0 \in 0 .. ReportChanges
    BY DEF RowsAssumption
  <2>3. QED
    BY <1>5, <2>1, <2>2 DEF ReportOf
<1>7. QED
  BY <1>6 DEF R!Init, ReportsInv

\* A change of the table is noted, and the report stays what it is about.
LEMMA ChangedStep ==
    ASSUME RowsAssumption, NEW of, report \in ReportOf(of), NEW seen \in BOOLEAN, R!Changed(seen)
    PROVE  report' \in ReportOf(of)
<1>1. CASE report.at # "ask" \/ ~seen
  BY <1>1 DEF R!Changed
<1>2. CASE report.at = "ask" /\ seen
  <2>1. report.changes \in 0 .. ReportChanges /\ report.changes < ReportChanges
    BY <1>2 DEF R!Changed, ReportOf
  <2>2. report' = [report EXCEPT !.changes = report.changes + 1]
    BY <1>2 DEF R!Changed
  <2>3. report.changes + 1 \in 0 .. ReportChanges
    BY <2>1 DEF RowsAssumption
  <2>4. QED
    BY <2>2, <2>3 DEF ReportOf
<1>3. QED
  BY <1>1, <1>2

LEMMA TableStep ==
    ASSUME RowsAssumption, NEW of \in R!Relation, report \in ReportOf(of), report.of = of,
           table \in [ReportRow -> {R!Absent} \cup TableRow(of)], NEW x \in ReportRow, TableChange(x)
    PROVE  report' \in ReportOf(of) /\ table' \in [ReportRow -> {R!Absent} \cup TableRow(of)]
<1>1. report' \in ReportOf(of)
  <2>1. \E seen \in BOOLEAN : R!Changed(seen)
    BY DEF TableChange, R!Move, R!Create, R!Delete
  <2>2. QED
    BY <2>1, ChangedStep
<1>2. x \in R!Stored => table[x] \in TableRow(of)
  BY DEF R!Stored
<1>3. ASSUME NEW word \in of.words, R!Move(x, word)
      PROVE  table' \in [ReportRow -> {R!Absent} \cup TableRow(of)]
  <2> PICK row : row = [table[x] EXCEPT !.status = word]
    OBVIOUS
  <2>1. table[x] \in TableRow(of)
    BY <1>2, <1>3 DEF R!Move
  <2>2. row \in TableRow(of)
    BY <2>1 DEF TableRow
  <2>3. table' = [table EXCEPT ![x] = row]
    BY <1>3 DEF R!Move
  <2>4. QED
    BY <2>2, <2>3
<1>4. ASSUME NEW word \in of.words, NEW mine \in BOOLEAN, NEW fresh \in BOOLEAN,
             R!Create(x, word, mine, fresh)
      PROVE  table' \in [ReportRow -> {R!Absent} \cup TableRow(of)]
  <2> PICK row : row = [status |-> word, mine |-> mine, kept |-> TRUE, fresh |-> fresh]
    OBVIOUS
  <2>1. row \in TableRow(of)
    BY DEF TableRow
  <2>2. table' = [table EXCEPT ![x] = row]
    BY <1>4, Zenon DEF R!Create
  <2>3. QED
    BY <2>1, <2>2
<1>5. ASSUME R!Delete(x)
      PROVE  table' \in [ReportRow -> {R!Absent} \cup TableRow(of)]
  <2> PICK row : row = [table[x] EXCEPT !.kept = FALSE]
    OBVIOUS
  <2>1. table[x] \in TableRow(of)
    BY <1>2, <1>5 DEF R!Delete
  <2>2. row \in TableRow(of)
    BY <2>1 DEF TableRow
  <2>3. table' = [table EXCEPT ![x] = row]
    BY <1>5 DEF R!Delete
  <2>4. QED
    BY <2>2, <2>3
<1>6. QED
  BY <1>1, <1>3, <1>4, <1>5 DEF TableChange

LEMMA AnswerStep ==
    ASSUME RowsAssumption, NEW of \in R!Relation, report \in ReportOf(of), report.of = of, ReportsInv,
           NEW f \in R!Compared, R!Answer(f)
    PROVE  report' \in ReportOf(of)
<1>1. report.answered \in Answers(of) /\ report.changes \in 0 .. ReportChanges
  BY DEF ReportOf
<1> PICK old : old = report.answered
  OBVIOUS
<1>2. PICK figures \in SUBSET Compare(of) : old \in [figures -> 0 .. Cardinality(ReportRow)]
  BY <1>1 DEF Answers
<1>3. DOMAIN old = figures
  BY <1>2
<1> PICK more : more = figures \cup R!Together(f)
  OBVIOUS
<1>4. R!Together(f) \subseteq Compare(of) /\ more \in SUBSET Compare(of)
  BY <1>2 DEF R!Together, R!Compared, Compare
<1> PICK new : new = [g \in more |-> IF g \in figures THEN old[g] ELSE R!Figure(g)]
  OBVIOUS
<1>5. \A g \in more : R!Figure(g) \in 0 .. Cardinality(ReportRow)
  BY <1>4, FigureCounts DEF R!Compared, Compare
<1>6. new \in [more -> 0 .. Cardinality(ReportRow)]
  BY <1>2, <1>5
<1>7. new \in Answers(of)
  BY <1>4, <1>6 DEF Answers
<1> PICK changes : changes = IF DOMAIN report.answered = {} THEN 0 ELSE report.changes
  OBVIOUS
<1>8. changes \in 0 .. ReportChanges
  BY <1>1 DEF RowsAssumption
<1>9. report' = [report EXCEPT !.answered = new, !.changes = changes]
  BY <1>3 DEF R!Answer
<1>10. QED
  BY <1>7, <1>8, <1>9 DEF ReportOf

LEMMA ReportsNext ==
    ASSUME RowsAssumption, ReportsInv, R!Next \/ UNCHANGED R!vars
    PROVE  ReportsInv'
<1>1. PICK of \in R!Relation : report \in ReportOf(of) /\ table \in [ReportRow -> {R!Absent} \cup TableRow(of)]
  BY DEF ReportsInv
<1>2. report.of = of
  BY <1>1 DEF ReportOf
<1>3. SUFFICES report' \in ReportOf(of) /\ table' \in [ReportRow -> {R!Absent} \cup TableRow(of)]
  BY DEF ReportsInv
<1>4. CASE UNCHANGED R!vars
  BY <1>1, <1>4 DEF R!vars
<1>5. CASE R!Ask
  BY <1>1, <1>5 DEF R!Ask, ReportOf
<1>6. ASSUME NEW f \in R!Compared, R!Answer(f)
      PROVE  report' \in ReportOf(of) /\ table' \in [ReportRow -> {R!Absent} \cup TableRow(of)]
  BY <1>1, <1>2, <1>6, AnswerStep DEF R!Answer
<1>7. ASSUME NEW x \in ReportRow, TableChange(x)
      PROVE  report' \in ReportOf(of) /\ table' \in [ReportRow -> {R!Absent} \cup TableRow(of)]
  BY <1>1, <1>2, <1>7, TableStep
<1>8. QED
  BY <1>2, <1>4, <1>5, <1>6, <1>7 DEF R!Next, TableChange

LEMMA ReportsHold == RowsAssumption /\ ReportsInv => R!TypeOK
<1> SUFFICES ASSUME RowsAssumption, ReportsInv PROVE R!TypeOK
  OBVIOUS
<1>1. PICK of \in R!Relation : report \in ReportOf(of) /\ table \in [ReportRow -> {R!Absent} \cup TableRow(of)]
  BY DEF ReportsInv
<1>2. report.of = of /\ report.at \in {"rest", "ask"} /\ report.changes \in 0 .. ReportChanges
      /\ report.answered \in Answers(of)
  BY <1>1 DEF ReportOf
<1> PICK answered : answered = report.answered
  OBVIOUS
<1>3. PICK figures \in SUBSET Compare(of) : answered \in [figures -> 0 .. Cardinality(ReportRow)]
  BY <1>2 DEF Answers
<1>4. DOMAIN answered \subseteq R!Compared /\ \A f \in DOMAIN answered : answered[f] \in 0 .. Cardinality(ReportRow)
  BY <1>2, <1>3 DEF R!Compared, Compare
<1>5. \A x \in R!Stored : table[x] \in TableRow(of)
  BY <1>1 DEF R!Stored
<1>6. QED
  BY ReportsCounted, <1>2, <1>4, <1>5 DEF R!TypeOK, TableRow

(***************************************************************************)
(* Sums of a few figures.                                                  *)
(***************************************************************************)

\* The library sums a set along a choice of its elements.
Picked(figures) == CHOOSE f \in figures : TRUE
SumsUp(val, figures, sum) ==
    sum = [rest \in SUBSET figures |-> IF rest = {} THEN 0 ELSE val[Picked(rest)] + sum[rest \ {Picked(rest)}]]

LEMMA TotalIsOfSums ==
    ASSUME NEW figures, NEW given, SumsUp(report.answered, figures, given)
    PROVE  \E sum : SumsUp(report.answered, figures, sum) /\ R!Total(figures) = sum[figures]
BY DEF R!Total, R!MapThenFoldSet, SumsUp, Picked

LEMMA PickedIn == ASSUME NEW figures, figures # {} PROVE Picked(figures) \in figures
BY DEF Picked

\* The sum of one, two and three figures.
LEMMA TotalOfOne ==
    ASSUME NEW a, report.answered[a] \in Int
    PROVE  R!Total({a}) = report.answered[a]
<1> PICK val : val = report.answered
  OBVIOUS
<1> PICK given : given = [rest \in SUBSET {a} |-> IF rest = {} THEN 0 ELSE val[a]]
  OBVIOUS
<1>1. ASSUME NEW rest \in SUBSET {a}, rest # {}
      PROVE  rest = {a} /\ Picked(rest) = a /\ rest \ {a} = {}
  BY <1>1, PickedIn
<1>2. SumsUp(val, {a}, given)
  <2>1. ASSUME NEW rest \in SUBSET {a}
        PROVE  given[rest] = IF rest = {} THEN 0 ELSE val[Picked(rest)] + given[rest \ {Picked(rest)}]
    <3>1. CASE rest = {}
      BY <3>1
    <3>2. CASE rest # {}
      <4>1. Picked(rest) = a /\ rest \ {Picked(rest)} = {}
        BY <1>1, <3>2
      <4>2. given[{}] = 0 /\ given[rest] = val[a]
        BY <3>2
      <4>3. QED
        BY <3>2, <4>1, <4>2
    <3>3. QED
      BY <3>1, <3>2
  <2>2. QED
    BY <2>1 DEF SumsUp
<1>3. PICK sum : SumsUp(val, {a}, sum) /\ R!Total({a}) = sum[{a}]
  BY <1>2, TotalIsOfSums
<1>4. sum[{}] = 0
  BY <1>3 DEF SumsUp
<1>5. sum[{a}] = val[Picked({a})] + sum[{a} \ {Picked({a})}]
  BY <1>3 DEF SumsUp
<1>6. Picked({a}) = a /\ {a} \ {a} = {}
  BY <1>1
<1>7. {a} \ {Picked({a})} = {}
  BY <1>6
<1>8. sum[{a}] = val[a] + 0
  BY <1>4, <1>5, <1>6, <1>7, Zenon
<1>9. QED
  BY <1>3, <1>8

\* Figures counted one by one.
Sum3(val, figures, a, b, c) ==
    (IF a \in figures THEN val[a] ELSE 0) + (IF b \in figures THEN val[b] ELSE 0)
        + (IF c \in figures THEN val[c] ELSE 0)

AddsUp(val, figures, a, b, c) ==
    Sum3(val, figures, a, b, c) =
        IF figures = {} THEN 0 ELSE val[Picked(figures)] + Sum3(val, figures \ {Picked(figures)}, a, b, c)

LEMMA SumsOfThree ==
    ASSUME NEW a, NEW b, NEW c, a # b, a # c, b # c, NEW val, val[a] \in Int, val[b] \in Int, val[c] \in Int,
           NEW figures, figures \subseteq {a, b, c}
    PROVE  AddsUp(val, figures, a, b, c)
<1>0. SUFFICES Sum3(val, figures, a, b, c) =
                   IF figures = {} THEN 0 ELSE val[Picked(figures)] + Sum3(val, figures \ {Picked(figures)}, a, b, c)
  BY DEF AddsUp
<1>1. figures = {} => Sum3(val, figures, a, b, c) = 0
  BY DEF Sum3
<1>2. CASE figures # {}
  <2>1. Picked(figures) \in figures
    BY <1>2, PickedIn
  <2>2. CASE Picked(figures) = a
    BY <2>1, <2>2 DEF Sum3
  <2>3. CASE Picked(figures) = b
    BY <2>1, <2>3 DEF Sum3
  <2>4. CASE Picked(figures) = c
    BY <2>1, <2>4 DEF Sum3
  <2>5. Picked(figures) \in {a, b, c}
    BY <2>1
  <2>6. QED
    BY <1>1, <1>2, <2>2, <2>3, <2>4, <2>5
<1>3. QED
  BY <1>1, <1>2

LEMMA TotalOfThree ==
    ASSUME NEW a, NEW b, NEW c, a # b, a # c, b # c, NEW figures, figures \subseteq {a, b, c},
           report.answered[a] \in Int, report.answered[b] \in Int, report.answered[c] \in Int
    PROVE  R!Total(figures) = Sum3(report.answered, figures, a, b, c)
<1> PICK val : val = report.answered
  OBVIOUS
<1> PICK given : given = [rest \in SUBSET figures |-> Sum3(val, rest, a, b, c)]
  OBVIOUS
<1>0. val[a] \in Int /\ val[b] \in Int /\ val[c] \in Int
  OBVIOUS
<1>1. ASSUME NEW rest \in SUBSET figures
      PROVE  given[rest] = IF rest = {} THEN 0 ELSE val[Picked(rest)] + given[rest \ {Picked(rest)}]
  <2>1. rest \subseteq {a, b, c} /\ rest \ {Picked(rest)} \in SUBSET figures
    OBVIOUS
  <2>2. given[rest] = Sum3(val, rest, a, b, c)
        /\ given[rest \ {Picked(rest)}] = Sum3(val, rest \ {Picked(rest)}, a, b, c)
    BY <2>1
  <2>3. AddsUp(val, rest, a, b, c)
    BY <1>0, <2>1, SumsOfThree
  <2>4. Sum3(val, rest, a, b, c) =
            IF rest = {} THEN 0 ELSE val[Picked(rest)] + Sum3(val, rest \ {Picked(rest)}, a, b, c)
    BY <2>3 DEF AddsUp
  <2>5. QED
    BY <2>2, <2>4, Zenon
<1>2. SumsUp(val, figures, given)
  BY <1>1 DEF SumsUp
<1>3. PICK sum : SumsUp(val, figures, sum) /\ R!Total(figures) = sum[figures]
  BY <1>2, TotalIsOfSums
<1>4. ASSUME NEW rest \in SUBSET figures
      PROVE  sum[rest] = IF rest = {} THEN 0 ELSE val[Picked(rest)] + sum[rest \ {Picked(rest)}]
  BY <1>3 DEF SumsUp
<1> PICK Bad : Bad = {rest \in SUBSET figures : sum[rest] # given[rest]}
  OBVIOUS
<1>5. IsWellFoundedOn(StrictSubsetOrdering(figures), SUBSET figures)
  <2>1. IsFiniteSet({a, b, c})
    <3>1. IsFiniteSet({a} \cup {b}) /\ {a, b} = {a} \cup {b}
      BY FS_Singleton, FS_AddElement
    <3>2. IsFiniteSet({a, b} \cup {c}) /\ {a, b, c} = {a, b} \cup {c}
      BY <3>1, FS_AddElement
    <3>3. QED
      BY <3>2
  <2>2. IsFiniteSet(figures)
    BY <2>1, FS_Subset
  <2>3. QED
    BY <2>2, FS_StrictSubsetOrderingWellFounded, FS_FiniteSubsetsOfFinite
<1>6. CASE Bad # {}
  <2>1. Bad \subseteq SUBSET figures
    OBVIOUS
  <2>2. PICK rest \in Bad : \A less \in Bad : ~(<<less, rest>> \in StrictSubsetOrdering(figures))
    BY <1>5, <1>6, <2>1, WFMin
  <2>3. rest \in SUBSET figures /\ sum[rest] # given[rest]
    OBVIOUS
  <2>4. rest # {}
    BY <1>1, <1>4, <2>3
  <2>5. Picked(rest) \in rest
    BY <2>4, PickedIn
  <2>6. rest \ {Picked(rest)} \notin Bad
    BY <2>1, <2>2, <2>5 DEF StrictSubsetOrdering
  <2>7. sum[rest \ {Picked(rest)}] = given[rest \ {Picked(rest)}]
    BY <2>3, <2>6
  <2>8. QED
    BY <1>1, <1>4, <2>3, <2>4, <2>7
<1>7. CASE Bad = {}
  <2>1. sum[figures] = given[figures] /\ given[figures] = Sum3(val, figures, a, b, c)
    BY <1>7
  <2>2. QED
    BY <1>3, <2>1
<1>8. QED
  BY <1>6, <1>7

(***************************************************************************)
(* A change of one row of the table changes what a figure selects by at    *)
(* most that row.                                                          *)
(***************************************************************************)

Alike(rows, others, x) == rows \ {x} = others \ {x}
\* Row x of the table changes, and the report goes on being about the same.
RowChange(x) ==
    /\ \A y \in ReportRow : y # x => table'[y] = table[y]
    /\ report'.of = report.of /\ report'.scoped = report.scoped /\ report'.future = report.future

LEMMA AlikeCounts ==
    ASSUME NEW rows, NEW others, NEW x, IsFiniteSet(rows), Alike(rows, others, x)
    PROVE  /\ Cardinality(rows) \in Nat /\ Cardinality(others) \in Nat
           /\ Cardinality(others) <= Cardinality(rows) + 1
           /\ Cardinality(rows) <= Cardinality(others) + 1
<1>1. IsFiniteSet(others)
  <2>1. IsFiniteSet(rows \cup {x}) /\ others \in SUBSET (rows \cup {x})
    BY FS_AddElement DEF Alike
  <2>2. QED
    BY <2>1, FS_Subset
<1>2. Cardinality(rows) \in Nat /\ Cardinality(others) \in Nat
  BY <1>1, FS_CardinalityType
<1> PICK rest : rest = rows \ {x}
  OBVIOUS
<1>3. rest = others \ {x}
  BY DEF Alike
<1>4. Cardinality(rest) = IF x \in rows THEN Cardinality(rows) - 1 ELSE Cardinality(rows)
  BY FS_RemoveElement
<1>5. Cardinality(rest) = IF x \in others THEN Cardinality(others) - 1 ELSE Cardinality(others)
  BY <1>1, <1>3, FS_RemoveElement
<1>6. QED
  BY <1>2, <1>4, <1>5

LEMMA FiguresAlike ==
    ASSUME NEW x, RowChange(x)
    PROVE  \A name \in DOMAIN R!Selection : \A f \in DOMAIN R!Selection[name] :
               Alike(R!Selection[name][f], R!Selection'[name][f], x)
<1>1. Alike(R!Stored, R!Stored', x)
  BY DEF RowChange, Alike, R!Stored
<1>2. Alike(R!Visible, R!Visible', x)
  BY DEF RowChange, Alike, R!Stored, R!Visible
<1>3. Alike(R!Kept, R!Kept', x)
  BY <1>2 DEF RowChange, Alike, R!Kept, R!Visible, R!Stored
<1>4. Alike(R!InPeriod, R!InPeriod', x)
  BY <1>2 DEF RowChange, Alike, R!InPeriod, R!Visible, R!Stored
<1>5. ASSUME NEW words
      PROVE  /\ Alike(R!Of(R!Stored, words), R!Of(R!Stored, words)', x)
             /\ Alike(R!Of(R!Visible, words), R!Of(R!Visible, words)', x)
             /\ Alike(R!Of(R!Kept, words), R!Of(R!Kept, words)', x)
  BY <1>1, <1>2, <1>3 DEF RowChange, Alike, R!Of, R!Stored, R!Visible, R!Kept
<1>6. Alike({y \in R!Of(R!Stored, {"ACTIVE"}) : table[y].mine}, {y \in R!Of(R!Stored, {"ACTIVE"})' : table'[y].mine}, x)
  BY <1>5 DEF RowChange, Alike, R!Of, R!Stored
<1>7. \A a, b, c, d : Alike(a, c, x) /\ Alike(b, d, x) => Alike(a \ b, c \ d, x)
  BY DEF Alike
<1>8. \A f \in DOMAIN R!Dashboard : Alike(R!Dashboard[f], R!Dashboard'[f], x)
  <2>1. DOMAIN R!Dashboard = {"alertsBySeverity", "openAlerts", "usersByRoleAssessor", "activeAssessors"}
    BY DEF R!Dashboard
  <2>2. Alike(R!Dashboard.activeAssessors, R!Dashboard'.activeAssessors, x)
    <3>1. /\ R!Dashboard.activeAssessors = {y \in R!Of(R!Stored, {"ACTIVE"}) : table[y].mine}
          /\ R!Dashboard'.activeAssessors = {y \in R!Of(R!Stored, {"ACTIVE"})' : table'[y].mine}
      BY DEF R!Dashboard
    <3>2. QED
      BY <1>6, <3>1
  <2>3. Alike(R!Dashboard.openAlerts, R!Dashboard'.openAlerts, x)
        /\ Alike(R!Dashboard.usersByRoleAssessor, R!Dashboard'.usersByRoleAssessor, x)
    BY <1>5 DEF R!Dashboard
  <2>4. Alike(R!Dashboard.alertsBySeverity, R!Dashboard'.alertsBySeverity, x)
    BY <1>2 DEF R!Dashboard
  <2>5. QED
    BY <2>1, <2>2, <2>3, <2>4
<1>9. \A f \in DOMAIN R!ComplianceStats : Alike(R!ComplianceStats[f], R!ComplianceStats'[f], x)
  BY <1>1, <1>2, <1>3, <1>4, <1>5, <1>6, <1>7 DEF R!ComplianceStats
<1>10. \A f \in DOMAIN R!RiskStats : Alike(R!RiskStats[f], R!RiskStats'[f], x)
  BY <1>1, <1>2, <1>3, <1>4, <1>5, <1>6, <1>7 DEF R!RiskStats
<1>11. \A f \in DOMAIN R!TransactionStats : Alike(R!TransactionStats[f], R!TransactionStats'[f], x)
  BY <1>1, <1>2, <1>3, <1>4, <1>5, <1>6, <1>7 DEF R!TransactionStats
<1>12. \A f \in DOMAIN R!TransactionTotals : Alike(R!TransactionTotals[f], R!TransactionTotals'[f], x)
  BY <1>1, <1>2, <1>3, <1>4, <1>5, <1>6, <1>7 DEF R!TransactionTotals
<1>13. \A f \in DOMAIN R!TransactionSummary : Alike(R!TransactionSummary[f], R!TransactionSummary'[f], x)
  BY <1>1, <1>2, <1>3, <1>4, <1>5, <1>6, <1>7 DEF R!TransactionSummary
<1>14. \A f \in DOMAIN R!UserStats : Alike(R!UserStats[f], R!UserStats'[f], x)
  BY <1>1, <1>2, <1>3, <1>4, <1>5, <1>6, <1>7 DEF R!UserStats
<1>15. \A f \in DOMAIN R!EngagementStats : Alike(R!EngagementStats[f], R!EngagementStats'[f], x)
  BY <1>1, <1>2, <1>3, <1>4, <1>5, <1>6, <1>7 DEF R!EngagementStats
<1>16. \A f \in DOMAIN R!ProjectStats : Alike(R!ProjectStats[f], R!ProjectStats'[f], x)
  BY <1>1, <1>2, <1>3, <1>4, <1>5, <1>6, <1>7 DEF R!ProjectStats
<1>17. \A f \in DOMAIN R!EntrepreneurDashboard : Alike(R!EntrepreneurDashboard[f], R!EntrepreneurDashboard'[f], x)
  BY <1>1, <1>2, <1>3, <1>4, <1>5, <1>6, <1>7 DEF R!EntrepreneurDashboard
<1>18. \A f \in DOMAIN R!ProjectAnalytics : Alike(R!ProjectAnalytics[f], R!ProjectAnalytics'[f], x)
  BY <1>1, <1>2, <1>3, <1>4, <1>5, <1>6, <1>7 DEF R!ProjectAnalytics
<1>19. \A f \in DOMAIN R!Portfolio : Alike(R!Portfolio[f], R!Portfolio'[f], x)
  BY <1>1, <1>2, <1>3, <1>4, <1>5, <1>6, <1>7 DEF R!Portfolio
<1>20. \A f \in DOMAIN R!PortfolioStats : Alike(R!PortfolioStats[f], R!PortfolioStats'[f], x)
  BY <1>1, <1>2, <1>3, <1>4, <1>5, <1>6, <1>7 DEF R!PortfolioStats
<1>21. QED
  BY <1>8, <1>9, <1>10, <1>11, <1>12, <1>13, <1>14, <1>15, <1>16, <1>17, <1>18, <1>19, <1>20 DEF R!Selection

(***************************************************************************)
(* Relations: but for two of them, the figure of less selects rows that    *)
(* the figure of more selects, or the same.                                *)
(***************************************************************************)

Triple ==
    R!Same("getPortfolioStats", R!Holding, {"activeInvestments", "pendingInvestments"}, {"totalInvestments"})
Quad == R!AtMost("getPortfolio", R!Holding, {"investments"}, {"active", "pending", "cancelled"})

IsPair(of) == \E f, g : f # g /\ of.less = {f} /\ of.more = {g}
Within(figures, f, g, same) == figures[f] \subseteq figures[g] /\ (same => figures[f] = figures[g])

LEMMA RelationFields ==
    /\ \A name, words, less, more :
           LET new == R!AtMost(name, words, less, more) IN
           new.report = name /\ new.less = less /\ new.more = more /\ new.same = FALSE
    /\ \A name, words, less, more :
           LET new == R!Same(name, words, less, more) IN
           new.report = name /\ new.less = less /\ new.more = more /\ new.same = TRUE
BY DEF R!AtMost, R!Same

LEMMA PairsSelect ==
    ASSUME NEW of \in R!Relation, of # Triple, of # Quad
    PROVE  IsPair(of) /\ \A f \in of.less, g \in of.more : Within(R!Selection[of.report], f, g, of.same)
<1>1. \A name, words, less, more :
          LET new == R!AtMost(name, words, less, more) IN
          new.report = name /\ new.less = less /\ new.more = more /\ new.same = FALSE
  BY RelationFields
<1>2. \A name, words, less, more :
          LET new == R!Same(name, words, less, more) IN
          new.report = name /\ new.less = less /\ new.more = more /\ new.same = TRUE
  BY RelationFields
<1>3. DOMAIN R!Selection = {"getDashboard", "getComplianceStats", "getRiskStats", "getTransactionStats",
          "getTransactionTotals", "getTransactionSummaryReport", "getUserStats", "getEngagementStats",
          "getProjectStats", "getEntrepreneurDashboard", "getProjectAnalytics", "getPortfolio",
          "getPortfolioStats"}
  BY DEF R!Selection
<1>4. of.report \in DOMAIN R!Selection
  BY FiguresAreAsked
<1>5. /\ \A words : R!Of(R!Visible, words) \subseteq R!Visible /\ R!Of(R!Kept, words) \subseteq R!Of(R!Visible, words)
      /\ {y \in R!Of(R!Stored, {"ACTIVE"}) : table[y].mine} \subseteq R!Of(R!Visible, {"ACTIVE", "SUSPENDED"})
      /\ R!Of(R!Stored, {"CRITICAL"}) \subseteq R!Stored \ R!Of(R!Stored, {"NULL"})
      /\ R!Of(R!Visible, {"CANCELLED"}) \subseteq R!Visible \ R!Of(R!Visible, {"CONFIRMED"})
  BY DEF R!Of, R!Visible, R!Kept
<1>6. CASE of.report = "getDashboard"
  <2>1. \/ of.less = {"openAlerts"} /\ of.more = {"alertsBySeverity"} /\ of.same = FALSE
        \/ of.less = {"activeAssessors"} /\ of.more = {"usersByRoleAssessor"} /\ of.same = FALSE
    BY <1>1, <1>2, <1>6 DEF R!Relation
  <2>2. /\ Within(R!Dashboard, "openAlerts", "alertsBySeverity", FALSE)
        /\ Within(R!Dashboard, "activeAssessors", "usersByRoleAssessor", FALSE)
    BY <1>5 DEF R!Dashboard, Within
  <2>3. R!Selection[of.report] = R!Dashboard
    BY <1>6 DEF R!Selection
  <2>4. QED
    BY <2>1, <2>2, <2>3 DEF IsPair
<1>7. CASE of.report = "getComplianceStats"
  <2>1. \/ of.less = {"bySeverity"} /\ of.more = {"total"} /\ of.same = TRUE
        \/ of.less = {"byStatus"} /\ of.more = {"total"} /\ of.same = TRUE
    BY <1>1, <1>2, <1>7 DEF R!Relation
  <2>2. /\ Within(R!ComplianceStats, "bySeverity", "total", TRUE)
        /\ Within(R!ComplianceStats, "byStatus", "total", TRUE)
    BY <1>5 DEF R!ComplianceStats, Within
  <2>3. R!Selection[of.report] = R!ComplianceStats
    BY <1>7 DEF R!Selection
  <2>4. QED
    BY <2>1, <2>2, <2>3 DEF IsPair
<1>8. CASE of.report = "getRiskStats"
  <2>1. \/ of.less = {"criticalRiskProjects"} /\ of.more = {"projectsWithRiskAssessment"} /\ of.same = FALSE
    BY <1>1, <1>2, <1>8 DEF R!Relation
  <2>2. /\ Within(R!RiskStats, "criticalRiskProjects", "projectsWithRiskAssessment", FALSE)
    BY <1>5 DEF R!RiskStats, Within
  <2>3. R!Selection[of.report] = R!RiskStats
    BY <1>8 DEF R!Selection
  <2>4. QED
    BY <2>1, <2>2, <2>3 DEF IsPair
<1>9. CASE of.report = "getTransactionStats"
  <2>1. \/ of.less = {"byStatus"} /\ of.more = {"totalCount"} /\ of.same = TRUE
        \/ of.less = {"byType"} /\ of.more = {"totalCount"} /\ of.same = TRUE
        \/ of.less = {"totalVolume"} /\ of.more = {"totalCount"} /\ of.same = FALSE
    BY <1>1, <1>2, <1>9 DEF R!Relation
  <2>2. /\ Within(R!TransactionStats, "byStatus", "totalCount", TRUE)
        /\ Within(R!TransactionStats, "byType", "totalCount", TRUE)
        /\ Within(R!TransactionStats, "totalVolume", "totalCount", FALSE)
    BY <1>5 DEF R!TransactionStats, Within
  <2>3. R!Selection[of.report] = R!TransactionStats
    BY <1>9 DEF R!Selection
  <2>4. QED
    BY <2>1, <2>2, <2>3 DEF IsPair
<1>10. CASE of.report = "getTransactionTotals"
  <2>1. \/ of.less = {"byStatus"} /\ of.more = {"totalTransactions"} /\ of.same = TRUE
        \/ of.less = {"byType"} /\ of.more = {"totalTransactions"} /\ of.same = TRUE
        \/ of.less = {"totalVolume"} /\ of.more = {"totalTransactions"} /\ of.same = FALSE
    BY <1>1, <1>2, <1>10 DEF R!Relation
  <2>2. /\ Within(R!TransactionTotals, "byStatus", "totalTransactions", TRUE)
        /\ Within(R!TransactionTotals, "byType", "totalTransactions", TRUE)
        /\ Within(R!TransactionTotals, "totalVolume", "totalTransactions", FALSE)
    BY <1>5 DEF R!TransactionTotals, Within
  <2>3. R!Selection[of.report] = R!TransactionTotals
    BY <1>10 DEF R!Selection
  <2>4. QED
    BY <2>1, <2>2, <2>3 DEF IsPair
<1>11. CASE of.report = "getTransactionSummaryReport"
  <2>1. \/ of.less = {"byType"} /\ of.more = {"totalCount"} /\ of.same = TRUE
        \/ of.less = {"byStatus"} /\ of.more = {"totalCount"} /\ of.same = TRUE
        \/ of.less = {"byCurrency"} /\ of.more = {"totalCount"} /\ of.same = TRUE
    BY <1>1, <1>2, <1>11 DEF R!Relation
  <2>2. /\ Within(R!TransactionSummary, "byType", "totalCount", TRUE)
        /\ Within(R!TransactionSummary, "byStatus", "totalCount", TRUE)
        /\ Within(R!TransactionSummary, "byCurrency", "totalCount", TRUE)
    BY <1>5 DEF R!TransactionSummary, Within
  <2>3. R!Selection[of.report] = R!TransactionSummary
    BY <1>11 DEF R!Selection
  <2>4. QED
    BY <2>1, <2>2, <2>3 DEF IsPair
<1>12. CASE of.report = "getUserStats"
  <2>1. \/ of.less = {"byStatus"} /\ of.more = {"total"} /\ of.same = TRUE
        \/ of.less = {"byKycStatus"} /\ of.more = {"total"} /\ of.same = TRUE
    BY <1>1, <1>2, <1>12 DEF R!Relation
  <2>2. /\ Within(R!UserStats, "byStatus", "total", TRUE)
        /\ Within(R!UserStats, "byKycStatus", "total", TRUE)
    BY <1>5 DEF R!UserStats, Within
  <2>3. R!Selection[of.report] = R!UserStats
    BY <1>12 DEF R!Selection
  <2>4. QED
    BY <2>1, <2>2, <2>3 DEF IsPair
<1>13. CASE of.report = "getEngagementStats"
  <2>1. \/ of.less = {"byStatus"} /\ of.more = {"totalEngagements"} /\ of.same = TRUE
    BY <1>1, <1>2, <1>13 DEF R!Relation
  <2>2. /\ Within(R!EngagementStats, "byStatus", "totalEngagements", TRUE)
    BY <1>5 DEF R!EngagementStats, Within
  <2>3. R!Selection[of.report] = R!EngagementStats
    BY <1>13 DEF R!Selection
  <2>4. QED
    BY <2>1, <2>2, <2>3 DEF IsPair
<1>14. CASE of.report = "getProjectStats"
  <2>1. \/ of.less = {"byStatus"} /\ of.more = {"total"} /\ of.same = TRUE
        \/ of.less = {"bySector"} /\ of.more = {"total"} /\ of.same = TRUE
    BY <1>1, <1>2, <1>14 DEF R!Relation
  <2>2. /\ Within(R!ProjectStats, "byStatus", "total", TRUE)
        /\ Within(R!ProjectStats, "bySector", "total", TRUE)
    BY <1>5 DEF R!ProjectStats, Within
  <2>3. R!Selection[of.report] = R!ProjectStats
    BY <1>14 DEF R!Selection
  <2>4. QED
    BY <2>1, <2>2, <2>3 DEF IsPair
<1>15. CASE of.report = "getEntrepreneurDashboard"
  <2>1. \/ of.less = {"projectsByStatus"} /\ of.more = {"totalProjects"} /\ of.same = TRUE
        \/ of.less = {"underReview"} /\ of.more = {"pendingReviews"} /\ of.same = FALSE
    BY <1>1, <1>2, <1>15 DEF R!Relation
  <2>2. /\ Within(R!EntrepreneurDashboard, "projectsByStatus", "totalProjects", TRUE)
        /\ Within(R!EntrepreneurDashboard, "underReview", "pendingReviews", FALSE)
    BY <1>5 DEF R!EntrepreneurDashboard, Within
  <2>3. R!Selection[of.report] = R!EntrepreneurDashboard
    BY <1>15 DEF R!Selection
  <2>4. QED
    BY <2>1, <2>2, <2>3 DEF IsPair
<1>16. CASE of.report = "getProjectAnalytics"
  <2>1. \/ of.less = {"totalCount"} /\ of.more = {"uncancelled"} /\ of.same = TRUE
    BY <1>1, <1>2, <1>16 DEF R!Relation
  <2>2. /\ Within(R!ProjectAnalytics, "totalCount", "uncancelled", TRUE)
    BY <1>5 DEF R!ProjectAnalytics, Within
  <2>3. R!Selection[of.report] = R!ProjectAnalytics
    BY <1>16 DEF R!Selection
  <2>4. QED
    BY <2>1, <2>2, <2>3 DEF IsPair
<1>17. CASE of.report = "getPortfolio"
  <2>1. \/ of.less = {"active"} /\ of.more = {"completed"} /\ of.same = TRUE
    BY <1>1, <1>2, <1>17 DEF R!Relation, Quad
  <2>2. /\ Within(R!Portfolio, "active", "completed", TRUE)
    BY <1>5 DEF R!Portfolio, Within
  <2>3. R!Selection[of.report] = R!Portfolio
    BY <1>17 DEF R!Selection
  <2>4. QED
    BY <2>1, <2>2, <2>3 DEF IsPair
<1>18. CASE of.report = "getPortfolioStats"
  <2>1. \/ of.less = {"cancelledInvestments"} /\ of.more = {"pendingInvestments"} /\ of.same = FALSE
    BY <1>1, <1>2, <1>18 DEF R!Relation, Triple
  <2>2. /\ Within(R!PortfolioStats, "cancelledInvestments", "pendingInvestments", FALSE)
    BY <1>5 DEF R!PortfolioStats, Within
  <2>3. R!Selection[of.report] = R!PortfolioStats
    BY <1>18 DEF R!Selection
  <2>4. QED
    BY <2>1, <2>2, <2>3 DEF IsPair
<1>19. QED
  BY <1>3, <1>4, <1>6, <1>7, <1>8, <1>9, <1>10, <1>11, <1>12, <1>13, <1>14, <1>15, <1>16, <1>17, <1>18

LEMMA TripleFields ==
    /\ Triple.report = "getPortfolioStats" /\ Triple.same = TRUE
    /\ Triple.less = {"activeInvestments", "pendingInvestments"} /\ Triple.more = {"totalInvestments"}
BY RelationFields DEF Triple

LEMMA QuadFields ==
    /\ Quad.report = "getPortfolio" /\ Quad.same = FALSE
    /\ Quad.less = {"investments"} /\ Quad.more = {"active", "pending", "cancelled"}
BY RelationFields DEF Quad

(***************************************************************************)
(* The figures of one moment match.                                        *)
(***************************************************************************)

Near(a, b, same, slack) == a <= b + slack /\ (same => b <= a + slack)

\* The rows of a figure that is compared.
RowsOf(f) == R!Selection[report.of.report][f]

LEMMA FigureOfRows ==
    ASSUME RowsAssumption, ReportsInv, NEW f \in R!Compared
    PROVE  /\ RowsOf(f) \in SUBSET ReportRow /\ IsFiniteSet(RowsOf(f))
           /\ R!Figure(f) = Cardinality(RowsOf(f)) /\ R!Figure(f) \in Nat
           /\ report.of \in R!Relation /\ report.of.report \in DOMAIN R!Selection
           /\ f \in DOMAIN R!Selection[report.of.report]
<1>1. report.of \in R!Relation
  BY DEF ReportsInv, ReportOf
<1>2. report.of.report \in DOMAIN R!Selection /\ f \in DOMAIN R!Selection[report.of.report]
  BY <1>1, FiguresAreAsked DEF R!Compared, Compare
<1>3. RowsOf(f) \in SUBSET ReportRow
  BY <1>2, FiguresOfRows DEF RowsOf
<1>4. IsFiniteSet(RowsOf(f)) /\ Cardinality(RowsOf(f)) \in Nat
  BY <1>3, FS_Subset, FS_CardinalityType DEF RowsAssumption
<1>5. R!Figure(f) = Cardinality(RowsOf(f))
  BY ReportsCounted DEF R!Figure, RowsOf
<1>6. QED
  BY <1>1, <1>2, <1>3, <1>4, <1>5

LEMMA PairMatches ==
    ASSUME RowsAssumption, ReportsInv, report.of # Triple, report.of # Quad,
           NEW f \in report.of.less, NEW g \in report.of.more
    PROVE  Near(R!Figure(f), R!Figure(g), report.of.same, 0)
<1>1. f \in R!Compared /\ g \in R!Compared
  BY DEF R!Compared
<1>2. Within(R!Selection[report.of.report], f, g, report.of.same)
  BY <1>1, FigureOfRows, PairsSelect
<1>3. RowsOf(f) \in SUBSET RowsOf(g) /\ (report.of.same => RowsOf(f) = RowsOf(g))
  BY <1>2 DEF Within, RowsOf
<1>4. Cardinality(RowsOf(f)) <= Cardinality(RowsOf(g))
  BY <1>1, <1>3, FigureOfRows, FS_Subset
<1>5. /\ R!Figure(f) = Cardinality(RowsOf(f)) /\ R!Figure(f) \in Nat
      /\ R!Figure(g) = Cardinality(RowsOf(g)) /\ R!Figure(g) \in Nat
  BY <1>1, FigureOfRows
<1>6. QED
  BY <1>3, <1>4, <1>5 DEF Near

LEMMA TripleMatches ==
    ASSUME RowsAssumption, ReportsInv, report.of = Triple
    PROVE  R!Figure("activeInvestments") + R!Figure("pendingInvestments") = R!Figure("totalInvestments")
<1>1. {"activeInvestments", "pendingInvestments", "totalInvestments"} = R!Compared
  BY TripleFields DEF R!Compared
<1>2. R!Selection["getPortfolioStats"] = R!PortfolioStats
  BY DEF R!Selection
<1>3. /\ RowsOf("activeInvestments") = R!Of(R!Visible, {"CONFIRMED"})
      /\ RowsOf("pendingInvestments") = R!Visible \ R!Of(R!Visible, {"CONFIRMED"})
      /\ RowsOf("totalInvestments") = R!Visible
  BY <1>2, TripleFields DEF RowsOf, R!PortfolioStats
<1> PICK active : active = RowsOf("activeInvestments")
  OBVIOUS
<1> PICK pending : pending = RowsOf("pendingInvestments")
  OBVIOUS
<1>4. RowsOf("totalInvestments") = active \cup pending /\ active \cap pending = {}
  BY <1>3 DEF R!Of
<1>5. /\ IsFiniteSet(active) /\ IsFiniteSet(pending)
      /\ R!Figure("activeInvestments") = Cardinality(active) /\ R!Figure("activeInvestments") \in Nat
      /\ R!Figure("pendingInvestments") = Cardinality(pending) /\ R!Figure("pendingInvestments") \in Nat
      /\ R!Figure("totalInvestments") = Cardinality(active \cup pending)
  BY <1>1, <1>4, FigureOfRows
<1>6. Cardinality(active \cup pending) = Cardinality(active) + Cardinality(pending)
  <2>1. Cardinality(active \cap pending) = 0
    BY <1>4, FS_EmptySet
  <2>2. Cardinality(active \cup pending) = Cardinality(active) + Cardinality(pending) - Cardinality(active \cap pending)
    BY <1>5, FS_Union
  <2>3. QED
    BY <1>5, <2>1, <2>2
<1>7. QED
  BY <1>5, <1>6

LEMMA QuadMatches ==
    ASSUME RowsAssumption, ReportsInv, report.of = Quad
    PROVE  R!Figure("investments") <= R!Figure("active") + R!Figure("pending") + R!Figure("cancelled")
<1>1. {"investments", "active", "pending", "cancelled"} = R!Compared
  BY QuadFields DEF R!Compared
<1>2. R!Selection["getPortfolio"] = R!Portfolio
  BY DEF R!Selection
<1>3. /\ RowsOf("investments") = R!Visible
      /\ RowsOf("active") = R!Of(R!Visible, {"CONFIRMED"})
      /\ RowsOf("pending") = R!Visible \ R!Of(R!Visible, {"CONFIRMED", "CANCELLED"})
      /\ RowsOf("cancelled") = R!Of(R!Visible, {"CANCELLED", "REFUNDED"})
  BY <1>2, QuadFields DEF RowsOf, R!Portfolio
<1> PICK active : active = RowsOf("active")
  OBVIOUS
<1> PICK pending : pending = RowsOf("pending")
  OBVIOUS
<1> PICK cancelled : cancelled = RowsOf("cancelled")
  OBVIOUS
<1>4. RowsOf("investments") \in SUBSET ((active \cup pending) \cup cancelled)
  BY <1>3 DEF R!Of
<1>5. /\ IsFiniteSet(active) /\ IsFiniteSet(pending) /\ IsFiniteSet(cancelled)
      /\ R!Figure("active") = Cardinality(active) /\ R!Figure("active") \in Nat
      /\ R!Figure("pending") = Cardinality(pending) /\ R!Figure("pending") \in Nat
      /\ R!Figure("cancelled") = Cardinality(cancelled) /\ R!Figure("cancelled") \in Nat
      /\ R!Figure("investments") = Cardinality(RowsOf("investments")) /\ R!Figure("investments") \in Nat
  BY <1>1, FigureOfRows
<1>6. /\ IsFiniteSet(active \cup pending) /\ Cardinality(active \cap pending) \in Nat
      /\ Cardinality(active \cup pending) = Cardinality(active) + Cardinality(pending) - Cardinality(active \cap pending)
  BY <1>5, FS_Union, FS_Intersection, FS_CardinalityType
<1> PICK both : both = active \cup pending
  OBVIOUS
<1>7. /\ IsFiniteSet(both \cup cancelled) /\ Cardinality(both \cap cancelled) \in Nat
      /\ Cardinality(both \cup cancelled) = Cardinality(both) + Cardinality(cancelled) - Cardinality(both \cap cancelled)
  BY <1>5, <1>6, FS_Union, FS_Intersection, FS_CardinalityType
<1>8. Cardinality(RowsOf("investments")) <= Cardinality(both \cup cancelled)
  BY <1>4, <1>7, FS_Subset
<1>9. Cardinality(both) \in Nat /\ Cardinality(both) <= Cardinality(active) + Cardinality(pending)
  BY <1>5, <1>6, FS_CardinalityType
<1>10. Cardinality(both \cup cancelled) \in Nat
       /\ Cardinality(both \cup cancelled) <= Cardinality(both) + Cardinality(cancelled)
  BY <1>5, <1>7, <1>9, FS_CardinalityType
<1>11. QED
  BY <1>5, <1>8, <1>9, <1>10

(***************************************************************************)
(* A change of a row moves a figure by at most one, and no figure of a     *)
(* period that is over.                                                    *)
(***************************************************************************)

LEMMA FigureRows ==
    ASSUME RowsAssumption, ReportsInv, NEW x, RowChange(x), NEW f \in R!Compared
    PROVE  Alike(RowsOf(f), RowsOf(f)', x) /\ R!Figure(f)' = Cardinality(RowsOf(f)')
<1>1. report.of.report \in DOMAIN R!Selection /\ f \in DOMAIN R!Selection[report.of.report]
  BY FigureOfRows
<1>2. Alike(R!Selection[report.of.report][f], R!Selection'[report.of.report][f], x)
  BY <1>1, FiguresAlike
<1>3. Alike(RowsOf(f), RowsOf(f)', x)
  BY <1>2 DEF RowChange, RowsOf
<1>4. R!Figure(f)' = Cardinality(RowsOf(f)')
  BY ReportsCounted DEF R!Figure, RowsOf
<1>5. QED
  BY <1>3, <1>4

LEMMA FigureMoves ==
    ASSUME RowsAssumption, ReportsInv, NEW x, RowChange(x), NEW f \in R!Compared
    PROVE  /\ R!Figure(f) \in Nat /\ R!Figure(f)' \in Nat
           /\ R!Figure(f)' <= R!Figure(f) + 1 /\ R!Figure(f) <= R!Figure(f)' + 1
<1>1. Alike(RowsOf(f), RowsOf(f)', x) /\ R!Figure(f)' = Cardinality(RowsOf(f)')
  BY FigureRows
<1>2. IsFiniteSet(RowsOf(f)) /\ R!Figure(f) = Cardinality(RowsOf(f))
  BY FigureOfRows
<1>3. QED
  BY <1>1, <1>2, AlikeCounts

LEMMA FigureStays ==
    ASSUME RowsAssumption, ReportsInv, UNCHANGED table, NEW f \in R!Compared,
           report'.of = report.of, report'.scoped = report.scoped, report'.future = report.future
    PROVE  R!Figure(f)' = R!Figure(f)
<1> PICK all : all = (RowsOf(f) \cup RowsOf(f)')
  OBVIOUS
<1>1. PICK x : x \notin all
  <2>1. {y \in all : y \notin y} \notin all
    OBVIOUS
  <2>2. QED
    BY <2>1
<1>2. RowChange(x)
  BY DEF RowChange
<1>3. Alike(RowsOf(f), RowsOf(f)', x) /\ R!Figure(f)' = Cardinality(RowsOf(f)')
  BY <1>2, FigureRows
<1>4. RowsOf(f) = RowsOf(f)'
  BY <1>1, <1>3 DEF Alike
<1>5. QED
  BY <1>3, <1>4, FigureOfRows

\* A period that is over has moves within it, and rows that come after it.
Unseen(x) ==
    /\ R!Ended
    /\ \E word \in report.of.words : R!Move(x, word) \/ \E mine \in BOOLEAN : R!Create(x, word, mine, TRUE)

\* A row that is changed, one that is created, one that is deleted.
LEMMA ChangesARow ==
    ASSUME RowsAssumption, ReportsInv, NEW x \in ReportRow, TableChange(x)
    PROVE  /\ RowChange(x) /\ report'.answered = report.answered /\ report'.at = report.at
           /\ report.at = "ask" => report'.changes = report.changes + 1 \/ (report' = report /\ Unseen(x))
<1>1. PICK of \in R!Relation : report \in ReportOf(of) /\ table \in [ReportRow -> {R!Absent} \cup TableRow(of)]
  BY DEF ReportsInv
<1>2. \E row : table' = [table EXCEPT ![x] = row]
  <2>1. ASSUME NEW word, R!Move(x, word)
        PROVE  \E row : table' = [table EXCEPT ![x] = row]
    <3>1. table' = [table EXCEPT ![x] = [table[x] EXCEPT !.status = word]]
      BY <2>1 DEF R!Move
    <3>2. QED
      BY <3>1
  <2>2. ASSUME NEW word, NEW mine, NEW fresh, R!Create(x, word, mine, fresh)
        PROVE  \E row : table' = [table EXCEPT ![x] = row]
    BY <2>2, Zenon DEF R!Create
  <2>3. ASSUME R!Delete(x)
        PROVE  \E row : table' = [table EXCEPT ![x] = row]
    <3>1. table' = [table EXCEPT ![x] = [table[x] EXCEPT !.kept = FALSE]]
      BY <2>3 DEF R!Delete
    <3>2. QED
      BY <3>1
  <2>4. QED
    BY <2>1, <2>2, <2>3 DEF TableChange
<1>3. \A y \in ReportRow : y # x => table'[y] = table[y]
  BY <1>1, <1>2
<1>4. R!Changed(TRUE) \/ (R!Changed(FALSE) /\ Unseen(x))
  <2>1. ASSUME NEW word \in report.of.words, R!Move(x, word)
        PROVE  R!Changed(TRUE) \/ (R!Changed(FALSE) /\ Unseen(x))
    <3>1. R!Changed(~R!Ended)
      BY <2>1 DEF R!Move
    <3>2. CASE R!Ended
      BY <2>1, <3>1, <3>2 DEF Unseen, R!Changed
    <3>3. CASE ~R!Ended
      BY <3>1, <3>3 DEF R!Changed
    <3>4. QED
      BY <3>2, <3>3
  <2>2. ASSUME NEW word \in report.of.words, NEW mine \in BOOLEAN, NEW fresh \in BOOLEAN,
               R!Create(x, word, mine, fresh)
        PROVE  R!Changed(TRUE) \/ (R!Changed(FALSE) /\ Unseen(x))
    <3>1. R!Changed(~R!Ended \/ ~fresh)
      BY <2>2 DEF R!Create
    <3>2. CASE R!Ended /\ fresh
      <4>1. R!Create(x, word, mine, TRUE) /\ R!Changed(FALSE)
        BY <2>2, <3>1, <3>2 DEF R!Changed
      <4>2. QED
        BY <3>2, <4>1 DEF Unseen
    <3>3. CASE ~(R!Ended /\ fresh)
      BY <3>1, <3>3 DEF R!Changed
    <3>4. QED
      BY <3>2, <3>3
  <2>3. R!Delete(x) => R!Changed(TRUE)
    BY DEF R!Delete
  <2>4. QED
    BY <2>1, <2>2, <2>3 DEF TableChange
<1>5. CASE report.at # "ask"
  BY <1>3, <1>4, <1>5 DEF R!Changed, RowChange
<1>6. CASE report.at = "ask"
  <2>1. CASE R!Changed(TRUE)
    <3>1. report' = [report EXCEPT !.changes = report.changes + 1]
      BY <1>6, <2>1 DEF R!Changed
    <3>2. QED
      BY <1>1, <1>3, <3>1 DEF ReportOf, RowChange
  <2>2. CASE R!Changed(FALSE) /\ Unseen(x)
    BY <1>3, <2>2 DEF R!Changed, RowChange
  <2>3. QED
    BY <1>4, <2>1, <2>2
<1>7. QED
  BY <1>5, <1>6

LEMMA PeriodIsOver ==
    ASSUME RowsAssumption, ReportsInv, NEW x \in ReportRow, NEW f \in R!Compared,
           TableChange(x), Unseen(x)
    PROVE  R!Figure(f)' = R!Figure(f)
<1>1. PICK of \in R!Relation : report \in ReportOf(of) /\ table \in [ReportRow -> {R!Absent} \cup TableRow(of)]
  BY DEF ReportsInv
<1>2. RowChange(x) /\ report.of.report = "getTransactionSummaryReport" /\ ~report.future
  BY ChangesARow DEF Unseen, R!Ended
<1>3. x \in R!InPeriod <=> x \in R!InPeriod'
  <2>1. ASSUME NEW word \in report.of.words, R!Move(x, word)
        PROVE  x \in R!InPeriod <=> x \in R!InPeriod'
    <3>1. table[x] \in TableRow(of) /\ table' = [table EXCEPT ![x] = [table[x] EXCEPT !.status = word]] /\ x \in R!Stored
      BY <1>1, <2>1 DEF R!Move, R!Stored
    <3> PICK row : row = [table[x] EXCEPT !.status = word]
      OBVIOUS
    <3>2. table'[x] = row /\ row.mine = table[x].mine /\ row.fresh = table[x].fresh /\ row # R!Absent
      <4>1. row.mine = table[x].mine /\ row.fresh = table[x].fresh /\ DOMAIN row = {"status", "mine", "kept", "fresh"}
        BY <3>1 DEF TableRow
      <4>2. DOMAIN R!Absent = {"status"}
        BY DEF R!Absent
      <4>3. table'[x] = row
        BY <1>1, <3>1
      <4>4. QED
        BY <4>1, <4>2, <4>3
    <3>3. QED
      BY <1>2, <3>1, <3>2 DEF R!InPeriod, R!Visible, R!Stored, RowChange
  <2>2. ASSUME NEW word \in report.of.words, NEW mine \in BOOLEAN, R!Create(x, word, mine, TRUE)
        PROVE  x \in R!InPeriod <=> x \in R!InPeriod'
    <3>1. x \notin R!Stored
      BY <2>2 DEF R!Create
    <3>2. x \notin R!InPeriod
      BY <3>1 DEF R!InPeriod, R!Visible
    <3>3. table'[x].fresh
      <4> PICK row : row = [status |-> word, mine |-> mine, kept |-> TRUE, fresh |-> TRUE]
        OBVIOUS
      <4>1. table' = [table EXCEPT ![x] = row]
        BY <2>2, Zenon DEF R!Create
      <4>2. table'[x] = row
        BY <1>1, <4>1
      <4>3. row.fresh
        OBVIOUS
      <4>4. QED
        BY <4>2, <4>3
    <3>4. x \notin R!InPeriod'
      BY <1>2, <3>3 DEF R!InPeriod, RowChange
    <3>5. QED
      BY <3>2, <3>4
  <2>3. QED
    BY <2>1, <2>2 DEF Unseen
<1>4. RowsOf(f) = R!InPeriod /\ RowsOf(f)' = R!InPeriod'
  <2>1. f \in DOMAIN R!TransactionSummary
    BY <1>2, FigureOfRows DEF R!Selection
  <2>2. RowsOf(f) = R!TransactionSummary[f] /\ RowsOf(f)' = R!TransactionSummary'[f]
    BY <1>2 DEF RowsOf, R!Selection, RowChange
  <2>3. R!TransactionSummary[f] = R!InPeriod /\ R!TransactionSummary'[f] = R!InPeriod'
    BY <2>1 DEF R!TransactionSummary
  <2>4. QED
    BY <2>2, <2>3
<1>5. Alike(RowsOf(f), RowsOf(f)', x) /\ R!Figure(f)' = Cardinality(RowsOf(f)')
  BY <1>2, FigureRows
<1>6. RowsOf(f) = RowsOf(f)'
  BY <1>3, <1>4, <1>5 DEF Alike
<1>7. QED
  BY <1>5, <1>6, FigureOfRows

(***************************************************************************)
(* The invariant: what was answered and what would be answered now are     *)
(* apart by no more than what changed since the first answer.              *)
(***************************************************************************)

SoFar(f) == IF f \in DOMAIN report.answered THEN report.answered[f] ELSE R!Figure(f)
Answered1(figures) == DOMAIN report.answered = figures

\* The queries of getPortfolioStats are answered one after the other; what the two groups still
\* to come will add up to differs from the total by the first.
TripleNear ==
    LET one == "activeInvestments"
        two == "pendingInvestments"
        all == "totalInvestments"
    IN  \/ Answered1({one}) /\ Near(SoFar(one), R!Figure(one), TRUE, report.changes)
        \/ Answered1({one, two}) /\ Near(SoFar(one) + SoFar(two), R!Figure(all), TRUE, report.changes)
        \/ Answered1({one, two, all}) /\ Near(SoFar(one) + SoFar(two), SoFar(all), TRUE, report.changes)
QuadNear == SoFar("investments") <= SoFar("active") + SoFar("pending") + SoFar("cancelled")
PairNear ==
    \A f \in report.of.less, g \in report.of.more : Near(SoFar(f), SoFar(g), report.of.same, R!Slack)

MatchInv ==
    ~Answered1({}) =>
        /\ report.at = "ask"
        /\ report.of.report = "getPortfolio" => Answered1(R!Compared)
        /\ IF report.of = Triple THEN TripleNear ELSE IF report.of = Quad THEN QuadNear ELSE PairNear

LEMMA OneAfterTheOther ==
    LET one == "activeInvestments"
        two == "pendingInvestments"
        all == "totalInvestments"
    IN  {one} # {one, two} /\ {one} # {one, two, all} /\ {one, two} # {one, two, all}
<1>1. "pendingInvestments" \notin {"activeInvestments"}
      /\ "totalInvestments" \notin {"activeInvestments", "pendingInvestments"}
  OBVIOUS
<1>2. QED
  BY <1>1

LEMMA ReportFields ==
    ASSUME RowsAssumption, ReportsInv
    PROVE  /\ report.of \in R!Relation /\ report.changes \in Nat /\ DOMAIN report.answered \subseteq R!Compared
           /\ \A f \in DOMAIN report.answered : report.answered[f] \in Nat
           /\ \A f \in R!Compared : SoFar(f) \in Nat /\ R!Figure(f) \in Nat
<1>1. PICK of \in R!Relation : report \in ReportOf(of) /\ table \in [ReportRow -> {R!Absent} \cup TableRow(of)]
  BY DEF ReportsInv
<1>2. report.of = of /\ report.answered \in Answers(of) /\ report.changes \in 0 .. ReportChanges
  BY <1>1 DEF ReportOf
<1>3. PICK figures \in SUBSET Compare(of) : report.answered \in [figures -> 0 .. Cardinality(ReportRow)]
  BY <1>2 DEF Answers
<1>4. Cardinality(ReportRow) \in Nat
  BY FS_CardinalityType DEF RowsAssumption
<1>5. DOMAIN report.answered \subseteq R!Compared /\ \A f \in DOMAIN report.answered : report.answered[f] \in Nat
  BY <1>2, <1>3, <1>4 DEF R!Compared, Compare
<1>6. report.of \in R!Relation /\ report.changes \in Nat
  BY <1>1, <1>2 DEF RowsAssumption
<1>7. \A f \in R!Compared : R!Figure(f) \in Nat
  BY FigureOfRows
<1>8. QED
  BY <1>5, <1>6, <1>7 DEF SoFar

LEMMA MatchInit == RowsAssumption /\ R!Init => MatchInv
<1> SUFFICES ASSUME R!Init PROVE DOMAIN report.answered = {}
  BY DEF MatchInv, Answered1
<1>1. PICK of \in R!Relation :
          report \in [at : {"rest"}, of : {of}, scoped : R!Scope(of.report),
                      future : IF of.report = "getTransactionSummaryReport" THEN BOOLEAN ELSE {FALSE},
                      answered : {<<>>}, changes : {0}]
  BY DEF R!Init
<1>2. report.answered = <<>>
  BY <1>1
<1>3. QED
  BY <1>2

\* A step that changes neither the report nor a figure.
LEMMA MatchStays ==
    ASSUME RowsAssumption, ReportsInv, MatchInv, report' = report,
           \A f \in R!Compared : R!Figure(f)' = R!Figure(f)
    PROVE  MatchInv'
<1>1. \A f \in R!Compared : SoFar(f)' = SoFar(f) /\ R!Figure(f)' = R!Figure(f)
  BY DEF SoFar
<1>2. R!Compared' = R!Compared /\ R!Slack' = R!Slack
  BY DEF R!Compared, R!Slack
<1>3. CASE report.of = Triple
  <2>1. R!Compared = {"activeInvestments", "pendingInvestments", "totalInvestments"}
    BY <1>3, TripleFields DEF R!Compared
  <2>2. TripleNear' <=> TripleNear
    BY <1>1, <2>1 DEF TripleNear, Answered1
  <2>3. QED
    BY <1>2, <1>3, <2>2 DEF MatchInv, Answered1
<1>4. CASE report.of = Quad
  <2>1. R!Compared = {"investments", "active", "pending", "cancelled"}
    BY <1>4, QuadFields DEF R!Compared
  <2>2. QuadNear' <=> QuadNear
    BY <1>1, <2>1 DEF QuadNear
  <2>3. QED
    BY <1>2, <1>4, <2>2, QuadFields, TripleFields DEF MatchInv, Answered1
<1>5. CASE report.of # Triple /\ report.of # Quad
  <2>1. PairNear' <=> PairNear
    BY <1>1, <1>2 DEF PairNear, R!Compared
  <2>2. QED
    BY <1>2, <1>5, <2>1 DEF MatchInv, Answered1
<1>6. QED
  BY <1>3, <1>4, <1>5

\* A change of the table while the report is made.
LEMMA MatchAtChange ==
    ASSUME RowsAssumption, ReportsInv, MatchInv, NEW x \in ReportRow, TableChange(x)
    PROVE  MatchInv'
<1>1. /\ RowChange(x) /\ report'.answered = report.answered /\ report'.at = report.at
      /\ report.at = "ask" => report'.changes = report.changes + 1 \/ (report' = report /\ Unseen(x))
  BY ChangesARow
<1>2. report'.of = report.of /\ R!Compared' = R!Compared
  BY <1>1 DEF RowChange, R!Compared
<1>3. CASE Answered1({})
  BY <1>1, <1>3 DEF MatchInv, Answered1
<1>4. CASE report' = report /\ Unseen(x)
  BY <1>4, PeriodIsOver, MatchStays
<1>5. CASE ~Answered1({}) /\ report'.changes = report.changes + 1
  <2>1. /\ report.at = "ask" /\ report'.changes = report.changes + 1 /\ report.changes \in Nat
        /\ report.of.report = "getPortfolio" => Answered1(R!Compared)
    BY <1>1, <1>5, ReportFields DEF MatchInv
  <2>2. \A f \in DOMAIN report.answered : SoFar(f)' = SoFar(f)
    BY <1>1 DEF SoFar
  <2>3. ASSUME NEW f \in R!Compared
        PROVE  /\ SoFar(f) \in Nat /\ SoFar(f)' \in Nat /\ R!Figure(f) \in Nat /\ R!Figure(f)' \in Nat
               /\ R!Figure(f)' <= R!Figure(f) + 1 /\ R!Figure(f) <= R!Figure(f)' + 1
               /\ SoFar(f)' <= SoFar(f) + 1 /\ SoFar(f) <= SoFar(f)' + 1
    <3>1. /\ R!Figure(f) \in Nat /\ R!Figure(f)' \in Nat
          /\ R!Figure(f)' <= R!Figure(f) + 1 /\ R!Figure(f) <= R!Figure(f)' + 1
      BY <1>1, FigureMoves
    <3>2. SoFar(f) \in Nat
      BY ReportFields
    <3>3. CASE f \in DOMAIN report.answered
      BY <2>2, <3>1, <3>2, <3>3
    <3>4. CASE f \notin DOMAIN report.answered
      <4>1. SoFar(f)' = R!Figure(f)' /\ SoFar(f) = R!Figure(f)
        BY <1>1, <3>4 DEF SoFar
      <4>2. QED
        BY <3>1, <4>1
    <3>5. QED
      BY <3>3, <3>4
  <2>4. CASE report.of = Triple
    <3>1. {"activeInvestments", "pendingInvestments", "totalInvestments"} = R!Compared
      BY <2>4, TripleFields DEF R!Compared
    <3>2. TripleNear
      BY <1>5, <2>4 DEF MatchInv
    <3>3. Triple.report # "getPortfolio"
      BY TripleFields
    <3>4. TripleNear'
      BY <1>1, <2>1, <2>2, <2>3, <3>1, <3>2 DEF TripleNear, Answered1, Near
    <3>5. QED
      BY <1>1, <1>2, <2>1, <2>4, <3>3, <3>4 DEF MatchInv, Answered1
  <2>5. CASE report.of = Quad
    <3>1. {"investments", "active", "pending", "cancelled"} = R!Compared
      BY <2>5, QuadFields DEF R!Compared
    <3>2. QuadNear /\ DOMAIN report.answered = R!Compared
      BY <1>5, <2>1, <2>5, QuadFields, TripleFields DEF MatchInv, Answered1
    <3>3. QuadNear'
      BY <2>2, <3>1, <3>2 DEF QuadNear
    <3>4. QED
      BY <1>1, <1>2, <2>1, <2>5, <3>3, QuadFields, TripleFields DEF MatchInv, Answered1
  <2>6. CASE report.of # Triple /\ report.of # Quad
    <3>1. PICK f, g : f # g /\ report.of.less = {f} /\ report.of.more = {g}
      BY <2>6, ReportFields, PairsSelect DEF IsPair
    <3>2. R!Compared = {f, g}
      BY <3>1 DEF R!Compared
    <3>3. Near(SoFar(f), SoFar(g), report.of.same, R!Slack)
      BY <1>5, <2>6, <3>1 DEF MatchInv, PairNear
    <3>4. f \in DOMAIN report.answered \/ g \in DOMAIN report.answered
      BY <1>5, <3>2, ReportFields DEF Answered1
    <3>5. Near(SoFar(f)', SoFar(g)', report'.of.same, R!Slack')
      <4>1. CASE report.of.report = "getPortfolio"
        <5>1. f \in DOMAIN report.answered /\ g \in DOMAIN report.answered
          BY <2>1, <3>2, <4>1 DEF Answered1
        <5>2. R!Slack' = R!Slack
          BY <1>2, <4>1 DEF R!Slack
        <5>3. QED
          BY <1>2, <2>2, <3>3, <5>1, <5>2
      <4>2. CASE report.of.report # "getPortfolio"
        <5>1. R!Slack = report.changes /\ R!Slack' = report.changes + 1
          BY <1>1, <1>2, <2>1, <4>2 DEF R!Slack, RowChange
        <5>2. /\ SoFar(f) \in Nat /\ SoFar(f)' \in Nat /\ SoFar(f)' <= SoFar(f) + 1 /\ SoFar(f) <= SoFar(f)' + 1
              /\ SoFar(g) \in Nat /\ SoFar(g)' \in Nat /\ SoFar(g)' <= SoFar(g) + 1 /\ SoFar(g) <= SoFar(g)' + 1
              /\ SoFar(f)' = SoFar(f) \/ SoFar(g)' = SoFar(g)
          BY <2>2, <2>3, <3>2, <3>4
        <5>3. SoFar(f) <= SoFar(g) + report.changes /\ (report.of.same => SoFar(g) <= SoFar(f) + report.changes)
          BY <3>3, <5>1 DEF Near
        <5>4. SoFar(f)' <= SoFar(g)' + (report.changes + 1)
          BY <2>1, <5>2, <5>3
        <5>5. report.of.same => SoFar(g)' <= SoFar(f)' + (report.changes + 1)
          BY <2>1, <5>2, <5>3
        <5>6. QED
          BY <1>2, <5>1, <5>4, <5>5 DEF Near
      <4>3. QED
        BY <4>1, <4>2
    <3>6. PairNear'
      BY <1>2, <3>1, <3>5 DEF PairNear
    <3>7. QED
      BY <1>1, <1>2, <2>1, <2>6, <3>6 DEF MatchInv, Answered1
  <2>7. QED
    BY <2>4, <2>5, <2>6
<1>6. QED
  BY <1>1, <1>3, <1>5, <1>4 DEF MatchInv

\* An answer: the figure of this moment is the figure that was answered.
LEMMA MatchAtAnswer ==
    ASSUME RowsAssumption, ReportsInv, MatchInv, NEW f \in R!Compared, R!Answer(f)
    PROVE  MatchInv'
<1>1. PICK of \in R!Relation : report \in ReportOf(of) /\ table \in [ReportRow -> {R!Absent} \cup TableRow(of)]
  BY DEF ReportsInv
<1> PICK done : done = DOMAIN report.answered
  OBVIOUS
<1> PICK more : more = done \cup R!Together(f)
  OBVIOUS
<1> PICK new : new = [g \in more |-> IF g \in done THEN report.answered[g] ELSE R!Figure(g)]
  OBVIOUS
<1> PICK changes : changes = IF done = {} THEN 0 ELSE report.changes
  OBVIOUS
<1>2. /\ report' = [report EXCEPT !.answered = new, !.changes = changes]
      /\ report.at = "ask" /\ f \in R!Compared \ done /\ R!Sent(f) /\ UNCHANGED table
  BY DEF R!Answer
<1>3. /\ report'.of = report.of /\ report'.scoped = report.scoped /\ report'.future = report.future
      /\ report'.answered = new /\ DOMAIN report'.answered = more /\ report'.at = "ask"
      /\ report'.changes = changes /\ R!Compared' = R!Compared
  BY <1>1, <1>2 DEF ReportOf, R!Compared
<1>4. \A g \in R!Compared : R!Figure(g)' = R!Figure(g)
  BY <1>2, <1>3, FigureStays
<1>5. \A g \in R!Compared : SoFar(g)' = SoFar(g)
  BY <1>3, <1>4 DEF SoFar
<1>6. f \in more /\ R!Together(f) \subseteq R!Compared /\ done \subseteq R!Compared
  BY ReportFields DEF R!Together
<1>7. report.of.report = "getPortfolio" => more = R!Compared
  BY <1>6 DEF R!Together
<1>8. done = {} => \A g \in R!Compared : SoFar(g)' = R!Figure(g)
  BY <1>5 DEF SoFar
<1>9. done # {} => R!Slack' = R!Slack
  BY <1>3 DEF R!Slack
<1>10. R!Slack' \in Nat
  BY <1>3, ReportFields DEF R!Slack
<1>11. \A g \in R!Compared : SoFar(g) \in Nat /\ R!Figure(g) \in Nat
  BY ReportFields
<1>12. CASE report.of = Triple
  <2>1. R!Compared = {"activeInvestments", "pendingInvestments", "totalInvestments"}
    BY <1>12, TripleFields DEF R!Compared
  <2>2. more = done \cup {f}
    BY <1>12, TripleFields DEF R!Together
  <2>3. \A g \in R!Compared : R!Place(g) < R!Place(f) => g \in done
    BY <1>2, <1>12, TripleFields DEF R!Sent
  <2>4. R!Place("activeInvestments") = 1 /\ R!Place("pendingInvestments") = 2 /\ R!Place("totalInvestments") = 4
    BY DEF R!Place, R!Order
  <2>5. done # {} => TripleNear
    BY <1>12 DEF MatchInv, Answered1
  <2>6. R!Figure("activeInvestments") + R!Figure("pendingInvestments") = R!Figure("totalInvestments")
    BY <1>12, TripleMatches
  <2>7. CASE done = {}
    <3>1. f = "activeInvestments"
      BY <2>1, <2>3, <2>4, <2>7
    <3>2. more = {"activeInvestments"}
      BY <2>2, <2>7, <3>1
    <3>3. Near(SoFar("activeInvestments")', R!Figure("activeInvestments")', TRUE, 0)
      BY <1>4, <1>8, <1>11, <2>1, <2>7 DEF Near
    <3>4. changes = 0
      BY <2>7
    <3>5. TripleNear'
      BY <1>3, <3>2, <3>3, <3>4 DEF TripleNear, Answered1
    <3>6. QED
      BY <1>3, <1>7, <1>12, <3>5 DEF MatchInv, Answered1
  <2>8. CASE done = {"activeInvestments"}
    <3>1. f = "pendingInvestments"
      BY <1>2, <2>1, <2>3, <2>4, <2>8
    <3>2. more = {"activeInvestments", "pendingInvestments"} /\ changes = report.changes
      BY <2>2, <2>8, <3>1
    <3>3. Near(SoFar("activeInvestments"), R!Figure("activeInvestments"), TRUE, report.changes)
      BY <2>5, <2>8, OneAfterTheOther DEF TripleNear, Answered1
    <3>4. SoFar("pendingInvestments") = R!Figure("pendingInvestments")
      BY <2>8 DEF SoFar
    <3>5. Near(SoFar("activeInvestments") + SoFar("pendingInvestments"), R!Figure("totalInvestments"), TRUE,
               report.changes)
      BY <1>11, <2>1, <2>6, <3>3, <3>4, ReportFields DEF Near
    <3>6. TripleNear'
      BY <1>3, <1>4, <1>5, <2>1, <3>2, <3>5 DEF TripleNear, Answered1
    <3>7. QED
      BY <1>3, <1>7, <1>12, <3>6 DEF MatchInv, Answered1
  <2>9. CASE done = {"activeInvestments", "pendingInvestments"}
    <3>1. f = "totalInvestments"
      BY <1>2, <2>1, <2>9
    <3>2. more = {"activeInvestments", "pendingInvestments", "totalInvestments"} /\ changes = report.changes
      BY <2>2, <2>9, <3>1
    <3>3. Near(SoFar("activeInvestments") + SoFar("pendingInvestments"), R!Figure("totalInvestments"), TRUE,
               report.changes)
      BY <2>5, <2>9, OneAfterTheOther DEF TripleNear, Answered1
    <3>4. SoFar("totalInvestments") = R!Figure("totalInvestments")
      BY <2>9 DEF SoFar
    <3>5. TripleNear'
      BY <1>3, <1>5, <2>1, <3>2, <3>3, <3>4 DEF TripleNear, Answered1
    <3>6. QED
      BY <1>3, <1>7, <1>12, <3>5 DEF MatchInv, Answered1
  <2>10. done # {"activeInvestments", "pendingInvestments", "totalInvestments"}
    BY <1>2, <2>1
  <2>11. QED
    BY <2>5, <2>7, <2>8, <2>9, <2>10 DEF TripleNear, Answered1
<1>13. CASE report.of = Quad
  <2>1. R!Compared = {"investments", "active", "pending", "cancelled"} /\ more = R!Compared
    BY <1>7, <1>13, QuadFields DEF R!Compared
  <2>2. done = {}
    BY <1>2, <1>13, QuadFields DEF MatchInv, Answered1
  <2>3. QuadNear'
    BY <1>8, <1>13, <2>1, <2>2, QuadMatches DEF QuadNear
  <2>4. QED
    BY <1>3, <1>13, <2>1, <2>3, QuadFields, TripleFields DEF MatchInv, Answered1
<1>14. CASE report.of # Triple /\ report.of # Quad
  <2>1. ASSUME NEW g \in report.of.less, NEW h \in report.of.more
        PROVE  Near(SoFar(g)', SoFar(h)', report.of.same, R!Slack')
    <3>1. g \in R!Compared /\ h \in R!Compared
      BY DEF R!Compared
    <3>2. CASE done = {}
      <4>1. Near(R!Figure(g), R!Figure(h), report.of.same, 0)
        BY <1>14, PairMatches
      <4>2. SoFar(g)' = R!Figure(g) /\ SoFar(h)' = R!Figure(h) /\ R!Figure(g) \in Nat /\ R!Figure(h) \in Nat
        BY <1>8, <1>11, <3>1, <3>2
      <4>3. QED
        BY <1>10, <4>1, <4>2 DEF Near
    <3>3. CASE done # {}
      <4>1. Near(SoFar(g), SoFar(h), report.of.same, R!Slack)
        BY <1>14, <3>3 DEF MatchInv, Answered1, PairNear
      <4>2. QED
        BY <1>5, <1>9, <3>1, <3>3, <4>1
    <3>4. QED
      BY <3>2, <3>3
  <2>2. PairNear'
    BY <1>3, <2>1 DEF PairNear
  <2>3. QED
    BY <1>3, <1>7, <1>14, <2>2 DEF MatchInv, Answered1
<1>15. QED
  BY <1>12, <1>13, <1>14

LEMMA MatchNext ==
    ASSUME RowsAssumption, ReportsInv, MatchInv, R!Next \/ UNCHANGED R!vars
    PROVE  MatchInv'
<1>1. CASE UNCHANGED R!vars
  <2>1. table' = table /\ report' = report
    BY <1>1 DEF R!vars
  <2>2. \A f \in R!Compared : R!Figure(f)' = R!Figure(f)
    BY <2>1, FigureStays
  <2>3. QED
    BY <2>1, <2>2, MatchStays
<1>2. CASE R!Ask
  <2>1. DOMAIN report.answered = {}
    BY <1>2 DEF R!Ask, MatchInv, Answered1
  <2>2. report'.answered = report.answered
    BY <1>2 DEF R!Ask
  <2>3. QED
    BY <2>1, <2>2 DEF MatchInv, Answered1
<1>3. CASE R!Next
  BY <1>2, <1>3, MatchAtAnswer, MatchAtChange DEF R!Next, TableChange
<1>4. QED
  BY <1>1, <1>3

LEMMA MatchHolds == RowsAssumption /\ ReportsInv /\ MatchInv => R!FiguresMatch
<1> SUFFICES ASSUME RowsAssumption, ReportsInv, MatchInv, R!Compared = DOMAIN report.answered
             PROVE  Near(R!Total(report.of.less), R!Total(report.of.more), report.of.same, R!Slack)
  BY DEF R!FiguresMatch, Near
<1>1. \A f \in R!Compared : SoFar(f) = report.answered[f] /\ report.answered[f] \in Nat /\ report.answered[f] \in Int
  BY ReportFields DEF SoFar
<1>2. CASE report.of = Triple
  <2>1. R!Compared = {"activeInvestments", "pendingInvestments", "totalInvestments"}
    BY <1>2, TripleFields DEF R!Compared
  <2>2. Near(SoFar("activeInvestments") + SoFar("pendingInvestments"), SoFar("totalInvestments"), TRUE, report.changes)
    BY <1>2, <2>1, OneAfterTheOther DEF MatchInv, Answered1, TripleNear
  <2>3. R!Total({"activeInvestments", "pendingInvestments"}) =
            Sum3(report.answered, {"activeInvestments", "pendingInvestments"},
                 "activeInvestments", "pendingInvestments", "totalInvestments")
    BY <1>1, <2>1, TotalOfThree
  <2>4. R!Total({"activeInvestments", "pendingInvestments"}) =
            report.answered["activeInvestments"] + report.answered["pendingInvestments"]
    BY <1>1, <2>1, <2>3 DEF Sum3
  <2>5. R!Total({"totalInvestments"}) = report.answered["totalInvestments"]
    BY <1>1, <2>1, TotalOfOne
  <2>6. R!Slack = report.changes
    BY <1>2, TripleFields DEF R!Slack
  <2>7. QED
    BY <1>1, <1>2, <2>1, <2>2, <2>4, <2>5, <2>6, TripleFields
<1>3. CASE report.of = Quad
  <2>1. R!Compared = {"investments", "active", "pending", "cancelled"}
    BY <1>3, QuadFields DEF R!Compared
  <2>2. QuadNear
    BY <1>3, <2>1, QuadFields, TripleFields DEF MatchInv, Answered1
  <2>3. R!Total({"active", "pending", "cancelled"}) =
            Sum3(report.answered, {"active", "pending", "cancelled"}, "active", "pending", "cancelled")
    BY <1>1, <2>1, TotalOfThree
  <2>4. R!Total({"active", "pending", "cancelled"}) =
            report.answered["active"] + report.answered["pending"] + report.answered["cancelled"]
    BY <1>1, <2>1, <2>3 DEF Sum3
  <2>5. R!Total({"investments"}) = report.answered["investments"]
    BY <1>1, <2>1, TotalOfOne
  <2>6. R!Slack = 0
    BY <1>3, QuadFields DEF R!Slack
  <2>7. R!Total({"investments"}) <= R!Total({"active", "pending", "cancelled"})
    BY <1>1, <2>1, <2>2, <2>4, <2>5 DEF QuadNear
  <2>8. R!Total({"investments"}) <= R!Total({"active", "pending", "cancelled"}) + 0
    BY <1>1, <2>1, <2>4, <2>7
  <2>9. QED
    BY <1>3, <2>6, <2>8, QuadFields DEF Near
<1>4. CASE report.of # Triple /\ report.of # Quad
  <2>1. PICK f, g : f # g /\ report.of.less = {f} /\ report.of.more = {g}
    BY <1>4, ReportFields, PairsSelect DEF IsPair
  <2>2. R!Compared = {f, g}
    BY <2>1 DEF R!Compared
  <2>3. Near(SoFar(f), SoFar(g), report.of.same, R!Slack)
    BY <1>4, <2>1, <2>2 DEF MatchInv, Answered1, PairNear
  <2>4. R!Total({f}) = report.answered[f] /\ R!Total({g}) = report.answered[g]
    BY <1>1, <2>2, TotalOfOne
  <2>5. QED
    BY <1>1, <2>1, <2>2, <2>3, <2>4
<1>5. QED
  BY <1>2, <1>3, <1>4

=============================================================================
