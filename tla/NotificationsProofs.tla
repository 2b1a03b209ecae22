------------------------ MODULE NotificationsProofs ------------------------
(***************************************************************************)
(* The safety of the notification queue for any number of rows and         *)
(* workers, with every fault of the model and with workers that overrun    *)
(* their leases: the rows and what was delivered (QueueInv), whose fault   *)
(* it can be that two workers have one row (LeaseInv) or a user hears      *)
(* twice of an event (OnceInv), and that publishers that repeat themselves *)
(* cannot do anything to the queue but fill it.                            *)
(***************************************************************************)
EXTENDS MCDelivery, TLAPS

Busy == {"deliver", "channels", "succeed", "fail"}
Row == [status : {"ABSENT"} \cup DispatchStatus, due : BOOLEAN, expired : BOOLEAN]

\* What a worker carries: only queued rows, and past the in-app insert only a row
\* whose user has been notified.
JobBacked(job) ==
    /\ \A e \in job.batch : Queued(e)
    /\ job.pc \in Busy => Queued(job.event)
    /\ job.pc \in {"channels", "succeed"} /\ job.event \in Addressed => inApp[job.event] > 0

TablesInv ==
    /\ dispatch \in [Event -> Row]
    /\ inApp \in [Event -> 0 .. Many]
    /\ SentWasDelivered
    /\ \A e \in Event : inApp[e] > 0 => Queued(e)

QueueInv ==
    /\ TablesInv
    /\ worker \in [Worker -> Job]
    /\ \A w \in Worker : JobBacked(worker[w])

LEMMA QueueInit == Init => QueueInv
BY NotificationsAssumption
   DEF Init, QueueInv, TablesInv, Row, SentWasDelivered, IsSent, JobBacked, Queued, NoDispatch, Idle,
       Job, Busy, Many

\* Queued rows stay queued, notified users stay notified.
Kept == \A e \in Event : /\ Queued(e) => Queued(e)'
                         /\ inApp[e] > 0 => inApp'[e] > 0

LEMMA KeptJob ==
    ASSUME QueueInv, Kept, NEW w \in Worker, worker'[w] = worker[w]
    PROVE  JobBacked(worker[w])'
<1>1. worker[w] \in Job /\ JobBacked(worker[w])
  BY DEF QueueInv
<1>2. QED
  BY <1>1 DEF Kept, JobBacked, Job, Idle, Busy

\* One worker's job changes and is backed again.
LEMMA JobStep ==
    ASSUME QueueInv, Kept, TablesInv', NEW w \in Worker, NEW job \in Job,
           worker' = [worker EXCEPT ![w] = job], JobBacked(job)'
    PROVE  QueueInv'
<1>1. worker' \in [Worker -> Job] /\ worker'[w] = job
  BY DEF QueueInv
<1>2. \A v \in Worker \ {w} : JobBacked(worker[v])'
  BY KeptJob DEF QueueInv
<1>3. JobBacked(worker[w])'
  BY <1>1 DEF JobBacked
<1>4. QED
  BY <1>1, <1>2, <1>3 DEF QueueInv

LEMMA ContinueStep ==
    ASSUME QueueInv, Kept, TablesInv', NEW w \in Worker, NEW batch \in SUBSET Event,
           \A e \in batch : Queued(e), Continue(w, batch)
    PROVE  QueueInv'
<1>1. PICK job : job = IF batch = {} THEN Idle
                       ELSE [pc |-> "claim", batch |-> batch, event |-> NoEvent]
  OBVIOUS
<1>2. job \in Job
  BY <1>1 DEF Job
<1>3. JobBacked(job)'
  <2>1. \A e \in job.batch : Queued(e)'
    BY <1>1 DEF Kept, Idle
  <2>2. job.pc \notin Busy
    BY <1>1 DEF Idle, Busy
  <2>3. QED
    BY <2>1, <2>2 DEF JobBacked, Busy
<1>4. worker' = [worker EXCEPT ![w] = job]
  BY <1>1 DEF Continue
<1>5. QED
  BY <1>2, <1>3, <1>4, JobStep

LEMMA GotoStep ==
    ASSUME QueueInv, Kept, TablesInv', NEW w \in Worker, worker[w].pc \in Busy,
           NEW pc \in Busy, Goto(w, pc),
           pc \in {"channels", "succeed"} /\ worker[w].event \in Addressed
               => inApp'[worker[w].event] > 0
    PROVE  QueueInv'
<1>1. PICK job : job = [worker[w] EXCEPT !.pc = pc]
  OBVIOUS
<1>2. worker[w] \in [pc : Busy, batch : SUBSET Event, event : Event] /\ JobBacked(worker[w])
  BY DEF QueueInv, Job, Idle, Busy
<1>3. job \in Job /\ job.batch = worker[w].batch /\ job.event = worker[w].event /\ job.pc = pc
  BY <1>1, <1>2 DEF Job, Busy
<1>4. JobBacked(job)'
  BY <1>2, <1>3 DEF JobBacked, Kept
<1>5. worker' = [worker EXCEPT ![w] = job]
  BY <1>1 DEF Goto
<1>6. QED
  BY <1>3, <1>4, <1>5, JobStep

\* What the writes do to the tables, whoever makes them.
LEMMA WriteEffect ==
    ASSUME QueueInv, NEW e \in Event, NEW row \in Row, row.status # "ABSENT",
           row.status = "SENT" /\ e \in Addressed => inApp[e] > 0,
           dispatch' = [dispatch EXCEPT ![e] = row], UNCHANGED inApp
    PROVE  Kept /\ TablesInv'
<1>1. dispatch' \in [Event -> Row] /\ dispatch'[e] = row
      /\ \A f \in Event \ {e} : dispatch'[f] = dispatch[f]
  BY DEF QueueInv, TablesInv
<1>2. Kept
  BY <1>1 DEF Kept, Queued
<1>3. SentWasDelivered'
  BY <1>1, NotificationsAssumption DEF QueueInv, TablesInv, SentWasDelivered, IsSent
<1>4. \A f \in Event : inApp'[f] > 0 => Queued(f)'
  BY <1>2 DEF QueueInv, TablesInv, Kept
<1>5. QED
  BY <1>1, <1>2, <1>3, <1>4 DEF QueueInv, TablesInv

LEMMA NotifiedEffect ==
    ASSUME QueueInv, NEW e \in Event, Queued(e), Notified(e)
    PROVE  Kept /\ TablesInv' /\ inApp'[e] > 0
<1>1. inApp' = [inApp EXCEPT ![e] = IF inApp[e] < Many THEN inApp[e] + 1 ELSE Many]
  BY DEF Notified
<1>2. /\ inApp' \in [Event -> 0 .. Many] /\ inApp'[e] > 0
      /\ \A f \in Event \ {e} : inApp'[f] = inApp[f]
  BY <1>1 DEF QueueInv, TablesInv, Many
<1>3. dispatch' = dispatch
  BY DEF Notified
<1>4. Kept
  BY <1>2, <1>3 DEF Kept, Queued
<1>5. SentWasDelivered'
  BY <1>2, <1>3, NotificationsAssumption DEF QueueInv, TablesInv, SentWasDelivered, IsSent
<1>6. \A f \in Event : inApp'[f] > 0 => Queued(f)'
  BY <1>2, <1>3 DEF QueueInv, TablesInv, Queued
<1>7. QED
  BY <1>2, <1>3, <1>4, <1>5, <1>6 DEF QueueInv, TablesInv

LEMMA SameTables ==
    ASSUME QueueInv, UNCHANGED <<dispatch, inApp>>
    PROVE  Kept /\ TablesInv'
BY DEF QueueInv, TablesInv, SentWasDelivered, IsSent, Kept, Queued

\* Steps of the table alone leave every job as it is.
LEMMA TableStep == ASSUME QueueInv, Kept, TablesInv', UNCHANGED worker PROVE QueueInv'
BY KeptJob DEF QueueInv

LEMMA QueueTableStep ==
    ASSUME QueueInv, NEW e \in Event, Enqueue(e) \/ RetryDue(e) \/ LeaseEnds(e)
    PROVE  QueueInv' /\ Kept
<1>1. dispatch[e] \in Row
  BY DEF QueueInv, TablesInv
<1>2. CASE Enqueue(e)
  <2>1. NewDispatch \in Row /\ NewDispatch.status = "PENDING"
    BY DEF NewDispatch, Row, DispatchStatus
  <2>2. QED
    BY <1>2, <2>1, WriteEffect, TableStep DEF Enqueue
<1>3. CASE RetryDue(e)
  <2>1. PICK row : row = [dispatch[e] EXCEPT !.due = TRUE]
    OBVIOUS
  <2>2. row \in Row /\ row.status = "FAILED" /\ dispatch' = [dispatch EXCEPT ![e] = row]
    BY <1>1, <1>3, <2>1 DEF RetryDue, Row
  <2>3. QED
    BY <1>3, <2>2, WriteEffect, TableStep DEF RetryDue
<1>4. CASE LeaseEnds(e)
  <2>1. PICK row : row = [dispatch[e] EXCEPT !.expired = TRUE]
    OBVIOUS
  <2>2. row \in Row /\ row.status = "PROCESSING" /\ dispatch' = [dispatch EXCEPT ![e] = row]
    BY <1>1, <1>4, <2>1 DEF LeaseEnds, Row
  <2>3. QED
    BY <1>4, <2>2, WriteEffect, TableStep DEF LeaseEnds
<1>5. QED
  BY <1>2, <1>3, <1>4

\* What a busy worker holds.
LEMMA HeldRow ==
    ASSUME QueueInv, NEW w \in Worker, worker[w].pc \in Busy
    PROVE  /\ worker[w].batch \in SUBSET Event /\ \A f \in worker[w].batch : Queued(f)
           /\ worker[w].event \in Event /\ Queued(worker[w].event)
           /\ worker[w].pc \in {"channels", "succeed"} /\ worker[w].event \in Addressed
                  => inApp[worker[w].event] > 0
<1>1. worker[w] \in Job /\ JobBacked(worker[w])
  BY DEF QueueInv
<1>2. QED
  BY <1>1 DEF Job, Idle, JobBacked, Busy

LEMMA ClaimStep ==
    ASSUME QueueInv, NEW w \in Worker, NEW e \in Event, Claim(w, e)
    PROVE  QueueInv' /\ Kept
<1>1. worker[w] \in Job /\ JobBacked(worker[w]) /\ dispatch[e] \in Row
  BY DEF QueueInv, TablesInv
<1>2. worker[w].batch \in SUBSET Event /\ \A f \in worker[w].batch : Queued(f)
  BY <1>1 DEF Job, Idle, JobBacked
<1>3. PICK row : row = [dispatch[e] EXCEPT !.status = "PROCESSING", !.expired = FALSE]
  OBVIOUS
<1>4. row \in Row /\ row.status = "PROCESSING" /\ dispatch' = [dispatch EXCEPT ![e] = row]
  BY <1>1, <1>3 DEF Claim, Row, DispatchStatus, QueueInv, TablesInv
<1>5. Kept /\ TablesInv'
  BY <1>4, WriteEffect DEF Claim
<1>6. PICK job : job = [pc |-> "deliver", batch |-> worker[w].batch \ {e}, event |-> e]
  OBVIOUS
<1>7. job \in Job
  BY <1>2, <1>6 DEF Job
<1>8. Queued(e)
  BY <1>2 DEF Claim
<1>9. JobBacked(job)'
  BY <1>2, <1>5, <1>6, <1>8 DEF JobBacked, Kept
<1>10. worker' = [worker EXCEPT ![w] = job]
  BY <1>6 DEF Claim
<1>11. QED
  BY <1>5, <1>7, <1>9, <1>10, JobStep

LEMMA SkipStep ==
    ASSUME QueueInv, NEW w \in Worker, NEW e \in Event, Skip(w, e)
    PROVE  QueueInv' /\ Kept
<1>1. worker[w] \in Job /\ JobBacked(worker[w])
  BY DEF QueueInv
<1>2. worker[w].batch \in SUBSET Event /\ \A f \in worker[w].batch : Queued(f)
  BY <1>1 DEF Job, Idle, JobBacked
<1>3. Kept /\ TablesInv'
  BY SameTables DEF Skip
<1>4. QED
  BY <1>2, <1>3, ContinueStep DEF Skip

LEMMA DeliverStep ==
    ASSUME QueueInv, NEW w \in Worker, NEW e \in Event, Deliver(w, e) \/ Channels(w, e)
    PROVE  QueueInv' /\ Kept
<1>1. worker[w].pc \in Busy /\ worker[w].event = e
  BY DEF Deliver, Channels, At, Holds, Busy
<1>2. Queued(e) /\ (worker[w].pc = "channels" /\ e \in Addressed => inApp[e] > 0)
  BY <1>1, HeldRow
<1>3. CASE Notified(e) /\ Goto(w, "channels")
  BY <1>1, <1>2, <1>3, NotifiedEffect, GotoStep DEF Busy
<1>4. CASE /\ e \notin Addressed \/ worker[w].pc = "channels"
           /\ Goto(w, "succeed") /\ UNCHANGED <<dispatch, inApp>>
  <2>1. Kept /\ TablesInv'
    BY <1>4, SameTables
  <2>2. e \in Addressed => inApp'[e] > 0
    BY <1>2, <1>4
  <2>3. QED
    BY <1>1, <1>4, <2>1, <2>2, GotoStep DEF Busy
<1>5. QED
  BY <1>3, <1>4 DEF Deliver, Channels, At

LEMMA SettleStep ==
    ASSUME QueueInv, NEW w \in Worker, NEW e \in Event, MarkSucceeded(w, e) \/ MarkFailed(w, e)
    PROVE  QueueInv' /\ Kept
<1>1. worker[w].pc \in Busy /\ worker[w].event = e
  BY DEF MarkSucceeded, MarkFailed, At, Holds, Busy
<1>2. /\ worker[w].batch \in SUBSET Event /\ \A f \in worker[w].batch : Queued(f)
      /\ worker[w].pc = "succeed" /\ e \in Addressed => inApp[e] > 0
  BY <1>1, HeldRow
<1>3. PICK row : row = [status |-> IF worker[w].pc = "succeed" THEN "SENT" ELSE "FAILED",
                        due |-> worker[w].pc = "succeed", expired |-> FALSE]
  OBVIOUS
<1>4. row \in Row /\ row.status # "ABSENT"
  BY <1>3 DEF Row, DispatchStatus
<1>5. dispatch' = [dispatch EXCEPT ![e] = row] /\ UNCHANGED inApp
  BY <1>3 DEF MarkSucceeded, MarkedSent, MarkFailed, At
<1>6. row.status = "SENT" /\ e \in Addressed => inApp[e] > 0
  BY <1>2, <1>3
<1>7. Kept /\ TablesInv'
  BY <1>4, <1>5, <1>6, WriteEffect
<1>8. Continue(w, worker[w].batch)
  BY DEF MarkSucceeded, MarkFailed
<1>9. QED
  BY <1>2, <1>7, <1>8, ContinueStep

LEMMA LostAnswerStep ==
    ASSUME QueueInv, NEW w \in Worker, NEW e \in Event, LostAnswer(w, e)
    PROVE  QueueInv' /\ Kept
<1>1. worker[w].pc \in Busy /\ worker[w].event = e /\ Goto(w, "fail")
  BY DEF LostAnswer, At, Holds, Busy
<1>2. Queued(e) /\ (worker[w].pc = "succeed" /\ e \in Addressed => inApp[e] > 0)
  BY <1>1, HeldRow
<1>3. CASE Notified(e)
  BY <1>1, <1>2, <1>3, NotifiedEffect, GotoStep DEF Busy
<1>4. CASE At(w, "succeed") /\ MarkedSent(e)
  <2>1. [status |-> "SENT", due |-> TRUE, expired |-> FALSE] \in Row
    BY DEF Row, DispatchStatus
  <2>2. Kept /\ TablesInv'
    BY <1>2, <1>4, <2>1, WriteEffect DEF MarkedSent, At
  <2>3. QED
    BY <1>1, <2>2, GotoStep DEF Busy
<1>5. QED
  BY <1>3, <1>4 DEF LostAnswer

LEMMA QueueStep == QueueInv /\ [Next]_vars => QueueInv' /\ Kept
<1> SUFFICES ASSUME QueueInv, [Next]_vars PROVE QueueInv' /\ Kept
  OBVIOUS
<1>1. ASSUME NEW w \in Worker, FindReady(w) PROVE QueueInv' /\ Kept
  <2>1. Ready \in SUBSET Event /\ \A e \in Ready : Queued(e)
    BY DEF Ready, Stale, Queued
  <2>2. Kept /\ TablesInv'
    BY <1>1, SameTables DEF FindReady
  <2>3. QED
    BY <1>1, <2>1, <2>2, ContinueStep DEF FindReady
<1>2. ASSUME NEW w \in Worker, Throw(w) PROVE QueueInv' /\ Kept
  BY <1>2, SameTables, GotoStep DEF Throw, Busy
<1>3. ASSUME NEW w \in Worker, Stop(w) PROVE QueueInv' /\ Kept
  <2>1. Kept /\ TablesInv'
    BY <1>3, SameTables DEF Stop
  <2>2. Continue(w, {})
    BY <1>3 DEF Continue, Stop
  <2>3. QED
    BY <2>1, <2>2, ContinueStep
<1>4. CASE UNCHANGED vars
  BY <1>4, SameTables, TableStep DEF vars
<1>5. QED
  BY <1>1, <1>2, <1>3, <1>4, QueueTableStep, ClaimStep, SkipStep, DeliverStep, SettleStep,
     LostAnswerStep DEF Next, Work, Step, Progress

THEOREM QueueInvariant == Spec => []QueueInv
BY QueueInit, QueueStep, PTL DEF Spec

\* Every queue row, in-app count and job keeps its type, for any number of rows and
\* workers.
THEOREM QueueTypeCorrect == Spec => []TypeOK
<1>1. QueueInv => TypeOK
  BY DEF QueueInv, TablesInv, TypeOK, Row
<1>2. QED
  BY <1>1, QueueInvariant, PTL

\* A row is SENT only after its user was notified, although markSucceeded and
\* markFailed write by id and workers overrun their leases.
THEOREM SentWasDeliveredHolds == Spec => []SentWasDelivered
<1>1. QueueInv => SentWasDelivered
  BY DEF QueueInv, TablesInv
<1>2. QED
  BY <1>1, QueueInvariant, PTL

(***************************************************************************)
(* The queue keeps the safety half of AtLeastOnce: queueing an addressed   *)
(* event is Accept, its in-app row is Deliver, everything else is          *)
(* invisible.                                                              *)
(***************************************************************************)
Accepted == {e \in Addressed : Queued(e)}
Delivered == {e \in Addressed : inApp[e] > 0}

LEMMA Invisible ==
    ASSUME UNCHANGED inApp, \A e \in Event : Queued(e)' <=> Queued(e)
    PROVE  UNCHANGED <<Accepted, Delivered>>
BY NotificationsAssumption DEF Accepted, Delivered

LEMMA NotifiedVisible ==
    ASSUME QueueInv, NEW e \in Addressed, Queued(e), Notified(e)
    PROVE  Channel!Deliver(e)
<1>1. inApp' = [inApp EXCEPT ![e] = IF inApp[e] < Many THEN inApp[e] + 1 ELSE Many]
  BY DEF Notified
<1>2. Delivered' = Delivered \cup {e}
  BY <1>1, NotificationsAssumption DEF QueueInv, TablesInv, Many, Delivered
<1>3. Accepted' = Accepted
  BY DEF Notified, Accepted, Queued
<1>4. QED
  BY <1>2, <1>3 DEF Channel!Deliver, Accepted, Delivered

LEMMA EnqueueVisible ==
    ASSUME QueueInv, NEW e \in Event, Enqueue(e)
    PROVE  Channel!Next \/ UNCHANGED <<Accepted, Delivered>>
<1>1. Delivered' = Delivered
  BY DEF Enqueue, Delivered
<1>2. \A f \in Event : Queued(f)' <=> Queued(f) \/ f = e
  BY DEF Enqueue, Queued, NewDispatch, QueueInv, TablesInv
<1>3. CASE e \in Addressed
  <2>1. Accepted' = Accepted \cup {e}
    BY <1>2, <1>3, NotificationsAssumption DEF Accepted
  <2>2. QED
    BY <1>1, <1>3, <2>1 DEF Channel!Next, Channel!Accept, Accepted, Delivered
<1>4. CASE e \notin Addressed
  BY <1>1, <1>2, <1>4, NotificationsAssumption DEF Accepted
<1>5. QED
  BY <1>3, <1>4

\* A worker's step with an event: an in-app row, or a write to a queued row.
LEMMA WorkVisible ==
    ASSUME QueueInv, NEW w \in Worker, NEW e \in Event, Progress(w, e) \/ LostAnswer(w, e)
    PROVE  Channel!Next \/ UNCHANGED <<Accepted, Delivered>>
<1>1. CASE e \in Addressed /\ At(w, "deliver") /\ Holds(w, e) /\ Notified(e)
  BY <1>1, HeldRow, NotifiedVisible DEF At, Holds, Busy, Channel!Next
<1>2. CASE UNCHANGED <<dispatch, inApp>>
  BY <1>2, Invisible DEF Queued
<1>3. ASSUME Queued(e), NEW row, row.status # "ABSENT",
             dispatch' = [dispatch EXCEPT ![e] = row], UNCHANGED inApp
      PROVE  UNCHANGED <<Accepted, Delivered>>
  BY <1>3, Invisible DEF Queued, QueueInv, TablesInv
<1>4. CASE Claim(w, e)
  <2>1. worker[w] \in Job /\ JobBacked(worker[w])
    BY DEF QueueInv
  <2>2. Queued(e)
    BY <1>4, <2>1 DEF Claim, JobBacked
  <2>3. PICK row : row = [dispatch[e] EXCEPT !.status = "PROCESSING", !.expired = FALSE]
    OBVIOUS
  <2>4. row.status = "PROCESSING"
    BY <2>3 DEF QueueInv, TablesInv, Row
  <2>5. dispatch' = [dispatch EXCEPT ![e] = row] /\ UNCHANGED inApp
    BY <1>4, <2>3 DEF Claim, QueueInv, TablesInv
  <2>6. QED
    BY <1>3, <2>2, <2>4, <2>5
<1>5. CASE MarkedSent(e) /\ (At(w, "succeed") /\ Holds(w, e))
  <2>1. Queued(e)
    BY <1>5, HeldRow DEF At, Holds, Busy
  <2>2. QED
    BY <1>3, <1>5, <2>1 DEF MarkedSent
<1>6. CASE MarkFailed(w, e)
  <2>1. Queued(e)
    BY <1>6, HeldRow DEF MarkFailed, At, Holds, Busy
  <2>2. QED
    BY <1>3, <1>6, <2>1 DEF MarkFailed
<1>7. QED
  BY <1>1, <1>2, <1>4, <1>5, <1>6
     DEF Progress, LostAnswer, Skip, Deliver, Channels, MarkSucceeded, Holds

LEMMA ChannelStep == QueueInv /\ [Next]_vars => [Channel!Next]_<<Accepted, Delivered>>
<1> SUFFICES ASSUME QueueInv, [Next]_vars
             PROVE  Channel!Next \/ UNCHANGED <<Accepted, Delivered>>
  OBVIOUS
<1>1. ASSUME NEW e \in Event, RetryDue(e) \/ LeaseEnds(e)
      PROVE  UNCHANGED <<Accepted, Delivered>>
  <2>1. \A f \in Event : Queued(f)' <=> Queued(f)
    BY <1>1 DEF RetryDue, LeaseEnds, Queued, QueueInv, TablesInv, Row
  <2>2. QED
    BY <1>1, <2>1, Invisible DEF RetryDue, LeaseEnds
<1>2. CASE UNCHANGED <<dispatch, inApp>>
  BY <1>2, Invisible DEF Queued
<1>3. QED
  BY <1>1, <1>2, EnqueueVisible, WorkVisible
     DEF Next, Work, Step, FindReady, Throw, Stop, vars

\* Users are notified only of queued events, and neither a queued event nor a
\* notification disappears: the queue and its workers implement the safety half of
\* AtLeastOnce.
THEOREM OnlyQueuedHolds == Spec => OnlyQueued
<1>1. Init => Channel!Init
  BY NotificationsAssumption DEF Init, Channel!Init, Queued, NoDispatch
<1>2. QueueInv /\ [Next]_vars => [Channel!Next]_Channel!vars
  BY ChannelStep DEF Channel!vars, Accepted, Delivered
<1>3. QED
  BY <1>1, <1>2, QueueInvariant, PTL DEF Spec, OnlyQueued, Channel!Safe

(***************************************************************************)
(* The leases, with any worker overrunning its own.  LeaseInv says what a  *)
(* worker that is not exposed can count on; OnceInv what an event can      *)
(* count on no attempt of which failed or outlived its lease.              *)
(***************************************************************************)
LeaseVars == <<vars, history>>

BusyOn(w, e) == worker[w].pc \in Busy /\ worker[w].event = e

\* The lease of the row is running, unless markSucceeded seemed to fail and markFailed is
\* still to come.
Leased(w) ==
    \/ dispatch[worker[w].event].status = "PROCESSING" /\ ~dispatch[worker[w].event].expired
    \/ w \in unsure /\ worker[w].pc = "fail" /\ IsSent(worker[w].event)

LeaseInv ==
    /\ \A w \in Worker \ exposed : worker[w].pc \in Busy => Leased(w)
    /\ \A e \in Event : \A v, w \in Worker :
        BusyOn(v, e) /\ BusyOn(w, e) /\ v # w => v \in exposed \/ w \in exposed

LEMMA LeaseStart == LeaseInit => LeaseInv
BY DEF LeaseInit, Init, LeaseInv, BusyOn, Idle, Busy

\* Who goes on with its row stays exposed and unsure.
LEMMA Keeping ==
    ASSUME QueueInv, LeaseNext, NEW w \in Worker, worker[w].pc \in Busy,
           worker'[w].event = worker[w].event
    PROVE  /\ w \in exposed => w \in exposed'
           /\ w \in unsure => w \in unsure'
           /\ dispatch'[worker[w].event].expired => w \in exposed'
           /\ \A v \in exposed : Holds(v, worker[w].event) /\ Settles(v) => w \in exposed'
<1>1. Keeps(w)
  BY HeldRow, NotificationsAssumption DEF Keeps
<1>2. QED
  BY <1>1 DEF LeaseNext, Exposed, Unsure

\* A step after which every busy worker was busy with the same row before, and the rows of
\* those not exposed are as they were or leased.
LEMMA QuietStep ==
    ASSUME QueueInv, LeaseInv, LeaseNext,
           \A w \in Worker : worker'[w].pc \in Busy =>
               /\ worker[w].pc \in Busy
               /\ worker'[w].event = worker[w].event
               /\ w \notin exposed \cup exposed' =>
                      \/ Leased(w)'
                      \/ /\ dispatch'[worker[w].event] = dispatch[worker[w].event]
                         /\ worker[w].pc = "fail" => worker'[w].pc = "fail"
    PROVE  LeaseInv'
<1>1. ASSUME NEW w \in Worker, w \notin exposed', worker'[w].pc \in Busy PROVE Leased(w)'
  <2>1. /\ w \notin exposed /\ worker[w].pc \in Busy /\ worker'[w].event = worker[w].event
        /\ w \in unsure => w \in unsure'
    BY <1>1, Keeping
  <2>2. Leased(w)
    BY <2>1 DEF LeaseInv
  <2>3. QED
    BY <1>1, <2>1, <2>2 DEF Leased, IsSent
<1>2. ASSUME NEW e \in Event, NEW v \in Worker, NEW w \in Worker, BusyOn(v, e)', BusyOn(w, e)', v # w
      PROVE  v \in exposed' \/ w \in exposed'
  <2>1. BusyOn(v, e) /\ BusyOn(w, e)
    BY <1>2 DEF BusyOn
  <2>2. v \in exposed \/ w \in exposed
    BY <1>2, <2>1 DEF LeaseInv
  <2>3. QED
    BY <1>2, <2>1, <2>2, Keeping DEF BusyOn
<1>3. QED
  BY <1>1, <1>2 DEF LeaseInv

\* Who is not exposed does not have a row that is new, failed, stale or sent by another.
LEMMA TableLease ==
    ASSUME QueueInv, LeaseInv, LeaseNext, NEW e \in Event,
           Enqueue(e) \/ RetryDue(e) \/ LeaseEnds(e)
    PROVE  LeaseInv'
<1>1. UNCHANGED worker /\ \A f \in Event \ {e} : dispatch'[f] = dispatch[f]
  BY DEF Enqueue, RetryDue, LeaseEnds, QueueInv, TablesInv
<1>2. ASSUME NEW w \in Worker, worker[w].pc \in Busy, w \notin exposed \cup exposed'
      PROVE  worker[w].event # e
  <2>1. Queued(worker[w].event) /\ Leased(w)
    BY <1>2, HeldRow DEF LeaseInv
  <2>2. LeaseEnds(e) => dispatch'[e].expired
    BY DEF LeaseEnds, QueueInv, TablesInv, Row
  <2>3. CASE LeaseEnds(e)
    BY <1>1, <1>2, <2>2, <2>3, Keeping
  <2>4. CASE Enqueue(e) \/ RetryDue(e)
    BY <2>1, <2>4 DEF Enqueue, RetryDue, Leased, IsSent
  <2>5. QED
    BY <2>3, <2>4
<1>3. QED
  BY <1>1, <1>2, QuietStep, HeldRow

LEMMA ClaimLease ==
    ASSUME QueueInv, LeaseInv, LeaseNext, NEW w \in Worker, NEW e \in Event, Claim(w, e)
    PROVE  LeaseInv'
<1>1. ASSUME NEW v \in Worker, BusyOn(v, e) PROVE v \in exposed
  BY <1>1 DEF LeaseInv, Leased, BusyOn, Claim, Claimable, Stale, IsSent
<1>2. /\ worker'[w].pc = "deliver" /\ worker'[w].event = e
      /\ \A v \in Worker \ {w} : worker'[v] = worker[v]
  BY DEF Claim, QueueInv
<1>3. /\ dispatch'[e].status = "PROCESSING" /\ ~dispatch'[e].expired
      /\ \A f \in Event \ {e} : dispatch'[f] = dispatch[f]
  BY DEF Claim, QueueInv, TablesInv, Row
<1>4. ASSUME NEW v \in Worker, v \notin exposed', worker'[v].pc \in Busy PROVE Leased(v)'
  <2>1. CASE v = w
    BY <1>2, <1>3, <2>1 DEF Leased
  <2>2. CASE v # w
    <3>1. /\ v \notin exposed /\ worker[v].pc \in Busy /\ worker'[v] = worker[v]
          /\ v \in unsure => v \in unsure'
      BY <1>2, <1>4, <2>2, Keeping
    <3>2. worker[v].event \in Event \ {e} /\ Leased(v)
      BY <1>1, <3>1, HeldRow DEF LeaseInv, BusyOn
    <3>3. QED
      BY <1>3, <3>1, <3>2 DEF Leased, IsSent
  <2>3. QED
    BY <2>1, <2>2
<1>5. ASSUME NEW f \in Event, NEW v \in Worker, NEW u \in Worker, BusyOn(v, f)', BusyOn(u, f)', v # u
      PROVE  v \in exposed' \/ u \in exposed'
  <2>1. ASSUME NEW x \in Worker \ {w}, BusyOn(x, f)'
        PROVE  BusyOn(x, f) /\ (x \in exposed => x \in exposed')
    BY <1>2, <2>1, Keeping DEF BusyOn
  <2>2. CASE v = w \/ u = w
    <3>1. f = e
      BY <1>2, <1>5, <2>2 DEF BusyOn
    <3>2. QED
      BY <1>1, <1>5, <2>1, <2>2, <3>1
  <2>3. CASE v # w /\ u # w
    BY <1>5, <2>1, <2>3 DEF LeaseInv
  <2>4. QED
    BY <2>2, <2>3
<1>6. QED
  BY <1>4, <1>5 DEF LeaseInv

\* The others on the row of a worker that writes its outcome are exposed afterwards.
LEMMA OthersExposed ==
    ASSUME QueueInv, LeaseInv, LeaseNext, NEW w \in Worker, NEW e \in Event, BusyOn(w, e), Settles(w),
           NEW v \in Worker \ {w}, BusyOn(v, e), worker'[v] = worker[v]
    PROVE  v \in exposed'
<1>1. v \in exposed \/ w \in exposed
  BY DEF LeaseInv
<1>2. QED
  BY <1>1, Keeping DEF BusyOn, Holds

LEMMA SettleLease ==
    ASSUME QueueInv, LeaseInv, LeaseNext, NEW w \in Worker, NEW e \in Event,
           MarkSucceeded(w, e) \/ MarkFailed(w, e)
    PROVE  LeaseInv'
<1>1. BusyOn(w, e) /\ worker[w].pc \in {"succeed", "fail"}
  BY DEF MarkSucceeded, MarkFailed, At, Holds, Busy, BusyOn
<1>2. worker'[w].pc \notin Busy /\ \A v \in Worker \ {w} : worker'[v] = worker[v]
  BY DEF MarkSucceeded, MarkFailed, Continue, QueueInv, Idle, Busy
<1>3. Settles(w)
  BY <1>1, <1>2 DEF Settles, BusyOn
<1>4. \A f \in Event \ {e} : dispatch'[f] = dispatch[f]
  BY DEF MarkSucceeded, MarkedSent, MarkFailed, QueueInv, TablesInv
<1>5. ASSUME NEW v \in Worker, worker'[v].pc \in Busy
      PROVE  /\ worker[v].pc \in Busy /\ worker'[v] = worker[v]
             /\ v \notin exposed' => dispatch'[worker[v].event] = dispatch[worker[v].event]
  <2>1. v # w /\ worker[v].pc \in Busy /\ worker'[v] = worker[v]
    BY <1>2, <1>5
  <2>2. worker[v].event = e => v \in exposed'
    BY <1>1, <1>3, <2>1, OthersExposed DEF BusyOn
  <2>3. worker[v].event \in Event
    BY <2>1, HeldRow
  <2>4. QED
    BY <1>4, <2>1, <2>2, <2>3
<1>6. QED
  BY <1>5, QuietStep

\* Steps of one worker within the try block.
LEMMA GotoLease ==
    ASSUME QueueInv, LeaseInv, LeaseNext, UNCHANGED dispatch, NEW w \in Worker, worker[w].pc \in Busy,
           NEW pc \in Busy, Goto(w, pc), worker[w].pc # "fail"
    PROVE  LeaseInv'
<1>1. /\ worker'[w].event = worker[w].event
      /\ \A v \in Worker \ {w} : worker'[v] = worker[v]
  BY DEF Goto, QueueInv, Job, Idle
<1>2. QED
  BY <1>1, QuietStep

LEMMA LostAnswerLease ==
    ASSUME QueueInv, LeaseInv, LeaseNext, NEW w \in Worker, NEW e \in Event, LostAnswer(w, e)
    PROVE  LeaseInv'
<1>1. CASE At(w, "deliver") /\ Notified(e)
  BY <1>1, GotoLease DEF LostAnswer, At, Notified, Busy
<1>2. CASE At(w, "succeed") /\ MarkedSent(e)
  <2>1. /\ BusyOn(w, e) /\ worker[w].pc = "succeed"
        /\ worker'[w].event = e /\ worker'[w].pc = "fail"
        /\ \A v \in Worker \ {w} : worker'[v] = worker[v]
    BY <1>2 DEF LostAnswer, Holds, At, Goto, QueueInv, Job, Idle, Busy, BusyOn
  <2>2. dispatch'[e].status = "SENT" /\ \A f \in Event \ {e} : dispatch'[f] = dispatch[f]
    BY <1>2 DEF MarkedSent, QueueInv, TablesInv
  <2>3. Settles(w)
    BY <2>1 DEF Settles
  <2>4. Leased(w)'
    <3>1. Keeps(w) /\ At(w, "succeed") /\ IsSent(worker[w].event)'
      BY <1>2, <2>1, <2>2, NotificationsAssumption DEF Keeps, IsSent, BusyOn
    <3>2. w \in unsure'
      BY <2>1, <3>1 DEF LeaseNext, Unsure
    <3>3. QED
      BY <2>1, <2>2, <3>2 DEF Leased, IsSent
  <2>5. ASSUME NEW v \in Worker \ {w}, worker'[v].pc \in Busy
        PROVE  /\ worker[v].pc \in Busy /\ worker'[v] = worker[v]
               /\ v \notin exposed' => dispatch'[worker[v].event] = dispatch[worker[v].event]
    <3>1. worker[v].pc \in Busy /\ worker'[v] = worker[v]
      BY <2>1, <2>5
    <3>2. worker[v].event = e => v \in exposed'
      BY <2>1, <2>3, <3>1, OthersExposed DEF BusyOn
    <3>3. worker[v].event \in Event
      BY <3>1, HeldRow
    <3>4. QED
      BY <2>2, <3>1, <3>2, <3>3
  <2>6. worker[w].pc \in Busy /\ worker'[w].event = worker[w].event
    BY <2>1 DEF BusyOn
  <2>7. QED
    BY <2>4, <2>5, <2>6, QuietStep
<1>3. QED
  BY <1>1, <1>2 DEF LostAnswer

LEMMA LeaseStep == QueueInv /\ LeaseInv /\ [LeaseNext]_LeaseVars => LeaseInv'
<1> SUFFICES ASSUME QueueInv, LeaseInv, [LeaseNext]_LeaseVars PROVE LeaseInv'
  OBVIOUS
<1>1. CASE UNCHANGED LeaseVars
  BY <1>1 DEF LeaseVars, vars, history, LeaseInv, Leased, IsSent, BusyOn
<1>2. CASE LeaseNext
  <2>1. ASSUME NEW w \in Worker, NEW e \in Event, Deliver(w, e) \/ Channels(w, e)
        PROVE  LeaseInv'
    BY <1>2, <2>1, GotoLease DEF Deliver, Channels, At, Notified, Busy
  <2>2. ASSUME NEW w \in Worker, Throw(w) PROVE LeaseInv'
    BY <1>2, <2>2, GotoLease DEF Throw, Busy
  <2>3. ASSUME NEW w \in Worker, NEW batch, Continue(w, batch), UNCHANGED dispatch
        PROVE  LeaseInv'
    <3>1. worker'[w].pc \notin Busy /\ \A v \in Worker \ {w} : worker'[v] = worker[v]
      BY <2>3 DEF Continue, QueueInv, Idle, Busy
    <3>2. QED
      BY <1>2, <2>3, <3>1, QuietStep
  <2>4. ASSUME NEW w \in Worker, Stop(w) PROVE LeaseInv'
    <3>1. Continue(w, {})
      BY <2>4 DEF Stop, Continue
    <3>2. QED
      BY <2>3, <2>4, <3>1 DEF Stop
  <2>5. QED
    BY <1>2, <2>1, <2>2, <2>3, <2>4, TableLease, ClaimLease, SettleLease, LostAnswerLease
       DEF LeaseNext, Next, Work, Step, Progress, FindReady, Skip
<1>3. QED
  BY <1>1, <1>2

LEMMA QueueOfLeases == LeaseSpec => []QueueInv
<1>1. LeaseInit => Init
  BY DEF LeaseInit
<1>2. [LeaseNext]_LeaseVars => [Next]_vars
  BY DEF LeaseNext, LeaseVars
<1>3. QED
  BY <1>1, <1>2, QueueInit, QueueStep, PTL DEF LeaseSpec, LeaseVars

THEOREM LeaseInvariant == LeaseSpec => []LeaseInv
BY LeaseStart, LeaseStep, QueueOfLeases, PTL DEF LeaseSpec, LeaseVars

\* Any number of workers with overlapping batches, any of which may outlive its lease, stop or
\* lose an answer: two have one row only if one of them is exposed.
THEOREM OneWorkerPerRowHolds == LeaseSpec => []OneWorkerPerRow
<1>1. QueueInv /\ LeaseInv => OneWorkerPerRow
  <2>1. ASSUME QueueInv, NEW w \in Worker, worker[w].event # NoEvent
        PROVE  worker[w].pc \in Busy /\ worker[w].event \in Event
    BY <2>1 DEF QueueInv, Job, Idle, Busy
  <2>2. QED
    BY <2>1 DEF LeaseInv, OneWorkerPerRow, BusyOn
<1>2. QED
  BY <1>1, QueueOfLeases, LeaseInvariant, PTL

\* Under the same conditions a SENT row is taken up again only by an exposed worker, or by one
\* that was told markSucceeded had failed.
THEOREM SentIsFinalHolds == LeaseSpec => SentIsFinal
<1> DEFINE TakenUp(e) == IsSent(e) /\ ~IsSent(e)'
           ByThem(e) == \E w \in exposed \cup unsure : Holds(w, e) /\ Settles(w)
<1>1. ASSUME QueueInv, LeaseInv, LeaseNext, NEW e \in Event, TakenUp(e)
      PROVE  ByThem(e)
  <2>1. ASSUME NEW w \in Worker, MarkFailed(w, e) PROVE ByThem(e)
    <3>1. worker[w].pc = "fail" /\ Holds(w, e)
      BY <2>1 DEF MarkFailed, At
    <3>2. w \in exposed \cup unsure
      BY <1>1, <3>1 DEF LeaseInv, Leased, Holds, IsSent, Busy
    <3>3. worker'[w].pc # "fail"
      BY <1>1, <2>1 DEF MarkFailed, Continue, QueueInv, Idle
    <3>4. QED
      BY <3>1, <3>2, <3>3 DEF Settles
  <2>2. ASSUME NEW w \in Worker, NEW f \in Event,
               MarkSucceeded(w, f) \/ Claim(w, f) \/ LostAnswer(w, f) \/ (MarkFailed(w, f) /\ f # e)
        PROVE  FALSE
    BY <1>1, <2>2
       DEF MarkSucceeded, MarkedSent, MarkFailed, Claim, Claimable, Stale, LostAnswer, Notified, IsSent,
           QueueInv, TablesInv
  <2>3. ASSUME NEW f \in Event, Enqueue(f) \/ RetryDue(f) \/ LeaseEnds(f)
        PROVE  FALSE
    BY <1>1, <2>3 DEF Enqueue, RetryDue, LeaseEnds, Queued, IsSent, QueueInv, TablesInv
  <2>4. CASE UNCHANGED dispatch
    BY <1>1, <2>4 DEF IsSent
  <2>5. QED
    BY <1>1, <2>1, <2>2, <2>3, <2>4
       DEF LeaseNext, Next, Work, Step, Progress, FindReady, Skip, Deliver, Notified, Channels, Throw, Stop
<1>2. QueueInv /\ LeaseInv /\ [LeaseNext]_LeaseVars
          => [\A e \in Event : IsSent(e) /\ ~IsSent(e)' =>
                 \E w \in exposed \cup unsure : Holds(w, e) /\ Settles(w)]_vars
  BY <1>1 DEF LeaseVars
<1>3. QED
  BY <1>2, QueueOfLeases, LeaseInvariant, PTL DEF LeaseSpec, SentIsFinal, LeaseVars

(***************************************************************************)
(* Notified once.                                                          *)
(***************************************************************************)
OnceOf(e) ==
    /\ dispatch[e].status # "FAILED" /\ ~dispatch[e].expired /\ inApp[e] <= 1
    /\ dispatch[e].status \in {"ABSENT", "PENDING"} =>
           inApp[e] = 0 /\ \A w \in Worker : ~BusyOn(w, e)
    /\ \A v, w \in Worker : BusyOn(v, e) /\ BusyOn(w, e) => v = w
    /\ \A w \in Worker : BusyOn(w, e) /\ worker[w].pc = "deliver" => inApp[e] = 0

OnceInv == \A e \in Event \ retried : OnceOf(e)

LEMMA OnceStart == LeaseInit => OnceInv
BY DEF LeaseInit, Init, OnceInv, OnceOf, BusyOn, Idle, NoDispatch, Busy

\* Nothing happens to the event, or somebody lets go of it or comes further with it.
LEMMA OnceKept ==
    ASSUME NEW e \in Event, OnceOf(e), inApp'[e] = inApp[e],
           dispatch'[e].status # "FAILED" /\ ~dispatch'[e].expired,
           dispatch'[e].status \in {"ABSENT", "PENDING"} => dispatch[e].status \in {"ABSENT", "PENDING"},
           \A w \in Worker : BusyOn(w, e)' =>
               BusyOn(w, e) /\ (worker'[w].pc = "deliver" => worker[w].pc = "deliver")
    PROVE  OnceOf(e)'
BY DEF OnceOf

\* A worker's step with its own row.
LEMMA OnceWork ==
    ASSUME QueueInv, NEW e \in Event, OnceOf(e), dispatch'[e].status # "FAILED", ~dispatch'[e].expired,
           NEW w \in Worker, NEW f \in Event, Progress(w, f) \/ LostAnswer(w, f)
    PROVE  OnceOf(e)'
<1>1. \A v \in Worker \ {w} : BusyOn(v, e)' <=> BusyOn(v, e)
  BY DEF Progress, Claim, Skip, Deliver, Channels, MarkSucceeded, MarkFailed, LostAnswer, Goto, Continue,
         QueueInv, BusyOn
<1>2. \A v \in Worker \ {w} : worker'[v] = worker[v]
  BY DEF Progress, Claim, Skip, Deliver, Channels, MarkSucceeded, MarkFailed, LostAnswer, Goto, Continue,
         QueueInv
<1>3. CASE Claim(w, f)
  <2>1. /\ worker'[w].event = f /\ inApp' = inApp
        /\ f = e => dispatch[e].status = "PENDING" /\ dispatch'[e].status = "PROCESSING"
        /\ f # e => dispatch'[e] = dispatch[e]
    BY <1>3 DEF Claim, Claimable, Stale, OnceOf, QueueInv, TablesInv, Row
  <2>2. CASE f = e
    <3>1. inApp[e] = 0 /\ \A v \in Worker : ~BusyOn(v, e)
      BY <2>1, <2>2 DEF OnceOf
    <3>2. \A v \in Worker : BusyOn(v, e)' => v = w
      BY <1>1, <3>1
    <3>3. QED
      BY <2>1, <2>2, <3>1, <3>2 DEF OnceOf
  <2>3. CASE f # e
    <3>1. \A v \in Worker : BusyOn(v, e)' => BusyOn(v, e) /\ worker'[v] = worker[v]
      BY <1>1, <1>2, <2>1, <2>3 DEF BusyOn
    <3>2. QED
      BY <2>1, <2>3, <3>1, OnceKept
  <2>4. QED
    BY <2>2, <2>3
<1>4. CASE Notified(f) /\ At(w, "deliver") /\ Holds(w, f) /\ Goto(w, worker'[w].pc)
           /\ worker'[w].pc \in Busy \ {"deliver"}
  <2>1. BusyOn(w, f) /\ worker[w].pc = "deliver" /\ UNCHANGED dispatch /\ worker'[w].event = f
    BY <1>4 DEF Notified, At, Holds, BusyOn, Busy, Goto, QueueInv, Job, Idle
  <2>2. CASE f = e
    <3>1. inApp[e] = 0 /\ \A v \in Worker : BusyOn(v, e) => v = w
      BY <2>1, <2>2 DEF OnceOf
    <3>2. inApp'[e] = 1
      BY <1>4, <2>2, <3>1 DEF Notified, Many, QueueInv, TablesInv
    <3>3. \A v \in Worker : BusyOn(v, e)' => v = w
      BY <1>1, <3>1
    <3>4. dispatch'[e].status \notin {"ABSENT", "PENDING"}
      BY <2>1, <2>2 DEF OnceOf
    <3>5. QED
      BY <1>4, <3>2, <3>3, <3>4 DEF OnceOf
  <2>3. CASE f # e
    <3>1. inApp'[e] = inApp[e]
      BY <1>4, <2>3 DEF Notified, QueueInv, TablesInv
    <3>2. \A v \in Worker : BusyOn(v, e)' => BusyOn(v, e) /\ worker'[v] = worker[v]
      BY <1>1, <1>2, <2>1, <2>3 DEF BusyOn
    <3>3. QED
      BY <2>1, <3>1, <3>2, OnceKept
  <2>4. QED
    BY <2>2, <2>3
<1>5. CASE /\ UNCHANGED inApp
           /\ dispatch'[e].status \in {"ABSENT", "PENDING"} => dispatch[e].status \in {"ABSENT", "PENDING"}
           /\ worker'[w].pc \in Busy => worker[w].pc \in Busy /\ worker'[w].event = worker[w].event
           /\ worker'[w].pc # "deliver"
  <2>1. \A v \in Worker : BusyOn(v, e)' =>
            BusyOn(v, e) /\ (worker'[v].pc = "deliver" => worker[v].pc = "deliver")
    BY <1>1, <1>2, <1>5 DEF BusyOn
  <2>2. QED
    BY <1>5, <2>1, OnceKept
<1>6. ASSUME Skip(w, f) \/ MarkSucceeded(w, f) \/ MarkFailed(w, f)
      PROVE  OnceOf(e)'
  <2>1. worker'[w].pc \notin Busy /\ UNCHANGED inApp
    BY <1>6 DEF Skip, MarkSucceeded, MarkedSent, MarkFailed, Continue, QueueInv, Idle, Busy
  <2>2. dispatch'[e].status \in {"ABSENT", "PENDING"} => dispatch[e].status \in {"ABSENT", "PENDING"}
    BY <1>6 DEF Skip, MarkSucceeded, MarkedSent, MarkFailed, QueueInv, TablesInv
  <2>3. QED
    BY <1>5, <2>1, <2>2 DEF Busy
<1>7. ASSUME NEW pc \in {"succeed", "fail"}, worker[w].pc \in Busy, Goto(w, pc), UNCHANGED inApp,
             UNCHANGED dispatch \/ MarkedSent(f)
      PROVE  OnceOf(e)'
  <2>1. worker'[w].pc = pc /\ worker'[w].event = worker[w].event
    BY <1>7 DEF Goto, QueueInv, Job, Idle, Busy
  <2>2. dispatch'[e].status \in {"ABSENT", "PENDING"} => dispatch[e].status \in {"ABSENT", "PENDING"}
    BY <1>7 DEF MarkedSent, QueueInv, TablesInv
  <2>3. QED
    BY <1>5, <1>7, <2>1, <2>2
<1>8. CASE Deliver(w, f) \/ Channels(w, f) \/ LostAnswer(w, f)
  <2>1. worker[w].pc \in Busy
    BY <1>8 DEF Deliver, Channels, LostAnswer, At, Busy
  <2>2. ASSUME NEW pc \in Busy, Goto(w, pc) PROVE worker'[w].pc = pc
    BY <2>1, <2>2 DEF Goto, QueueInv, Job, Idle, Busy
  <2>3. CASE Notified(f) /\ At(w, "deliver")
    BY <1>4, <1>8, <2>2, <2>3 DEF Deliver, Channels, LostAnswer, At, Busy
  <2>4. CASE ~(Notified(f) /\ At(w, "deliver"))
    BY <1>7, <1>8, <2>1, <2>4 DEF Deliver, Channels, LostAnswer, MarkedSent
  <2>5. QED
    BY <2>3, <2>4
<1>9. QED
  BY <1>3, <1>6, <1>8 DEF Progress

LEMMA OnceStep == QueueInv /\ OnceInv /\ [LeaseNext]_LeaseVars => OnceInv'
<1> SUFFICES ASSUME QueueInv, OnceInv, [LeaseNext]_LeaseVars, NEW e \in Event, e \notin retried'
             PROVE  OnceOf(e)'
  BY DEF OnceInv
<1>1. CASE UNCHANGED LeaseVars
  BY <1>1 DEF LeaseVars, vars, history, OnceInv, OnceOf, BusyOn
<1>2. CASE LeaseNext
  <2>1. OnceOf(e) /\ dispatch'[e].status # "FAILED" /\ ~dispatch'[e].expired
    BY <1>2 DEF LeaseNext, Retried, OnceInv
  <2>2. ASSUME NEW w \in Worker, NEW batch, Continue(w, batch), UNCHANGED <<dispatch, inApp>>
        PROVE  OnceOf(e)'
    <3>1. worker'[w].pc \notin Busy /\ \A v \in Worker \ {w} : worker'[v] = worker[v]
      BY <2>2 DEF Continue, QueueInv, Idle, Busy
    <3>2. \A v \in Worker : BusyOn(v, e)' => BusyOn(v, e) /\ worker'[v] = worker[v]
      BY <3>1 DEF BusyOn
    <3>3. QED
      BY <2>1, <2>2, <3>2, OnceKept
  <2>3. ASSUME NEW w \in Worker, Stop(w) PROVE OnceOf(e)'
    <3>1. Continue(w, {})
      BY <2>3 DEF Stop, Continue
    <3>2. QED
      BY <2>2, <2>3, <3>1 DEF Stop
  <2>4. ASSUME NEW w \in Worker, Throw(w) PROVE OnceOf(e)'
    <3>1. worker'[w].pc = "fail" /\ worker'[w].event = worker[w].event /\ worker[w].pc \in Busy
          /\ \A v \in Worker \ {w} : worker'[v] = worker[v]
      BY <2>4 DEF Throw, Goto, QueueInv, Job, Idle, Busy
    <3>2. \A v \in Worker : BusyOn(v, e)' =>
              BusyOn(v, e) /\ (worker'[v].pc = "deliver" => worker[v].pc = "deliver")
      BY <3>1 DEF BusyOn
    <3>3. QED
      BY <2>1, <2>4, <3>2, OnceKept DEF Throw
  <2>5. ASSUME NEW f \in Event, Enqueue(f) \/ RetryDue(f) \/ LeaseEnds(f)
        PROVE  OnceOf(e)'
    <3>1. /\ UNCHANGED <<worker, inApp>>
          /\ dispatch'[e].status \in {"ABSENT", "PENDING"} => dispatch[e].status \in {"ABSENT", "PENDING"}
      BY <2>5 DEF Enqueue, Queued, RetryDue, LeaseEnds, QueueInv, TablesInv, Row
    <3>2. QED
      BY <2>1, <3>1, OnceKept DEF BusyOn
  <2>6. QED
    BY <1>2, <2>1, <2>2, <2>3, <2>4, <2>5, OnceWork
       DEF LeaseNext, Next, Work, Step, FindReady
<1>3. QED
  BY <1>1, <1>2

\* However many workers with old batches there are, and however often they stop: a user hears
\* twice of an event only after an attempt of it failed or outlived its lease.
THEOREM NotifiedOnceHolds == LeaseSpec => []NotifiedOnce
<1>1. QueueInv /\ OnceInv => NotifiedOnce
  BY DEF QueueInv, TablesInv, OnceInv, OnceOf, NotifiedOnce, Many
<1>2. QED
  BY <1>1, OnceStart, OnceStep, QueueOfLeases, PTL DEF LeaseSpec, LeaseVars

(***************************************************************************)
(* EventPipeline: to the workers the publishers are Enqueue.               *)
(***************************************************************************)
Rows == queue = [e \in Message |-> queue[e]]

LEMMA PublisherStep ==
    ASSUME Rows, Pipe!Pub!Next, UNCHANGED <<sender, shown>>
    PROVE  Pipe!Ntf!Next \/ UNCHANGED Pipe!Ntf!vars
<1>1. ASSUME NEW e \in Message, Pipe!Pub!Enqueued(e)
      PROVE  Pipe!Ntf!Next \/ UNCHANGED queue
  <2>1. CASE Pipe!Pub!Queued(e)
    BY <1>1, <2>1 DEF Rows, Pipe!Pub!Enqueued
  <2>2. CASE ~Pipe!Pub!Queued(e)
    <3>1. Pipe!Ntf!Enqueue(e)
      BY <1>1, <2>2 DEF Pipe!Pub!Enqueued, Pipe!Pub!Queued, Pipe!Pub!NewDispatch, Pipe!Ntf!Enqueue,
                        Pipe!Ntf!Queued, Pipe!Ntf!NewDispatch
    <3>2. QED
      BY <3>1 DEF Pipe!Ntf!Next
  <2>3. QED
    BY <2>1, <2>2
<1>2. Pipe!Ntf!Next \/ UNCHANGED queue
  BY <1>1
     DEF Pipe!Pub!Next, Pipe!Pub!Create, Pipe!Pub!RetryDue, Pipe!Pub!Step, Pipe!Pub!Stop, Pipe!Pub!FindPending,
         Pipe!Pub!Progress, Pipe!Pub!Publish, Pipe!Pub!Sent, Pipe!Pub!MarkPublished, Pipe!Pub!MarkedPublished,
         Pipe!Pub!Enqueue, Pipe!Pub!MarkFailed, Pipe!Pub!LostAnswer, Pipe!Pub!Throw
<1>3. QED
  BY <1>2 DEF Pipe!Ntf!vars

LEMMA PipeStep == Rows /\ [Pipe!Next]_(Pipe!vars) => [Pipe!Ntf!Next]_(Pipe!Ntf!vars)
<1> SUFFICES ASSUME Rows, [Pipe!Next]_(Pipe!vars) PROVE [Pipe!Ntf!Next]_(Pipe!Ntf!vars)
  OBVIOUS
<1>1. CASE Pipe!Pub!Next /\ UNCHANGED <<sender, shown>>
  BY <1>1, PublisherStep
<1>2. CASE Pipe!Ntf!Work
  BY <1>2 DEF Pipe!Ntf!Next
<1>3. CASE UNCHANGED Pipe!vars
  BY <1>3 DEF Pipe!vars, Pipe!Ntf!vars
<1>4. QED
  BY <1>1, <1>2, <1>3 DEF Pipe!Next

LEMMA RowsInvariant == Pipe!Spec => []Rows
<1>1. Pipe!Init => Rows
  BY DEF Pipe!Init, Pipe!Ntf!Init, Rows
<1>2. Rows /\ [Pipe!Ntf!Next]_(Pipe!Ntf!vars) => Rows'
  <2> SUFFICES ASSUME Rows, [Pipe!Ntf!Next]_(Pipe!Ntf!vars) PROVE Rows'
    OBVIOUS
  <2>1. ASSUME NEW e, NEW row, queue' = [queue EXCEPT ![e] = row] PROVE Rows'
    BY <2>1 DEF Rows
  <2>2. CASE UNCHANGED queue
    BY <2>2 DEF Rows
  <2>3. ASSUME NEW e, Pipe!Ntf!Enqueue(e) \/ Pipe!Ntf!RetryDue(e) \/ Pipe!Ntf!LeaseEnds(e) PROVE Rows'
    BY <2>3 DEF Rows, Pipe!Ntf!Enqueue, Pipe!Ntf!RetryDue, Pipe!Ntf!LeaseEnds
  <2>4. ASSUME NEW w, NEW e,
               \/ Pipe!Ntf!Claim(w, e) \/ Pipe!Ntf!MarkSucceeded(w, e) \/ Pipe!Ntf!MarkFailed(w, e)
               \/ Pipe!Ntf!MarkedSent(e)
        PROVE  Rows'
    BY <2>4 DEF Rows, Pipe!Ntf!Claim, Pipe!Ntf!MarkSucceeded, Pipe!Ntf!MarkFailed, Pipe!Ntf!MarkedSent
  <2>5. QED
    BY <2>2, <2>3, <2>4
       DEF Pipe!Ntf!Next, Pipe!Ntf!Work, Pipe!Ntf!Step, Pipe!Ntf!Progress, Pipe!Ntf!FindReady, Pipe!Ntf!Skip,
           Pipe!Ntf!Deliver, Pipe!Ntf!Notified, Pipe!Ntf!Channels, Pipe!Ntf!LostAnswer, Pipe!Ntf!Throw,
           Pipe!Ntf!Stop, Pipe!Ntf!vars
<1>3. QED
  BY <1>1, <1>2, PipeStep, PTL DEF Pipe!Spec

\* Publishers with any faults, any number of them, are to the workers no more than the queue's
\* own Enqueue, so that all the above holds of the workers behind them.
THEOREM PublishersKeepTheQueueHolds == Pipe!Spec => PublishersKeepTheQueue
<1>1. Pipe!Init => Pipe!Ntf!Init
  BY DEF Pipe!Init
<1>2. QED
  BY <1>1, PipeStep, RowsInvariant, PTL
     DEF Pipe!Spec, PublishersKeepTheQueue, Pipe!PublishersKeepTheQueue, Pipe!Ntf!Spec
=============================================================================
