--------------------------- MODULE Notifications ---------------------------
(***************************************************************************)
(* The notification queue (libs/notifications) and the processes that work *)
(* it off (apps/worker-notifications).                                     *)
(*                                                                         *)
(* A worker leases a row by a conditional update (markProcessing), calls   *)
(* the delivery service and writes the outcome without looking at the row  *)
(* again.  The lease of a row ends five minutes after it was taken.  Every *)
(* await the worker's outcome depends on is a step; a call may throw       *)
(* before or after its effect, and a worker may stop anywhere.             *)
(***************************************************************************)
EXTENDS FiniteSets, Integers

CONSTANTS
    Event,          \* event keys
    Supported,      \* events some notification handler exists for
    Addressed,      \* events whose handler names an existing user
    Worker,         \* processes that run worker-notifications
    Slow,           \* workers that may hold a row longer than its lease
    Faults,         \* what may go wrong: "throw", "lostAnswer", "stop"
    NoEvent         \* a worker that holds no row

ASSUME NotificationsAssumption ==
    /\ Addressed \subseteq Supported
    /\ Supported \subseteq Event
    /\ Slow \subseteq Worker
    /\ NoEvent \notin Event

VARIABLES
    dispatch,       \* NotificationDispatch rows
    worker,         \* where each worker is, its batch and its event
    inApp           \* in-app Notification rows of each event, up to Many

vars == <<dispatch, worker, inApp>>

DispatchStatus == {"PENDING", "PROCESSING", "SENT", "FAILED"}

\* Bound: two rows or more of one event are not told apart.
Many == 2

NoDispatch == [status |-> "ABSENT", due |-> TRUE, expired |-> FALSE]
NewDispatch == [status |-> "PENDING", due |-> TRUE, expired |-> FALSE]
Idle == [pc |-> "idle", batch |-> {}, event |-> NoEvent]
Job ==
    {Idle}
    \cup [pc : {"claim"}, batch : (SUBSET Event) \ {{}}, event : {NoEvent}]
    \cup [pc : {"deliver", "channels", "succeed", "fail"}, batch : SUBSET Event, event : Event]

Queued(e) == dispatch[e].status # "ABSENT"
IsSent(e) == dispatch[e].status = "SENT"

\* The lease of a row ends: processingStartedAt is five minutes old or more.
Stale(e) == dispatch[e].status = "PROCESSING" /\ dispatch[e].expired

\* Faulty variant: rows whose worker stopped stay where they are.
ReadyButStale ==
    {e \in Event : \/ dispatch[e].status = "PENDING"
                   \/ dispatch[e].status = "FAILED" /\ dispatch[e].due}

\* findReady: new rows, failed ones whose nextAttemptAt has passed, stale leases.
Ready ==
    {e \in Event : \/ dispatch[e].status = "PENDING"
                   \/ dispatch[e].status = "FAILED" /\ dispatch[e].due
                   \/ Stale(e)}

\* Faulty variant: a row is taken on the word of findReady.
ClaimableUnchecked(e) == Queued(e)

\* The condition of markProcessing's update; unlike findReady it does not ask
\* whether the next attempt of a failed row is due.
Claimable(e) ==
    \/ dispatch[e].status \in {"PENDING", "FAILED"}
    \/ Stale(e)

(***************************************************************************)
(* The queue.                                                              *)
(***************************************************************************)

\* enqueueFromEvent, called by worker-events: an upsert on the event key.
Enqueue(e) ==
    /\ e \in Supported
    /\ ~Queued(e)
    /\ dispatch' = [dispatch EXCEPT ![e] = NewDispatch]
    /\ UNCHANGED <<worker, inApp>>

\* The clock passes nextAttemptAt.
RetryDue(e) ==
    /\ dispatch[e].status = "FAILED"
    /\ ~dispatch[e].due
    /\ dispatch' = [dispatch EXCEPT ![e].due = TRUE]
    /\ UNCHANGED <<worker, inApp>>

Holds(w, e) == worker[w].event = e

\* Five minutes pass.  Only workers outside Slow are known to be done by then.
LeaseEnds(e) ==
    /\ dispatch[e].status = "PROCESSING"
    /\ ~dispatch[e].expired
    /\ \A w \in Worker : Holds(w, e) => w \in Slow
    /\ dispatch' = [dispatch EXCEPT ![e].expired = TRUE]
    /\ UNCHANGED <<worker, inApp>>

(***************************************************************************)
(* One worker.                                                             *)
(***************************************************************************)
At(w, pc) == worker[w].pc = pc
Goto(w, pc) == worker' = [worker EXCEPT ![w].pc = pc]

\* Faulty variant: the end of the batch is not noticed.
ContinueForever(w, batch) ==
    worker' = [worker EXCEPT ![w] = [pc |-> "claim", batch |-> batch, event |-> NoEvent]]

\* The row is done with; the rest of the batch comes next.
Continue(w, batch) ==
    worker' = [worker EXCEPT ![w] =
        IF batch = {} THEN Idle ELSE [pc |-> "claim", batch |-> batch, event |-> NoEvent]]

FindReady(w) ==
    /\ At(w, "idle")
    /\ Ready # {}
    /\ Continue(w, Ready)
    /\ UNCHANGED <<dispatch, inApp>>

\* The batch is ordered by the createdAt of its rows, which follows whatever
\* order the publishers queued them in: any row may be the next one.
Claim(w, e) ==
    /\ At(w, "claim")
    /\ e \in worker[w].batch
    /\ Claimable(e)
    /\ dispatch' = [dispatch EXCEPT ![e].status = "PROCESSING", ![e].expired = FALSE]
    /\ worker' = [worker EXCEPT ![w] =
           [pc |-> "deliver", batch |-> worker[w].batch \ {e}, event |-> e]]
    /\ UNCHANGED inApp

\* The update of markProcessing changed no row.
Skip(w, e) ==
    /\ At(w, "claim")
    /\ e \in worker[w].batch
    /\ ~Claimable(e)
    /\ Continue(w, worker[w].batch \ {e})
    /\ UNCHANGED <<dispatch, inApp>>

\* createInAppNotification.
Notified(e) ==
    /\ inApp' = [inApp EXCEPT ![e] = IF @ < Many THEN @ + 1 ELSE Many]
    /\ UNCHANGED dispatch

\* Faulty variant: the delivery is not awaited.
DeliverUnawaited(w, e) ==
    /\ At(w, "deliver")
    /\ Holds(w, e)
    /\ Goto(w, "succeed")
    /\ UNCHANGED <<dispatch, inApp>>

\* Faulty variant: an event without an addressee is an error.
DeliverAddressed(w, e) ==
    /\ At(w, "deliver")
    /\ Holds(w, e)
    /\ \/ e \in Addressed /\ Notified(e) /\ Goto(w, "channels")
       \/ e \notin Addressed /\ Goto(w, "fail") /\ UNCHANGED <<dispatch, inApp>>

\* The delivery service: nothing for an event without an addressee; otherwise
\* the in-app row first, then e-mail, SMS and push, whose failures are swallowed.
Deliver(w, e) ==
    /\ At(w, "deliver")
    /\ Holds(w, e)
    /\ \/ e \in Addressed /\ Notified(e) /\ Goto(w, "channels")
       \/ e \notin Addressed /\ Goto(w, "succeed") /\ UNCHANGED <<dispatch, inApp>>
Channels(w, e) ==
    /\ At(w, "channels")
    /\ Holds(w, e)
    /\ Goto(w, "succeed")
    /\ UNCHANGED <<dispatch, inApp>>

\* markSucceeded and markFailed write by id, whatever the row has become.
MarkedSent(e) ==
    /\ dispatch' = [dispatch EXCEPT ![e] = [status |-> "SENT", due |-> TRUE, expired |-> FALSE]]
    /\ UNCHANGED inApp
MarkSucceeded(w, e) ==
    /\ At(w, "succeed")
    /\ Holds(w, e)
    /\ MarkedSent(e)
    /\ Continue(w, worker[w].batch)
MarkFailed(w, e) ==
    /\ At(w, "fail")
    /\ Holds(w, e)
    /\ dispatch' = [dispatch EXCEPT ![e] = [status |-> "FAILED", due |-> FALSE, expired |-> FALSE]]
    /\ Continue(w, worker[w].batch)
    /\ UNCHANGED inApp

\* A call of the try block rejects and nothing has happened: the user lookup or
\* the in-app insert, the push subscription lookup, markSucceeded.
Throw(w) ==
    /\ "throw" \in Faults
    /\ worker[w].pc \in {"deliver", "channels", "succeed"}
    /\ Goto(w, "fail")
    /\ UNCHANGED <<dispatch, inApp>>

\* A call of the try block rejects although it took effect.
LostAnswer(w, e) ==
    /\ "lostAnswer" \in Faults
    /\ Holds(w, e)
    /\ \/ At(w, "deliver") /\ e \in Addressed /\ Notified(e)
       \/ At(w, "succeed") /\ MarkedSent(e)
    /\ Goto(w, "fail")

\* The process ends and is started again, or a call outside the inner try block
\* rejects (markProcessing, markFailed): the outer catch drops the batch.
Stop(w) ==
    /\ "stop" \in Faults
    /\ ~At(w, "idle")
    /\ worker' = [worker EXCEPT ![w] = Idle]
    /\ UNCHANGED <<dispatch, inApp>>

Init ==
    /\ dispatch = [e \in Event |-> NoDispatch]
    /\ worker = [w \in Worker |-> Idle]
    /\ inApp = [e \in Event |-> 0]

Progress(w, e) ==
    \/ Claim(w, e) \/ Skip(w, e) \/ Deliver(w, e) \/ Channels(w, e)
    \/ MarkSucceeded(w, e) \/ MarkFailed(w, e)

Step(w) ==
    \/ FindReady(w)
    \/ \E e \in Event : Progress(w, e) \/ LostAnswer(w, e)
    \/ Throw(w)

\* Everything but the arrival of events.
Work ==
    \/ \E e \in Event : RetryDue(e) \/ LeaseEnds(e)
    \/ \E w \in Worker : Step(w) \/ Stop(w)

Next == Work \/ \E e \in Event : Enqueue(e)

\* The loop never ends and is restarted with its process; leases and retry times
\* run out; an event that is attempted again and again is not rejected every time.
Fairness ==
    /\ \A w \in Worker : WF_vars(Step(w))
    /\ \A e \in Event :
        /\ WF_vars(RetryDue(e))
        /\ WF_vars(LeaseEnds(e))
        /\ SF_vars(\E w \in Worker : Claim(w, e))
        /\ SF_vars(\E w \in Worker : Deliver(w, e))
        /\ SF_vars(\E w \in Worker : Channels(w, e))
        /\ SF_vars(\E w \in Worker : MarkSucceeded(w, e))

Spec == Init /\ [][Next]_vars
FairSpec == Spec /\ Fairness

(***************************************************************************)
(* Properties.                                                             *)
(***************************************************************************)

TypeOK ==
    /\ dispatch \in [Event ->
           [status : {"ABSENT"} \cup DispatchStatus, due : BOOLEAN, expired : BOOLEAN]]
    /\ worker \in [Worker -> Job]
    /\ inApp \in [Event -> 0 .. Many]

\* A row is SENT only if its user has the notification, even when leases ran out,
\* outcomes crossed and answers were lost on the way.
SentWasDelivered == \A e \in Addressed : IsSent(e) => inApp[e] > 0

\* Every queued event reaches its user, whatever fails, stops or takes too long,
\* and no other event does: the queue implements AtLeastOnce.
Channel ==
    INSTANCE AtLeastOnce WITH
        Event <- Addressed,
        accepted <- {e \in Addressed : Queued(e)},
        delivered <- {e \in Addressed : inApp[e] > 0}
OnlyQueued == Channel!Safe

\* No row stays in the queue for good: not one whose worker stopped while it was
\* PROCESSING, not one of an event that notifies nobody.
QueueDrains == \A e \in Event : Queued(e) ~> IsSent(e)

\* What the queue is for: both.
ReachesUser == Channel!Spec /\ QueueDrains

=============================================================================
