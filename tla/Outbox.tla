------------------------------- MODULE Outbox -------------------------------
(***************************************************************************)
(* The transactional outbox (libs/events) and the processes that empty it  *)
(* (apps/worker-events): OutboxPublisherService.processBatch in the        *)
(* endless loop of main.ts.                                                *)
(*                                                                         *)
(* Every await of processEvent is a step.  An awaited call may throw       *)
(* without having had its effect (Throw), or after it because only the     *)
(* answer was lost (LostAnswer); a publisher may stop anywhere and lose    *)
(* its batch (Stop).  Nothing locks a row, so two publishers may hold the  *)
(* same one.                                                               *)
(***************************************************************************)
EXTENDS FiniteSets, FiniteSetsExt, Integers

CONSTANTS
    Event,          \* outbox rows, numbered by createdAt
    Supported,      \* events some notification handler exists for
    Publisher,      \* processes that run worker-events
    Faults,         \* what may go wrong: "throw", "lostAnswer", "stop"
    NoEvent         \* a publisher that holds no event

ASSUME OutboxAssumption ==
    /\ Event \subseteq Nat
    /\ Supported \subseteq Event
    /\ NoEvent \notin Event

VARIABLES
    outbox,         \* OutboxEvent rows: status, and whether a retry is due
    log,            \* events of which Kafka holds at least one copy
    dispatch,       \* NotificationDispatch rows, made by enqueueFromEvent
    publisher       \* where each publisher is, its batch and its event

vars == <<outbox, log, dispatch, publisher>>

OutboxStatus == {"PENDING", "PUBLISHED", "FAILED"}
Idle == [pc |-> "idle", batch |-> {}, event |-> NoEvent]
Job ==
    {Idle} \cup [pc : {"publish", "mark", "enqueue", "fail"}, batch : SUBSET Event, event : Event]

\* Columns of a row before it is created, and as the schema's defaults make it.
NoRow == [status |-> "ABSENT", due |-> TRUE]
NewRow == [status |-> "PENDING", due |-> TRUE]
NoDispatch == [status |-> "ABSENT", due |-> TRUE, expired |-> FALSE]
NewDispatch == [status |-> "PENDING", due |-> TRUE, expired |-> FALSE]

Stored(e) == outbox[e].status # "ABSENT"
Queued(e) == dispatch[e].status # "ABSENT"

\* Faulty variant: failed events are never looked at again.
PendingOnly == {e \in Event : outbox[e].status = "PENDING"}

\* findPending: new rows, and failed ones whose nextAttemptAt has passed.
Ready ==
    {e \in Event : \/ outbox[e].status = "PENDING"
                   \/ outbox[e].status = "FAILED" /\ outbox[e].due}

(***************************************************************************)
(* The transaction of some component commits with an outbox row in it.     *)
(***************************************************************************)
Create(e) ==
    /\ ~Stored(e)
    /\ outbox' = [outbox EXCEPT ![e] = NewRow]
    /\ UNCHANGED <<log, dispatch, publisher>>

\* The clock passes nextAttemptAt.
RetryDue(e) ==
    /\ outbox[e].status = "FAILED"
    /\ ~outbox[e].due
    /\ outbox' = [outbox EXCEPT ![e].due = TRUE]
    /\ UNCHANGED <<log, dispatch, publisher>>

(***************************************************************************)
(* One publisher.                                                          *)
(***************************************************************************)
At(p, pc) == publisher[p].pc = pc
Holds(p, e) == publisher[p].event = e
Goto(p, pc) == publisher' = [publisher EXCEPT ![p].pc = pc]

\* The loop takes the oldest event of a batch.
Start(p, batch) ==
    publisher' = [publisher EXCEPT ![p] =
        IF batch = {} THEN Idle
        ELSE [pc |-> "publish", batch |-> batch \ {Min(batch)}, event |-> Min(batch)]]
NextEvent(p) == Start(p, publisher[p].batch)

FindPending(p) ==
    /\ At(p, "idle")
    /\ Ready # {}
    /\ Start(p, Ready)
    /\ UNCHANGED <<outbox, log, dispatch>>

\* The effect of each awaited call.
Sent(e) == log' = log \cup {e} /\ UNCHANGED <<outbox, dispatch>>
MarkedPublished(e) ==
    /\ outbox' = [outbox EXCEPT ![e] = [status |-> "PUBLISHED", due |-> TRUE]]
    /\ UNCHANGED <<log, dispatch>>

\* Faulty variant: a second insert replaces the row of the event key.
EnqueuedAgain(e) ==
    /\ dispatch' = [dispatch EXCEPT ![e] = IF e \in Supported THEN NewDispatch ELSE @]
    /\ UNCHANGED <<outbox, log>>

\* The upsert on eventKey leaves an existing row alone.
Enqueued(e) ==
    /\ dispatch' = [dispatch EXCEPT ![e] =
           IF e \in Supported /\ ~Queued(e) THEN NewDispatch ELSE @]
    /\ UNCHANGED <<outbox, log>>

\* Faulty variant: the message is skipped and reported as sent.
PublishSkipped(p, e) ==
    /\ At(p, "publish")
    /\ Holds(p, e)
    /\ Goto(p, "mark")
    /\ UNCHANGED <<outbox, log, dispatch>>

\* publish, markPublished, enqueueFromEvent, each when it answers.
Publish(p, e) == At(p, "publish") /\ Holds(p, e) /\ Sent(e) /\ Goto(p, "mark")
MarkPublished(p, e) == At(p, "mark") /\ Holds(p, e) /\ MarkedPublished(e) /\ Goto(p, "enqueue")
Enqueue(p, e) == At(p, "enqueue") /\ Holds(p, e) /\ Enqueued(e) /\ NextEvent(p)

\* A call rejects and nothing has happened.
Throw(p) ==
    /\ "throw" \in Faults
    /\ publisher[p].pc \in {"publish", "mark", "enqueue"}
    /\ Goto(p, "fail")
    /\ UNCHANGED <<outbox, log, dispatch>>

\* A call rejects although it took effect.
LostAnswer(p, e) ==
    /\ "lostAnswer" \in Faults
    /\ Holds(p, e)
    /\ \/ At(p, "publish") /\ Sent(e)
       \/ At(p, "mark") /\ MarkedPublished(e)
       \/ At(p, "enqueue") /\ Enqueued(e)
    /\ Goto(p, "fail")

\* Faulty variant: a row that is PUBLISHED is left alone.
MarkFailedUnlessPublished(p, e) ==
    /\ At(p, "fail")
    /\ Holds(p, e)
    /\ outbox' = [outbox EXCEPT ![e] =
           IF @.status = "PUBLISHED" THEN @ ELSE [status |-> "FAILED", due |-> FALSE]]
    /\ NextEvent(p)
    /\ UNCHANGED <<log, dispatch>>

\* The catch clause: markFailed, whatever the row's status is by now.
MarkFailed(p, e) ==
    /\ At(p, "fail")
    /\ Holds(p, e)
    /\ outbox' = [outbox EXCEPT ![e] = [status |-> "FAILED", due |-> FALSE]]
    /\ NextEvent(p)
    /\ UNCHANGED <<log, dispatch>>

\* The process ends and is started again: killed, or one of the calls outside
\* the try block, findPending and markFailed, rejects and nothing catches it.
Stop(p) ==
    /\ "stop" \in Faults
    /\ ~At(p, "idle")
    /\ publisher' = [publisher EXCEPT ![p] = Idle]
    /\ UNCHANGED <<outbox, log, dispatch>>

Init ==
    /\ outbox = [e \in Event |-> NoRow]
    /\ log = {}
    /\ dispatch = [e \in Event |-> NoDispatch]
    /\ publisher = [p \in Publisher |-> Idle]

Progress(p, e) ==
    Publish(p, e) \/ MarkPublished(p, e) \/ Enqueue(p, e) \/ MarkFailed(p, e)

Step(p) ==
    \/ FindPending(p)
    \/ \E e \in Event : Progress(p, e) \/ LostAnswer(p, e)
    \/ Throw(p)

Next ==
    \/ \E e \in Event : Create(e) \/ RetryDue(e)
    \/ \E p \in Publisher : Step(p) \/ Stop(p)

\* The loop never ends and is restarted when its process does; retry times come;
\* Kafka and the database do not reject every attempt for the same event.
Fairness ==
    /\ \A p \in Publisher : WF_vars(Step(p))
    /\ \A e \in Event :
        /\ WF_vars(RetryDue(e))
        /\ SF_vars(\E p \in Publisher : Publish(p, e))
        /\ SF_vars(\E p \in Publisher : MarkPublished(p, e))
        /\ SF_vars(\E p \in Publisher : Enqueue(p, e))

Spec == Init /\ [][Next]_vars
FairSpec == Spec /\ Fairness

(***************************************************************************)
(* Properties.                                                             *)
(***************************************************************************)

TypeOK ==
    /\ outbox \in [Event -> [status : {"ABSENT"} \cup OutboxStatus, due : BOOLEAN]]
    /\ log \subseteq Event
    /\ dispatch \in [Event -> [status : {"ABSENT", "PENDING"}, due : BOOLEAN, expired : BOOLEAN]]
    /\ publisher \in [Publisher -> Job]

\* A row is PUBLISHED, and its notification queued, only when Kafka has the
\* event, whichever of several publishers did which part, and whatever was
\* interrupted: publish comes first and its rejection skips the rest.
SentFirst ==
    \A e \in Event : outbox[e].status = "PUBLISHED" \/ Queued(e) => e \in log

\* Every event whose transaction committed reaches Kafka, although publishers
\* stop, calls fail and rows are not locked, and nothing else does: the outbox
\* implements AtLeastOnce.
Channel ==
    INSTANCE AtLeastOnce WITH
        accepted <- {e \in Event : Stored(e)},
        delivered <- log
ReachesKafka == Channel!Spec
OnlyCommitted == Channel!Safe

\* A published event that has a notification handler is queued for it in the end:
\* "publishes pending events and queues notification dispatches"
\* (outbox-publisher.service.spec.ts:4).
QueuedInTheEnd ==
    \A e \in Supported : outbox[e].status = "PUBLISHED" ~> Queued(e)

=============================================================================
