--------------------------- MODULE EventPipeline ---------------------------
(***************************************************************************)
(* From a committed outbox row to the user's notification: the publishers  *)
(* of module Outbox and the workers of module Notifications run side by    *)
(* side and meet in the NotificationDispatch rows, which the publishers    *)
(* insert (enqueueFromEvent) and the workers lease and settle.             *)
(***************************************************************************)
EXTENDS Integers

CONSTANTS
    Event,              \* events, numbered by createdAt
    Supported,          \* events some notification handler exists for
    Addressed,          \* events whose handler names an existing user
    Publisher,          \* processes that run worker-events
    Worker,             \* processes that run worker-notifications
    Slow,               \* workers that may hold a row longer than its lease
    PublisherFaults,    \* what may go wrong in each kind of process
    WorkerFaults,
    NoEvent

VARIABLES outbox, log, dispatch, publisher, worker, inApp

Pub == INSTANCE Outbox WITH Faults <- PublisherFaults
Ntf == INSTANCE Notifications WITH Faults <- WorkerFaults

vars == <<outbox, log, dispatch, publisher, worker, inApp>>

Init == Pub!Init /\ Ntf!Init

Next ==
    \/ Pub!Next /\ UNCHANGED <<worker, inApp>>
    \/ Ntf!Work /\ UNCHANGED <<outbox, log, publisher>>

Spec == Init /\ [][Next]_vars
Fairness == Pub!Fairness /\ Ntf!Fairness
FairSpec == Spec /\ Fairness

(***************************************************************************)
(* Properties.                                                             *)
(***************************************************************************)

\* From one end to the other the promise is the one each half keeps.  The user of every
\* event whose transaction committed is notified, although calls of both kinds of process
\* throw or lose their answers, workers stop and outlive their leases; and no user hears of an
\* event whose transaction did not commit.  Assumed: no publisher stops, since a row is lost
\* that was marked PUBLISHED and not queued (outbox_stop).
EndToEnd ==
    INSTANCE AtLeastOnce WITH
        Event <- Addressed,
        accepted <- {e \in Addressed : Pub!Stored(e)},
        delivered <- {e \in Addressed : inApp[e] > 0}
UsersAreNotified == EndToEnd!Spec

\* To the workers the publishers are the queue's Enqueue: however often they reject, lose
\* answers and repeat each other, the upsert on the event key gives each event one row and
\* leaves the row alone that is in work or SENT, so that what Notifications and Leases say of
\* the queue holds here.
PublishersKeepTheQueue == Ntf!Spec

=============================================================================
