----------------------------- MODULE MCDelivery -----------------------------
(***************************************************************************)
(* Two instances checked in one run: the workers of the queue alone, with  *)
(* the history of module Leases, and EventPipeline.  A behaviour is one of *)
(* the instance the initial state picks; the tables of the other stay      *)
(* empty, so that the fairness of its processes asks nothing.              *)
(***************************************************************************)
EXTENDS Leases

CONSTANTS
    Message,            \* the events of the instance of EventPipeline
    Publisher,          \* its publishers and workers
    Sender,
    SlowSender,         \* those of its workers that may outlive their leases
    PublisherFaults,    \* what may go wrong among its publishers and its workers
    SenderFaults

VARIABLES part, outbox, log, queue, publisher, sender, shown

Pipe == INSTANCE EventPipeline WITH
    dispatch <- queue, worker <- sender, inApp <- shown,
    Event <- Message, Supported <- Message, Addressed <- Message, Worker <- Sender,
    Slow <- SlowSender, WorkerFaults <- SenderFaults

leaseVars == <<vars, history>>
pipeVars == <<outbox, log, queue, publisher, sender, shown>>

DeliveryInit ==
    /\ part \in {"pipeline", "lease"}
    /\ LeaseInit /\ Pipe!Init

DeliveryNext ==
    /\ \/ part = "lease" /\ LeaseNext /\ UNCHANGED pipeVars
       \/ part = "pipeline" /\ Pipe!Next /\ UNCHANGED leaseVars
    /\ UNCHANGED part

DeliverySpec == DeliveryInit /\ [][DeliveryNext]_<<part, leaseVars, pipeVars>> /\ Pipe!Fairness

\* The workers alone are Leases' own: OneWorkerPerRow, SentIsFinal, NotifiedOnce.

\* EventPipeline: from one end to the other, no event is lost and none is invented.
UsersAreNotified == Pipe!UsersAreNotified
\* EventPipeline: publishers that repeat an event leave its row as it is.
PublishersKeepTheQueue == Pipe!PublishersKeepTheQueue

=============================================================================
