---------------------------- MODULE AtLeastOnce ----------------------------
(***************************************************************************)
(* What an asynchronous channel of the platform promises about its events. *)
(*                                                                         *)
(* Nothing is delivered that was not accepted, nothing is withdrawn, and   *)
(* every accepted event is delivered in the end, possibly several times.   *)
(* The outbox keeps this promise towards Kafka (module Outbox), the        *)
(* notification queue towards the users (module Notifications), and the    *)
(* two in a row from one end to the other (module EventPipeline).          *)
(***************************************************************************)

CONSTANT Event

VARIABLES
    accepted,       \* events whose acceptance has committed
    delivered       \* events delivered at least once

vars == <<accepted, delivered>>

Init == accepted = {} /\ delivered = {}

Accept(e) ==
    /\ accepted' = accepted \cup {e}
    /\ UNCHANGED delivered

\* Delivering an event again changes nothing that is promised.
Deliver(e) ==
    /\ e \in accepted
    /\ delivered' = delivered \cup {e}
    /\ UNCHANGED accepted

Next == \E e \in Event : Accept(e) \/ Deliver(e)

\* The safety half of the promise, and the whole of it.
Safe == Init /\ [][Next]_vars
Spec == Safe /\ \A e \in Event : WF_vars(Deliver(e))

=============================================================================
