------------------------------- MODULE Leases -------------------------------
(***************************************************************************)
(* What the leases of the notification queue are worth.  No call of a      *)
(* worker has a timeout that would keep it within the five minutes of its  *)
(* lease, so that two workers may end up with one row.  Module             *)
(* Notifications is extended by history variables that name whose fault    *)
(* that can be, and the properties say that it is nobody else's.           *)
(***************************************************************************)
EXTENDS Notifications

VARIABLES
    exposed,        \* workers that may not be alone with their row any more
    unsure,         \* workers markSucceeded failed for although it took effect
    retried         \* events an attempt of which failed or outlived its lease

history == <<exposed, unsure, retried>>

\* Worker w goes on with the row it has.
Keeps(w) == worker[w].event # NoEvent /\ worker'[w].event = worker[w].event

\* Worker w writes the outcome of its row.
Settles(w) == worker'[w] # worker[w] /\ worker[w].pc \in {"succeed", "fail"}

\* A worker is exposed from the moment its lease runs out, or an exposed worker
\* writes an outcome into its row, until it lets go of the row.
Exposed ==
    {w \in Worker : /\ Keeps(w)
                    /\ \/ w \in exposed
                       \/ dispatch'[worker[w].event].expired
                       \/ \E v \in exposed : Holds(v, worker[w].event) /\ Settles(v)}

Unsure ==
    {w \in Worker : /\ Keeps(w)
                    /\ \/ w \in unsure
                       \/ At(w, "succeed") /\ IsSent(worker[w].event)' /\ worker'[w].pc = "fail"}

Retried ==
    retried \cup {e \in Event : dispatch'[e].status = "FAILED" \/ dispatch'[e].expired}

LeaseInit == Init /\ exposed = {} /\ unsure = {} /\ retried = {}

LeaseNext == Next /\ exposed' = Exposed /\ unsure' = Unsure /\ retried' = Retried

LeaseSpec == LeaseInit /\ [][LeaseNext]_<<vars, history>>

(***************************************************************************)
(* Properties.                                                             *)
(***************************************************************************)

\* Two workers have one row only if one of them is exposed: the batches of findReady
\* overlap, and the conditional update of markProcessing alone decides who takes a row.
OneWorkerPerRow ==
    \A v, w \in Worker :
        v # w /\ worker[v].event # NoEvent /\ worker[v].event = worker[w].event
            => v \in exposed \/ w \in exposed

\* A SENT row is taken up again only by a worker that was exposed or that markSucceeded had
\* failed for: markFailed, which does not look, is otherwise writing to a row of its own.
SentIsFinal ==
    [][\A e \in Event : IsSent(e) /\ ~IsSent(e)' =>
           \E w \in exposed \cup unsure : Holds(w, e) /\ Settles(w)]_vars

\* A user hears twice of an event only if an attempt failed or outlived its lease: neither
\* workers with old batches nor a restart notify anybody again.
NotifiedOnce == \A e \in Event : inApp[e] > 1 => e \in retried

=============================================================================
