---------------------------- MODULE Commitments ----------------------------
(***************************************************************************)
(* What the platform promises an investor about idempotency keys.          *)
(*                                                                         *)
(* A commitment is made at most once for a pair of an investor and a key,  *)
(* it is never replaced, and every answer the investor receives for the    *)
(* pair names that one commitment, whatever is retried, lost, cached or    *)
(* repeated.  Funding implements this specification.                       *)
(***************************************************************************)

CONSTANTS
    Investor,       \* users who invest
    Key,            \* idempotency keys
    Row,            \* identifiers of commitments
    None            \* "no commitment yet"

VARIABLES
    made,           \* made[<<u, k>>] is the commitment of the pair, or None
    told            \* the answers received: <<investor, key, commitment>>

Pair == Investor \X Key

Init ==
    /\ made = [p \in Pair |-> None]
    /\ told = {}

\* A new commitment takes an identifier no other pair has; its maker may or may
\* not hear of it.
Make(u, k, i) ==
    /\ made[<<u, k>>] = None
    /\ \A p \in Pair : made[p] # i
    /\ made' = [made EXCEPT ![<<u, k>>] = i]
    /\ told' \in {told, told \cup {<<u, k, i>>}}

\* Any later answer repeats the commitment that was made.
Tell(u, k) ==
    /\ made[<<u, k>>] # None
    /\ told' = told \cup {<<u, k, made[<<u, k>>]>>}
    /\ UNCHANGED made

Next ==
    \E u \in Investor, k \in Key :
        \/ \E i \in Row : Make(u, k, i)
        \/ Tell(u, k)

Spec == Init /\ [][Next]_<<made, told>>

=============================================================================
