----------------------------- MODULE Watchlist -----------------------------
(***************************************************************************)
(* The watchlist of one user: WatchlistService of watchlist.module.ts.     *)
(* add looks for the deal and for an item, then creates one; remove looks  *)
(* for the item, then deletes it.  What keeps two calls apart is the       *)
(* unique index over user and deal.  Deals are not removed.                *)
(***************************************************************************)
EXTENDS Naturals, FiniteSets

CONSTANTS
    Watched,        \* deals
    WatchRequest    \* calls under way together

VARIABLES
    known,          \* deals that exist
    items,          \* the items of each deal
    call,           \* what each call has found
    additions       \* adds that succeeded less removes that did, by deal (history)

vars == <<known, items, call, additions>>

Idle == [op |-> "idle"]

\* DealsService.create
CreateDeal(d) ==
    /\ d \notin known
    /\ known' = known \cup {d}
    /\ UNCHANGED <<items, call, additions>>

\* The deal is there; that there is no item is checked by a query of its own.
FindDeal(r, d) ==
    /\ call[r] = Idle
    /\ d \in known
    /\ call' = [call EXCEPT ![r] = [op |-> "find", deal |-> d]]
    /\ UNCHANGED <<known, items, additions>>

\* 409 Already in watchlist; or go on.
CheckExisting(r) ==
    /\ call[r].op = "find"
    /\ call' = [call EXCEPT ![r] = IF items[call[r].deal] > 0 THEN Idle ELSE [@ EXCEPT !.op = "add"]]
    /\ UNCHANGED <<known, items, additions>>

\* Faulty variant: no unique index over userId and dealId.
CreateItemAnyway(r) ==
    /\ call[r].op = "add"
    /\ items' = [items EXCEPT ![call[r].deal] = @ + 1]
    /\ additions' = [additions EXCEPT ![call[r].deal] = @ + 1]
    /\ call' = [call EXCEPT ![r] = Idle]
    /\ UNCHANGED known

\* The index refuses a second item, and the call fails.
CreateItem(r) ==
    /\ call[r].op = "add"
    /\ IF items[call[r].deal] = 0
       THEN /\ items' = [items EXCEPT ![call[r].deal] = 1]
            /\ additions' = [additions EXCEPT ![call[r].deal] = @ + 1]
       ELSE UNCHANGED <<items, additions>>
    /\ call' = [call EXCEPT ![r] = Idle]
    /\ UNCHANGED known

\* 404 without an item.
FindItem(r, d) ==
    /\ call[r] = Idle
    /\ items[d] > 0
    /\ call' = [call EXCEPT ![r] = [op |-> "remove", deal |-> d]]
    /\ UNCHANGED <<known, items, additions>>

\* Faulty variant: deleteMany, which does not mind that nothing is there to delete.
DeleteItems(r) ==
    /\ call[r].op = "remove"
    /\ items' = [items EXCEPT ![call[r].deal] = 0]
    /\ additions' = [additions EXCEPT ![call[r].deal] = @ - 1]
    /\ call' = [call EXCEPT ![r] = Idle]
    /\ UNCHANGED known

\* The delete of an item that is gone fails; it takes an item that was added again since.
DeleteItem(r) ==
    /\ call[r].op = "remove"
    /\ IF items[call[r].deal] > 0
       THEN /\ items' = [items EXCEPT ![call[r].deal] = 0]
            /\ additions' = [additions EXCEPT ![call[r].deal] = @ - 1]
       ELSE UNCHANGED <<items, additions>>
    /\ call' = [call EXCEPT ![r] = Idle]
    /\ UNCHANGED known

Fail(r) ==
    /\ call[r] # Idle
    /\ call' = [call EXCEPT ![r] = Idle]
    /\ UNCHANGED <<known, items, additions>>

Init ==
    /\ known = {}
    /\ items = [d \in Watched |-> 0]
    /\ call = [r \in WatchRequest |-> Idle]
    /\ additions = [d \in Watched |-> 0]

Next ==
    \/ \E d \in Watched : CreateDeal(d) \/ \E r \in WatchRequest : FindDeal(r, d) \/ FindItem(r, d)
    \/ \E r \in WatchRequest : CheckExisting(r) \/ CreateItem(r) \/ DeleteItem(r) \/ Fail(r)

Spec == Init /\ [][Next]_vars

(***************************************************************************)
(* Properties.                                                             *)
(***************************************************************************)

\* What callers were told adds up: a deal is on the list, once, exactly when one add more
\* than removes succeeded, however the calls interleave (watchlist.module.ts:87-109, 133-141).
ListedAsTold ==
    \A d \in Watched : items[d] \in {0, 1} /\ additions[d] = items[d]

\* Items and calls keep their types.
TypeOK ==
    /\ known \subseteq Watched
    /\ items \in [Watched -> Nat]
    /\ \A r \in WatchRequest : call[r] \in {Idle} \cup [op : {"find", "add", "remove"}, deal : Watched]
    /\ \A d \in Watched : items[d] > 0 => d \in known

=============================================================================
