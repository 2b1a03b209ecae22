------------------------------ MODULE Gallery ------------------------------
(***************************************************************************)
(* The order of a project's gallery: reorderGallery and updateMedia of     *)
(* projects.module.ts.  reorderGallery updates the rows it names one after *)
(* the other in one database transaction, and holds each row it has        *)
(* written until the transaction ends; updateMedia writes one row.         *)
(***************************************************************************)
EXTENDS Naturals, Sequences, FiniteSets, SequencesExt

CONSTANTS
    Picture,        \* media of the gallery
    Reorder,        \* calls of reorderGallery
    SortOrders      \* sort orders that updateMedia asks for

VARIABLES
    place,          \* sortOrder, as committed
    tx,             \* how far each reorderGallery has come
    ordered         \* the order that was committed last, and the media moved since (history)

vars == <<place, tx, ordered>>

Start == [at |-> "start"]
Over == [at |-> "over"]

Open(r) == tx[r].at = "open"
Written(r) == {tx[r].ids[i] : i \in 1 .. tx[r].done}
\* A row that an open transaction has written waits for its end.
Held(x) == {r \in Reorder : Open(r) /\ x \in Written(r)}

\* Lists that name some of the media, none twice.
BeginOrder(r) ==
    /\ tx[r] = Start
    /\ \E some \in SUBSET Picture \ {{}} :
       \E ids \in SetToSeqs(some) : tx' = [tx EXCEPT ![r] = [at |-> "open", ids |-> ids, done |-> 0]]
    /\ UNCHANGED <<place, ordered>>

\* Faulty variant: the updates are not one transaction.
PlaceAtOnce(r) ==
    /\ Open(r)
    /\ tx[r].done < Len(tx[r].ids)
    /\ place' = [place EXCEPT ![tx[r].ids[tx[r].done + 1]] = tx[r].done]
    /\ tx' = [tx EXCEPT ![r].done = @ + 1]
    /\ UNCHANGED ordered

PlaceNext(r) ==
    /\ Open(r)
    /\ tx[r].done < Len(tx[r].ids)
    /\ Held(tx[r].ids[tx[r].done + 1]) = {}
    /\ tx' = [tx EXCEPT ![r].done = @ + 1]
    /\ UNCHANGED <<place, ordered>>

\* The rows it wrote get their new places.
CommitOrder(r) ==
    /\ Open(r)
    /\ tx[r].done = Len(tx[r].ids)
    /\ place' = [x \in Picture |->
           IF x \in Written(r) THEN (CHOOSE i \in DOMAIN tx[r].ids : tx[r].ids[i] = x) - 1 ELSE place[x]]
    /\ ordered' = [ids |-> tx[r].ids, moved |-> {}]
    /\ tx' = [tx EXCEPT ![r] = Over]

\* Two transactions that wait for each other, or any other failure: everything is undone.
AbortOrder(r) ==
    /\ Open(r)
    /\ tx' = [tx EXCEPT ![r] = Over]
    /\ UNCHANGED <<place, ordered>>

UpdateMedia(x, n) ==
    /\ Held(x) = {}
    /\ place' = [place EXCEPT ![x] = n]
    /\ ordered' = [ordered EXCEPT !.moved = @ \cup {x}]
    /\ UNCHANGED tx

\* findGallery: by sortOrder.
Before(x, y) == place[x] < place[y]

Init ==
    /\ place = [x \in Picture |-> 0]
    /\ tx = [r \in Reorder |-> Start]
    /\ ordered = [ids |-> <<>>, moved |-> {}]

Next ==
    \/ \E r \in Reorder : BeginOrder(r) \/ PlaceNext(r) \/ CommitOrder(r) \/ AbortOrder(r)
    \/ \E x \in Picture, n \in SortOrders : UpdateMedia(x, n)

Spec == Init /\ [][Next]_vars

(***************************************************************************)
(* Properties.                                                             *)
(***************************************************************************)

\* The gallery is in the order that was accepted last, for all it named but the media moved
\* on their own since: two orders that run together, or one that fails half-way, never leave
\* a mixture (projects.module.ts:1066-1083).
LastOrderStands ==
    \A i, j \in DOMAIN ordered.ids :
        i < j /\ {ordered.ids[i], ordered.ids[j]} \cap ordered.moved = {} =>
            Before(ordered.ids[i], ordered.ids[j])

\* Places, transactions and orders keep their types.
TypeOK ==
    /\ place \in [Picture -> 0 .. Cardinality(Picture) - 1 \cup SortOrders]
    /\ \A r \in Reorder : tx[r] \in {Start, Over} \/ tx[r].done \in 0 .. Len(tx[r].ids)
    /\ ordered.moved \subseteq Picture

=============================================================================
