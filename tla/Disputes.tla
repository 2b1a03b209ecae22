------------------------------ MODULE Disputes ------------------------------
(***************************************************************************)
(* Disputes: the part of AdminService (admin.module.ts) that opens them,   *)
(* moves them, and reports on them.  getDisputeStats sends its three       *)
(* queries together, and the database answers them in any order, with      *)
(* other requests in between.                                              *)
(***************************************************************************)
EXTENDS Naturals, FiniteSets

CONSTANTS
    Dispute,        \* rows
    Asked,          \* the statuses that requests ask for
    Request         \* requests under way together

VARIABLES
    dispute,        \* status of each row, and whether resolvedAt is set
    req

vars == <<dispute, req>>

DisputeStatus == {"OPEN", "UNDER_REVIEW", "MEDIATION", "RESOLVED", "ESCALATED", "CLOSED"}
Figure == {"total", "byStatus", "byType"}

Absent == [status |-> "ABSENT", dated |-> FALSE]
Idle == [at |-> "idle"]

Rows == {d \in Dispute : dispute[d] # Absent}

CreateDispute(d) ==
    /\ d \notin Rows
    /\ dispute' = [dispute EXCEPT ![d] = [status |-> "OPEN", dated |-> FALSE]]
    /\ req' = [r \in Request |->
           IF req[r].at = "stats" THEN [req[r] EXCEPT !.meanwhile = @ + 1] ELSE req[r]]

\* Faulty variant: the date goes with a status that is no longer the end.
UpdateDisputeAfresh(d, status) ==
    /\ d \in Rows
    /\ dispute' = [dispute EXCEPT ![d] = [status |-> status, dated |-> status = "CLOSED"]]
    /\ UNCHANGED req

\* updateDispute, of an administrator; a date that is set stays.
UpdateDispute(d, status) ==
    /\ d \in Rows
    /\ dispute' = [dispute EXCEPT
           ![d].status = status,
           ![d].dated = @ \/ status \in {"RESOLVED", "CLOSED"}]
    /\ UNCHANGED req

\* updateMyDispute reads the row, and writes what the initiator asks for: perhaps only a
\* text ("").  It sets no date for CLOSED.
CheckMine(r, d, status) ==
    /\ req[r] = Idle
    /\ d \in Rows
    /\ req' = [req EXCEPT ![r] = [at |-> "mine", dispute |-> d, status |-> status]]
    /\ UNCHANGED dispute

UpdateMine(r) ==
    LET status == req[r].status IN
    /\ req[r].at = "mine"
    /\ dispute' = [dispute EXCEPT
           ![req[r].dispute].status = IF status = "" THEN @ ELSE status,
           ![req[r].dispute].dated = @ \/ status = "RESOLVED"]
    /\ req' = [req EXCEPT ![r] = Idle]

(***************************************************************************)
(* getDisputeStats.                                                        *)
(***************************************************************************)

\* meanwhile: rows created since the first query was answered (history).
GetStats(r) ==
    /\ req[r] = Idle
    /\ req' = [req EXCEPT ![r] = [at |-> "ask"]]
    /\ UNCHANGED dispute

\* Faulty variant: the total leaves out what is closed.
SumOfLive(figure) ==
    Cardinality({d \in Rows : figure = "total" => dispute[d].status # "CLOSED"})

\* The sum of a query's groups: each groups all rows.
SumOf(figure) == Cardinality(Rows)

Answered(r, figure) ==
    IF req[r].at = "ask" THEN [at |-> "stats", sum |-> [f \in {figure} |-> SumOf(f)], meanwhile |-> 0]
    ELSE [req[r] EXCEPT !.sum = [f \in {figure} \cup DOMAIN @ |->
                                     IF f = figure THEN SumOf(f) ELSE @[f]]]

Query(r, figure) ==
    /\ req[r].at \in {"ask", "stats"}
    /\ req[r].at = "stats" => figure \notin DOMAIN req[r].sum
    /\ req' = [req EXCEPT ![r] = Answered(r, figure)]
    /\ UNCHANGED dispute

\* The answer, or an error anywhere.
Done(r) ==
    /\ req[r] # Idle
    /\ req' = [req EXCEPT ![r] = Idle]
    /\ UNCHANGED dispute

Init ==
    /\ dispute = [d \in Dispute |-> Absent]
    /\ req = [r \in Request |-> Idle]

Next ==
    \/ \E d \in Dispute :
           CreateDispute(d) \/ \E status \in Asked : UpdateDispute(d, status)
    \/ \E r \in Request :
           \/ UpdateMine(r) \/ GetStats(r) \/ Done(r)
           \/ \E d \in Dispute, status \in Asked \cup {""} : CheckMine(r, d, status)
           \/ \E figure \in Figure : Query(r, figure)

Spec == Init /\ [][Next]_vars

(***************************************************************************)
(* Properties.                                                             *)
(***************************************************************************)

TypeOK ==
    /\ dispute \in [Dispute -> {Absent} \cup [status : DisputeStatus, dated : BOOLEAN]]
    /\ \A r \in Request :
           \/ req[r] \in {Idle, [at |-> "ask"]}
           \/ req[r] \in [at : {"mine"}, dispute : Dispute, status : Asked \cup {""}]
           \/ /\ req[r].at = "stats"
              /\ DOMAIN req[r].sum \subseteq Figure
              /\ req[r].meanwhile \in 0 .. Cardinality(Dispute)

\* The three figures of a report agree but for the disputes that were opened while it was
\* made, whatever moved meanwhile (admin.module.ts:434-446).
FiguresAgree ==
    \A r \in Request :
        req[r].at = "stats" =>
            \A f, g \in DOMAIN req[r].sum : req[r].sum[f] <= req[r].sum[g] + req[r].meanwhile

\* A resolved dispute has the date of its resolution, whichever of the two endpoints
\* resolved it and whatever they wrote over each other before (admin.module.ts:413-426,
\* 1020-1036).  A CLOSED one need not: only the administrators' endpoint dates it.
ResolvedIsDated == \A d \in Rows : dispute[d].status = "RESOLVED" => dispute[d].dated

=============================================================================
