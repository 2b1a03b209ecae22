------------------------------- MODULE Votes -------------------------------
(***************************************************************************)
(* A governance vote on a project: VotesService (votes.module.ts).         *)
(*                                                                         *)
(* castVote looks at the vote and at the caller's investments, stores the  *)
(* ballot, and counts the ballots in four queries; findForUser counts in   *)
(* four queries as well, the total first.  Others cast between any two of  *)
(* them.  Nothing in the repository opens or closes a vote.                *)
(***************************************************************************)
EXTENDS Integers, FiniteSets, Sequences

CONSTANTS
    Voter,          \* users that may come to invest in the project
    Request,        \* requests under way together
    MaxChanges      \* ballots cast while a request counts (a bound of the model)

VARIABLES
    open,           \* the vote's status is "open" and its deadline is to come
    investor,       \* users with an investment in the project, whatever became of it
    ballot,         \* the GovernanceVoteCast row of each user
    req             \* what each request is about to do

vars == <<open, investor, ballot, req>>

Choice == {"for", "against", "abstain"}
Figure == Choice \cup {"total"}

\* The order of the queries in castVote and in findForUser.
AfterCast == <<"for", "against", "abstain", "total">>
ForList == <<"total", "for", "against", "abstain">>

Idle == [at |-> "idle"]

\* meanwhile: ballots cast or changed since the request began to count (history).
Counting(queries) == [at |-> "count", queries |-> queries, figure |-> <<>>, meanwhile |-> 0]

(***************************************************************************)
(* castVote.                                                               *)
(***************************************************************************)

\* Faulty variant: the deadline is only looked at when a vote is shown.
CheckBallotAnyTime(r, v, choice) ==
    /\ req[r] = Idle
    /\ v \in investor
    /\ req' = [req EXCEPT ![r] = [at |-> "store", voter |-> v, choice |-> choice]]
    /\ UNCHANGED <<open, investor, ballot>>

CheckBallot(r, v, choice) ==
    /\ req[r] = Idle
    /\ open
    /\ v \in investor
    /\ req' = [req EXCEPT ![r] = [at |-> "store", voter |-> v, choice |-> choice]]
    /\ UNCHANGED <<open, investor, ballot>>

\* The upsert: one row for a user, also when two requests of the user overlap.
StoreBallot(r) ==
    /\ req[r].at = "store"
    /\ ballot' = [ballot EXCEPT ![req[r].voter] = req[r].choice]
    /\ req' = [q \in Request |->
           IF q = r THEN Counting(AfterCast)
           ELSE IF req[q].at = "count" /\ ballot' # ballot
                THEN [req[q] EXCEPT !.meanwhile = @ + 1]
           ELSE req[q]]
    /\ \A q \in Request : req'[q].at = "count" => req'[q].meanwhile <= MaxChanges
    /\ UNCHANGED <<open, investor>>

(***************************************************************************)
(* Counting.                                                               *)
(***************************************************************************)

Having(choices) == Cardinality({v \in Voter : ballot[v] \in choices})

\* Faulty variant: an abstention counts against.
CountOfTwo(figure) ==
    CASE figure = "total" -> Having(Choice)
      [] figure = "for" -> Having({"for"})
      [] figure = "against" -> Having({"against", "abstain"})
      [] figure = "abstain" -> 0

Count(figure) == IF figure = "total" THEN Having(Choice) ELSE Having({figure})

FindForUser(r) ==
    /\ req[r] = Idle
    /\ req' = [req EXCEPT ![r] = Counting(ForList)]
    /\ UNCHANGED <<open, investor, ballot>>

Query(r) ==
    /\ req[r].at = "count"
    /\ Len(req[r].figure) < Len(req[r].queries)
    /\ LET next == req[r].queries[Len(req[r].figure) + 1]
       IN  req' = [req EXCEPT ![r].figure = Append(@, Count(next))]
    /\ UNCHANGED <<open, investor, ballot>>

Answer(r) ==
    /\ req[r].at = "count"
    /\ Len(req[r].figure) = Len(req[r].queries)
    /\ req' = [req EXCEPT ![r] = Idle]
    /\ UNCHANGED <<open, investor, ballot>>

\* An error, or the end of the process.
Fail(r) ==
    /\ req[r] # Idle
    /\ req' = [req EXCEPT ![r] = Idle]
    /\ UNCHANGED <<open, investor, ballot>>

\* Investments are made elsewhere (Funding), and their rows stay.
Invest(v) ==
    /\ v \notin investor
    /\ investor' = investor \cup {v}
    /\ UNCHANGED <<open, ballot, req>>

Close ==
    /\ open
    /\ open' = FALSE
    /\ UNCHANGED <<investor, ballot, req>>

Init ==
    /\ open = TRUE
    /\ investor = {}
    /\ ballot = [v \in Voter |-> "none"]
    /\ req = [r \in Request |-> Idle]

Next ==
    \/ \E r \in Request :
           \/ StoreBallot(r) \/ FindForUser(r) \/ Query(r) \/ Answer(r) \/ Fail(r)
           \/ \E v \in Voter, choice \in Choice : CheckBallot(r, v, choice)
    \/ \E v \in Voter : Invest(v)
    \/ Close

Spec == Init /\ [][Next]_vars

(***************************************************************************)
(* Properties.                                                             *)
(***************************************************************************)

TypeOK ==
    /\ open \in BOOLEAN
    /\ investor \subseteq Voter
    /\ ballot \in [Voter -> Choice \cup {"none"}]
    /\ \A r \in Request :
           \/ req[r] = Idle
           \/ req[r] \in [at : {"store"}, voter : Voter, choice : Choice]
           \/ /\ req[r].at = "count"
              /\ req[r].queries \in {AfterCast, ForList}
              /\ req[r].figure \in Seq(0 .. Cardinality(Voter))
              /\ req[r].meanwhile \in 0 .. MaxChanges

Distance(m, n) == IF m > n THEN m - n ELSE n - m

BallotsFor(figure) ==
    Cardinality({v \in Voter : IF figure = "total" THEN ballot[v] # "none" ELSE ballot[v] = figure})

Total(job) == LET i == CHOOSE j \in 1 .. 4 : job.queries[j] = "total" IN job.figure[i]
Parts(job) == job.figure[1] + job.figure[2] + job.figure[3] + job.figure[4] - Total(job)

\* The figures of an answer are those of the ballots, and the three add up to the total,
\* but for as many as were cast while it was counting (votes.module.ts:54-78, 139-150).
TallyIsClose ==
    \A r \in Request :
        req[r].at = "count" =>
            LET job == req[r] IN
            /\ \A i \in DOMAIN job.figure :
                   Distance(job.figure[i], BallotsFor(job.queries[i])) <= job.meanwhile
            /\ Len(job.figure) = 4 => Distance(Total(job), Parts(job)) <= job.meanwhile

\* After the end of a vote only requests that had looked at it before still change it: once
\* they are through, the outcome stays (votes.module.ts:110-132).
OutcomeStays ==
    [][~open /\ (\A r \in Request : req[r].at # "store")
           => ballot' = ballot /\ \A r \in Request : req'[r].at # "store"]_vars

=============================================================================
