--------------------------- MODULE MCFundingParts ---------------------------
(***************************************************************************)
(* Funding, one handler at a time, and four instances of it that share its *)
(* variables, checked in one run: a behaviour is one of the instance that  *)
(* the initial state picks.  They differ in the operations that clients    *)
(* call, the amounts they ask for, and how much may be in flight and in    *)
(* the tables.                                                             *)
(***************************************************************************)
EXTENDS MCFunding

VARIABLE part

\* What the handlers that run one by one are: clients of the two investment
\* endpoints, of cancel and of confirm.  A project has a target
\* (projects.module.ts:403-405).
ASSUME PartsAssumption ==
    /\ Calls \subseteq SerialCalls
    /\ \A p \in Project : Target[p] > 0

PromiseCalls == INSTANCE Funding WITH
    Calls <- InvestCalls, Amount <- {1}, DealMax <- MCNoDealMax, MaxRefund <- 1
MoneyMoves == INSTANCE Funding WITH
    Calls <- MoneyCalls, DealMax <- MCNoDealMax, MaxRefund <- 2
Office == INSTANCE Funding WITH
    Calls <- OfficeCalls, Amount <- {1}, DealMax <- MCNoDealMax, MaxRefund <- 1
Lifecycle == INSTANCE Funding WITH
    Calls <- LifecycleCalls, Amount <- {1}, DealMax <- MCNoDealMax, MaxRefund <- 1

\* Handlers in flight, and rows, in the next state.
InFlight(n) == Cardinality({r \in Request : req'[r] # Idle}) <= n
Rows(n) == Cardinality({i \in Row : Exists(i)'}) <= n
\* All clients use one key.
OneKey ==
    LET used == ({req'[r].key : r \in Request} \cup {investment'[i].key : i \in Row}) \ {None}
    IN  Cardinality(used) <= 1

PartsInit == Init /\ part \in {"promise", "money", "serial", "office", "lifecycle"}

PartsNext ==
    /\ \/ part = "promise" /\ PromiseCalls!Next
       \/ part = "money" /\ MoneyMoves!Next /\ InFlight(2)
       \/ part = "serial" /\ Next /\ InFlight(1)
       \/ part = "office" /\ Office!Next /\ InFlight(2) /\ Rows(1) /\ OneKey
       \/ part = "lifecycle" /\ Lifecycle!Next /\ InFlight(2) /\ Rows(1) /\ OneKey
    /\ UNCHANGED part

PartsSpec == PartsInit /\ [][PartsNext]_<<vars, part>>

(***************************************************************************)
(* What one handler at a time keeps; funding_race_cap and                  *)
(* funding_race_cancel show that two lose it.                              *)
(***************************************************************************)

\* When handlers run one by one, a deal's investments stay within its maximum
\* (deals.module.ts:632-640), an investment is refunded once (investments.module.ts:443-447)
\* and a project whose commitments reach its target is FUNDED (investments.module.ts:309-319).
ChecksHoldAlone == part = "serial" => DealCapHolds /\ RefundedAtMostOnce /\ FundedAtTarget

=============================================================================
