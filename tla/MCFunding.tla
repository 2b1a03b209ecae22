----------------------------- MODULE MCFunding -----------------------------
(* Instances of Funding for TLC. *)
EXTENDS Funding, TLC

CONSTANTS p1, d1

\* One project, one deal on it.
MCTarget == p1 :> 3
MCDealProject == d1 :> p1
MCDealTarget == d1 :> 8
MCDealMax == d1 :> 2
MCNoDealMax == d1 :> 0

InvestCalls == {"invest", "dealInvest"}
MoneyCalls == {"dealInvest", "cancel", "compliance"}
OfficeCalls == {"invest", "cancel", "confirm", "update", "transaction"}
LifecycleCalls == {"invest", "confirm", "approve", "reject", "publish"}
SerialCalls == {"invest", "dealInvest", "cancel", "confirm"}

Symmetry == Permutations(Row) \cup Permutations(Request)
SymmetryWithKeys == Symmetry \cup Permutations(Key)
=============================================================================
