----------------------------- MODULE MCPayments -----------------------------
(***************************************************************************)
(* Instances of Payments: every intent pays for one and the same           *)
(* investment, and the workers are interchangeable.                        *)
(***************************************************************************)
EXTENDS Payments

CONSTANTS v1, w1, w2, MaxPayments

MCWorker == {w1, w2}
MCSymmetry == Permutations(MCWorker)

\* A bound of the model: payment rows.
FewPayments == MapThenSumSet(LAMBDA row : payment[row], DOMAIN payment) <= MaxPayments

MCPaysFor == [i \in Intent |-> v1]

=============================================================================
