---------------------------- MODULE MCPaymentFlow ----------------------------
(* Two processes that may overlap: a run, a poll, a cycle of a scheduler.    *)
EXTENDS PaymentFlow, TLC
CONSTANTS p1, p2
Simetria == Permutations({p1, p2})
=============================================================================
