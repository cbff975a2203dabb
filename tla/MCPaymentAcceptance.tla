------------------------- MODULE MCPaymentAcceptance -------------------------
EXTENDS PaymentAcceptance, TLC

(* Checkout sessions are interchangeable. *)
AttemptSymmetry == Permutations(Attempts)
=============================================================================
