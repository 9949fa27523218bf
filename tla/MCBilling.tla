----------------------------- MODULE MCBilling -----------------------------
(* Instances of Billing for TLC. *)
EXTENDS BillingViews
RequestSymmetry == Permutations(Requests)
=============================================================================
