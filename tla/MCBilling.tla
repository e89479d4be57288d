------------------------------ MODULE MCBilling ------------------------------
(* Instance of Billing for TLC.                                              *)
EXTENDS Billing, TLC

MCSymmetry == Permutations(Calls) \cup Permutations(Invoices)
=============================================================================
