------------------------------- MODULE MCBilling -------------------------------
(***************************************************************************)
(* An instance of Billing for TLC: shipments and counters as model values. *)
(***************************************************************************)
EXTENDS Billing

CONSTANTS s1, s2, r1, r2
=============================================================================
