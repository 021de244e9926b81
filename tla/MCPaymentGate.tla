---------------------------- MODULE MCPaymentGate ----------------------------
(***************************************************************************)
(* PaymentGate on small instances: a region's price is 1.0 or 0.4 times    *)
(* the smallest charge, so that rounding happens.                          *)
(***************************************************************************)
EXTENDS PaymentGate
===============================================================================
