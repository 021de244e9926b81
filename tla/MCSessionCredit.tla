--------------------------- MODULE MCSessionCredit ---------------------------
(***************************************************************************)
(* SessionCredit on small instances.  Ticks, and topup requests, differ    *)
(* only in their names, so the safety runs check one of each permutation.  *)
(***************************************************************************)
EXTENDS SessionCredit, TLC

Interchangeable == Permutations(Ticks) \cup Permutations(Requests) \cup Permutations(Sessions)
===============================================================================
