----------------------------- MODULE MCFetchGate -----------------------------
(***************************************************************************)
(* FetchGate on small instances: windows of two seconds, one request a     *)
(* window.                                                                 *)
(***************************************************************************)
EXTENDS FetchGate
===============================================================================
