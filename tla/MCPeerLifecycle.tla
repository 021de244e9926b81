--------------------------- MODULE MCPeerLifecycle ---------------------------
(***************************************************************************)
(* PeerLifecycle on small instances.  Sessions, addresses and keys differ  *)
(* only in their names.                                                    *)
(***************************************************************************)
EXTENDS PeerLifecycle, TLC

Interchangeable == Permutations(Sessions) \cup Permutations(Addresses) \cup Permutations(Keys)
===============================================================================
