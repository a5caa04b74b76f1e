----------------------------- MODULE MCKProxyMux -----------------------------
(* KProxyMux on a small instance: ids and ordinary requests are interchangeable. *)
EXTENDS KProxyMux, TLC

Symmetry == Permutations(Ids) \cup Permutations(Reqs \ ShortNames)
==============================================================================
