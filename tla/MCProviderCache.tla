--------------------------- MODULE MCProviderCache ---------------------------
(* Instances of ProviderCache for TLC.                                     *)
EXTENDS ProviderCache, TLC

Interchangeable == Permutations(Clients) \cup Permutations(Versions)
=============================================================================
