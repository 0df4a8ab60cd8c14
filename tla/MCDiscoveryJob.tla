--------------------------- MODULE MCDiscoveryJob ---------------------------
(* DiscoveryJob on small sets of requests, for TLC.                        *)
EXTENDS DiscoveryJob, TLC

\* Cancel requests differ in nothing but their name.
Symmetry == Permutations(Cancellers)
=============================================================================
