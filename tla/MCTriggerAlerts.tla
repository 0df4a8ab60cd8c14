--------------------------- MODULE MCTriggerAlerts ---------------------------
(* TriggerAlerts on small sets of triggers and sessions, for TLC.          *)
EXTENDS TriggerAlerts, TLC

\* Sessions of a kind, and triggers of a kind, differ in nothing but their name.
Symmetry == Permutations(Sweeps) \cup Permutations(Messages) \cup Permutations(Syslog)
=============================================================================
