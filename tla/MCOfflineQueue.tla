--------------------------- MODULE MCOfflineQueue ---------------------------
(* Model values for the runs of OfflineQueue. *)
EXTENDS OfflineQueue, TLC

CONSTANTS c1, c2, d1, d2, f1

\* Two calls of complete() and two drains differ in nothing but their name.
Interchangeable == Permutations(Counters) \cup Permutations(Drains)
=============================================================================
