----------------------------- MODULE MCTrackers -----------------------------
(* Trackers with interchangeable names, serials, rows and workers.         *)
EXTENDS TrackerList, TLC

Symmetry == Permutations(Names) \cup Permutations(Serials)
       \cup Permutations(Ids) \cup Permutations(Workers)
=============================================================================
