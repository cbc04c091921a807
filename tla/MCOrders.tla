------------------------------ MODULE MCOrders ------------------------------
(* Orders with interchangeable rows, workers and tabs.                     *)
EXTENDS Orders, TLC

Symmetry == Permutations(Orders) \cup Permutations(Trackers)
       \cup Permutations(Workers) \cup Permutations(Tabs)
=============================================================================
