---------------------------- MODULE MCScanSlots -----------------------------
(* Instances of ScanSlots for TLC. *)
EXTENDS ScanSlots, TLC

\* Requests of one class are interchangeable.
ClassSymmetry == Permutations(Interactive) \cup Permutations(Bulk)
=============================================================================
