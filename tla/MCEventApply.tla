----------------------------- MODULE MCEventApply -----------------------------
(* Small instances of EventApply for TLC.                                   *)
EXTENDS EventApply, TLC

\* Events and prefectures are interchangeable.
Symmetry == Permutations(Events) \union Permutations(Prefectures)
=============================================================================
