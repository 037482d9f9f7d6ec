------------------------------ MODULE MCSession ------------------------------
(* Small instances of Session for TLC.                                      *)
EXTENDS Session, TLC

CONSTANTS u1, u2, s1, s2

\* An account and the one that comes after it; a request and a later one.
TwoUsers == {u1, u2}
TwoSlots == {s1, s2}

\* Slots are only told apart by what is in flight in them.  (For the run of the
\* safety properties; liveness is checked without symmetry.)
Symmetry == Permutations(TwoSlots)
=============================================================================
