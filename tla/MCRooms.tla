------------------------------- MODULE MCRooms -------------------------------
(* Small instances of Rooms for TLC.                                        *)
EXTENDS Rooms

CONSTANTS a1, a2, r1, r2

\* Two accounts of one team: one is in both rooms, the other in one.
OneTeam == a1 :> {r1, r2} @@ a2 :> {r2}
\* One account and its rooms.
Alone    == a1 :> Rooms

Symmetry == Permutations(Slots)
=============================================================================
