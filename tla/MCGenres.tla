------------------------------- MODULE MCGenres -------------------------------
(* Genres on a small instance: three genres, the two places, and two       *)
(* requests whose answers can overtake each other.  Genres are             *)
(* interchangeable, and so are places and requests.                        *)
EXTENDS Genres, TLC

CONSTANTS g1, g2, g3, offline, online, s1, s2

ThreeGenres == {g1, g2, g3}
TwoPlaces == {offline, online}
TwoSlots  == {s1, s2}

Symmetric == Permutations(ThreeGenres) \union Permutations(TwoPlaces)
             \union Permutations(TwoSlots)
=============================================================================
