------------------------------ MODULE MCPhotos ------------------------------
(***************************************************************************)
(* One home, up to two photos, and two or three handlers in flight.        *)
(***************************************************************************)
EXTENDS PropertyPhotos, TLC

CONSTANTS house, p1, p2

OnePhoto == p1 :> house
TwoPhotos == p1 :> house @@ p2 :> house
PhotoSymmetry == Permutations(Jobs) \cup Permutations(Photos)
=============================================================================
