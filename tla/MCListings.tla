----------------------------- MODULE MCListings -----------------------------
(***************************************************************************)
(* One home with one photo, and up to three handlers in flight.  *)
(***************************************************************************)
EXTENDS Listings, TLC

CONSTANTS house, p1

OnePhoto == p1 :> house
CallSymmetry == Permutations(Calls)
=============================================================================
