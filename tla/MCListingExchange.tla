------------------------- MODULE MCListingExchange --------------------------
(***************************************************************************)
(* Two owners who may swap their homes, or a guest after the host's home.  *)
(***************************************************************************)
EXTENDS ListingExchange, Integers, TLC

CONSTANTS ann, bob, flat, house, none, f1, f2

Always(type) == [from |-> 0, to |-> 3, type |-> type, maxGuests |-> 2,
                 minNights |-> 1, maxNights |-> none]
Home(accepts, type) == [accepts |-> accepts, maxGuests |-> 2,
                        periods |-> {Always(type)}]

GuestOwner == house :> bob
GuestHomes == house :> Home({"POINTS"}, "POINTS")
GuestPhotos == f1 :> house

SwapOwner == flat :> ann @@ house :> bob
SwapHomes == flat :> Home({"DIRECT"}, "DIRECT") @@ house :> Home({"DIRECT"}, "DIRECT")
SwapPhotos == f1 :> flat @@ f2 :> house

OneNight == {[from |-> 0, to |-> 1]}
Charge == {-1}
=============================================================================
