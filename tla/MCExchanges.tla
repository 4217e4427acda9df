----------------------------- MODULE MCExchanges -----------------------------
(***************************************************************************)
(* Small instances of Exchanges for TLC: two guests and a host with one    *)
(* home, or two owners who swap homes.                                     *)
(***************************************************************************)
EXTENDS ExchangesEscrow, TLC

CONSTANTS ann, bob, host, flat, house, none

Stay(from, to) == [from |-> from, to |-> to]
Always(type) == [from |-> 0, to |-> 3, type |-> type, maxGuests |-> 2,
                 minNights |-> 1, maxNights |-> none]
Home(accepts, type) == [accepts |-> accepts, maxGuests |-> 2,
                        periods |-> {Always(type)}]

\* Guests ann and bob, both after the host's house.
GuestOwner == house :> host
GuestHomes == house :> Home({"POINTS"}, "POINTS")
\* Owners ann and bob, each after the other's home, for points or as a swap.
SwapOwner == flat :> ann @@ house :> bob
SwapHomes == flat :> Home(ExchangeTypes, "DIRECT") @@ house :> Home(ExchangeTypes, "BOTH")

OneNight == {Stay(0, 1)}
TwoStays == {Stay(0, 1), Stay(0, 2)}
Credit == {1}
Charge == {-1}

RequestSymmetry == Permutations(Requests)
=============================================================================
