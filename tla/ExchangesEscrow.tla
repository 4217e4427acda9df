--------------------------- MODULE ExchangesEscrow ---------------------------
(***************************************************************************)
(* Exchanges implements Escrow: the CONFIRMED requests are the bookings,   *)
(* `available' is the purse, and the overlap query over date intervals     *)
(* amounts to a calendar kept night by night.                              *)
(***************************************************************************)
EXTENDS Exchanges

\* A booking's absence is told from a booking.
ASSUME NoneIsNoBooking ==
    None \notin Requests \cup [guest: Users, host: Users, price: Nat]

AllNights == UNION {trip.from..(trip.to - 1) : trip \in Trips}

Confirmed(id) == request[id].status = "CONFIRMED"

BookingOf(id) ==
    IF Confirmed(id)
    THEN [guest |-> request[id].requester, host |-> Host(id),
          price |-> request[id].total]
    ELSE None

StaysIn(p, n) == {id \in Requests : /\ Confirmed(id) /\ p \in HomesOf(id)
                                    /\ request[id].trip.from <= n
                                    /\ n < request[id].trip.to}

Calendar == [p \in Properties |-> [n \in AllNights |->
    IF StaysIn(p, n) = {} THEN None ELSE CHOOSE id \in StaysIn(p, n) : TRUE]]

E == INSTANCE Escrow WITH
        Places <- Properties, Bookings <- Requests, Dates <- AllNights,
        Free <- None, Amounts <- Bonuses \cup Adjustments,
        Prices <- {r * Nights(trip) : r \in Rates \cup {0}, trip \in Trips},
        purse <- available,
        booking <- [id \in Requests |-> BookingOf(id)],
        calendar <- Calendar

\* Every step of the handlers is a step of the escrow, or changes nothing in
\* it: no interleaving books a night twice, loses a reserve or pays both sides.
ImplementsEscrow == E!Spec
=============================================================================
