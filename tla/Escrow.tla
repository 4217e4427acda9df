------------------------------- MODULE Escrow -------------------------------
(***************************************************************************)
(* What the exchange service promises, with no request statuses, no        *)
(* reserved balance, no interval arithmetic and no handlers: a booking     *)
(* takes whole nights out of the calendars of the homes it uses and puts   *)
(* its price in escrow; when it ends the nights are given back and the     *)
(* escrow goes to exactly one of the two sides.                            *)
(***************************************************************************)
EXTENDS Integers, Sums

CONSTANTS Users, Places, Bookings, Dates,
          Amounts,    \* deposits and withdrawals
          Prices,     \* prices of a booking
          Free        \* no booking: not one of Bookings

VARIABLES
    purse,      \* points a user may spend
    booking,    \* the bookings in force: guest, host and price in escrow
    calendar    \* calendar[h][n]: the booking that has home h in night n

evars == <<purse, booking, calendar>>

InForce == {b \in Bookings : booking[b] # Free}
Price(bs) == SumOf([b \in bs |-> booking[b].price])
Sides(b) == {booking[b].guest, booking[b].host}

\* Take the nights of bookings bs out of every calendar.
FreeDates(bs) ==
    [h \in Places |-> [n \in Dates |->
        IF calendar[h][n] \in bs THEN Free ELSE calendar[h][n]]]

Init == /\ purse = [u \in Users |-> 0]
        /\ booking = [b \in Bookings |-> Free]
        /\ calendar = [h \in Places |-> [n \in Dates |-> Free]]

\* Deposits, bonuses and withdrawals: never more than the purse holds.
Fund(u, n) == /\ purse[u] + n >= 0
              /\ purse' = [purse EXCEPT ![u] = @ + n]
              /\ UNCHANGED <<booking, calendar>>

Reserve(b, guest, host, price) ==
    /\ booking' = [booking EXCEPT ![b] =
           [guest |-> guest, host |-> host, price |-> price]]
    /\ price <= purse[guest]
    /\ purse' = [purse EXCEPT ![guest] = @ - price]

Occupy(b, homes, dates) ==
    /\ \A h \in homes, n \in dates : calendar[h][n] = Free
    /\ calendar' = [h \in Places |-> [n \in Dates |->
           IF h \in homes /\ n \in dates THEN b ELSE calendar[h][n]]]

\* A new booking of some homes for consecutive nights.
Book(b) ==
    /\ booking[b] = Free
    /\ \E guest, host \in Users, price \in Prices :
           guest # host /\ Reserve(b, guest, host, price)
    /\ \E homes \in (SUBSET Places) \ {{}}, from, to \in Dates :
           from <= to /\ Occupy(b, homes, from..to)

\* The booking ends and the price goes to `payee'.
Close(b, payee) ==
    /\ booking[b] # Free
    /\ booking' = [booking EXCEPT ![b] = Free]
    /\ payee \in Sides(b)
    /\ purse' = [purse EXCEPT ![payee] = @ + booking[b].price]
    /\ calendar' = FreeDates({b})

\* A user leaves: their bookings end, the other guests are refunded.
Leave(u) ==
    LET bs == {b \in InForce : u \in Sides(b)} IN
    /\ booking' = [b \in Bookings |-> IF b \in bs THEN Free ELSE booking[b]]
    /\ purse' = [v \in Users |->
           IF v = u THEN 0
           ELSE purse[v] + Price({b \in bs : booking[b].guest = v})]
    /\ calendar' = FreeDates(bs)

Next ==
    \/ \E u \in Users, n \in Amounts : Fund(u, n)
    \/ \E b \in Bookings : Book(b)
    \/ \E b \in Bookings, payee \in Users : Close(b, payee)
    \/ \E u \in Users : Leave(u)

Spec == Init /\ [][Next]_evars
=============================================================================
