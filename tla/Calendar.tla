------------------------------ MODULE Calendar ------------------------------
(***************************************************************************)
(* The calendar of one home: its availability periods                      *)
(* (property-availability.service) and the owner's page that edits them    *)
(* (AvailabilityManager), the confirmed exchanges over it, and what the    *)
(* public sees: the catalogue's search by dates (listPublic), the          *)
(* occupancy on the page of the home (availability-occupancy), and the     *)
(* check a request for it meets (exchanges.service create).                *)
(*                                                                         *)
(* Requests of the page are answered while another client of the owner,    *)
(* another tab or the API, changes the same calendar.                      *)
(***************************************************************************)
EXTENDS Naturals, FiniteSets, SequencesExt

CONSTANTS
    Periods,        \* ids of availability periods
    Lasts,          \* the last day there is
    Inputs,         \* what an owner may fill in: the fields of a period
    Patches,        \* changes of some of the fields
    Home,           \* of the Property row: acceptsPoints, acceptsDirect, maxGuests
    Parties,        \* how many guests one looks for
    MaxChanges      \* bound: changes by the other client, bookings and lost answers

NoPeriod == [from |-> 0]
Days == 1..Lasts
Types == {"UNAVAILABLE", "POINTS", "DIRECT", "BOTH", "ON_REQUEST"}
PeriodFields == [from: Days, to: Days, type: Types, min: Days, max: Days \cup {0}, guests: Nat]
FieldValues == [from |-> Days, to |-> Days, type |-> Types, min |-> Days, max |-> Days \cup {0},
                guests |-> Nat]
Trips == {t \in [from: Days, to: Days] : t.from < t.to}

\* max = 0 stands for no limit of nights.
ASSUME CalendarAssumption ==
    /\ Lasts \in Nat /\ MaxChanges \in Nat /\ Parties \subseteq Nat
    /\ NoPeriod \notin Periods
    /\ Inputs \subseteq PeriodFields
    /\ \A patch \in Patches : \A f \in DOMAIN patch :
           f \in DOMAIN FieldValues => patch[f] \in FieldValues[f]
    /\ Home \in [points: BOOLEAN, direct: BOOLEAN, guests: Nat]

VARIABLES
    period,     \* the rows of AvailabilityPeriod
    patching,   \* the other client's update, between its read and its transaction
    booked,     \* the dates of the home's CONFIRMED exchanges
    page,       \* AvailabilityManager: periods, the one edited, the one to delete, its request
    changes,    \* counts what MaxChanges bounds
    torn        \* history: periods whose update had checked other dates than it left

calendarVars == <<period, patching, booked, page, changes, torn>>

Live == {p \in Periods : period[p] # NoPeriod}
NoPatch == [of |-> NoPeriod]
AsksNothing == [step |-> "idle"]

CalendarInit ==
    /\ period = [p \in Periods |-> NoPeriod]
    /\ patching = NoPatch /\ booked = {} /\ changes = 0
    /\ page = [list |-> period, edits |-> NoPeriod, deletes |-> NoPeriod, asks |-> AsksNothing]
    /\ torn = {}

Change == changes < MaxChanges /\ changes' = changes + 1

-----------------------------------------------------------------------------
(* The periods.                                                            *)

Overlap(a, b) == a.from <= b.to /\ a.to >= b.from

validate(data) == data.from <= data.to /\ (data.max = 0 \/ data.max >= data.min)

\* Faulty variant: dates that touch are let through.
NoOverlapButEnds(data, except) ==
    \A q \in Live \ {except} : ~(period[q].from < data.to /\ period[q].to > data.from)

assertNoOverlap(data, except) == \A q \in Live \ {except} : ~Overlap(period[q], data)

Created(data) ==
    /\ validate(data) /\ assertNoOverlap(data, NoPeriod)
    /\ \E p \in Periods \ Live : period' = [period EXCEPT ![p] = data]

Removed(p) == p \in Live /\ period' = [period EXCEPT ![p] = NoPeriod]

\* update with every field, as the page sends it: what is checked is what is written.
Updated(p, data) ==
    /\ p \in Live /\ validate(data) /\ assertNoOverlap(data, p)
    /\ period' = [period EXCEPT ![p] = data]

-----------------------------------------------------------------------------
(* The other client.                                                       *)

Elsewhere ==
    /\ Change
    /\ \/ \E data \in Inputs : Created(data) /\ UNCHANGED torn
       \/ \E p \in Periods : /\ torn' = torn \ {p}
                             /\ Removed(p) \/ \E data \in Inputs : Updated(p, data)
    /\ UNCHANGED <<patching, booked, page>>

\* update with some fields: the row is read and the merge validated ...
PatchRead(p, patch) ==
    /\ Change /\ patching = NoPatch /\ p \in Live
    /\ LET next == [f \in DOMAIN period[p] |->
                       IF f \in DOMAIN patch THEN patch[f] ELSE period[p][f]] IN
       /\ validate(next)
       /\ patching' = [of |-> p, patch |-> patch, next |-> next]
    /\ UNCHANGED <<period, booked, page, torn>>

\* ... the transaction looks for overlaps of the merge, and writes the fields sent.
PatchCommit ==
    /\ patching # NoPatch /\ patching' = NoPatch
    /\ LET p == patching.of
           written == [f \in DOMAIN period[p] |->
               IF f \in DOMAIN patching.patch THEN patching.patch[f] ELSE period[p][f]] IN
       IF p \in Live /\ assertNoOverlap(patching.next, p)
       THEN /\ period' = [period EXCEPT ![p] = written]
            /\ torn' = IF written # patching.next THEN torn \cup {p} ELSE torn \ {p}
       ELSE UNCHANGED <<period, torn>>
    /\ UNCHANGED <<booked, page, changes>>

-----------------------------------------------------------------------------
(* The page.                                                               *)

Ask(request) == page' = [page EXCEPT !.asks = request]
Still == UNCHANGED <<period, patching, booked, changes, torn>>
Ready == page.asks = AsksNothing
Shown == {p \in Periods : page.list[p] # NoPeriod}

Edit(p) == Ready /\ p \in Shown /\ page' = [page EXCEPT !.edits = p] /\ Still
CancelEdit == Ready /\ page.edits # NoPeriod /\ page' = [page EXCEPT !.edits = NoPeriod] /\ Still
AskDelete(p) == Ready /\ p \in Shown /\ page' = [page EXCEPT !.deletes = p] /\ Still
KeepPeriod == Ready /\ page.deletes # NoPeriod /\ page' = [page EXCEPT !.deletes = NoPeriod] /\ Still

\* submit; the calendar of the page takes an end after the start only.
Submit(data) ==
    /\ Ready /\ page.deletes = NoPeriod /\ data.from < data.to
    /\ Ask([step |-> "save", data |-> data]) /\ Still

ConfirmDelete ==
    /\ Ready /\ page.deletes # NoPeriod
    /\ Ask([step |-> "remove", of |-> page.deletes]) /\ Still

\* Done, the form is cleared and the page reloads.
Saved ==
    /\ page.asks.step = "save"
    /\ IF page.edits = NoPeriod THEN Created(page.asks.data) /\ UNCHANGED torn
       ELSE Updated(page.edits, page.asks.data) /\ torn' = torn \ {page.edits}
    /\ page' = [page EXCEPT !.edits = NoPeriod, !.asks = [step |-> "reload"]]
    /\ UNCHANGED <<patching, booked, changes>>

RemovedByPage ==
    /\ page.asks.step = "remove"
    /\ LET p == page.asks.of IN
       /\ Removed(p)
       /\ page' = [page EXCEPT !.edits = IF @ = p THEN NoPeriod ELSE @,
                               !.asks = [step |-> "reload"]]
       /\ torn' = torn \ {p}
    /\ UNCHANGED <<patching, booked, changes>>

\* Refused, or the answer is lost: the form and the dialog stay as they are.
Failed ==
    /\ page.asks.step \in {"save", "remove"} /\ Ask(AsksNothing)
    /\ Still

Reloaded ==
    /\ page.asks.step = "reload"
    /\ page' = [page EXCEPT !.list = period, !.deletes = NoPeriod, !.asks = AsksNothing]
    /\ UNCHANGED <<period, patching, booked, changes, torn>>

\* The periods stay as they were shown, and so does the dialog.
ReloadFailed ==
    /\ page.asks.step = "reload" /\ Change /\ Ask(AsksNothing)
    /\ UNCHANGED <<period, patching, booked, torn>>

-----------------------------------------------------------------------------
(* What others see of it.                                                  *)

Nights(t) == t.to - t.from
Conflict(t) == \E b \in booked : b.from < t.to /\ b.to > t.from
Fits(row, t, party) ==
    /\ row.from <= t.from /\ row.to >= t.to /\ row.guests >= party
    /\ row.min <= Nights(t) /\ (row.max = 0 \/ row.max >= Nights(t))
Suits(exchange) == IF exchange = "POINTS" THEN {"POINTS", "BOTH"} ELSE {"DIRECT", "BOTH"}
Accepts(exchange) == IF exchange = "POINTS" THEN Home.points ELSE Home.direct

\* Faulty variant: the search leaves the guests of the period out.
FoundForAnyParty(t, exchange, party) ==
    /\ Accepts(exchange) /\ party <= Home.guests
    /\ \E p \in Live : Fits(period[p], t, 0) /\ period[p].type \in Suits(exchange)
    /\ ~Conflict(t)

\* listPublic, with dates, a kind of exchange and guests.
Found(t, exchange, party) ==
    /\ Accepts(exchange) /\ party <= Home.guests
    /\ \E p \in Live : Fits(period[p], t, party) /\ period[p].type \in Suits(exchange)
    /\ ~Conflict(t)

\* listPublic without a kind.
FoundAnyKind(t, party) ==
    /\ party <= Home.guests
    /\ \E p \in Live : Fits(period[p], t, party) /\ period[p].type # "UNAVAILABLE"
    /\ ~Conflict(t)

\* create of exchanges.service: which period a request falls in.
Requestable(t, exchange, party) ==
    /\ party <= Home.guests /\ Accepts(exchange)
    /\ \E p \in Live :
         /\ period[p].from <= t.from /\ period[p].to >= t.to
         /\ period[p].type \in Suits(exchange) /\ period[p].guests >= party
         /\ period[p].min <= Nights(t) /\ (period[p].max = 0 \/ period[p].max >= Nights(t))
    /\ ~Conflict(t)

\* An exchange of these dates is confirmed, and another cancelled.
Book(t) ==
    /\ Change /\ \E k \in {"POINTS", "DIRECT"}, n \in Parties : Requestable(t, k, n)
    /\ booked' = booked \cup {t}
    /\ UNCHANGED <<period, patching, page, torn>>

Unbook(t) ==
    /\ t \in booked /\ booked' = booked \ {t}
    /\ UNCHANGED <<period, patching, page, changes, torn>>

Least(a, b) == IF a < b THEN a ELSE b
Most(a, b) == IF a > b THEN a ELSE b

Clipped(row) ==
    {r \in {[from |-> Most(b.from, row.from), to |-> Least(b.to, row.to)] : b \in booked} :
        r.from < r.to}

\* Faulty variant: a range that touches the one before starts a new one.
JoinApart(merged, r) ==
    IF merged = <<>> \/ r.from >= Last(merged).to THEN Append(merged, r)
    ELSE [merged EXCEPT ![Len(merged)].to = Most(@, r.to)]

\* One step of the reduce.
Join(merged, r) ==
    IF merged = <<>> \/ r.from > Last(merged).to THEN Append(merged, r)
    ELSE [merged EXCEPT ![Len(merged)].to = Most(@, r.to)]

\* The last of the ranges in the order of their starts.  Where two start on one
\* day it is either: what they merge to is the same.
LatestRange(ranges) == CHOOSE r \in ranges : \A q \in ranges : q.from <= r.from

BookedRanges(row) ==
    LET merged[ranges \in SUBSET Clipped(row)] ==
            IF ranges = {} THEN <<>>
            ELSE Join(merged[ranges \ {LatestRange(ranges)}], LatestRange(ranges))
    IN merged[Clipped(row)]

Occupancy(row) ==
    LET ranges == BookedRanges(row) IN
    IF Len(ranges) = 1 /\ ranges[1].from <= row.from /\ ranges[1].to >= row.to THEN "BOOKED"
    ELSE IF ranges # <<>> THEN "PARTIALLY_BOOKED" ELSE "AVAILABLE"

CalendarNext ==
    \/ Elsewhere \/ PatchCommit \/ \E p \in Periods, patch \in Patches : PatchRead(p, patch)
    \/ \E data \in Inputs : Submit(data)
    \/ \E p \in Periods : Edit(p) \/ AskDelete(p)
    \/ CancelEdit \/ KeepPeriod \/ ConfirmDelete
    \/ Saved \/ RemovedByPage \/ Failed \/ Reloaded \/ ReloadFailed
    \/ \E t \in Trips : Book(t) \/ Unbook(t)

CalendarSpec == CalendarInit /\ [][CalendarNext]_calendarVars

-----------------------------------------------------------------------------
(* Properties.                                                             *)

CalendarTypeOK ==
    /\ \A p \in Live : period[p] \in PeriodFields
    /\ booked \subseteq Trips /\ torn \subseteq Live
    /\ page.edits \in Periods \cup {NoPeriod} /\ page.deletes \in Periods \cup {NoPeriod}

\* Periods of a home do not overlap and end no sooner than they start, whoever
\* changes them at once, except one an update of some fields left with other
\* dates than it had checked.
PeriodsApart ==
    \A p \in Live \ torn :
        /\ validate(period[p])
        /\ \A q \in Live \ (torn \cup {p}) : ~Overlap(period[p], period[q])

\* Whoever finds the home by dates, kind and guests may ask for it.
FoundIsRequestable ==
    \A t \in Trips, k \in {"POINTS", "DIRECT"}, n \in Parties :
        Found(t, k, n) => Requestable(t, k, n)

\* The page of the home calls a period booked when every night of it is taken,
\* and free when none is.
BookedNights(row) ==
    {n \in row.from..(row.to - 1) : \E b \in booked : b.from <= n /\ n < b.to}
OccupancyExact ==
    \A p \in Live :
        LET row == period[p]  nights == row.from..(row.to - 1)  taken == BookedNights(row) IN
        validate(row) =>
            /\ (Occupancy(row) = "BOOKED" <=> taken = nights /\ nights # {})
            /\ (Occupancy(row) = "AVAILABLE" <=> taken = {})

\* Overlapping periods and ranges that end before they start are refused
\* (docs/local-manual-testing-plan.md:216).
PeriodsValid ==
    \A p \in Live : /\ validate(period[p])
                    /\ \A q \in Live \ {p} : ~Overlap(period[p], period[q])

\* Whoever finds the home by dates and guests may ask for it in some way.
AnyKindIsRequestable ==
    \A t \in Trips, n \in Parties :
        FoundAnyKind(t, n) => \E k \in {"POINTS", "DIRECT"} : Requestable(t, k, n)
=============================================================================
