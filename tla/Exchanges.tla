------------------------------ MODULE Exchanges ------------------------------
(***************************************************************************)
(* Exchange requests and the DomPoints they move                           *)
(* (server/src/exchanges/exchanges.service.ts, points.service.ts, and the  *)
(* parts of auth.service.ts and admin.service.ts that touch point          *)
(* accounts).                                                              *)
(*                                                                         *)
(* A request is PENDING, then PREAPPROVED by the host, then CONFIRMED by   *)
(* the requester, whose points are moved from `available' to `reserved';   *)
(* it ends COMPLETED (the host is paid), REJECTED or CANCELLED.            *)
(*                                                                         *)
(* confirm, cancelConfirmed, complete and deleteUser run in SERIALIZABLE   *)
(* transactions and are one step each.  create, preapprove, reject and     *)
(* cancel are chains of awaited statements outside any transaction: each   *)
(* statement is a step, and other handlers run in between.                 *)
(***************************************************************************)
EXTENDS Integers, FiniteSets, Sums

CONSTANTS
    Users,          \* ids of user rows, present, future and deleted
    Properties,     \* ids of homes
    Requests,       \* ids a request row may get
    Calls,          \* handler invocations that may be in flight at once
    Owner,          \* Owner[p]: the user who owns p (no code updates ownerId)
    Homes,          \* Homes[p]: what p accepts and its availability periods
    Trips,          \* the stays asked for: [from, to] in days
    Parties,        \* the numbers of guests asked for
    Rates,          \* points per night a period may be given
    Bonuses,        \* values of the registration and e-mail PointRules
    Adjustments,    \* amounts an administrator adjusts by
    Verifiers,      \* bound: the users who confirm their e-mail
    LastDay,        \* bound: the last day explored
    MaxAdjust,      \* bound: how many adjustments are explored
    None            \* SQL NULL

ExchangeTypes == {"POINTS", "DIRECT"}
AvailabilityTypes == {"UNAVAILABLE", "POINTS", "DIRECT", "BOTH", "ON_REQUEST"}

Periods == [from: Nat, to: Nat, type: AvailabilityTypes, maxGuests: Nat,
            minNights: Nat, maxNights: Nat \cup {None}]

ASSUME RequestsFinite == IsFiniteSet(Requests)
ASSUME UsersFinite == IsFiniteSet(Users)
ASSUME OwnerType == Owner \in [Properties -> Users]
ASSUME HomesType ==
    Homes \in [Properties -> [accepts: SUBSET ExchangeTypes, maxGuests: Nat,
                              periods: SUBSET Periods]]
ASSUME TripsType == Trips \subseteq [from: Nat, to: Nat]
ASSUME AmountsType == /\ Rates \subseteq Nat
                      /\ Bonuses \subseteq Nat
                      /\ Adjustments \subseteq Int \ {0}
ASSUME BoundsType == LastDay \in Nat /\ MaxAdjust \in Nat
ASSUME NoneIsNoRow == None \notin Properties

VARIABLES
    today,          \* the server's UTC day
    userRow,        \* per user: no row yet, a row, or a deleted row
    available,      \* PointAccount.available
    reserved,       \* PointAccount.reserved
    completed,      \* UserProfile.completedExchanges
    journal,        \* PointTransaction rows
    adjusted,       \* how many adjustments were made (names their uuid keys)
    request,        \* ExchangeRequest rows
    published,      \* homes whose status is PUBLISHED
    rate,           \* AvailabilityPeriod.pointsPerNight of each home
    inbox,          \* Notification rows
    draft,          \* per call: a create handler between two of its awaits
    move            \* per call: a status change between two of its awaits

accounts == <<available, reserved, completed, journal>>
homes == <<published, rate>>
handlers == <<draft, move>>
vars == <<today, userRow, accounts, adjusted, request, homes, inbox, handlers>>

-----------------------------------------------------------------------------
(* Rows and the queries over them.                                         *)

ActiveStatuses == {"PENDING", "PREAPPROVED"}
Statuses == ActiveStatuses \cup
    {"CONFIRMED", "COMPLETED", "REJECTED", "CANCELLED"}

Rows == [status: Statuses, requester: Users, target: Properties,
         offered: Properties \cup {None}, type: ExchangeTypes,
         trip: Trips, total: Nat]
NoRow == [status |-> "NONE"]
Deleted == [status |-> "DELETED"]

Exists(id) == request[id].status \in Statuses
Host(id) == Owner[request[id].target]
Participants(id) == {request[id].requester, Host(id)}

\* Faulty variant: the author of the change is notified.
OtherIsSelf(id, u) == u

\* Who is told of what u did.
Other(id, u) == IF u = request[id].requester THEN Host(id)
                                             ELSE request[id].requester

\* The homes a request takes up: its target and the home offered for it.
HomesOf(id) == {request[id].target, request[id].offered} \ {None}

Nights(trip) == trip.to - trip.from
Overlap(t1, t2) == t1.from < t2.to /\ t1.to > t2.from

\* Faulty variant: the home offered in the other request is forgotten.
ConfirmedInTargetOnly(ps, trip) ==
    {id \in Requests : /\ request[id].status = "CONFIRMED"
                       /\ Overlap(request[id].trip, trip)
                       /\ request[id].target \in ps}

\* hasConfirmedConflict: a CONFIRMED stay in one of the homes on these days.
ConfirmedIn(ps, trip) ==
    {id \in Requests : /\ request[id].status = "CONFIRMED"
                       /\ Overlap(request[id].trip, trip)
                       /\ HomesOf(id) \cap ps # {}}

Present(u) == userRow[u] = "PRESENT"

-----------------------------------------------------------------------------
(* Points.                                                                 *)

\* The prices of some requests together.
Points(ids) == SumOf([id \in ids |-> request[id].total])

\* The requests whose price is set aside in u's reserved points.
HeldFor(u) == {id \in Requests : /\ request[id].status = "CONFIRMED"
                                 /\ request[id].requester = u}

\* Prefixes of idempotencyKey: one per business operation.
Operations == {"welcome", "email-verified", "admin-adjustment", "exchange-reserve",
               "exchange-release", "exchange-debit", "exchange-host-credit",
               "admin-delete-release"}

\* The journal: what an entry adds to the account it belongs to.
Entries == [account: Users,
            type: {"BONUS", "RESERVE", "RELEASE", "DEBIT", "HOST_CREDIT",
                   "ADMIN_ADJUSTMENT"},
            key: Operations \X (Requests \cup Users \cup Nat), amount: Int]
Entry(u, type, key, n) ==
    [account |-> u, type |-> type, key |-> key, amount |-> n]

\* idempotencyKey is UNIQUE: a row whose key is taken aborts the transaction.
Post(entries) == /\ \A e \in entries, f \in journal : e.key # f.key
                 /\ journal' = journal \cup entries

\* Faulty variant: the balance is not part of the update's condition.
EnoughUnchecked(balance, amount) == TRUE

\* updateMany where the balance covers the amount: otherwise nothing is done.
Enough(balance, amount) == balance >= amount

\* Faulty variant: the reserved points stay available.
ReserveTwice(u, amount) ==
    /\ Enough(available[u], amount)
    /\ available' = available
    /\ reserved' = [reserved EXCEPT ![u] = @ + amount]

Reserve(u, amount) ==
    /\ Enough(available[u], amount)
    /\ available' = [available EXCEPT ![u] = @ - amount]
    /\ reserved' = [reserved EXCEPT ![u] = @ + amount]

\* The reserve of guest goes to payee: back to the guest, or to the host.
PayReserve(guest, payee, amount) ==
    /\ Enough(reserved[guest], amount)
    /\ reserved' = [reserved EXCEPT ![guest] = @ - amount]
    /\ available' = [available EXCEPT ![payee] = @ + amount]

Notice(u, event, about) == [to |-> u, event |-> event, about |-> about]

-----------------------------------------------------------------------------
NoDraft == [pc |-> "idle"]
Drafts == [pc: {"offered", "offeredDates", "targetDates", "existing", "insert",
                "notify"},
           requester: Users, target: Properties, offered: Properties \cup {None},
           type: ExchangeTypes, trip: Trips, total: Nat, id: Requests \cup {None}]

NoMove == [pc |-> "idle"]
Moves == [pc: {"update", "notify"}, id: Requests, by: Users,
          from: ActiveStatuses, to: {"PREAPPROVED", "REJECTED", "CANCELLED"}]

Init == /\ today = 0
        /\ userRow = [u \in Users |-> "NONE"]
        /\ available = [u \in Users |-> 0]
        /\ reserved = [u \in Users |-> 0]
        /\ completed = [u \in Users |-> 0]
        /\ journal = {}
        /\ adjusted = 0
        /\ request = [id \in Requests |-> NoRow]
        /\ published = {}
        /\ rate \in [Properties -> Rates]
        /\ inbox = {}
        /\ draft = [c \in Calls |-> NoDraft]
        /\ move = [c \in Calls |-> NoMove]

-----------------------------------------------------------------------------
(* Around the exchanges: users, the clock, listings.                       *)

\* AuthService.register: the user, an account with the welcome bonus and its
\* journal entry, in one transaction.
Register(u) ==
    \E bonus \in Bonuses :
        /\ userRow[u] = "NONE"
        /\ userRow' = [userRow EXCEPT ![u] = "PRESENT"]
        /\ available' = [available EXCEPT ![u] = bonus]
        /\ Post({Entry(u, "BONUS", <<"welcome", u>>, bonus)})
        /\ UNCHANGED <<today, reserved, completed, adjusted, request, homes,
                       inbox, handlers>>

\* AuthService.verifyEmail with the right code: the key of the journal entry
\* lets the bonus be paid once.
VerifyEmail(u) ==
    \E bonus \in Bonuses :
        /\ u \in Verifiers /\ Present(u)
        /\ available' = [available EXCEPT ![u] = @ + bonus]
        /\ Post({Entry(u, "BONUS", <<"email-verified", u>>, bonus)})
        /\ UNCHANGED <<today, userRow, reserved, completed, adjusted, request,
                       homes, inbox, handlers>>

\* PointsService.adjust: a debit needs the points to be available.
Adjust(u, amount) ==
    /\ adjusted < MaxAdjust
    /\ Present(u)
    /\ Enough(available[u], -amount)
    /\ available' = [available EXCEPT ![u] = @ + amount]
    /\ adjusted' = adjusted + 1
    /\ Post({Entry(u, "ADMIN_ADJUSTMENT", <<"admin-adjustment", adjusted'>>,
                   amount)})
    /\ inbox' = inbox \cup {Notice(u, "POINTS_ADMIN_ADJUSTMENT", adjusted')}
    /\ UNCHANGED <<today, userRow, reserved, completed, request, homes, handlers>>

NextDay ==
    /\ today < LastDay
    /\ today' = today + 1
    /\ UNCHANGED <<userRow, accounts, adjusted, request, homes, inbox, handlers>>

\* A home becomes PUBLISHED, or stops being so: the conditional updates of
\* PropertiesService.changeStatus.  None of them but archive looks at requests.
ChangeStatus(p) ==
    /\ Present(Owner[p])
    /\ published' = IF p \in published THEN published \ {p} ELSE published \cup {p}
    /\ UNCHANGED <<today, userRow, accounts, adjusted, request, rate, inbox,
                   handlers>>

\* PropertyAvailabilityService.update with a new price.
Reprice(p, points) ==
    /\ Present(Owner[p])
    /\ rate[p] # points
    /\ rate' = [rate EXCEPT ![p] = points]
    /\ UNCHANGED <<today, userRow, accounts, adjusted, request, published, inbox,
                   handlers>>

-----------------------------------------------------------------------------
(* create: seven awaits outside any transaction.                           *)

Fits(period, trip, type, guests) ==
    /\ period.from <= trip.from /\ trip.to <= period.to
    /\ period.type \in {type, "BOTH"}
    /\ guests <= period.maxGuests
    /\ period.minNights <= Nights(trip)
    /\ period.maxNights # None => Nights(trip) <= period.maxNights

Advance(c, pc) == draft' = [draft EXCEPT ![c].pc = pc]
Refuse(c) == draft' = [draft EXCEPT ![c] = NoDraft]

\* A statement of create that reads and decides: on, or an error response.
CheckStep(c, at, ok, pc) ==
    /\ draft[c].pc = at
    /\ IF ok THEN Advance(c, pc) ELSE Refuse(c)
    /\ UNCHANGED <<today, userRow, accounts, adjusted, request, homes, inbox, move>>

\* The target and its periods are read once; the price is taken from them.
CreateReadTarget(c, u, p, offered, type, trip, guests) ==
    /\ draft[c] = NoDraft /\ move[c] = NoMove
    /\ Present(u)
    /\ trip.from >= today /\ Nights(trip) >= 1
    /\ p \in published
    /\ Owner[p] # u
    /\ guests <= Homes[p].maxGuests
    /\ type \in Homes[p].accepts
    /\ \E period \in Homes[p].periods : Fits(period, trip, type, guests)
    /\ IF type = "DIRECT" THEN offered # None ELSE offered = None
    /\ draft' = [draft EXCEPT ![c] =
           [pc |-> IF type = "DIRECT" THEN "offered" ELSE "targetDates",
            requester |-> u, target |-> p, offered |-> offered, type |-> type,
            trip |-> trip,
            total |-> IF type = "POINTS" THEN rate[p] * Nights(trip) ELSE 0,
            id |-> None]]
    /\ UNCHANGED <<today, userRow, accounts, adjusted, request, homes, inbox, move>>

CreateReadOffered(c) ==
    CheckStep(c, "offered", /\ Owner[draft[c].offered] = draft[c].requester
                            /\ draft[c].offered \in published
                            /\ "DIRECT" \in Homes[draft[c].offered].accepts,
              "offeredDates")

CreateCheckOfferedDates(c) ==
    CheckStep(c, "offeredDates",
              ConfirmedIn({draft[c].offered}, draft[c].trip) = {}, "targetDates")

CreateCheckTargetDates(c) ==
    CheckStep(c, "targetDates",
              ConfirmedIn({draft[c].target}, draft[c].trip) = {}, "existing")

\* An active request of the same guest for the same home and days.
SameGuestActive(u, p, trip) ==
    {id \in Requests : /\ request[id].status \in ActiveStatuses
                       /\ request[id].requester = u
                       /\ request[id].target = p
                       /\ Overlap(request[id].trip, trip)}

CreateCheckExisting(c) ==
    CheckStep(c, "existing",
              SameGuestActive(draft[c].requester, draft[c].target, draft[c].trip) = {},
              "insert")

\* The row is inserted; its foreign keys refuse it if a user is gone.
CreateInsert(c) ==
    /\ draft[c].pc = "insert"
    /\ LET d == draft[c] IN
       IF Present(d.requester) /\ Present(Owner[d.target])
       THEN \E id \in Requests :
              /\ request[id] = NoRow
              /\ request' = [request EXCEPT ![id] =
                     [status |-> "PENDING", requester |-> d.requester,
                      target |-> d.target, offered |-> d.offered,
                      type |-> d.type, trip |-> d.trip, total |-> d.total]]
              /\ draft' = [draft EXCEPT ![c].pc = "notify", ![c].id = id]
       ELSE Refuse(c) /\ UNCHANGED request
    /\ UNCHANGED <<today, userRow, accounts, adjusted, homes, inbox, move>>

CreateNotify(c) ==
    /\ draft[c].pc = "notify"
    /\ inbox' = IF Present(Owner[draft[c].target])
                THEN inbox \cup {Notice(Owner[draft[c].target], "PENDING", draft[c].id)}
                ELSE inbox
    /\ Refuse(c)
    /\ UNCHANGED <<today, userRow, accounts, adjusted, request, homes, move>>

-----------------------------------------------------------------------------
(* preapprove, reject and cancel: read, conditional update, notification.  *)

StartMove(c, u, id, from, to) ==
    /\ draft[c] = NoDraft /\ move[c] = NoMove
    /\ move' = [move EXCEPT ![c] =
           [pc |-> "update", id |-> id, by |-> u, from |-> from, to |-> to]]
    /\ UNCHANGED <<today, userRow, accounts, adjusted, request, homes, inbox, draft>>

\* preapprove names the status it starts from; it need not be current.
Preapprove(c, u, id) ==
    /\ Exists(id) /\ Present(u) /\ u \in Participants(id)
    /\ StartMove(c, u, id, "PENDING", "PREAPPROVED")

Reject(c, u, id) ==
    /\ Exists(id) /\ Present(u) /\ u = Host(id)
    /\ request[id].status \in ActiveStatuses
    /\ StartMove(c, u, id, request[id].status, "REJECTED")

Cancel(c, u, id) ==
    /\ Exists(id) /\ Present(u) /\ u = request[id].requester
    /\ request[id].status \in ActiveStatuses
    /\ StartMove(c, u, id, request[id].status, "CANCELLED")

\* Who may make a move: the requester cancels, the host does the rest.
Mover(id, to) == IF to = "CANCELLED" THEN request[id].requester ELSE Host(id)

\* Faulty variant: the status read earlier is not part of the condition.
UpdateAnyStatus(id, by, from, to) ==
    IF Exists(id) /\ by = Mover(id, to) THEN [request EXCEPT ![id].status = to]
                                       ELSE request

\* updateMany where id, the actor's column and the status read earlier match.
UpdateStatus(id, by, from, to) ==
    IF /\ Exists(id) /\ by = Mover(id, to) /\ request[id].status = from
    THEN [request EXCEPT ![id].status = to]
    ELSE request

TransitionUpdate(c) ==
    /\ move[c].pc = "update"
    /\ request' = UpdateStatus(move[c].id, move[c].by, move[c].from, move[c].to)
    /\ move' = [move EXCEPT ![c] = IF request' = request THEN NoMove
                                   ELSE [@ EXCEPT !.pc = "notify"]]
    /\ UNCHANGED <<today, userRow, accounts, adjusted, homes, inbox, draft>>

\* The row is read again for the recipient: it may be gone by then.
TransitionNotify(c) ==
    /\ move[c].pc = "notify"
    /\ LET m == move[c] IN
       inbox' = IF Exists(m.id)
                THEN inbox \cup {Notice(Other(m.id, m.by), m.to, m.id)}
                ELSE inbox
    /\ move' = [move EXCEPT ![c] = NoMove]
    /\ UNCHANGED <<today, userRow, accounts, adjusted, request, homes, draft>>

-----------------------------------------------------------------------------
(* The serializable transactions.                                          *)

\* confirm: no other CONFIRMED stay in either home, the price is reserved.
Confirm(u, id) ==
    /\ Exists(id) /\ Present(u) /\ u = request[id].requester
    /\ request[id].status = "PREAPPROVED"
    /\ ConfirmedIn(HomesOf(id), request[id].trip) = {}
    /\ LET amount == request[id].total IN
       IF amount > 0
       THEN /\ Reserve(u, amount)
            /\ Post({Entry(u, "RESERVE", <<"exchange-reserve", id>>, -amount)})
       ELSE UNCHANGED <<available, reserved, journal>>
    /\ request' = [request EXCEPT ![id].status = "CONFIRMED"]
    /\ inbox' = inbox \cup {Notice(Host(id), "CONFIRMED", id)}
    /\ UNCHANGED <<today, userRow, completed, adjusted, homes, handlers>>

InForce(id) == request[id].status = "CONFIRMED"

\* cancelConfirmed: either side, at any time; the reserve goes back.
CancelConfirmed(u, id) ==
    /\ Exists(id) /\ Present(u) /\ u \in Participants(id)
    /\ InForce(id)
    /\ LET amount == request[id].total
           guest == request[id].requester
       IN IF amount > 0
          THEN /\ PayReserve(guest, guest, amount)
               /\ Post({Entry(guest, "RELEASE", <<"exchange-release", id>>, amount)})
          ELSE UNCHANGED <<available, reserved, journal>>
    /\ request' = [request EXCEPT ![id].status = "CANCELLED"]
    /\ inbox' = inbox \cup {Notice(Other(id, u), "CANCELLED", id)}
    /\ UNCHANGED <<today, userRow, completed, adjusted, homes, handlers>>

Debit(id) == Entry(request[id].requester, "DEBIT", <<"exchange-debit", id>>,
                   -request[id].total)
HostCredit(id) == Entry(Host(id), "HOST_CREDIT", <<"exchange-host-credit", id>>,
                        request[id].total)

\* Faulty variant: the guest's entry is forgotten.
CompletionEntriesHostOnly(id) == {HostCredit(id)}

CompletionEntries(id) == {Debit(id), HostCredit(id)}

CompletedByBoth(id) ==
    [v \in Users |-> IF v \in Participants(id) THEN completed[v] + 1 ELSE completed[v]]

\* complete: from the last day on, either side; the host gets the reserve.
Complete(u, id) ==
    /\ Exists(id) /\ Present(u) /\ u \in Participants(id)
    /\ InForce(id)
    /\ request[id].trip.to <= today
    /\ LET amount == request[id].total IN
       IF amount > 0
       THEN /\ PayReserve(request[id].requester, Host(id), amount)
            /\ Post(CompletionEntries(id))
       ELSE UNCHANGED <<available, reserved, journal>>
    /\ request' = [request EXCEPT ![id].status = "COMPLETED"]
    /\ completed' = CompletedByBoth(id)
    /\ inbox' = inbox \cup {Notice(Other(id, u), "COMPLETED", id)}
    /\ UNCHANGED <<today, userRow, adjusted, homes, handlers>>

\* Faulty variant: only the requests the user takes part in.
DeletionScopeOfParties(u) == {id \in Requests : Exists(id) /\ u = request[id].requester}

\* AdminService.deleteUser: every request of the user or in the user's homes.
DeletionScope(u) ==
    {id \in Requests : Exists(id) /\ \/ u \in Participants(id)
                                     \/ \E p \in HomesOf(id) : Owner[p] = u}

\* Faulty variant: the reserves of the survivors are forgotten.
ReleasedToNobody(v, u) == {}

\* Survivors whose confirmed stay disappears get their reserve back.
ReleasedTo(v, u) ==
    {id \in DeletionScope(u) \cap HeldFor(v) : v # u /\ request[id].total > 0}

DeleteUser(u) ==
    LET scope == DeletionScope(u)
        released(v) == ReleasedTo(v, u)
    IN
    /\ Present(u)
    /\ \A v \in Users \ {u} : Points(released(v)) <= reserved[v]
    /\ userRow' = [userRow EXCEPT ![u] = "DELETED"]
    /\ available' = [v \in Users |->
           IF v = u THEN 0 ELSE available[v] + Points(released(v))]
    /\ reserved' = [v \in Users |->
           IF v = u THEN 0 ELSE reserved[v] - Points(released(v))]
    /\ completed' = [completed EXCEPT ![u] = 0]
    /\ LET releases ==
             UNION {{Entry(v, "RELEASE", <<"admin-delete-release", id>>,
                           request[id].total) : id \in released(v)} : v \in Users}
       IN /\ \A e \in releases, f \in journal : e.key # f.key
          /\ journal' = {e \in journal \cup releases : e.account # u}
    /\ inbox' = {n \in inbox : n.to # u} \cup
           {Notice(v, "DELETED", u) :
                v \in UNION {Participants(id) : id \in scope} \ {u}}
    /\ request' = [id \in Requests |-> IF id \in scope THEN Deleted ELSE request[id]]
    /\ published' = {p \in published : Owner[p] # u}
    /\ UNCHANGED <<today, adjusted, rate, handlers>>

-----------------------------------------------------------------------------
CreateStart(c) ==
    \E u \in Users, p \in Properties, offered \in Properties \cup {None},
       type \in ExchangeTypes, trip \in Trips, guests \in Parties :
        CreateReadTarget(c, u, p, offered, type, trip, guests)

CreateContinue(c) ==
    \/ CreateReadOffered(c)      \/ CreateCheckOfferedDates(c)
    \/ CreateCheckTargetDates(c) \/ CreateCheckExisting(c)
    \/ CreateInsert(c)           \/ CreateNotify(c)

MoveStart(c) == \E u \in Users, id \in Requests :
                    Preapprove(c, u, id) \/ Reject(c, u, id) \/ Cancel(c, u, id)

MoveContinue(c) == TransitionUpdate(c) \/ TransitionNotify(c)

Environment == \/ NextDay
               \/ \E u \in Users : Register(u) \/ VerifyEmail(u) \/ DeleteUser(u)
               \/ \E u \in Users, amount \in Adjustments : Adjust(u, amount)
               \/ \E p \in Properties : ChangeStatus(p)
               \/ \E p \in Properties, points \in Rates : Reprice(p, points)

Settlement == \E u \in Users, id \in Requests :
                  Confirm(u, id) \/ CancelConfirmed(u, id) \/ Complete(u, id)

Next == \/ Environment
        \/ Settlement
        \/ \E c \in Calls : \/ CreateStart(c) \/ CreateContinue(c)
                            \/ MoveStart(c)   \/ MoveContinue(c)

Spec == Init /\ [][Next]_vars

\* A handler whose statement has returned is resumed by the event loop.
Fairness == \A c \in Calls : WF_vars(CreateContinue(c)) /\ WF_vars(MoveContinue(c))
FairSpec == Spec /\ Fairness

-----------------------------------------------------------------------------
(* Properties.                                                             *)

TypeOK ==
    /\ today \in 0..LastDay
    /\ userRow \in [Users -> {"NONE", "PRESENT", "DELETED"}]
    /\ available \in [Users -> Nat]
    /\ reserved \in [Users -> Nat]
    /\ completed \in [Users -> Nat]
    /\ journal \subseteq Entries
    /\ adjusted \in 0..MaxAdjust
    /\ request \in [Requests -> Rows \cup {NoRow, Deleted}]
    /\ published \subseteq Properties
    /\ rate \in [Properties -> Rates]
    /\ draft \in [Calls -> Drafts \cup {NoDraft}]
    /\ move \in [Calls -> Moves \cup {NoMove}]

\* The reserved points of an account are exactly the prices of the stays its
\* user has confirmed and neither cancelled nor completed, whatever order
\* confirm, cancelConfirmed, complete, adjust and deleteUser come in.
ReservedIsHeld == \A u \in Users : reserved[u] = Points(HeldFor(u))

\* Two confirmed stays never share a home on the same night, also when the
\* home is the target of one and the home offered in the other, although
\* create only checks it before the row exists.
NoDoubleBooking ==
    \A r1, r2 \in Requests :
        /\ r1 # r2
        /\ request[r1].status = "CONFIRMED" /\ request[r2].status = "CONFIRMED"
        /\ HomesOf(r1) \cap HomesOf(r2) # {}
        => ~Overlap(request[r1].trip, request[r2].trip)

\* A night of a home is sold again only once it is over: stays that share a home
\* and overlap are never both in force, and the one that was completed, which
\* takes it out of hasConfirmedConflict although older requests for its days can
\* still be confirmed, had ended by then.
NightsSoldOnce ==
    \A r1, r2 \in Requests :
        /\ r1 # r2
        /\ {request[r1].status, request[r2].status} \subseteq {"CONFIRMED", "COMPLETED"}
        /\ HomesOf(r1) \cap HomesOf(r2) # {}
        /\ Overlap(request[r1].trip, request[r2].trip)
        => \E id \in {r1, r2} : /\ request[id].status = "COMPLETED"
                                /\ request[id].trip.to <= today

Sum(entries) == SumOf([e \in entries |-> e.amount])
                - SumOf([e \in entries |-> -e.amount])
EntriesOf(u, types) == {e \in journal : e.account = u /\ e.type \in types}

\* The journal alone gives both balances: DEBIT repeats the RESERVE it
\* consumes, so `available' leaves it out and `reserved' adds it back.
JournalGivesBalances ==
    \A u \in Users :
        /\ available[u] = Sum(EntriesOf(u, {"BONUS", "RESERVE", "RELEASE",
                                            "HOST_CREDIT", "ADMIN_ADJUSTMENT"}))
        /\ reserved[u] = Sum(EntriesOf(u, {"DEBIT"}))
                         - Sum(EntriesOf(u, {"RESERVE", "RELEASE"}))

\* All points of all users together.
TotalPoints == SumOf(available) + SumOf(reserved)

\* No step creates or destroys points: the total grows by the bonuses and
\* adjustments entered in the journal, and loses only what a deleted user had.
PointsConserved ==
    [][LET granted == {e \in journal' \ journal : e.type \in {"BONUS", "ADMIN_ADJUSTMENT"}}
           leavers == {u \in Users : Present(u) /\ ~Present(u)'}
       IN TotalPoints' = TotalPoints + Sum(granted)
                         - SumOf([u \in leavers |-> available[u] + reserved[u]])]_vars

\* A status changes only along the life cycle, even when reject or cancel acts
\* on a status it read before another handler changed it.
Lifecycle ==
    {<<"NONE", "PENDING">>, <<"PENDING", "PREAPPROVED">>,
     <<"PREAPPROVED", "CONFIRMED">>, <<"CONFIRMED", "COMPLETED">>,
     <<"CONFIRMED", "CANCELLED">>}
    \cup ActiveStatuses \X {"REJECTED", "CANCELLED"}
    \cup Statuses \X {"DELETED"}

StatusFollowsLifecycle ==
    [][\A id \in Requests :
          \/ request'[id].status = request[id].status
          \/ <<request[id].status, request'[id].status>> \in Lifecycle]_vars

\* The side that did not make the change has been notified of status s.
Told(id, s) ==
    \/ ~Exists(id)
    \/ s \notin {"PREAPPROVED", "REJECTED"} /\ Notice(Host(id), s, id) \in inbox
    \/ /\ s \notin {"PENDING", "CONFIRMED"}
       /\ Notice(request[id].requester, s, id) \in inbox

\* A handler is about to tell that id has reached s.
Telling(id, s) ==
    \E c \in Calls :
        \/ s = "PENDING" /\ draft[c].pc = "notify" /\ draft[c].id = id
        \/ move[c].pc = "notify" /\ move[c].id = id /\ move[c].to = s

\* A status the other side has not been told of has a handler in flight that is
\* about to tell it, whatever other handlers change meanwhile: only a crash between
\* the update and the notification can lose it.
UntoldIsBeingTold ==
    \A id \in Requests, s \in Statuses :
        request[id].status = s => Told(id, s) \/ Telling(id, s)

\* Every status a request reaches is eventually told to the other side, unless
\* the request is deleted first, if no crash falls between the update and the
\* notification: these are separate statements in create and transition.
StatusIsTold ==
    \A id \in Requests, s \in Statuses : request[id].status = s ~> Told(id, s)

\* A guest has at most one active request for a home on any night
\* (docs/local-manual-testing-plan.md, EX-02).
OneActiveRequest ==
    \A r1, r2 \in Requests :
        /\ r1 # r2
        /\ request[r1].status \in ActiveStatuses
        /\ request[r2].status \in ActiveStatuses
        /\ request[r1].requester = request[r2].requester
        /\ request[r1].target = request[r2].target
        => ~Overlap(request[r1].trip, request[r2].trip)
=============================================================================
