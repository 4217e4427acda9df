--------------------------- MODULE ExchangesProofs ---------------------------
(***************************************************************************)
(* Theorems about Exchanges for every set of users, homes and requests.    *)
(***************************************************************************)
EXTENDS ExchangesEscrow, SumsTheorems

USE DEF ActiveStatuses, Statuses, ExchangeTypes

LEMMA NatProduct ==
    ASSUME NEW m \in Nat, NEW n \in Nat
    PROVE  m * n \in Nat
  OBVIOUS

\* The prices of requests that exist are a function to numbers.
LEMMA PointsType ==
    ASSUME TypeOK, NEW S \in SUBSET Requests, \A id \in S : Exists(id)
    PROVE  /\ IsFiniteSet(S)
           /\ [id \in S |-> request[id].total] \in [S -> Nat]
           /\ [id \in S |-> request[id].total] \in [S -> Int]
           /\ Points(S) \in Nat
<1>1. IsFiniteSet(S)
  BY RequestsFinite, FS_Subset
<1>2. \A id \in S : request[id].total \in Nat
  BY DEF TypeOK, Exists, Rows, NoRow, Deleted
<1>3. [id \in S |-> request[id].total] \in [S -> Int]
  BY <1>2
<1>4. SumOf([id \in S |-> request[id].total]) \in Nat
  BY <1>1, <1>3, SumType
<1> QED
  BY <1>1, <1>2, <1>3, <1>4 DEF Points

\* The requests whose reserve a deletion releases are rows of that guest.
LEMMA ReleasedExist ==
    ASSUME TypeOK, NEW u \in Users, NEW v \in Users
    PROVE  /\ ReleasedTo(v, u) \in SUBSET Requests
           /\ \A id \in ReleasedTo(v, u) : Exists(id) /\ request[id].total \in Nat
           /\ Points(ReleasedTo(v, u)) \in Nat
<1>1. /\ ReleasedTo(v, u) \in SUBSET Requests
      /\ \A id \in ReleasedTo(v, u) : Exists(id)
  BY DEF ReleasedTo, DeletionScope
<1>2. \A id \in ReleasedTo(v, u) : request[id].total \in Nat
  BY <1>1 DEF TypeOK, Exists, Rows, NoRow, Deleted
<1> QED
  BY <1>1, <1>2, PointsType

-----------------------------------------------------------------------------
(* Type correctness, one lemma for each group of actions.                  *)

LEMMA TypeInit == Init => TypeOK
<1> SUFFICES ASSUME Init
             PROVE  TypeOK
  OBVIOUS
<1> QED
  BY BoundsType DEF Init, TypeOK, Entries

LEMMA TypeEnvironment ==
    ASSUME TypeOK, Environment
    PROVE  TypeOK'
<1> USE DEF TypeOK, handlers, homes, accounts
<1>1. CASE NextDay
  BY <1>1, BoundsType DEF NextDay
<1>2. ASSUME NEW u \in Users, Register(u)
      PROVE  TypeOK'
  <2>1. PICK bonus \in Bonuses :
          /\ userRow' = [userRow EXCEPT ![u] = "PRESENT"]
          /\ available' = [available EXCEPT ![u] = bonus]
          /\ Post({Entry(u, "BONUS", <<"welcome", u>>, bonus)})
          /\ UNCHANGED <<today, reserved, completed, adjusted, request, homes,
                         inbox, handlers>>
    BY <1>2 DEF Register
  <2>2. bonus \in Nat
    BY AmountsType
  <2>3. Entry(u, "BONUS", <<"welcome", u>>, bonus) \in Entries
    BY <2>2 DEF Entry, Entries, Operations
  <2>4. journal' \subseteq Entries
    BY <2>1, <2>3 DEF Post
  <2> QED
    BY <2>1, <2>2, <2>4
<1>3. ASSUME NEW u \in Users, DeleteUser(u)
      PROVE  TypeOK'
  <2> DEFINE released(v) == ReleasedTo(v, u)
             releases == UNION {{Entry(v, "RELEASE", <<"admin-delete-release", id>>,
                                 request[id].total) : id \in released(v)} : v \in Users}
  <2>1. \A v \in Users : Points(released(v)) \in Nat
    BY ReleasedExist
  <2>2. /\ userRow' = [userRow EXCEPT ![u] = "DELETED"]
        /\ available' = [v \in Users |->
               IF v = u THEN 0 ELSE available[v] + Points(released(v))]
        /\ reserved' = [v \in Users |->
               IF v = u THEN 0 ELSE reserved[v] - Points(released(v))]
        /\ \A v \in Users \ {u} : Points(released(v)) <= reserved[v]
        /\ completed' = [completed EXCEPT ![u] = 0]
        /\ journal' = {e \in journal \cup releases : e.account # u}
        /\ request' = [id \in Requests |->
               IF id \in DeletionScope(u) THEN Deleted ELSE request[id]]
        /\ published' = {p \in published : Owner[p] # u}
        /\ UNCHANGED <<today, adjusted, rate, handlers>>
    BY <1>3 DEF DeleteUser
  <2>3. available' \in [Users -> Nat]
    <3> HIDE DEF released
    <3> QED
      BY <2>1, <2>2
  <2>4. reserved' \in [Users -> Nat]
    <3> HIDE DEF released
    <3> QED
      BY <2>1, <2>2
  <2>5. releases \subseteq Entries
    BY ReleasedExist DEF Entry, Entries, Operations
  <2>6. journal' \subseteq Entries
    <3> HIDE DEF releases
    <3> QED
      BY <2>2, <2>5
  <2>7. request' \in [Requests -> Rows \cup {NoRow, Deleted}]
    BY <2>2
  <2> HIDE DEF released, releases
  <2> QED
    BY <2>2, <2>3, <2>4, <2>6, <2>7
<1>4. ASSUME NEW u \in Users, NEW amount \in Adjustments, Adjust(u, amount)
      PROVE  TypeOK'
  <2>1. amount \in Int
    BY AmountsType
  <2>2. adjusted' \in 0..MaxAdjust /\ adjusted' \in Nat
    BY <1>4, BoundsType DEF Adjust
  <2>3. Entry(u, "ADMIN_ADJUSTMENT", <<"admin-adjustment", adjusted'>>, amount)
          \in Entries
    BY <2>1, <2>2 DEF Entry, Entries, Operations
  <2>4. journal' \subseteq Entries
    BY <1>4, <2>3 DEF Post, Adjust
  <2>5. available' \in [Users -> Nat]
    BY <1>4, <2>1 DEF Adjust, Enough
  <2> QED
    BY <1>4, <2>2, <2>4, <2>5 DEF Adjust
<1>5. ASSUME NEW p \in Properties, ChangeStatus(p)
      PROVE  TypeOK'
  BY <1>5 DEF ChangeStatus
<1>6. ASSUME NEW p \in Properties, NEW points \in Rates, Reprice(p, points)
      PROVE  TypeOK'
  BY <1>6 DEF Reprice
<1>7. ASSUME NEW u \in Users, VerifyEmail(u)
      PROVE  TypeOK'
  <2>1. PICK bonus \in Bonuses :
          /\ available' = [available EXCEPT ![u] = @ + bonus]
          /\ Post({Entry(u, "BONUS", <<"email-verified", u>>, bonus)})
          /\ UNCHANGED <<today, userRow, reserved, completed, adjusted, request,
                         homes, inbox, handlers>>
    BY <1>7 DEF VerifyEmail
  <2>2. bonus \in Nat
    BY AmountsType
  <2>3. Entry(u, "BONUS", <<"email-verified", u>>, bonus) \in Entries
    BY <2>2 DEF Entry, Entries, Operations
  <2>4. journal' \subseteq Entries
    BY <2>1, <2>3 DEF Post
  <2>5. available' \in [Users -> Nat]
    BY <2>1, <2>2
  <2> QED
    BY <2>1, <2>4, <2>5
<1> QED
  BY <1>1, <1>2, <1>3, <1>4, <1>5, <1>6, <1>7 DEF Environment

LEMMA TypeCreate ==
    ASSUME TypeOK, NEW c \in Calls, CreateStart(c) \/ CreateContinue(c)
    PROVE  TypeOK'
<1> USE DEF TypeOK, homes, accounts
<1>1. CASE CreateStart(c)
  <2>1. PICK u \in Users, p \in Properties, offered \in Properties \cup {None},
             type \in ExchangeTypes, trip \in Trips, guests \in Parties :
          CreateReadTarget(c, u, p, offered, type, trip, guests)
    BY <1>1 DEF CreateStart
  <2> DEFINE total == IF type = "POINTS" THEN rate[p] * Nights(trip) ELSE 0
  <2>2. total \in Nat
    <3>1. rate[p] \in Nat
      BY AmountsType
    <3>2. trip.from \in Nat /\ trip.to \in Nat
      BY TripsType
    <3>3. Nights(trip) \in Nat
      BY <2>1, <3>2 DEF CreateReadTarget, Nights
    <3>4. rate[p] * Nights(trip) \in Nat
      BY <3>1, <3>3, NatProduct
    <3> QED
      BY <3>4
  <2>3. draft' \in [Calls -> Drafts \cup {NoDraft}]
    <3> HIDE DEF total
    <3> DEFINE d == [pc |-> IF type = "DIRECT" THEN "offered" ELSE "targetDates",
                     requester |-> u, target |-> p, offered |-> offered,
                     type |-> type, trip |-> trip, total |-> total, id |-> None]
    <3>1. d \in Drafts
      BY <2>2 DEF Drafts
    <3>2. draft' = [draft EXCEPT ![c] = d]
      BY <2>1 DEF CreateReadTarget, total
    <3> QED
      BY <3>1, <3>2
  <2> QED
    BY <2>1, <2>3 DEF CreateReadTarget
<1>2. ASSUME NEW at, NEW ok, NEW pc,
             at \in {"offered", "offeredDates", "targetDates", "existing"},
             pc \in {"offeredDates", "targetDates", "existing", "insert"},
             CheckStep(c, at, ok, pc)
      PROVE  TypeOK'
  <2>1. draft[c] \in Drafts
    BY <1>2 DEF CheckStep, NoDraft
  <2>2. [draft[c] EXCEPT !.pc = pc] \in Drafts
    BY <1>2, <2>1 DEF Drafts
  <2>3. draft' \in [Calls -> Drafts \cup {NoDraft}]
    BY <1>2, <2>2 DEF CheckStep, Advance, Refuse
  <2> QED
    BY <1>2, <2>3 DEF CheckStep
<1>3. CASE CreateInsert(c)
  <2> DEFINE d == draft[c]
  <2>1. d \in Drafts
    BY <1>3 DEF CreateInsert, NoDraft
  <2>2. ASSUME NEW id \in Requests,
               request' = [request EXCEPT ![id] =
                     [status |-> "PENDING", requester |-> d.requester,
                      target |-> d.target, offered |-> d.offered,
                      type |-> d.type, trip |-> d.trip, total |-> d.total]],
               draft' = [draft EXCEPT ![c].pc = "notify", ![c].id = id]
        PROVE  /\ request' \in [Requests -> Rows \cup {NoRow, Deleted}]
               /\ draft' \in [Calls -> Drafts \cup {NoDraft}]
    <3>1. [status |-> "PENDING", requester |-> d.requester, target |-> d.target,
           offered |-> d.offered, type |-> d.type, trip |-> d.trip,
           total |-> d.total] \in Rows
      BY <2>1 DEF Drafts, Rows
    <3>2. [d EXCEPT !.pc = "notify", !.id = id] \in Drafts
      BY <2>1 DEF Drafts
    <3>3. draft' = [draft EXCEPT ![c] = [d EXCEPT !.pc = "notify", !.id = id]]
      BY <2>2
    <3> QED
      BY <2>2, <3>1, <3>2, <3>3
  <2> QED
    BY <1>3, <2>2 DEF CreateInsert, Refuse
<1>4. CASE CreateNotify(c)
  BY <1>4 DEF CreateNotify, Refuse
<1>5. CASE CreateReadOffered(c)
  BY <1>2, <1>5 DEF CreateReadOffered
<1>6. CASE CreateCheckOfferedDates(c)
  BY <1>2, <1>6 DEF CreateCheckOfferedDates
<1>7. CASE CreateCheckTargetDates(c)
  BY <1>2, <1>7 DEF CreateCheckTargetDates
<1>8. CASE CreateCheckExisting(c)
  BY <1>2, <1>8 DEF CreateCheckExisting
<1> QED
  BY <1>1, <1>3, <1>4, <1>5, <1>6, <1>7, <1>8 DEF CreateContinue

LEMMA TypeMove ==
    ASSUME TypeOK, NEW c \in Calls, MoveStart(c) \/ MoveContinue(c)
    PROVE  TypeOK'
<1> USE DEF TypeOK, homes, accounts
<1>1. ASSUME NEW u \in Users, NEW id \in Requests, NEW from \in ActiveStatuses,
             NEW to \in {"PREAPPROVED", "REJECTED", "CANCELLED"},
             StartMove(c, u, id, from, to)
      PROVE  TypeOK'
  BY <1>1 DEF StartMove, Moves
<1>2. CASE MoveStart(c)
  BY <1>1, <1>2 DEF MoveStart, Preapprove, Reject, Cancel
<1>3. CASE TransitionUpdate(c)
  <2>1. move[c] \in Moves
    BY <1>3 DEF TransitionUpdate, NoMove
  <2>2. request' \in [Requests -> Rows \cup {NoRow, Deleted}]
    <3> DEFINE m == move[c]
    <3>1. CASE request' = request
      BY <3>1
    <3>2. CASE request' # request
      <4>1. /\ m.id \in Requests /\ Exists(m.id)
            /\ request' = [request EXCEPT ![m.id].status = m.to]
            /\ m.to \in Statuses
        BY <1>3, <2>1, <3>2 DEF TransitionUpdate, UpdateStatus, Moves
      <4>2. request[m.id] \in Rows
        BY <4>1 DEF Exists, NoRow, Deleted
      <4>3. [request[m.id] EXCEPT !.status = m.to] \in Rows
        BY <4>1, <4>2 DEF Rows
      <4> QED
        BY <4>1, <4>3
    <3> QED
      BY <3>1, <3>2
  <2>3. [move[c] EXCEPT !.pc = "notify"] \in Moves
    BY <2>1 DEF Moves
  <2>4. move' \in [Calls -> Moves \cup {NoMove}]
    BY <1>3, <2>3 DEF TransitionUpdate
  <2> QED
    BY <1>3, <2>2, <2>4 DEF TransitionUpdate
<1>4. CASE TransitionNotify(c)
  BY <1>4 DEF TransitionNotify
<1> QED
  BY <1>2, <1>3, <1>4 DEF MoveContinue

\* The three serializable transactions that move points.
LEMMA TypeSettlement ==
    ASSUME TypeOK, Settlement
    PROVE  TypeOK'
<1> USE DEF TypeOK, homes, handlers
<1>1. PICK u \in Users, id \in Requests :
        Confirm(u, id) \/ CancelConfirmed(u, id) \/ Complete(u, id)
  BY DEF Settlement
<1> DEFINE row == request[id]
<1>2. row \in Rows
  BY <1>1 DEF Confirm, CancelConfirmed, Complete, Exists, NoRow, Deleted
<1>3. /\ row.requester \in Users /\ row.target \in Properties
      /\ row.total \in Nat
  BY <1>2 DEF Rows
<1>4. Host(id) \in Users
  BY <1>3, OwnerType DEF Host
<1>5. \A s \in Statuses : [row EXCEPT !.status = s] \in Rows
  BY <1>2 DEF Rows
<1>6. ASSUME NEW s \in Statuses, request' = [request EXCEPT ![id].status = s]
      PROVE  request' \in [Requests -> Rows \cup {NoRow, Deleted}]
  BY <1>5, <1>6
<1>7. -row.total \in Int
  BY <1>3
<1>8. CASE Confirm(u, id)
  <2>1. request' \in [Requests -> Rows \cup {NoRow, Deleted}]
    BY <1>6, <1>8 DEF Confirm
  <2>2. journal' \subseteq Entries
    <3>1. Entry(u, "RESERVE", <<"exchange-reserve", id>>, -row.total) \in Entries
      BY <1>3, <1>7 DEF Entry, Entries, Operations
    <3> QED
      BY <1>8, <3>1 DEF Confirm, Post
  <2>3. available' \in [Users -> Nat] /\ reserved' \in [Users -> Nat]
    BY <1>3, <1>8 DEF Confirm, Reserve, Enough
  <2> QED
    BY <1>8, <2>1, <2>2, <2>3 DEF Confirm
<1>9. CASE CancelConfirmed(u, id)
  <2>1. request' \in [Requests -> Rows \cup {NoRow, Deleted}]
    BY <1>6, <1>9 DEF CancelConfirmed
  <2>2. journal' \subseteq Entries
    <3>1. Entry(row.requester, "RELEASE", <<"exchange-release", id>>, row.total)
            \in Entries
      BY <1>3, <1>7 DEF Entry, Entries, Operations
    <3> QED
      BY <1>9, <3>1 DEF CancelConfirmed, Post
  <2>3. available' \in [Users -> Nat] /\ reserved' \in [Users -> Nat]
    BY <1>3, <1>9 DEF CancelConfirmed, PayReserve, Enough
  <2> QED
    BY <1>9, <2>1, <2>2, <2>3 DEF CancelConfirmed
<1>10. CASE Complete(u, id)
  <2>1. request' \in [Requests -> Rows \cup {NoRow, Deleted}]
    BY <1>6, <1>10 DEF Complete
  <2>2. journal' \subseteq Entries
    <3>1. Debit(id) \in Entries /\ HostCredit(id) \in Entries
      BY <1>3, <1>4, <1>7 DEF Entry, Entries, Operations, Debit, HostCredit
    <3> QED
      BY <1>10, <3>1 DEF Complete, Post, CompletionEntries
  <2>3. available' \in [Users -> Nat] /\ reserved' \in [Users -> Nat]
    BY <1>3, <1>4, <1>10 DEF Complete, PayReserve, Enough
  <2>4. completed' \in [Users -> Nat]
    BY <1>10 DEF Complete, CompletedByBoth
  <2> QED
    BY <1>10, <2>1, <2>2, <2>3, <2>4 DEF Complete
<1> QED
  BY <1>1, <1>8, <1>9, <1>10

\* Every reachable state has the declared types; in particular no balance is
\* ever negative (docs/local-manual-testing-plan.md, POINTS-01).
THEOREM TypeCorrect == Spec => []TypeOK
<1>1. Init => TypeOK
  BY TypeInit
<1>2. TypeOK /\ [Next]_vars => TypeOK'
  <2> SUFFICES ASSUME TypeOK, [Next]_vars
               PROVE  TypeOK'
    OBVIOUS
  <2>1. CASE UNCHANGED vars
    BY <2>1 DEF TypeOK, vars, accounts, homes, handlers
  <2> QED
    BY <2>1, TypeEnvironment, TypeSettlement, TypeCreate, TypeMove DEF Next
<1> QED
  BY <1>1, <1>2, PTL DEF Spec

-----------------------------------------------------------------------------
(* What each group of actions does to the confirmed stays.                 *)

\* No stay becomes confirmed or, being confirmed, changes.
NoNewStay == \A id \in Requests :
    request'[id].status = "CONFIRMED" => request'[id] = request[id]

\* The confirmed stays are the same before and after.
SameStays == /\ NoNewStay
             /\ \A id \in Requests :
                    request[id].status = "CONFIRMED" => request'[id] = request[id]

\* The handlers that run outside transactions leave confirmed stays alone:
\* create inserts PENDING rows, and a transition touches a row only while it
\* still has the PENDING or PREAPPROVED status read before.
LEMMA HandlersKeepStays ==
    ASSUME TypeOK, NEW c \in Calls,
           \/ CreateStart(c) \/ CreateContinue(c)
           \/ MoveStart(c)   \/ MoveContinue(c)
    PROVE  SameStays /\ reserved' = reserved
<1> USE DEF SameStays, NoNewStay, accounts, homes
<1>1. CASE CreateStart(c)
  BY <1>1 DEF CreateStart, CreateReadTarget
<1>2. CASE CreateInsert(c)
  <2>1. CASE request' = request
    BY <1>2, <2>1 DEF CreateInsert
  <2>2. ASSUME request' # request
        PROVE  \E id \in Requests : \E row \in Rows :
                  /\ request[id] = NoRow /\ row.status = "PENDING"
                  /\ request' = [request EXCEPT ![id] = row]
    <3>1. draft[c] \in Drafts
      BY <1>2 DEF CreateInsert, NoDraft, TypeOK
    <3> DEFINE d == draft[c]
               row == [status |-> "PENDING", requester |-> d.requester,
                       target |-> d.target, offered |-> d.offered, type |-> d.type,
                       trip |-> d.trip, total |-> d.total]
    <3>2. row \in Rows /\ row.status = "PENDING"
      BY <3>1 DEF Drafts, Rows
    <3>3. \E id \in Requests : /\ request[id] = NoRow
                               /\ request' = [request EXCEPT ![id] = row]
      BY <1>2, <2>2 DEF CreateInsert
    <3> QED
      BY <3>2, <3>3
  <2>3. CASE request' # request
    <3>1. PICK id \in Requests, row \in Rows :
            /\ request[id] = NoRow /\ row.status = "PENDING"
            /\ request' = [request EXCEPT ![id] = row]
      BY <2>2, <2>3
    <3> QED
      BY <1>2, <3>1 DEF CreateInsert, TypeOK, NoRow
  <2> QED
    BY <2>1, <2>3
<1>3. CASE /\ CreateContinue(c) /\ ~CreateInsert(c)
  BY <1>3 DEF CreateContinue, CreateReadOffered, CreateCheckOfferedDates,
     CreateCheckTargetDates, CreateCheckExisting, CheckStep, CreateNotify
<1>4. CASE MoveStart(c)
  BY <1>4 DEF MoveStart, Preapprove, Reject, Cancel, StartMove
<1>5. CASE TransitionUpdate(c)
  <2>1. move[c] \in Moves
    BY <1>5 DEF TransitionUpdate, NoMove, TypeOK
  <2> DEFINE m == move[c]
  <2>2. /\ m.id \in Requests /\ m.from \in ActiveStatuses
        /\ m.to \in {"PREAPPROVED", "REJECTED", "CANCELLED"}
    BY <2>1 DEF Moves
  <2>3. \/ request' = request
        \/ /\ request[m.id].status = m.from /\ Exists(m.id)
           /\ request' = [request EXCEPT ![m.id].status = m.to]
    BY <1>5 DEF TransitionUpdate, UpdateStatus
  <2>4. request[m.id] \in Rows \/ ~Exists(m.id)
    BY <2>2 DEF Exists, TypeOK, NoRow, Deleted
  <2>5. request' # request => request'[m.id].status = m.to
    BY <2>2, <2>3, <2>4 DEF TypeOK, Rows
  <2>6. reserved' = reserved
    BY <1>5 DEF TransitionUpdate
  <2> QED
    BY <2>2, <2>3, <2>5, <2>6 DEF TypeOK
<1>6. CASE TransitionNotify(c)
  BY <1>6 DEF TransitionNotify
<1> QED
  BY <1>1, <1>2, <1>3, <1>4, <1>5, <1>6 DEF MoveContinue

\* The environment but for deletions touches no request and no reserve.
LEMMA EnvironmentKeepsStays ==
    ASSUME TypeOK, Environment, ~\E u \in Users : DeleteUser(u)
    PROVE  request' = request /\ reserved' = reserved
  BY DEF Environment, NextDay, Register, VerifyEmail, Adjust, ChangeStatus, Reprice,
         accounts

\* A deletion ends every stay the user takes part in, and no other.
LEMMA DeletionEndsStays ==
    ASSUME TypeOK, NEW u \in Users, DeleteUser(u)
    PROVE  /\ NoNewStay
           /\ \A id \in Requests : request'[id] =
                 IF id \in DeletionScope(u) THEN Deleted ELSE request[id]
  BY DEF DeleteUser, NoNewStay, Deleted

\* Cancelling or completing ends the stay, and no other.
LEMMA ClosingEndsStay ==
    ASSUME TypeOK, NEW u \in Users, NEW id \in Requests,
           CancelConfirmed(u, id) \/ Complete(u, id)
    PROVE  /\ request[id] \in Rows /\ request[id].status = "CONFIRMED"
           /\ request'[id].status # "CONFIRMED"
           /\ \A x \in Requests \ {id} : request'[x] = request[x]
           /\ NoNewStay
<1>1. request[id] \in Rows /\ request[id].status = "CONFIRMED"
  BY DEF CancelConfirmed, Complete, InForce, Exists, TypeOK, NoRow, Deleted
<1>2. PICK s \in {"CANCELLED", "COMPLETED"} :
        request' = [request EXCEPT ![id].status = s]
  BY DEF CancelConfirmed, Complete
<1>3. request'[id].status = s
  BY <1>1, <1>2 DEF TypeOK, Rows
<1> QED
  BY <1>1, <1>2, <1>3 DEF NoNewStay, TypeOK

-----------------------------------------------------------------------------
(* No double booking.                                                      *)

LEMMA NoNewStayNoDoubleBooking ==
    ASSUME NoDoubleBooking, NoNewStay
    PROVE  NoDoubleBooking'
  BY DEF NoDoubleBooking, NoNewStay, HomesOf, Overlap

LEMMA ConfirmNoDoubleBooking ==
    ASSUME TypeOK, NoDoubleBooking,
           NEW u \in Users, NEW id \in Requests, Confirm(u, id)
    PROVE  NoDoubleBooking'
<1>1. request[id] \in Rows
  BY DEF Confirm, Exists, TypeOK, NoRow, Deleted
<1>2. request' = [request EXCEPT ![id].status = "CONFIRMED"]
  BY DEF Confirm
<1>3. /\ \A x \in Requests \ {id} : request'[x] = request[x]
      /\ request'[id].trip = request[id].trip
      /\ request'[id].target = request[id].target
      /\ request'[id].offered = request[id].offered
  BY <1>1, <1>2 DEF TypeOK, Rows
<1>4. \A x \in Requests : /\ HomesOf(x)' = HomesOf(x)
                          /\ request'[x].trip = request[x].trip
  BY <1>3 DEF HomesOf
<1>5. \A x \in Requests : /\ request[x].status = "CONFIRMED"
                          /\ HomesOf(x) \cap HomesOf(id) # {}
                          => ~Overlap(request[x].trip, request[id].trip)
  BY DEF Confirm, ConfirmedIn
<1>6. \A t1, t2 \in Trips : Overlap(t1, t2) <=> Overlap(t2, t1)
  BY TripsType DEF Overlap
<1>7. \A x \in Requests : request[x] \in Rows => request[x].trip \in Trips
  BY DEF Rows
<1>8. \A x \in Requests : request[x].status = "CONFIRMED" => request[x] \in Rows
  BY DEF TypeOK, NoRow, Deleted
<1> SUFFICES ASSUME NEW r1 \in Requests, NEW r2 \in Requests, r1 # r2,
                    request'[r1].status = "CONFIRMED",
                    request'[r2].status = "CONFIRMED",
                    HomesOf(r1) \cap HomesOf(r2) # {}
             PROVE  ~Overlap(request[r1].trip, request[r2].trip)
  BY <1>4 DEF NoDoubleBooking, Overlap
<1>9. CASE r1 = id
  BY <1>1, <1>3, <1>5, <1>6, <1>7, <1>8, <1>9
<1>10. CASE r2 = id
  BY <1>3, <1>5, <1>10
<1>11. CASE r1 # id /\ r2 # id
  BY <1>3, <1>11 DEF NoDoubleBooking
<1> QED
  BY <1>9, <1>10, <1>11

\* Two confirmed stays never share a home on the same night, whatever the
\* handlers' interleaving (EX-04 and DIRECT-02 of the manual testing plan).
THEOREM NeverDoubleBooked == Spec => []NoDoubleBooking
<1>1. Init => NoDoubleBooking
  BY DEF Init, NoDoubleBooking, NoRow
<1>2. TypeOK /\ NoDoubleBooking /\ [Next]_vars => NoDoubleBooking'
  <2> SUFFICES ASSUME TypeOK, NoDoubleBooking, [Next]_vars
               PROVE  NoDoubleBooking'
    OBVIOUS
  <2>1. CASE UNCHANGED vars
    BY <2>1, NoNewStayNoDoubleBooking DEF vars, NoNewStay
  <2>2. CASE Environment
    <3>1. NoNewStay
      BY <2>2, EnvironmentKeepsStays, DeletionEndsStays DEF NoNewStay
    <3> QED
      BY <3>1, NoNewStayNoDoubleBooking
  <2>3. CASE Settlement
    <3>1. PICK u \in Users, id \in Requests :
            Confirm(u, id) \/ CancelConfirmed(u, id) \/ Complete(u, id)
      BY <2>3 DEF Settlement
    <3>2. CASE Confirm(u, id)
      BY <3>2, ConfirmNoDoubleBooking
    <3>3. CASE CancelConfirmed(u, id) \/ Complete(u, id)
      BY <3>3, ClosingEndsStay, NoNewStayNoDoubleBooking
    <3> QED
      BY <3>1, <3>2, <3>3
  <2>4. ASSUME NEW c \in Calls, \/ CreateStart(c) \/ CreateContinue(c)
                                \/ MoveStart(c) \/ MoveContinue(c)
        PROVE  NoDoubleBooking'
    BY <2>4, HandlersKeepStays, NoNewStayNoDoubleBooking DEF SameStays
  <2> QED
    BY <2>1, <2>2, <2>3, <2>4 DEF Next
<1> QED
  BY <1>1, <1>2, TypeCorrect, PTL DEF Spec

-----------------------------------------------------------------------------
(* No night is sold twice, also after the stay was completed.              *)

\* A completed stay is over, and stays so: the day never goes back.
CompletedIsOver == \A id \in Requests :
    request[id].status = "COMPLETED" => request[id].trip.to <= today

\* A step that completes nothing and does not turn the clock back.
NothingCompleted ==
    /\ today \in Int /\ today' \in Int /\ today <= today'
    /\ \A id \in Requests : request'[id].status = "COMPLETED" =>
          request[id].status = "COMPLETED" /\ request'[id].trip = request[id].trip

LEMMA NothingCompletedIsOver ==
    ASSUME TypeOK, CompletedIsOver, NothingCompleted
    PROVE  CompletedIsOver'
<1> SUFFICES ASSUME NEW id \in Requests, request'[id].status = "COMPLETED"
             PROVE  request'[id].trip.to <= today'
  BY DEF CompletedIsOver
<1>1. /\ request[id].status = "COMPLETED" /\ request'[id].trip = request[id].trip
      /\ request[id].trip.to <= today
  BY DEF CompletedIsOver, NothingCompleted
<1>2. request[id] \in Rows
  BY <1>1 DEF TypeOK, NoRow, Deleted
<1>3. request[id].trip.to \in Int
  BY <1>2, TripsType DEF Rows
<1> QED
  BY <1>1, <1>3 DEF NothingCompleted

\* What a handler does to a request completes nothing.
LEMMA HandlersCompleteNothing ==
    ASSUME TypeOK, NEW c \in Calls,
           CreateStart(c) \/ CreateContinue(c) \/ MoveStart(c) \/ MoveContinue(c)
    PROVE  NothingCompleted
<1>0. today \in Int /\ today' = today
  BY DEF TypeOK, CreateStart, CreateReadTarget, CreateContinue, CreateReadOffered,
     CreateCheckOfferedDates, CreateCheckTargetDates, CreateCheckExisting, CheckStep,
     CreateInsert, CreateNotify, MoveStart, Preapprove, Reject, Cancel, StartMove,
     MoveContinue, TransitionUpdate, TransitionNotify
<1>1. CASE CreateInsert(c)
  <2>1. \A id \in Requests : \/ request'[id] = request[id]
                             \/ request'[id].status = "PENDING"
    BY <1>1 DEF CreateInsert, TypeOK
  <2> QED
    BY <1>0, <2>1 DEF NothingCompleted
<1>2. CASE TransitionUpdate(c)
  <2>1. move[c] \in Moves
    BY <1>2 DEF TransitionUpdate, NoMove, TypeOK
  <2> DEFINE m == move[c]
  <2>2. m.id \in Requests /\ m.to \in {"PREAPPROVED", "REJECTED", "CANCELLED"}
    BY <2>1 DEF Moves
  <2>3. \/ request' = request
        \/ Exists(m.id) /\ request' = [request EXCEPT ![m.id].status = m.to]
    BY <1>2 DEF TransitionUpdate, UpdateStatus
  <2>4. Exists(m.id) => request[m.id] \in Rows
    BY <2>2 DEF Exists, TypeOK, NoRow, Deleted
  <2>5. \A id \in Requests : request'[id] = request[id] \/ request'[id].status = m.to
    BY <2>2, <2>3, <2>4 DEF TypeOK, Rows
  <2> QED
    BY <1>0, <2>2, <2>5 DEF NothingCompleted
<1>3. CASE ~CreateInsert(c) /\ ~TransitionUpdate(c)
  <2>1. request' = request
    BY <1>3 DEF CreateStart, CreateReadTarget, CreateContinue, CreateReadOffered,
       CreateCheckOfferedDates, CreateCheckTargetDates, CreateCheckExisting, CheckStep,
       CreateNotify, MoveStart, Preapprove, Reject, Cancel, StartMove, MoveContinue,
       TransitionNotify
  <2> QED
    BY <1>0, <2>1 DEF NothingCompleted
<1> QED
  BY <1>1, <1>2, <1>3

\* Nor does the environment.
LEMMA EnvironmentCompletesNothing ==
    ASSUME TypeOK, Environment
    PROVE  NothingCompleted
<1>1. today \in Int /\ today' \in Int /\ today <= today'
  <2>1. today \in Int
    BY BoundsType DEF TypeOK
  <2>2. today' = today + 1 \/ today' = today
    BY DEF Environment, NextDay, Register, VerifyEmail, DeleteUser, Adjust, ChangeStatus,
       Reprice
  <2> QED
    BY <2>1, <2>2
<1>2. CASE \E u \in Users : DeleteUser(u)
  <2>1. PICK u \in Users : DeleteUser(u)
    BY <1>2
  <2>2. \A id \in Requests : request'[id] = Deleted \/ request'[id] = request[id]
    BY <2>1, DeletionEndsStays
  <2> QED
    BY <1>1, <2>2 DEF NothingCompleted, Deleted
<1>3. CASE ~\E u \in Users : DeleteUser(u)
  BY <1>1, <1>3, EnvironmentKeepsStays DEF NothingCompleted
<1> QED
  BY <1>2, <1>3

\* Nor do confirm and cancelConfirmed; complete does once the stay is over.
LEMMA SettlementIsOver ==
    ASSUME TypeOK, CompletedIsOver, NEW u \in Users, NEW id \in Requests,
           Confirm(u, id) \/ CancelConfirmed(u, id) \/ Complete(u, id)
    PROVE  CompletedIsOver'
<1>1. request[id] \in Rows
  BY DEF Confirm, CancelConfirmed, Complete, Exists, TypeOK, NoRow, Deleted
<1>2. today \in Int /\ today' = today
  BY DEF Confirm, CancelConfirmed, Complete, TypeOK
<1>3. PICK s \in {"CONFIRMED", "CANCELLED", "COMPLETED"} :
        /\ request' = [request EXCEPT ![id].status = s]
        /\ s = "COMPLETED" => request[id].trip.to <= today
  BY DEF Confirm, CancelConfirmed, Complete
<1>4. /\ \A x \in Requests \ {id} : request'[x] = request[x]
      /\ request'[id].status = s /\ request'[id].trip = request[id].trip
  BY <1>1, <1>3 DEF TypeOK, Rows
<1> QED
  BY <1>2, <1>3, <1>4 DEF CompletedIsOver

\* Completed stays are over: completing looks at the date in the same
\* transaction, and nothing else writes the status.
THEOREM CompletedStaysAreOver == Spec => []CompletedIsOver
<1>1. Init => CompletedIsOver
  BY DEF Init, CompletedIsOver, NoRow
<1>2. TypeOK /\ CompletedIsOver /\ [Next]_vars => CompletedIsOver'
  <2> SUFFICES ASSUME TypeOK, CompletedIsOver, [Next]_vars
               PROVE  CompletedIsOver'
    OBVIOUS
  <2>1. CASE UNCHANGED vars
    BY <2>1 DEF vars, CompletedIsOver
  <2>2. CASE Environment
    BY <2>2, EnvironmentCompletesNothing, NothingCompletedIsOver
  <2>3. CASE Settlement
    BY <2>3, SettlementIsOver DEF Settlement
  <2>4. ASSUME NEW c \in Calls, \/ CreateStart(c) \/ CreateContinue(c)
                                \/ MoveStart(c) \/ MoveContinue(c)
        PROVE  CompletedIsOver'
    BY <2>4, HandlersCompleteNothing, NothingCompletedIsOver
  <2> QED
    BY <2>1, <2>2, <2>3, <2>4 DEF Next
<1> QED
  BY <1>1, <1>2, TypeCorrect, PTL DEF Spec

\* A night of a home is sold again only once it is over, although completing a
\* stay takes it out of the query that finds conflicts.
THEOREM NightsAreSoldOnce == Spec => []NightsSoldOnce
<1>1. TypeOK /\ NoDoubleBooking /\ CompletedIsOver => NightsSoldOnce
  BY DEF NoDoubleBooking, CompletedIsOver, NightsSoldOnce
<1> QED
  BY <1>1, TypeCorrect, NeverDoubleBooked, CompletedStaysAreOver, PTL

-----------------------------------------------------------------------------
(* The reserved points are those of the confirmed stays.                   *)

LEMMA HeldExist ==
    ASSUME NEW u \in Users
    PROVE  HeldFor(u) \in SUBSET Requests /\ \A id \in HeldFor(u) : Exists(id)
  BY DEF HeldFor, Exists

\* The price of two disjoint sets of requests is the sum of their prices.
LEMMA PointsSplit ==
    ASSUME TypeOK, NEW S \in SUBSET Requests, NEW T \in SUBSET Requests,
           S \cap T = {}, \A id \in S \cup T : Exists(id)
    PROVE  Points(S \cup T) = Points(S) + Points(T)
<1> DEFINE U == S \cup T
           f == [id \in U |-> request[id].total]
           g == [id \in S |-> request[id].total]
           h == [id \in T |-> request[id].total]
<1>1. U \in SUBSET Requests /\ \A id \in U : Exists(id)
  OBVIOUS
<1>2. /\ IsFiniteSet(S) /\ g \in [S -> Int]
      /\ IsFiniteSet(T) /\ h \in [T -> Int] /\ f \in [U -> Int]
  BY <1>1, PointsType
<1>3. (\A x \in S : f[x] = g[x]) /\ (\A x \in T : f[x] = h[x])
  OBVIOUS
<1>4. /\ Points(U) = SumOf(f)
      /\ Points(S) = SumOf(g) /\ Points(T) = SumOf(h)
  BY DEF Points
<1>5. f \in [S \cup T -> Int]
  BY <1>2
<1> HIDE DEF f, g, h
<1>6. SumOf(f) = SumOf(g) + SumOf(h)
  <2>1. Splits(f, g, h, S, T)
    BY <1>2, <1>3, <1>5 DEF Splits
  <2> QED
    BY <2>1, SumSplit
<1> QED
  BY <1>4, <1>6

LEMMA PointsOne ==
    ASSUME TypeOK, NEW id \in Requests, Exists(id)
    PROVE  Points({id}) = request[id].total /\ request[id].total \in Nat
<1>1. request[id].total \in Nat
  BY DEF TypeOK, Exists, Rows, NoRow, Deleted
<1> DEFINE f == [x \in {id} |-> request[x].total]
<1>2. f \in [{id} -> Nat] /\ f[id] = request[id].total
  BY <1>1
<1> HIDE DEF f
<1>3. SumOf(f) = request[id].total
  BY <1>2, SumOne
<1> QED
  BY <1>1, <1>3 DEF f, Points

\* Free stays do not count.
LEMMA PointsDropFree ==
    ASSUME TypeOK, NEW S \in SUBSET Requests, \A id \in S : Exists(id)
    PROVE  Points(S) = Points({id \in S : request[id].total > 0})
<1> DEFINE T == {id \in S : request[id].total > 0}
           f == [id \in S |-> request[id].total]
           g == [id \in T |-> request[id].total]
<1>1. f \in [S -> Nat] /\ T \in SUBSET S /\ T \in SUBSET Requests
  BY PointsType
<1>2. g \in [T -> Int] /\ f \in [S -> Int]
  BY <1>1
<1>3. (\A x \in T : f[x] = g[x]) /\ (\A x \in S \ T : f[x] <= 0)
  BY <1>1
<1>4. Points(S) = SumOf(f) /\ Points(T) = SumOf(g)
  BY DEF Points
<1> HIDE DEF T, f, g
<1>5. SumOf(f) = SumOf(g)
  BY <1>1, <1>2, <1>3, SumDropZeros
<1>6. Points(S) = Points(T)
  BY <1>4, <1>5
<1> QED
  BY <1>6 DEF T

\* What is held for u afterwards, when the stays in it kept their prices.
LEMMA HeldAfter ==
    ASSUME NEW u \in Users, NEW S, HeldFor(u)' = S,
           \A id \in S : request'[id].total = request[id].total
    PROVE  Points(HeldFor(u))' = Points(S)
<1>1. [id \in HeldFor(u)' |-> request'[id].total] = [id \in S |-> request[id].total]
  OBVIOUS
<1> QED
  BY <1>1 DEF Points

LEMMA SameStaysReservedIsHeld ==
    ASSUME ReservedIsHeld, SameStays, reserved' = reserved
    PROVE  ReservedIsHeld'
<1> SUFFICES ASSUME NEW u \in Users
             PROVE  reserved'[u] = Points(HeldFor(u))'
  BY DEF ReservedIsHeld
<1>1. HeldFor(u)' = HeldFor(u)
  BY DEF HeldFor, SameStays, NoNewStay
<1>2. \A id \in HeldFor(u) : request'[id].total = request[id].total
  BY DEF HeldFor, SameStays
<1>3. Points(HeldFor(u))' = Points(HeldFor(u))
  BY <1>1, <1>2, HeldAfter
<1> QED
  BY <1>3 DEF ReservedIsHeld

\* Confirming adds one stay to the guest's and its price to the reserve.
LEMMA ConfirmReservedIsHeld ==
    ASSUME TypeOK, ReservedIsHeld,
           NEW u \in Users, NEW id \in Requests, Confirm(u, id)
    PROVE  ReservedIsHeld'
<1>1. /\ request[id] \in Rows /\ Exists(id)
      /\ request[id].requester = u /\ request[id].status = "PREAPPROVED"
  BY DEF Confirm, Exists, TypeOK, NoRow, Deleted
<1>2. request' = [request EXCEPT ![id].status = "CONFIRMED"]
  BY DEF Confirm
<1>3. /\ \A x \in Requests \ {id} : request'[x] = request[x]
      /\ request'[id].status = "CONFIRMED" /\ request'[id].requester = u
      /\ request'[id].total = request[id].total
  BY <1>1, <1>2 DEF TypeOK, Rows
<1>4. reserved'[u] = reserved[u] + request[id].total
  <2>1. request[id].total \in Nat /\ reserved[u] \in Nat
    BY <1>1, PointsOne DEF TypeOK
  <2> QED
    BY <2>1 DEF Confirm, Reserve, TypeOK
<1>5. \A v \in Users \ {u} : reserved'[v] = reserved[v]
  BY DEF Confirm, Reserve, TypeOK
<1> SUFFICES ASSUME NEW v \in Users
             PROVE  reserved'[v] = Points(HeldFor(v))'
  BY DEF ReservedIsHeld
<1>6. HeldFor(v)' = IF v = u THEN HeldFor(v) \cup {id} ELSE HeldFor(v)
  BY <1>1, <1>3 DEF HeldFor
<1>7. \A x \in HeldFor(v)' : request'[x].total = request[x].total
  BY <1>3, <1>6 DEF HeldFor
<1>8. CASE v = u
  <2>1. Points(HeldFor(v))' = Points(HeldFor(v) \cup {id})
    BY <1>6, <1>7, <1>8, HeldAfter
  <2>2. HeldFor(v) \cap {id} = {}
    BY <1>1 DEF HeldFor
  <2>3. Points(HeldFor(v) \cup {id}) = Points(HeldFor(v)) + Points({id})
    BY <1>1, <2>2, HeldExist, PointsSplit
  <2> QED
    BY <1>1, <1>4, <1>8, <2>1, <2>3, PointsOne DEF ReservedIsHeld
<1>9. CASE v # u
  BY <1>5, <1>6, <1>7, <1>9, HeldAfter DEF ReservedIsHeld
<1> QED
  BY <1>8, <1>9

\* Cancelling and completing take one stay and its price away.
LEMMA ClosingReservedIsHeld ==
    ASSUME TypeOK, ReservedIsHeld, NEW u \in Users, NEW id \in Requests,
           CancelConfirmed(u, id) \/ Complete(u, id)
    PROVE  ReservedIsHeld'
<1> DEFINE guest == request[id].requester
<1>1. /\ request[id] \in Rows /\ request[id].status = "CONFIRMED"
      /\ request'[id].status # "CONFIRMED"
      /\ \A x \in Requests \ {id} : request'[x] = request[x]
  BY ClosingEndsStay
<1>2. guest \in Users /\ Exists(id)
  BY <1>1 DEF Rows, Exists
<1>3. request[id].total \in Nat /\ Points({id}) = request[id].total
  BY <1>2, PointsOne
<1>4. reserved'[guest] = reserved[guest] - request[id].total
  BY <1>2, <1>3 DEF CancelConfirmed, Complete, PayReserve, TypeOK
<1>5. \A v \in Users \ {guest} : reserved'[v] = reserved[v]
  BY <1>2 DEF CancelConfirmed, Complete, PayReserve, TypeOK
<1> SUFFICES ASSUME NEW v \in Users
             PROVE  reserved'[v] = Points(HeldFor(v))'
  BY DEF ReservedIsHeld
<1>6. HeldFor(v)' = HeldFor(v) \ {id}
  BY <1>1 DEF HeldFor
<1>7. \A x \in HeldFor(v)' : request'[x].total = request[x].total
  BY <1>1, <1>6 DEF HeldFor
<1>8. Points(HeldFor(v))' = Points(HeldFor(v) \ {id})
  BY <1>6, <1>7, HeldAfter
<1>9. CASE v = guest
  <2> DEFINE rest == HeldFor(v) \ {id}
  <2>1. HeldFor(v) = rest \cup {id} /\ rest \cap {id} = {}
    BY <1>1, <1>9 DEF HeldFor
  <2>2. /\ rest \in SUBSET Requests /\ {id} \in SUBSET Requests
        /\ \A x \in rest \cup {id} : Exists(x)
    BY <1>2, HeldExist
  <2>3. Points(rest) \in Nat
    BY <2>2, PointsType
  <2> HIDE DEF rest
  <2>4. Points(rest \cup {id}) = Points(rest) + Points({id})
    BY <2>1, <2>2, PointsSplit
  <2>5. reserved[v] = Points(rest) + request[id].total
    BY <1>3, <2>1, <2>4 DEF ReservedIsHeld
  <2>6. reserved'[v] = Points(rest)
    BY <1>3, <1>4, <1>9, <2>3, <2>5
  <2> QED
    BY <1>8, <2>6 DEF rest
<1>10. CASE v # guest
  <2>1. HeldFor(v) \ {id} = HeldFor(v)
    BY <1>10 DEF HeldFor
  <2> QED
    BY <1>5, <1>8, <1>10, <2>1 DEF ReservedIsHeld
<1> QED
  BY <1>9, <1>10

\* A deletion gives the survivors back the price of the stays it ends.
LEMMA DeletionReservedIsHeld ==
    ASSUME TypeOK, ReservedIsHeld, NEW u \in Users, DeleteUser(u)
    PROVE  ReservedIsHeld'
<1> SUFFICES ASSUME NEW v \in Users
             PROVE  reserved'[v] = Points(HeldFor(v))'
  BY DEF ReservedIsHeld
<1> DEFINE scope == DeletionScope(u)
           kept == HeldFor(v) \ scope
           ended == HeldFor(v) \cap scope
<1>1. \A id \in Requests : request'[id] = IF id \in scope THEN Deleted ELSE request[id]
  BY DeletionEndsStays
<1>2. HeldFor(v)' = kept /\ \A x \in kept : request'[x].total = request[x].total
  BY <1>1 DEF HeldFor, Deleted
<1> HIDE DEF scope
<1>3. Points(HeldFor(v))' = Points(kept)
  <2> HIDE DEF kept
  <2> QED
    BY <1>2, HeldAfter
<1>4. /\ kept \in SUBSET Requests /\ ended \in SUBSET Requests
      /\ kept \cup ended = HeldFor(v) /\ kept \cap ended = {}
      /\ \A x \in kept \cup ended : Exists(x)
  BY HeldExist
<1>5. CASE v = u
  <2>1. reserved'[v] = 0
    BY <1>5 DEF DeleteUser
  <2>2. kept = {}
    BY <1>5 DEF scope, DeletionScope, HeldFor, Exists, Participants
  <2>3. Points({}) = 0
    BY SumEmpty DEF Points
  <2> QED
    BY <1>3, <2>1, <2>2, <2>3
<1>6. CASE v # u
  <2>1. reserved'[v] = reserved[v] - Points(ReleasedTo(v, u))
    BY <1>6 DEF DeleteUser
  <2>2. ReleasedTo(v, u) = {id \in ended : request[id].total > 0}
    BY <1>6 DEF ReleasedTo, scope
  <2> HIDE DEF kept, ended
  <2>3. Points(ReleasedTo(v, u)) = Points(ended)
    BY <1>4, <2>2, PointsDropFree
  <2>4. Points(kept \cup ended) = Points(kept) + Points(ended)
    BY <1>4, PointsSplit
  <2>5. Points(kept) \in Nat /\ Points(ended) \in Nat
    BY <1>4, PointsType
  <2>6. reserved[v] = Points(kept) + Points(ended)
    BY <1>4, <2>4 DEF ReservedIsHeld
  <2> QED
    BY <1>3, <2>1, <2>3, <2>5, <2>6
<1> QED
  BY <1>5, <1>6

\* In every reachable state the reserved points of each account are the prices
\* of its user's confirmed stays: no order of confirm, cancelConfirmed,
\* complete and deleteUser strands a reserve or spends one twice.
THEOREM ReserveMatchesStays == Spec => []ReservedIsHeld
<1>1. Init => ReservedIsHeld
  <2> SUFFICES ASSUME Init, NEW u \in Users
               PROVE  reserved[u] = Points(HeldFor(u))
    BY DEF ReservedIsHeld
  <2>1. HeldFor(u) = {} /\ reserved[u] = 0
    BY DEF Init, HeldFor, NoRow
  <2>2. Points({}) = 0
    BY SumEmpty DEF Points
  <2> QED
    BY <2>1, <2>2
<1>2. TypeOK /\ ReservedIsHeld /\ [Next]_vars => ReservedIsHeld'
  <2> SUFFICES ASSUME TypeOK, ReservedIsHeld, [Next]_vars
               PROVE  ReservedIsHeld'
    OBVIOUS
  <2>1. CASE UNCHANGED vars
    <3>1. SameStays /\ reserved' = reserved
      BY <2>1 DEF vars, accounts, SameStays, NoNewStay
    <3> QED
      BY <3>1, SameStaysReservedIsHeld
  <2>2. ASSUME NEW u \in Users, DeleteUser(u)
        PROVE  ReservedIsHeld'
    BY <2>2, DeletionReservedIsHeld
  <2>3. CASE Environment /\ ~\E u \in Users : DeleteUser(u)
    <3>1. SameStays /\ reserved' = reserved
      BY <2>3, EnvironmentKeepsStays DEF SameStays, NoNewStay
    <3> QED
      BY <3>1, SameStaysReservedIsHeld
  <2>4. CASE Settlement
    <3>1. PICK u \in Users, id \in Requests :
            Confirm(u, id) \/ CancelConfirmed(u, id) \/ Complete(u, id)
      BY <2>4 DEF Settlement
    <3>2. CASE Confirm(u, id)
      BY <3>2, ConfirmReservedIsHeld
    <3>3. CASE CancelConfirmed(u, id) \/ Complete(u, id)
      BY <3>3, ClosingReservedIsHeld
    <3> QED
      BY <3>1, <3>2, <3>3
  <2>5. ASSUME NEW c \in Calls, \/ CreateStart(c) \/ CreateContinue(c)
                                \/ MoveStart(c) \/ MoveContinue(c)
        PROVE  ReservedIsHeld'
    BY <2>5, HandlersKeepStays, SameStaysReservedIsHeld
  <2> QED
    BY <2>1, <2>2, <2>3, <2>4, <2>5 DEF Next
<1> QED
  BY <1>1, <1>2, TypeCorrect, PTL DEF Spec

-----------------------------------------------------------------------------
(* The journal gives both balances.                                        *)

\* Entries of an account, of some types.
Of(entries, u, types) == {e \in entries : e.account = u /\ e.type \in types}

LEMMA NoEntries == Sum({}) = 0
  BY SumEmpty DEF Sum

LEMMA SumIsInt ==
    ASSUME NEW S \in SUBSET Entries, IsFiniteSet(S)
    PROVE  /\ [e \in S |-> e.amount] \in [S -> Int]
           /\ [e \in S |-> -e.amount] \in [S -> Int]
           /\ Sum(S) \in Int
<1>1. /\ [e \in S |-> e.amount] \in [S -> Int]
      /\ [e \in S |-> -e.amount] \in [S -> Int]
  BY DEF Entries
<1>2. SumOf([e \in S |-> e.amount]) \in Nat /\ SumOf([e \in S |-> -e.amount]) \in Nat
  BY <1>1, SumType
<1> QED
  BY <1>1, <1>2 DEF Sum

\* Entries that differ add up.
LEMMA SumJoined ==
    ASSUME NEW S \in SUBSET Entries, NEW T \in SUBSET Entries,
           IsFiniteSet(S), IsFiniteSet(T), S \cap T = {}
    PROVE  Sum(S \cup T) = Sum(S) + Sum(T)
<1> DEFINE U == S \cup T
           f == [e \in U |-> e.amount]
           g == [e \in S |-> e.amount]
           h == [e \in T |-> e.amount]
           fm == [e \in U |-> -e.amount]
           gm == [e \in S |-> -e.amount]
           hm == [e \in T |-> -e.amount]
<1>1. U \in SUBSET Entries /\ IsFiniteSet(U)
  BY FS_Union
<1>2. /\ IsFiniteSet(S) /\ g \in [S -> Int]
      /\ IsFiniteSet(T) /\ h \in [T -> Int] /\ f \in [U -> Int]
  BY DEF Entries
<1>3. /\ IsFiniteSet(S) /\ gm \in [S -> Int]
      /\ IsFiniteSet(T) /\ hm \in [T -> Int] /\ fm \in [U -> Int]
  BY DEF Entries
<1>4. (\A x \in S : f[x] = g[x]) /\ (\A x \in T : f[x] = h[x])
  OBVIOUS
<1>5. (\A x \in S : fm[x] = gm[x]) /\ (\A x \in T : fm[x] = hm[x])
  OBVIOUS
<1>6. /\ Sum(U) = SumOf(f) - SumOf(fm)
      /\ Sum(S) = SumOf(g) - SumOf(gm) /\ Sum(T) = SumOf(h) - SumOf(hm)
  BY DEF Sum
<1> HIDE DEF f, g, h, fm, gm, hm
<1>7. SumOf(f) = SumOf(g) + SumOf(h)
  <2>1. Splits(f, g, h, S, T)
    BY <1>2, <1>4 DEF Splits
  <2> QED
    BY <2>1, SumSplit
<1>8. SumOf(fm) = SumOf(gm) + SumOf(hm)
  <2>1. Splits(fm, gm, hm, S, T)
    BY <1>3, <1>5 DEF Splits
  <2> QED
    BY <2>1, SumSplit
<1>9. /\ SumOf(g) \in Nat /\ SumOf(h) \in Nat /\ SumOf(gm) \in Nat /\ SumOf(hm) \in Nat
  BY <1>2, <1>3, SumType
<1> QED
  BY <1>6, <1>7, <1>8, <1>9

LEMMA SumOfOne ==
    ASSUME NEW e \in Entries
    PROVE  Sum({e}) = e.amount
<1> DEFINE f == [x \in {e} |-> x.amount]
           fm == [x \in {e} |-> -x.amount]
<1>1. e.amount \in Int
  BY DEF Entries
<1>2. /\ f \in [{e} -> Int] /\ f[e] = e.amount
      /\ fm \in [{e} -> Int] /\ fm[e] = -e.amount
  BY <1>1
<1>3. Sum({e}) = SumOf(f) - SumOf(fm)
  BY DEF Sum
<1> HIDE DEF f, fm
<1>4. CASE e.amount >= 0
  <2>1. f \in [{e} -> Nat]
    BY <1>1, <1>2, <1>4
  <2>2. \A x \in {e} : fm[x] <= 0
    BY <1>1, <1>2, <1>4
  <2> QED
    BY <1>1, <1>2, <1>3, <2>1, <2>2, SumOne, NothingPositive
<1>5. CASE e.amount < 0
  <2>1. fm \in [{e} -> Nat]
    BY <1>1, <1>2, <1>5
  <2>2. \A x \in {e} : f[x] <= 0
    BY <1>1, <1>2, <1>5
  <2>3. SumOf(f) = 0 /\ SumOf(fm) = -e.amount
    BY <1>2, <2>1, <2>2, SumOne, NothingPositive
  <2> QED
    BY <1>1, <1>3, <2>3
<1> QED
  BY <1>1, <1>4, <1>5

\* What an account has after entries with fresh keys were added.
LEMMA SumPosted ==
    ASSUME TypeOK, IsFiniteSet(journal),
           NEW new \in SUBSET Entries, IsFiniteSet(new),
           \A e \in new, f \in journal : e.key # f.key,
           NEW u \in Users, NEW types
    PROVE  /\ Sum(Of(journal \cup new, u, types))
                = Sum(EntriesOf(u, types)) + Sum(Of(new, u, types))
           /\ Sum(EntriesOf(u, types)) \in Int
           /\ Sum(Of(new, u, types)) \in Int
<1> DEFINE old == EntriesOf(u, types)
           more == Of(new, u, types)
<1>1. old \in SUBSET journal /\ more \in SUBSET new
  BY DEF EntriesOf, Of
<1>2. old \in SUBSET Entries /\ more \in SUBSET Entries
  BY <1>1 DEF TypeOK
<1>3. IsFiniteSet(old) /\ IsFiniteSet(more)
  BY <1>1, FS_Subset
<1>4. old \cap more = {}
  BY <1>1
<1>5. Of(journal \cup new, u, types) = old \cup more
  BY DEF Of, EntriesOf
<1> HIDE DEF old, more
<1>6. Sum(old \cup more) = Sum(old) + Sum(more)
  BY <1>2, <1>3, <1>4, SumJoined
<1>7. Sum(old) \in Int /\ Sum(more) \in Int
  BY <1>2, <1>3, SumIsInt
<1> QED
  BY <1>5, <1>6, <1>7 DEF old, more

\* Whoever takes part in a request has a row.
PartiesHere == \A id \in Requests :
    Exists(id) => Present(request[id].requester) /\ Present(Host(id))

\* Who is not here yet has no points.
Newcomers == \A u \in Users : userRow[u] = "NONE" => available[u] = 0

\* The inductive invariant.
JournalInv == /\ TypeOK /\ IsFiniteSet(journal)
              /\ PartiesHere /\ Newcomers /\ JournalGivesBalances

\* The entries that change what is available.
AvailableTypes == {"BONUS", "RESERVE", "RELEASE", "HOST_CREDIT", "ADMIN_ADJUSTMENT"}

\* The balances go with the entries posted.
LEMMA BalancesPosted ==
    ASSUME JournalInv, NEW new \in SUBSET Entries, IsFiniteSet(new), Post(new),
           \A u \in Users :
              /\ available'[u] = available[u] + Sum(Of(new, u, AvailableTypes))
              /\ reserved'[u] = reserved[u] + Sum(Of(new, u, {"DEBIT"}))
                                - Sum(Of(new, u, {"RESERVE", "RELEASE"}))
    PROVE  JournalGivesBalances' /\ IsFiniteSet(journal')
<1>1. /\ \A e \in new, f \in journal : e.key # f.key
      /\ journal' = journal \cup new
  BY DEF Post
<1>2. IsFiniteSet(journal')
  BY <1>1, FS_Union DEF JournalInv
<1>3. ASSUME NEW u \in Users, NEW types
      PROVE  /\ Sum(EntriesOf(u, types)')
                   = Sum(EntriesOf(u, types)) + Sum(Of(new, u, types))
             /\ Sum(EntriesOf(u, types)) \in Int /\ Sum(Of(new, u, types)) \in Int
  <2>1. EntriesOf(u, types)' = Of(journal \cup new, u, types)
    BY <1>1 DEF EntriesOf, Of
  <2> QED
    BY <1>1, <2>1, SumPosted DEF JournalInv
<1>4. ASSUME NEW u \in Users
      PROVE  /\ available'[u] = Sum(EntriesOf(u, AvailableTypes)')
             /\ reserved'[u] = Sum(EntriesOf(u, {"DEBIT"})')
                               - Sum(EntriesOf(u, {"RESERVE", "RELEASE"})')
  <2>1. /\ available[u] = Sum(EntriesOf(u, AvailableTypes))
        /\ reserved[u] = Sum(EntriesOf(u, {"DEBIT"}))
                         - Sum(EntriesOf(u, {"RESERVE", "RELEASE"}))
    BY DEF JournalInv, JournalGivesBalances, AvailableTypes
  <2>2. available'[u] = Sum(EntriesOf(u, AvailableTypes)')
    BY <1>3, <2>1
  <2>3. /\ Sum(EntriesOf(u, {"DEBIT"})')
             = Sum(EntriesOf(u, {"DEBIT"})) + Sum(Of(new, u, {"DEBIT"}))
        /\ Sum(EntriesOf(u, {"DEBIT"})) \in Int /\ Sum(Of(new, u, {"DEBIT"})) \in Int
    BY <1>3
  <2>4. /\ Sum(EntriesOf(u, {"RESERVE", "RELEASE"})')
             = Sum(EntriesOf(u, {"RESERVE", "RELEASE"}))
               + Sum(Of(new, u, {"RESERVE", "RELEASE"}))
        /\ Sum(EntriesOf(u, {"RESERVE", "RELEASE"})) \in Int
        /\ Sum(Of(new, u, {"RESERVE", "RELEASE"})) \in Int
    BY <1>3
  <2>5. reserved'[u] = reserved[u] + Sum(Of(new, u, {"DEBIT"}))
                                   - Sum(Of(new, u, {"RESERVE", "RELEASE"}))
    OBVIOUS
  <2> HIDE DEF JournalInv
  <2>6. reserved'[u] = Sum(EntriesOf(u, {"DEBIT"})')
                       - Sum(EntriesOf(u, {"RESERVE", "RELEASE"})')
    BY <2>1, <2>3, <2>4, <2>5
  <2> QED
    BY <2>2, <2>6
<1>5. JournalGivesBalances'
  BY <1>4 DEF JournalGivesBalances, AvailableTypes
<1> QED
  BY <1>2, <1>5

LEMMA SumOfEntry ==
    ASSUME NEW e \in Entries, NEW u, NEW types
    PROVE  Sum(Of({e}, u, types)) =
               IF e.account = u /\ e.type \in types THEN e.amount ELSE 0
<1>1. Of({e}, u, types) = IF e.account = u /\ e.type \in types THEN {e} ELSE {}
  BY DEF Of
<1> QED
  BY <1>1, SumOfOne, NoEntries

\* One entry is posted.
LEMMA EntryPosted ==
    ASSUME JournalInv, NEW e \in Entries, Post({e}),
           \A u \in Users :
              /\ available'[u] = available[u] +
                    (IF e.account = u /\ e.type # "DEBIT" THEN e.amount ELSE 0)
              /\ reserved'[u] = reserved[u] -
                    (IF e.account = u /\ e.type \in {"RESERVE", "RELEASE"}
                     THEN e.amount ELSE 0),
           e.type # "DEBIT"
    PROVE  JournalGivesBalances' /\ IsFiniteSet(journal')
<1>1. {e} \in SUBSET Entries /\ IsFiniteSet({e})
  BY FS_Singleton
<1>2. e.amount \in Int /\ e.type \in AvailableTypes
  BY DEF Entries, AvailableTypes
<1>3. ASSUME NEW u \in Users
      PROVE  /\ available'[u] = available[u] + Sum(Of({e}, u, AvailableTypes))
             /\ reserved'[u] = reserved[u] + Sum(Of({e}, u, {"DEBIT"}))
                                - Sum(Of({e}, u, {"RESERVE", "RELEASE"}))
  <2>1. /\ Sum(Of({e}, u, AvailableTypes)) = IF e.account = u THEN e.amount ELSE 0
        /\ Sum(Of({e}, u, {"DEBIT"})) = 0
        /\ Sum(Of({e}, u, {"RESERVE", "RELEASE"}))
             = IF e.account = u /\ e.type \in {"RESERVE", "RELEASE"} THEN e.amount ELSE 0
    BY <1>2, SumOfEntry
  <2>2. available[u] \in Int /\ reserved[u] \in Int
    BY DEF JournalInv, TypeOK
  <2> QED
    BY <1>2, <2>1, <2>2
<1> QED
  BY <1>1, <1>3, BalancesPosted

LEMMA NothingPosted ==
    ASSUME JournalInv, UNCHANGED <<available, reserved, journal>>
    PROVE  JournalGivesBalances' /\ IsFiniteSet(journal')
  BY DEF JournalInv, JournalGivesBalances, EntriesOf

\* Requests keep their parties, and who is here stays.
LEMMA PartiesStay ==
    ASSUME TypeOK, PartiesHere,
           \A u \in Users : Present(u) => Present(u)',
           \A id \in Requests : Exists(id)' =>
               /\ Exists(id)
               /\ request'[id].requester = request[id].requester
               /\ request'[id].target = request[id].target
    PROVE  PartiesHere'
<1> SUFFICES ASSUME NEW id \in Requests, Exists(id)'
             PROVE  Present(request[id].requester)' /\ Present(Host(id))'
  BY DEF PartiesHere
<1>1. request[id] \in Rows /\ Exists(id)
  BY DEF TypeOK, Exists, NoRow, Deleted
<1>2. request[id].requester \in Users /\ Host(id) \in Users /\ Host(id)' = Host(id)
  BY <1>1, OwnerType DEF Rows, Host
<1> QED
  BY <1>1, <1>2 DEF PartiesHere

LEMMA ActsPost ==
    ASSUME JournalInv, NEW u \in Users
    PROVE  /\ Register(u) \/ VerifyEmail(u) => JournalInv'
           /\ \A amount \in Adjustments : Adjust(u, amount) => JournalInv'
<1>0. TypeOK
  BY DEF JournalInv
<1>1. ASSUME \/ Register(u) \/ VerifyEmail(u)
             \/ \E amount \in Adjustments : Adjust(u, amount)
      PROVE  TypeOK' /\ PartiesHere'
  <2>1. TypeOK'
    BY <1>0, <1>1, TypeEnvironment DEF Environment
  <2>2. request' = request
    BY <1>1 DEF Register, VerifyEmail, Adjust
  <2>3. \A v \in Users : Present(v) => Present(v)'
    BY <1>0, <1>1 DEF Register, VerifyEmail, Adjust, Present, TypeOK
  <2>4. PartiesHere
    BY DEF JournalInv
  <2> QED
    BY <1>0, <2>1, <2>2, <2>3, <2>4, PartiesStay DEF Exists
<1>2. CASE Register(u)
  <2>1. PICK bonus \in Bonuses :
          /\ userRow[u] = "NONE" /\ userRow' = [userRow EXCEPT ![u] = "PRESENT"]
          /\ available' = [available EXCEPT ![u] = bonus]
          /\ Post({Entry(u, "BONUS", <<"welcome", u>>, bonus)})
          /\ reserved' = reserved
    BY <1>2 DEF Register
  <2> DEFINE e == Entry(u, "BONUS", <<"welcome", u>>, bonus)
  <2>2. bonus \in Nat
    BY AmountsType
  <2>3. e \in Entries /\ e.account = u /\ e.type = "BONUS" /\ e.amount = bonus
    BY <2>2 DEF Entry, Entries, Operations
  <2>4. available[u] = 0
    BY <2>1 DEF JournalInv, Newcomers
  <2>5. /\ available \in [Users -> Nat] /\ reserved \in [Users -> Nat]
        /\ userRow \in [Users -> {"NONE", "PRESENT", "DELETED"}]
    BY <1>0 DEF TypeOK
  <2> HIDE DEF e
  <2>6. JournalGivesBalances' /\ IsFiniteSet(journal')
    BY <2>1, <2>2, <2>3, <2>4, <2>5, EntryPosted DEF e
  <2>7. Newcomers'
    BY <2>1, <2>5 DEF Newcomers, JournalInv
  <2> QED
    BY <1>1, <1>2, <2>6, <2>7 DEF JournalInv
<1>3. CASE VerifyEmail(u)
  <2>1. PICK bonus \in Bonuses :
          /\ Present(u) /\ userRow' = userRow
          /\ available' = [available EXCEPT ![u] = @ + bonus]
          /\ Post({Entry(u, "BONUS", <<"email-verified", u>>, bonus)})
          /\ reserved' = reserved
    BY <1>3 DEF VerifyEmail
  <2> DEFINE e == Entry(u, "BONUS", <<"email-verified", u>>, bonus)
  <2>2. bonus \in Nat
    BY AmountsType
  <2>3. e \in Entries /\ e.account = u /\ e.type = "BONUS" /\ e.amount = bonus
    BY <2>2 DEF Entry, Entries, Operations
  <2>5. available \in [Users -> Nat] /\ reserved \in [Users -> Nat]
    BY <1>0 DEF TypeOK
  <2> HIDE DEF e
  <2>6. JournalGivesBalances' /\ IsFiniteSet(journal')
    BY <2>1, <2>2, <2>3, <2>5, EntryPosted DEF e
  <2>7. Newcomers'
    BY <2>1, <2>5 DEF Newcomers, JournalInv, Present
  <2> QED
    BY <1>1, <1>3, <2>6, <2>7 DEF JournalInv
<1>4. ASSUME NEW amount \in Adjustments, Adjust(u, amount)
      PROVE  JournalInv'
  <2> DEFINE e == Entry(u, "ADMIN_ADJUSTMENT", <<"admin-adjustment", adjusted'>>, amount)
  <2>1. /\ Present(u) /\ userRow' = userRow
        /\ available' = [available EXCEPT ![u] = @ + amount]
        /\ Post({e}) /\ reserved' = reserved
    BY <1>4 DEF Adjust
  <2>2. amount \in Int /\ adjusted' \in Nat
    BY <1>0, <1>4, AmountsType, BoundsType DEF Adjust, TypeOK
  <2>3. e \in Entries /\ e.account = u /\ e.type = "ADMIN_ADJUSTMENT" /\ e.amount = amount
    BY <2>2 DEF Entry, Entries, Operations
  <2>5. available \in [Users -> Nat] /\ reserved \in [Users -> Nat]
    BY <1>0 DEF TypeOK
  <2> HIDE DEF e
  <2>6. JournalGivesBalances' /\ IsFiniteSet(journal')
    BY <2>1, <2>2, <2>3, <2>5, EntryPosted
  <2>7. Newcomers'
    BY <2>1, <2>5 DEF Newcomers, JournalInv, Present
  <2> QED
    BY <1>1, <1>4, <2>6, <2>7 DEF JournalInv
<1> QED
  BY <1>2, <1>3, <1>4

\* The transactions on a request keep its parties.
LEMMA SettlementKeepsParties ==
    ASSUME JournalInv, Settlement
    PROVE  TypeOK' /\ PartiesHere' /\ userRow' = userRow
<1>1. TypeOK /\ PartiesHere
  BY DEF JournalInv
<1>2. TypeOK'
  BY <1>1, TypeSettlement
<1>3. PICK u \in Users, id \in Requests :
        Confirm(u, id) \/ CancelConfirmed(u, id) \/ Complete(u, id)
  BY DEF Settlement
<1>4. /\ Exists(id) /\ userRow' = userRow
      /\ \E s \in Statuses : request' = [request EXCEPT ![id].status = s]
  BY <1>3 DEF Confirm, CancelConfirmed, Complete
<1>5. request[id] \in Rows
  BY <1>1, <1>4 DEF TypeOK, Exists, NoRow, Deleted
<1>6. \A x \in Requests : Exists(x)' =>
        /\ Exists(x)
        /\ request'[x].requester = request[x].requester
        /\ request'[x].target = request[x].target
  BY <1>1, <1>4, <1>5 DEF TypeOK, Rows, Exists
<1>7. \A v \in Users : Present(v) => Present(v)'
  BY <1>4 DEF Present
<1> QED
  BY <1>1, <1>2, <1>4, <1>6, <1>7, PartiesStay

LEMMA SettlementBalances ==
    ASSUME JournalInv, NEW u \in Users, NEW id \in Requests,
           Confirm(u, id) \/ CancelConfirmed(u, id) \/ Complete(u, id)
    PROVE  JournalGivesBalances' /\ IsFiniteSet(journal') /\ Newcomers'
<1> DEFINE row == request[id]
           guest == row.requester
           amount == row.total
<1>1. TypeOK /\ PartiesHere /\ Newcomers
  BY DEF JournalInv
<1>2. row \in Rows /\ Exists(id)
  BY <1>1 DEF Confirm, CancelConfirmed, Complete, Exists, TypeOK, NoRow, Deleted
<1>3. guest \in Users /\ Host(id) \in Users /\ amount \in Nat /\ -amount \in Int
  BY <1>2, OwnerType DEF Rows, Host
<1>4. userRow[guest] # "NONE" /\ userRow[Host(id)] # "NONE" /\ userRow' = userRow
  BY <1>1, <1>2 DEF PartiesHere, Present, Confirm, CancelConfirmed, Complete
<1>5. available \in [Users -> Nat] /\ reserved \in [Users -> Nat]
  BY <1>1 DEF TypeOK
<1> HIDE DEF row, guest, amount
<1>6. CASE amount = 0
  <2>1. UNCHANGED <<available, reserved, journal>>
    BY <1>6 DEF Confirm, CancelConfirmed, Complete, amount, row
  <2> QED
    BY <1>1, <1>4, <2>1, NothingPosted DEF Newcomers
<1>7. CASE amount > 0 /\ Confirm(u, id)
  <2> DEFINE e == Entry(u, "RESERVE", <<"exchange-reserve", id>>, -amount)
  <2>1. /\ u = guest /\ available' = [available EXCEPT ![u] = @ - amount]
        /\ reserved' = [reserved EXCEPT ![u] = @ + amount] /\ Post({e})
    BY <1>7 DEF Confirm, Reserve, amount, guest, row
  <2>2. e \in Entries /\ e.account = u /\ e.type = "RESERVE" /\ e.amount = -amount
    BY <1>3 DEF Entry, Entries, Operations
  <2> HIDE DEF e
  <2>3. \A v \in Users :
              /\ available'[v] = available[v] +
                    (IF e.account = v /\ e.type # "DEBIT" THEN e.amount ELSE 0)
              /\ reserved'[v] = reserved[v] -
                    (IF e.account = v /\ e.type \in {"RESERVE", "RELEASE"}
                     THEN e.amount ELSE 0)
    BY <1>3, <1>5, <2>1, <2>2
  <2>4. JournalGivesBalances' /\ IsFiniteSet(journal')
    BY <2>1, <2>2, <2>3, EntryPosted
  <2> QED
    BY <1>1, <1>4, <1>5, <2>1, <2>4 DEF Newcomers
<1>8. CASE amount > 0 /\ CancelConfirmed(u, id)
  <2> DEFINE e == Entry(guest, "RELEASE", <<"exchange-release", id>>, amount)
  <2>1. /\ available' = [available EXCEPT ![guest] = @ + amount]
        /\ reserved' = [reserved EXCEPT ![guest] = @ - amount] /\ Post({e})
    BY <1>8 DEF CancelConfirmed, PayReserve, amount, guest, row
  <2>2. e \in Entries /\ e.account = guest /\ e.type = "RELEASE" /\ e.amount = amount
    BY <1>3 DEF Entry, Entries, Operations
  <2> HIDE DEF e
  <2>3. \A v \in Users :
              /\ available'[v] = available[v] +
                    (IF e.account = v /\ e.type # "DEBIT" THEN e.amount ELSE 0)
              /\ reserved'[v] = reserved[v] -
                    (IF e.account = v /\ e.type \in {"RESERVE", "RELEASE"}
                     THEN e.amount ELSE 0)
    BY <1>3, <1>5, <2>1, <2>2
  <2>4. JournalGivesBalances' /\ IsFiniteSet(journal')
    BY <2>1, <2>2, <2>3, EntryPosted
  <2> QED
    BY <1>1, <1>4, <1>5, <2>1, <2>4 DEF Newcomers
<1>9. CASE amount > 0 /\ Complete(u, id)
  <2> DEFINE d == Debit(id)
             c == HostCredit(id)
             new == {d, c}
  <2>1. /\ available' = [available EXCEPT ![Host(id)] = @ + amount]
        /\ reserved' = [reserved EXCEPT ![guest] = @ - amount] /\ Post(new)
    BY <1>9 DEF Complete, PayReserve, CompletionEntries, amount, guest, row
  <2>2. /\ d \in Entries /\ d.account = guest /\ d.type = "DEBIT" /\ d.amount = -amount
        /\ c \in Entries /\ c.account = Host(id)
        /\ c.type = "HOST_CREDIT" /\ c.amount = amount
    BY <1>3 DEF Debit, HostCredit, Entry, Entries, Operations, amount, guest, row
  <2> HIDE DEF d, c
  <2>3. new \in SUBSET Entries /\ IsFiniteSet(new)
    <3>1. IsFiniteSet({c})
      BY FS_Singleton
    <3>2. IsFiniteSet({c} \cup {d})
      BY <3>1, FS_AddElement
    <3>3. {c} \cup {d} = new
      OBVIOUS
    <3> QED
      BY <2>2, <3>2, <3>3
  <2>4. ASSUME NEW v \in Users
        PROVE  /\ Sum(Of(new, v, AvailableTypes)) = IF v = Host(id) THEN amount ELSE 0
               /\ Sum(Of(new, v, {"DEBIT"})) = IF v = guest THEN -amount ELSE 0
               /\ Sum(Of(new, v, {"RESERVE", "RELEASE"})) = 0
    <3>1. /\ Of(new, v, AvailableTypes) = IF v = Host(id) THEN {c} ELSE {}
          /\ Of(new, v, {"DEBIT"}) = IF v = guest THEN {d} ELSE {}
          /\ Of(new, v, {"RESERVE", "RELEASE"}) = {}
      BY <2>2 DEF Of, AvailableTypes
    <3> QED
      BY <2>2, <3>1, SumOfOne, NoEntries
  <2>5. \A v \in Users :
              /\ available'[v] = available[v] + Sum(Of(new, v, AvailableTypes))
              /\ reserved'[v] = reserved[v] + Sum(Of(new, v, {"DEBIT"}))
                                - Sum(Of(new, v, {"RESERVE", "RELEASE"}))
    BY <1>3, <1>5, <2>1, <2>4
  <2> HIDE DEF new
  <2>6. JournalGivesBalances' /\ IsFiniteSet(journal')
    BY <2>1, <2>3, <2>5, BalancesPosted
  <2> QED
    BY <1>1, <1>4, <1>5, <2>1, <2>6 DEF Newcomers
<1> QED
  BY <1>3, <1>6, <1>7, <1>8, <1>9

\* The handlers outside transactions post nothing, and insert only requests
\* whose parties are here.
LEMMA HandlersKeepJournal ==
    ASSUME JournalInv, NEW c \in Calls,
           \/ CreateStart(c) \/ CreateContinue(c)
           \/ MoveStart(c)   \/ MoveContinue(c)
    PROVE  JournalInv'
<1>1. TypeOK /\ PartiesHere /\ Newcomers
  BY DEF JournalInv
<1>2. UNCHANGED <<available, reserved, journal, userRow>>
  BY DEF CreateStart, CreateReadTarget, CreateContinue, CreateReadOffered,
     CreateCheckOfferedDates, CreateCheckTargetDates, CreateCheckExisting, CheckStep,
     CreateInsert, CreateNotify, MoveStart, Preapprove, Reject, Cancel, StartMove,
     MoveContinue, TransitionUpdate, TransitionNotify, accounts
<1>3. TypeOK'
  BY <1>1, TypeCreate, TypeMove
<1>4. \A u \in Users : Present(u) => Present(u)'
  BY <1>2 DEF Present
<1>5. CASE CreateInsert(c) /\ request' # request
  <2>1. PICK id \in Requests :
          /\ Present(draft[c].requester) /\ Present(Owner[draft[c].target])
          /\ request' = [request EXCEPT ![id] =
                 [status |-> "PENDING", requester |-> draft[c].requester,
                  target |-> draft[c].target, offered |-> draft[c].offered,
                  type |-> draft[c].type, trip |-> draft[c].trip,
                  total |-> draft[c].total]]
    BY <1>5 DEF CreateInsert
  <2>2. /\ request'[id].requester = draft[c].requester
        /\ request'[id].target = draft[c].target
        /\ \A x \in Requests \ {id} : request'[x] = request[x]
    BY <1>1, <2>1 DEF TypeOK
  <2>3. PartiesHere'
    BY <1>1, <1>2, <2>1, <2>2 DEF PartiesHere, Present, Host, Exists
  <2> QED
    BY <1>1, <1>2, <1>3, <2>3, NothingPosted DEF JournalInv, Newcomers
<1>6. CASE TransitionUpdate(c)
  <2>1. move[c] \in Moves
    BY <1>1, <1>6 DEF TransitionUpdate, NoMove, TypeOK
  <2> DEFINE m == move[c]
  <2>2. m.id \in Requests /\ m.to \in Statuses
    BY <2>1 DEF Moves
  <2>3. \/ request' = request
        \/ Exists(m.id) /\ request' = [request EXCEPT ![m.id].status = m.to]
    BY <1>6 DEF TransitionUpdate, UpdateStatus
  <2>4. Exists(m.id) => request[m.id] \in Rows
    BY <1>1, <2>2 DEF TypeOK, Exists, NoRow, Deleted
  <2> HIDE DEF m
  <2>5. \A x \in Requests : Exists(x)' =>
          /\ Exists(x)
          /\ request'[x].requester = request[x].requester
          /\ request'[x].target = request[x].target
    BY <1>1, <2>2, <2>3, <2>4 DEF TypeOK, Rows, Exists
  <2>6. PartiesHere'
    BY <1>1, <1>4, <2>5, PartiesStay
  <2> QED
    BY <1>1, <1>2, <1>3, <2>6, NothingPosted DEF JournalInv, Newcomers
<1>7. CASE request' = request
  <2>1. PartiesHere'
    BY <1>1, <1>4, <1>7, PartiesStay DEF Exists
  <2> QED
    BY <1>1, <1>2, <1>3, <2>1, NothingPosted DEF JournalInv, Newcomers
<1>8. \/ CreateInsert(c) \/ TransitionUpdate(c) \/ request' = request
  BY DEF CreateStart, CreateReadTarget, CreateContinue, CreateReadOffered,
     CreateCheckOfferedDates, CreateCheckTargetDates, CreateCheckExisting, CheckStep,
     CreateNotify, MoveStart, Preapprove, Reject, Cancel, StartMove,
     MoveContinue, TransitionNotify
<1> QED
  BY <1>5, <1>6, <1>7, <1>8

\* The entries a deletion posts for the survivors.
Release(v, id) == Entry(v, "RELEASE", <<"admin-delete-release", id>>, request[id].total)
Releases(u) == UNION {{Release(v, id) : id \in ReleasedTo(v, u)} : v \in Users}

\* What a deletion posts for the survivors: finitely many entries.
LEMMA ReleasesType ==
    ASSUME TypeOK, NEW u \in Users
    PROVE  Releases(u) \in SUBSET Entries /\ IsFiniteSet(Releases(u))
<1>1. Releases(u) \in SUBSET Entries
  BY ReleasedExist DEF Releases, Release, Entry, Entries, Operations
<1> DEFINE R == {id \in Requests : \E v \in Users : id \in ReleasedTo(v, u)}
           k == [id \in R |-> Release(request[id].requester, id)]
<1>2. \A v \in Users : \A id \in ReleasedTo(v, u) : request[id].requester = v /\ id \in R
  BY ReleasedExist DEF ReleasedTo, HeldFor
<1>3. IsFiniteSet(R)
  BY RequestsFinite, FS_Subset
<1>4. \A id \in R : k[id] \in Releases(u)
  BY <1>2 DEF Releases
<1>5. \A e \in Releases(u) : \E id \in R : k[id] = e
  BY <1>2 DEF Releases
<1>6. k \in [R -> Releases(u)]
  BY <1>4
<1> HIDE DEF k, R
<1>7. k \in Surjection(R, Releases(u))
  BY <1>5, <1>6 DEF Surjection
<1> QED
  BY <1>1, <1>3, <1>7, FS_Surjection

\* What it posts for one of them: the prices of the stays that end.
LEMMA ReleasesSum ==
    ASSUME TypeOK, NEW u \in Users, NEW v \in Users, NEW types
    PROVE  Sum(Of(Releases(u), v, types)) =
               IF "RELEASE" \in types THEN Points(ReleasedTo(v, u)) ELSE 0
<1> DEFINE S == ReleasedTo(v, u)
           T == {Release(v, id) : id \in S}
           f == [id \in S |-> request[id].total]
           g == [e \in T |-> e.amount]
           gm == [e \in T |-> -e.amount]
           h == [id \in S |-> Release(v, id)]
<1>1. Of(Releases(u), v, types) = IF "RELEASE" \in types THEN T ELSE {}
  BY DEF Of, Releases, Release, Entry
<1>2. \A id \in S : request[id].total \in Nat
  BY ReleasedExist
<1>3. IsFiniteSet(S) /\ f \in [S -> Int]
  BY ReleasedExist, PointsType
<1>4. \A e \in T : e.amount \in Nat
  BY <1>2 DEF Release, Entry
<1>5. g \in [T -> Int] /\ gm \in [T -> Int] /\ \A e \in T : gm[e] <= 0
  BY <1>4
<1>6. h \in [S -> T] /\ \A y \in T : \E x \in S : h[x] = y
  OBVIOUS
<1>7. \A x, z \in S : h[x] = h[z] => x = z
  BY DEF Release, Entry
<1>8. \A x \in S : g[h[x]] = f[x]
  BY DEF Release, Entry
<1>9. Sum(T) = SumOf(g) - SumOf(gm) /\ Points(S) = SumOf(f)
  BY DEF Sum, Points
<1> HIDE DEF S, T, f, g, gm, h
<1>10. Renames(f, g, h, S, T)
  BY <1>3, <1>5, <1>6, <1>7, <1>8 DEF Renames
<1>11. SumOf(g) = SumOf(f) /\ SumOf(gm) = 0
  BY <1>5, <1>10, SumRenamed, NothingPositive
<1>12. SumOf(f) \in Nat
  BY <1>3, SumType
<1>13. Sum(T) = Points(S)
  BY <1>9, <1>11, <1>12
<1> QED
  BY <1>1, <1>13, NoEntries DEF S

LEMMA DeletionParties ==
    ASSUME JournalInv, NEW u \in Users, DeleteUser(u)
    PROVE  PartiesHere' /\ Newcomers'
<1>1. TypeOK /\ PartiesHere /\ Newcomers
  BY DEF JournalInv
<1>2. userRow' = [userRow EXCEPT ![u] = "DELETED"]
  BY DEF DeleteUser
<1>3. \A id \in Requests : request'[id] =
          IF id \in DeletionScope(u) THEN Deleted ELSE request[id]
  BY <1>1, DeletionEndsStays
<1>4. ASSUME NEW id \in Requests, Exists(id)'
      PROVE  Present(request[id].requester)' /\ Present(Host(id))'
  <2>1. /\ id \notin DeletionScope(u) /\ request'[id] = request[id]
        /\ Exists(id)
    BY <1>3, <1>4 DEF Exists, Deleted
  <2>2. u \notin Participants(id)
    BY <2>1 DEF DeletionScope
  <2>3. Host(id)' = Host(id)
    BY <2>1 DEF Host
  <2>4. Present(request[id].requester) /\ Present(Host(id))
    BY <1>1, <2>1 DEF PartiesHere
  <2> QED
    BY <1>1, <1>2, <2>1, <2>2, <2>3, <2>4 DEF Present, Participants, TypeOK
<1>5. ASSUME NEW v \in Users, userRow'[v] = "NONE"
      PROVE  available'[v] = 0
  <2>1. v # u /\ userRow[v] = "NONE"
    BY <1>1, <1>2, <1>5 DEF TypeOK
  <2>2. ReleasedTo(v, u) = {}
    BY <1>1, <2>1 DEF ReleasedTo, DeletionScope, HeldFor, PartiesHere, Present
  <2>3. Points({}) = 0
    BY SumEmpty DEF Points
  <2>4. available'[v] = available[v] + Points(ReleasedTo(v, u))
    BY <2>1 DEF DeleteUser
  <2> QED
    BY <1>1, <2>1, <2>2, <2>3, <2>4 DEF Newcomers
<1> QED
  BY <1>4, <1>5 DEF PartiesHere, Newcomers

LEMMA DeletionBalances ==
    ASSUME JournalInv, NEW u \in Users, DeleteUser(u)
    PROVE  JournalGivesBalances' /\ IsFiniteSet(journal')
<1>1. TypeOK /\ IsFiniteSet(journal)
  BY DEF JournalInv
<1> DEFINE new == Releases(u)
<1>2. /\ \A e \in new, f \in journal : e.key # f.key
      /\ journal' = {e \in journal \cup new : e.account # u}
  BY DEF DeleteUser, Releases, Release
<1>3. /\ \A v \in Users : available'[v] =
             IF v = u THEN 0 ELSE available[v] + Points(ReleasedTo(v, u))
      /\ \A v \in Users : reserved'[v] =
             IF v = u THEN 0 ELSE reserved[v] - Points(ReleasedTo(v, u))
  BY DEF DeleteUser
<1>4. new \in SUBSET Entries /\ IsFiniteSet(new)
  BY <1>1, ReleasesType
<1> HIDE DEF new
<1>5. IsFiniteSet(journal')
  <2>1. IsFiniteSet(journal \cup new) /\ journal' \in SUBSET (journal \cup new)
    BY <1>1, <1>2, <1>4, FS_Union
  <2> QED
    BY <2>1, FS_Subset
<1>6. ASSUME NEW types
      PROVE  Sum(EntriesOf(u, types)') = 0
  <2>1. EntriesOf(u, types)' = {}
    BY <1>2 DEF EntriesOf
  <2> QED
    BY <2>1, NoEntries
<1>7. ASSUME NEW v \in Users \ {u}, NEW types
      PROVE  /\ Sum(EntriesOf(v, types)') = Sum(EntriesOf(v, types)) +
                    (IF "RELEASE" \in types THEN Points(ReleasedTo(v, u)) ELSE 0)
             /\ Sum(EntriesOf(v, types)) \in Int
  <2>1. EntriesOf(v, types)' = Of(journal \cup new, v, types)
    BY <1>2, <1>7 DEF EntriesOf, Of
  <2>2. /\ Sum(Of(journal \cup new, v, types))
             = Sum(EntriesOf(v, types)) + Sum(Of(new, v, types))
        /\ Sum(EntriesOf(v, types)) \in Int
    BY <1>1, <1>2, <1>4, SumPosted
  <2>3. Sum(Of(new, v, types)) =
            IF "RELEASE" \in types THEN Points(ReleasedTo(v, u)) ELSE 0
    BY <1>1, ReleasesSum DEF new
  <2> QED
    BY <2>1, <2>2, <2>3
<1>8. ASSUME NEW v \in Users
      PROVE  /\ available'[v] = Sum(EntriesOf(v, AvailableTypes)')
             /\ reserved'[v] = Sum(EntriesOf(v, {"DEBIT"})')
                               - Sum(EntriesOf(v, {"RESERVE", "RELEASE"})')
  <2>1. CASE v = u
    BY <1>3, <1>6, <2>1
  <2>2. CASE v # u
    <3> DEFINE back == Points(ReleasedTo(v, u))
    <3>1. /\ available[v] = Sum(EntriesOf(v, AvailableTypes))
          /\ reserved[v] = Sum(EntriesOf(v, {"DEBIT"}))
                           - Sum(EntriesOf(v, {"RESERVE", "RELEASE"}))
      BY DEF JournalInv, JournalGivesBalances, AvailableTypes
    <3>2. available'[v] = available[v] + back /\ reserved'[v] = reserved[v] - back
      BY <1>3, <2>2
    <3>3. back \in Nat
      BY <1>1, ReleasedExist
    <3>4. /\ "RELEASE" \in AvailableTypes /\ "RELEASE" \in {"RESERVE", "RELEASE"}
          /\ "RELEASE" \notin {"DEBIT"}
      BY DEF AvailableTypes
    <3> HIDE DEF back
    <3>5. Sum(EntriesOf(v, AvailableTypes)') = Sum(EntriesOf(v, AvailableTypes)) + back
      BY <1>7, <2>2, <3>4 DEF back
    <3>6. /\ Sum(EntriesOf(v, {"DEBIT"})') = Sum(EntriesOf(v, {"DEBIT"})) + 0
          /\ Sum(EntriesOf(v, {"DEBIT"})) \in Int
      BY <1>7, <2>2, <3>4
    <3>7. /\ Sum(EntriesOf(v, {"RESERVE", "RELEASE"})')
               = Sum(EntriesOf(v, {"RESERVE", "RELEASE"})) + back
          /\ Sum(EntriesOf(v, {"RESERVE", "RELEASE"})) \in Int
      BY <1>7, <2>2, <3>4 DEF back
    <3> HIDE DEF JournalInv
    <3>8. reserved'[v] = Sum(EntriesOf(v, {"DEBIT"})')
                         - Sum(EntriesOf(v, {"RESERVE", "RELEASE"})')
      BY <3>1, <3>2, <3>3, <3>6, <3>7
    <3> QED
      BY <3>1, <3>2, <3>5, <3>8
  <2> QED
    BY <2>1, <2>2
<1>9. JournalGivesBalances'
  BY <1>8 DEF JournalGivesBalances, AvailableTypes
<1> QED
  BY <1>5, <1>9

LEMMA EnvironmentKeepsJournal ==
    ASSUME JournalInv, Environment
    PROVE  JournalInv'
<1>1. TypeOK /\ PartiesHere /\ Newcomers
  BY DEF JournalInv
<1>2. TypeOK'
  BY <1>1, TypeEnvironment
<1>3. ASSUME NEW u \in Users, Register(u) \/ VerifyEmail(u)
      PROVE  JournalInv'
  BY <1>3, ActsPost
<1>4. ASSUME NEW u \in Users, NEW amount \in Adjustments, Adjust(u, amount)
      PROVE  JournalInv'
  BY <1>4, ActsPost
<1>5. ASSUME NEW u \in Users, DeleteUser(u)
      PROVE  JournalInv'
  BY <1>2, <1>5, DeletionParties, DeletionBalances DEF JournalInv
<1>6. CASE \/ NextDay
           \/ \E p \in Properties : ChangeStatus(p)
           \/ \E p \in Properties, points \in Rates : Reprice(p, points)
  <2>1. UNCHANGED <<available, reserved, journal, userRow, request>>
    BY <1>6 DEF NextDay, ChangeStatus, Reprice,
         accounts
  <2>2. \A v \in Users : Present(v) => Present(v)'
    BY <2>1 DEF Present
  <2>3. PartiesHere'
    BY <1>1, <2>1, <2>2, PartiesStay DEF Exists
  <2> QED
    BY <1>1, <1>2, <2>1, <2>3, NothingPosted DEF JournalInv, Newcomers
<1> QED
  BY <1>3, <1>4, <1>5, <1>6 DEF Environment

LEMMA JournalInvariant == Spec => []JournalInv
<1>1. Init => JournalInv
  <2> SUFFICES ASSUME Init
               PROVE  JournalInv
    OBVIOUS
  <2>1. TypeOK
    BY TypeInit
  <2>2. IsFiniteSet(journal) /\ PartiesHere /\ Newcomers
    BY FS_EmptySet DEF Init, PartiesHere, Newcomers, Exists, NoRow
  <2>3. \A u \in Users : available[u] = 0 /\ reserved[u] = 0
    BY DEF Init
  <2>4. ASSUME NEW u \in Users, NEW types
        PROVE  Sum(EntriesOf(u, types)) = 0
    <3>1. EntriesOf(u, types) = {}
      BY DEF Init, EntriesOf
    <3> QED
      BY <3>1, NoEntries
  <2>5. JournalGivesBalances
    BY <2>3, <2>4 DEF JournalGivesBalances
  <2> QED
    BY <2>1, <2>2, <2>5 DEF JournalInv
<1>2. JournalInv /\ [Next]_vars => JournalInv'
  <2> SUFFICES ASSUME JournalInv, [Next]_vars
               PROVE  JournalInv'
    OBVIOUS
  <2>1. CASE UNCHANGED vars
    <3>1. UNCHANGED <<available, reserved, journal, userRow, request>> /\ TypeOK'
      BY <2>1 DEF vars, accounts, homes, handlers, JournalInv, TypeOK
    <3>2. PartiesHere' /\ Newcomers'
      BY <3>1 DEF JournalInv, PartiesHere, Newcomers, Present, Host, Exists
    <3> QED
      BY <3>1, <3>2, NothingPosted DEF JournalInv
  <2>2. CASE Environment
    BY <2>2, EnvironmentKeepsJournal
  <2>3. CASE Settlement
    <3>1. TypeOK' /\ PartiesHere'
      BY <2>3, SettlementKeepsParties
    <3>2. JournalGivesBalances' /\ IsFiniteSet(journal') /\ Newcomers'
      BY <2>3, SettlementBalances DEF Settlement
    <3> QED
      BY <3>1, <3>2 DEF JournalInv
  <2>4. ASSUME NEW c \in Calls, \/ CreateStart(c) \/ CreateContinue(c)
                                \/ MoveStart(c) \/ MoveContinue(c)
        PROVE  JournalInv'
    BY <2>4, HandlersKeepJournal
  <2> QED
    BY <2>1, <2>2, <2>3, <2>4 DEF Next
<1> QED
  BY <1>1, <1>2, PTL DEF Spec

\* In every reachable state the journal alone gives both balances of every
\* account: no order of registration, bonuses, adjustments, confirm,
\* cancelConfirmed, complete and deleteUser moves points without an entry for
\* them, or enters what was not moved.
THEOREM JournalTellsBalances == Spec => []JournalGivesBalances
<1>1. JournalInv => JournalGivesBalances
  BY DEF JournalInv
<1> QED
  BY <1>1, JournalInvariant, PTL

-----------------------------------------------------------------------------
(* Statuses follow the life cycle.                                         *)

\* The change of one request's status, or of none.
StatusSteps ==
    \A id \in Requests :
        \/ request'[id].status = request[id].status
        \/ <<request[id].status, request'[id].status>> \in Lifecycle

LEMMA OneStatusChanges ==
    ASSUME TypeOK, NEW id \in Requests, NEW s, Exists(id),
           request' = [request EXCEPT ![id].status = s],
           <<request[id].status, s>> \in Lifecycle \/ s = request[id].status
    PROVE  StatusSteps
<1>1. request[id] \in Rows
  BY DEF Exists, TypeOK, NoRow, Deleted
<1>2. /\ request'[id].status = s
      /\ \A x \in Requests \ {id} : request'[x] = request[x]
  BY <1>1 DEF TypeOK, Rows
<1> QED
  BY <1>2 DEF StatusSteps

\* A status changes only along the life cycle: reject and cancel, which act on
\* a status they read before another handler ran, never revive or skip one.
THEOREM StatusNeverLeavesLifecycle == Spec => StatusFollowsLifecycle
<1>1. TypeOK /\ [Next]_vars => [StatusSteps]_vars
  <2> SUFFICES ASSUME TypeOK, Next
               PROVE  StatusSteps
    OBVIOUS
  <2>1. CASE request' = request
    BY <2>1 DEF StatusSteps
  <2>2. CASE Environment
    <3>1. CASE \E u \in Users : DeleteUser(u)
      <4>1. PICK u \in Users : DeleteUser(u)
        BY <3>1
      <4>2. \A id \in Requests : request'[id] =
              IF id \in DeletionScope(u) THEN Deleted ELSE request[id]
        BY <4>1, DeletionEndsStays
      <4>3. \A id \in DeletionScope(u) : request[id].status \in Statuses
        BY DEF DeletionScope, Exists
      <4> QED
        BY <4>2, <4>3 DEF StatusSteps, Lifecycle, Deleted
    <3>2. CASE ~\E u \in Users : DeleteUser(u)
      BY <2>1, <2>2, <3>2 DEF Environment, NextDay, Register, VerifyEmail, Adjust,
         ChangeStatus, Reprice
    <3> QED
      BY <3>1, <3>2
  <2>3. CASE Settlement
    <3>1. PICK u \in Users, id \in Requests :
            Confirm(u, id) \/ CancelConfirmed(u, id) \/ Complete(u, id)
      BY <2>3 DEF Settlement
    <3>2. CASE Confirm(u, id)
      BY <3>2, OneStatusChanges DEF Confirm, Lifecycle
    <3>3. CASE CancelConfirmed(u, id)
      BY <3>3, OneStatusChanges DEF CancelConfirmed, InForce, Lifecycle
    <3>4. CASE Complete(u, id)
      BY <3>4, OneStatusChanges DEF Complete, InForce, Lifecycle
    <3> QED
      BY <3>1, <3>2, <3>3, <3>4
  <2>4. ASSUME NEW c \in Calls, \/ CreateStart(c) \/ CreateContinue(c)
                                \/ MoveStart(c) \/ MoveContinue(c)
        PROVE  StatusSteps
    <3>1. CASE CreateInsert(c) /\ request' # request
      <4>1. PICK id \in Requests : \E row :
              /\ request[id] = NoRow /\ row.status = "PENDING"
              /\ request' = [request EXCEPT ![id] = row]
        BY <3>1 DEF CreateInsert
      <4> QED
        BY <4>1 DEF StatusSteps, Lifecycle, NoRow, TypeOK
    <3>2. CASE TransitionUpdate(c) /\ request' # request
      <4>1. move[c] \in Moves
        BY <3>2 DEF TransitionUpdate, NoMove, TypeOK
      <4> DEFINE m == move[c]
      <4>2. /\ m.id \in Requests /\ m.from \in ActiveStatuses
            /\ m.to \in {"PREAPPROVED", "REJECTED", "CANCELLED"}
        BY <4>1 DEF Moves
      <4>3. /\ Exists(m.id) /\ request[m.id].status = m.from
            /\ request' = [request EXCEPT ![m.id].status = m.to]
        BY <3>2 DEF TransitionUpdate, UpdateStatus
      <4>4. <<m.from, m.to>> \in Lifecycle \/ m.to = m.from
        BY <4>2 DEF Lifecycle
      <4> HIDE DEF m
      <4> QED
        BY <4>2, <4>3, <4>4, OneStatusChanges
    <3>3. \/ CreateInsert(c) \/ TransitionUpdate(c) \/ request' = request
      BY <2>4 DEF CreateStart, CreateReadTarget, CreateContinue, CreateReadOffered,
         CreateCheckOfferedDates, CreateCheckTargetDates, CreateCheckExisting,
         CheckStep, CreateNotify, MoveStart, Preapprove, Reject, Cancel, StartMove,
         MoveContinue, TransitionNotify
    <3> QED
      BY <2>1, <3>1, <3>2, <3>3
  <2> QED
    BY <2>2, <2>3, <2>4 DEF Next
<1> QED
  BY <1>1, TypeCorrect, PTL DEF Spec, StatusFollowsLifecycle, StatusSteps

-----------------------------------------------------------------------------
(* Points are conserved.                                                   *)

\* What a step grants, and whose points leave with them.
Granted == {e \in journal' \ journal : e.type \in {"BONUS", "ADMIN_ADJUSTMENT"}}
Leavers == {u \in Users : Present(u) /\ ~Present(u)'}
Conserves == TotalPoints' = TotalPoints + Sum(Granted)
                 - SumOf([u \in Leavers |-> available[u] + reserved[u]])

\* The totals are numbers.
LEMMA TotalsType ==
    ASSUME TypeOK
    PROVE  /\ SumOf(available) \in Nat /\ SumOf(reserved) \in Nat
           /\ available \in [Users -> Nat] /\ reserved \in [Users -> Nat]
           /\ TotalPoints = SumOf(available) + SumOf(reserved)
<1>1. available \in [Users -> Int] /\ reserved \in [Users -> Int]
  BY DEF TypeOK
<1>2. SumOf(available) \in Nat /\ SumOf(reserved) \in Nat
  BY <1>1, UsersFinite, SumType
<1> QED
  BY <1>2 DEF TypeOK, TotalPoints

\* While nobody leaves, the total grows by what is granted.
LEMMA NobodyLeaves ==
    ASSUME \A u \in Users : Present(u) => Present(u)',
           TotalPoints \in Int, Sum(Granted) \in Int,
           TotalPoints' = TotalPoints + Sum(Granted)
    PROVE  Conserves
<1>1. Leavers = {}
  BY DEF Leavers
<1>2. SumOf([u \in Leavers |-> available[u] + reserved[u]]) = 0
  <2> DEFINE f == [u \in Leavers |-> available[u] + reserved[u]]
  <2>1. DOMAIN f = {}
    BY <1>1
  <2> HIDE DEF f
  <2>2. SumOf(f) = 0
    BY <2>1, SumEmpty
  <2> QED
    BY <2>2 DEF f
<1> QED
  BY <1>2 DEF Conserves

LEMMA NothingGranted ==
    ASSUME \A e \in journal' \ journal : e.type \notin {"BONUS", "ADMIN_ADJUSTMENT"}
    PROVE  Sum(Granted) = 0
<1>1. Granted = {}
  BY DEF Granted
<1> QED
  BY <1>1, NoEntries

\* Bonuses and adjustments.
LEMMA GrantsConserve ==
    ASSUME TypeOK, TypeOK', NEW u \in Users, NEW e \in Entries, Post({e}),
           e.type \in {"BONUS", "ADMIN_ADJUSTMENT"}, reserved' = reserved,
           available'[u] = available[u] + e.amount,
           \A v \in Users \ {u} : available'[v] = available[v],
           \A v \in Users : Present(v) => Present(v)'
    PROVE  Conserves
<1>1. Granted = {e}
  BY DEF Granted, Post
<1>2. Sum(Granted) = e.amount /\ e.amount \in Int
  BY <1>1, SumOfOne DEF Entries
<1>3. available' \in [Users -> Nat] /\ available \in [Users -> Nat]
  BY DEF TypeOK
<1>4. SumOf(available') = SumOf(available) - available[u] + available'[u]
  <2>1. DifferAt(available, available', u, Users)
    BY <1>3, UsersFinite DEF DifferAt
  <2> QED
    BY <2>1, SumExcept
<1>5. TotalPoints' = SumOf(available') + SumOf(reserved)
  BY DEF TotalPoints
<1>6. TotalPoints' = TotalPoints + Sum(Granted) /\ TotalPoints \in Int
  BY <1>2, <1>3, <1>4, <1>5, TotalsType
<1> QED
  BY <1>2, <1>6, NobodyLeaves

\* A transfer between an available and a reserved balance.
Transfers(to, from, amount) ==
    /\ to \in Users /\ from \in Users /\ amount \in Int
    /\ \A v \in Users :
          /\ available'[v] = IF v = to THEN available[v] + amount ELSE available[v]
          /\ reserved'[v] = IF v = from THEN reserved[v] - amount ELSE reserved[v]

LEMMA TransfersConserve ==
    ASSUME TypeOK, TypeOK', NEW to, NEW from, NEW amount,
           Transfers(to, from, amount), Sum(Granted) = 0, userRow' = userRow
    PROVE  Conserves
<1>1. /\ available' \in [Users -> Nat] /\ available \in [Users -> Nat]
      /\ reserved' \in [Users -> Nat] /\ reserved \in [Users -> Nat]
  BY DEF TypeOK
<1>2. /\ to \in Users /\ from \in Users /\ amount \in Int
      /\ available'[to] = available[to] + amount
      /\ reserved'[from] = reserved[from] - amount
  BY DEF Transfers
<1>3. SumOf(available') = SumOf(available) - available[to] + available'[to]
  <2>1. DifferAt(available, available', to, Users)
    BY <1>1, UsersFinite DEF DifferAt, Transfers
  <2> QED
    BY <2>1, SumExcept
<1>4. SumOf(reserved') = SumOf(reserved) - reserved[from] + reserved'[from]
  <2>1. DifferAt(reserved, reserved', from, Users)
    BY <1>1, UsersFinite DEF DifferAt, Transfers
  <2> QED
    BY <2>1, SumExcept
<1>5. TotalPoints' = SumOf(available') + SumOf(reserved')
  BY DEF TotalPoints
<1>6. available[to] \in Nat /\ reserved[from] \in Nat
  BY <1>1, <1>2
<1>7. TotalPoints' = TotalPoints + Sum(Granted) /\ TotalPoints \in Int
  BY <1>2, <1>3, <1>4, <1>5, <1>6, TotalsType
<1>8. \A u \in Users : Present(u) => Present(u)'
  BY DEF Present
<1> QED
  BY <1>7, <1>8, NobodyLeaves

LEMMA StillConserves ==
    ASSUME TypeOK, UNCHANGED <<available, reserved, journal, userRow>>
    PROVE  Conserves
<1>1. Sum(Granted) = 0
  BY NothingGranted
<1>2. TotalPoints' = TotalPoints
  BY DEF TotalPoints
<1>3. \A u \in Users : Present(u) => Present(u)'
  BY DEF Present
<1> QED
  BY <1>1, <1>2, <1>3, TotalsType, NobodyLeaves

LEMMA SettlementConserves ==
    ASSUME TypeOK, TypeOK', NEW u \in Users, NEW id \in Requests,
           Confirm(u, id) \/ CancelConfirmed(u, id) \/ Complete(u, id)
    PROVE  Conserves
<1> DEFINE row == request[id]
           guest == row.requester
           amount == row.total
<1>1. row \in Rows /\ userRow' = userRow
  BY DEF Confirm, CancelConfirmed, Complete, Exists, TypeOK, NoRow, Deleted
<1>2. guest \in Users /\ Host(id) \in Users /\ amount \in Nat /\ -amount \in Int
  BY <1>1, OwnerType DEF Rows, Host
<1>3. Sum(Granted) = 0
  <2>1. \A e \in journal' \ journal : e.type \notin {"BONUS", "ADMIN_ADJUSTMENT"}
    BY DEF Confirm, CancelConfirmed, Complete, Post, CompletionEntries, Debit,
       HostCredit, Entry
  <2> QED
    BY <2>1, NothingGranted
<1> HIDE DEF row, guest, amount
<1>4. CASE amount = 0
  <2>1. UNCHANGED <<available, reserved, journal>>
    BY <1>4 DEF Confirm, CancelConfirmed, Complete, amount, row
  <2> QED
    BY <1>1, <2>1, StillConserves
<1>5. CASE amount > 0 /\ Confirm(u, id)
  <2>1. /\ available' = [available EXCEPT ![u] = @ - amount]
        /\ reserved' = [reserved EXCEPT ![u] = @ + amount]
    BY <1>5 DEF Confirm, Reserve, amount, row
  <2>2. Transfers(u, u, -amount)
    BY <1>2, <2>1 DEF TypeOK, Transfers
  <2> QED
    BY <1>1, <1>3, <2>2, TransfersConserve
<1>6. CASE amount > 0 /\ CancelConfirmed(u, id)
  <2>1. /\ available' = [available EXCEPT ![guest] = @ + amount]
        /\ reserved' = [reserved EXCEPT ![guest] = @ - amount]
    BY <1>6 DEF CancelConfirmed, PayReserve, amount, guest, row
  <2>2. Transfers(guest, guest, amount)
    BY <1>2, <2>1 DEF TypeOK, Transfers
  <2> QED
    BY <1>1, <1>3, <2>2, TransfersConserve
<1>7. CASE amount > 0 /\ Complete(u, id)
  <2>1. /\ available' = [available EXCEPT ![Host(id)] = @ + amount]
        /\ reserved' = [reserved EXCEPT ![guest] = @ - amount]
    BY <1>7 DEF Complete, PayReserve, amount, guest, row
  <2>2. Transfers(Host(id), guest, amount)
    BY <1>2, <2>1 DEF TypeOK, Transfers
  <2> QED
    BY <1>1, <1>3, <2>2, TransfersConserve
<1> QED
  BY <1>2, <1>4, <1>5, <1>6, <1>7

\* A deletion moves reserves back and takes away what the user had.
LEMMA DeletionConserves ==
    ASSUME TypeOK, TypeOK', NEW u \in Users, DeleteUser(u)
    PROVE  Conserves
<1> DEFINE back == [v \in Users |-> IF v = u THEN 0 ELSE Points(ReleasedTo(v, u))]
           av == [available EXCEPT ![u] = 0]
           rs == [reserved EXCEPT ![u] = 0]
           lost == [v \in Leavers |-> available[v] + reserved[v]]
<1>1. /\ available' \in [Users -> Nat] /\ available \in [Users -> Nat]
      /\ reserved' \in [Users -> Nat] /\ reserved \in [Users -> Nat]
  BY DEF TypeOK
<1>2. \A v \in Users : Points(ReleasedTo(v, u)) \in Nat
  BY ReleasedExist
<1>3. /\ back \in [Users -> Nat] /\ back \in [Users -> Int]
      /\ av \in [Users -> Nat] /\ rs \in [Users -> Nat]
      /\ av[u] = 0 /\ rs[u] = 0
      /\ \A v \in Users \ {u} : av[v] = available[v] /\ rs[v] = reserved[v]
  <2>1. back \in [Users -> Nat]
    BY <1>2
  <2> QED
    BY <1>1, <2>1
<1>4. \A v \in Users : /\ available'[v] = av[v] + back[v]
                       /\ rs[v] = reserved'[v] + back[v]
  <2> SUFFICES ASSUME NEW v \in Users
               PROVE  available'[v] = av[v] + back[v] /\ rs[v] = reserved'[v] + back[v]
    OBVIOUS
  <2>1. /\ available'[v] = IF v = u THEN 0 ELSE available[v] + Points(ReleasedTo(v, u))
        /\ reserved'[v] = IF v = u THEN 0 ELSE reserved[v] - Points(ReleasedTo(v, u))
    BY DEF DeleteUser
  <2>2. Points(ReleasedTo(v, u)) \in Nat /\ available[v] \in Nat /\ reserved[v] \in Nat
    BY <1>1, <1>2
  <2> QED
    BY <1>3, <2>1, <2>2
<1>5. Leavers = {u}
  BY DEF Leavers, DeleteUser, Present, TypeOK
<1>6. lost \in [{u} -> Nat] /\ lost[u] = available[u] + reserved[u]
  BY <1>1, <1>5
<1>7. Sum(Granted) = 0
  <2>1. \A e \in journal' \ journal : e.type \notin {"BONUS", "ADMIN_ADJUSTMENT"}
    BY DEF DeleteUser, Entry
  <2> QED
    BY <2>1, NothingGranted
<1>8. TotalPoints' = SumOf(available') + SumOf(reserved')
  BY DEF TotalPoints
<1> HIDE DEF back, av, rs, lost
<1>9. SumOf(av) = SumOf(available) - available[u] + av[u]
  <2>1. DifferAt(available, av, u, Users)
    BY <1>1, <1>3, UsersFinite DEF DifferAt
  <2> QED
    BY <2>1, SumExcept
<1>10. SumOf(rs) = SumOf(reserved) - reserved[u] + rs[u]
  <2>1. DifferAt(reserved, rs, u, Users)
    BY <1>1, <1>3, UsersFinite DEF DifferAt
  <2> QED
    BY <2>1, SumExcept
<1>11. SumOf(available') = SumOf(av) + SumOf(back)
  <2>1. Together(av, back, available', Users)
    BY <1>1, <1>3, <1>4, UsersFinite DEF Together
  <2> QED
    BY <2>1, SumPlus
<1>12. SumOf(rs) = SumOf(reserved') + SumOf(back)
  <2>1. Together(reserved', back, rs, Users)
    BY <1>1, <1>3, <1>4, UsersFinite DEF Together
  <2> QED
    BY <2>1, SumPlus
<1>13. SumOf(lost) = available[u] + reserved[u]
  BY <1>6, SumOne
<1>14. /\ SumOf(back) \in Nat /\ SumOf(reserved') \in Nat
       /\ available[u] \in Nat /\ reserved[u] \in Nat
  <2>1. reserved' \in [Users -> Int]
    BY <1>1
  <2> QED
    BY <1>1, <1>3, <2>1, UsersFinite, SumType
<1>15. TotalPoints' = TotalPoints + Sum(Granted) - SumOf(lost)
  BY <1>3, <1>7, <1>8, <1>9, <1>10, <1>11, <1>12, <1>13, <1>14, TotalsType
<1> QED
  BY <1>15 DEF Conserves, lost

LEMMA EnvironmentConserves ==
    ASSUME JournalInv, TypeOK, TypeOK', Environment
    PROVE  Conserves
<1>1. /\ available \in [Users -> Nat] /\ reserved \in [Users -> Nat]
      /\ userRow \in [Users -> {"NONE", "PRESENT", "DELETED"}]
  BY DEF TypeOK
<1>2. ASSUME NEW u \in Users, Register(u)
      PROVE  Conserves
  <2>1. PICK bonus \in Bonuses :
          /\ userRow[u] = "NONE" /\ userRow' = [userRow EXCEPT ![u] = "PRESENT"]
          /\ available' = [available EXCEPT ![u] = bonus]
          /\ Post({Entry(u, "BONUS", <<"welcome", u>>, bonus)})
          /\ reserved' = reserved
    BY <1>2 DEF Register
  <2> DEFINE e == Entry(u, "BONUS", <<"welcome", u>>, bonus)
  <2>2. bonus \in Nat /\ available[u] = 0
    BY <2>1, AmountsType DEF JournalInv, Newcomers
  <2>3. e \in Entries /\ e.type = "BONUS" /\ e.amount = bonus /\ Post({e})
    BY <2>1, <2>2 DEF Entry, Entries, Operations
  <2>4. /\ available'[u] = available[u] + e.amount
        /\ \A v \in Users \ {u} : available'[v] = available[v]
        /\ \A v \in Users : Present(v) => Present(v)'
    BY <1>1, <2>1, <2>2, <2>3 DEF Present
  <2> HIDE DEF e
  <2> QED
    BY <2>1, <2>3, <2>4, GrantsConserve
<1>3. ASSUME NEW u \in Users, VerifyEmail(u)
      PROVE  Conserves
  <2>1. PICK bonus \in Bonuses :
          /\ userRow' = userRow
          /\ available' = [available EXCEPT ![u] = @ + bonus]
          /\ Post({Entry(u, "BONUS", <<"email-verified", u>>, bonus)})
          /\ reserved' = reserved
    BY <1>3 DEF VerifyEmail
  <2> DEFINE e == Entry(u, "BONUS", <<"email-verified", u>>, bonus)
  <2>2. bonus \in Nat
    BY AmountsType
  <2>3. e \in Entries /\ e.type = "BONUS" /\ e.amount = bonus /\ Post({e})
    BY <2>1, <2>2 DEF Entry, Entries, Operations
  <2>4. /\ available'[u] = available[u] + e.amount
        /\ \A v \in Users \ {u} : available'[v] = available[v]
        /\ \A v \in Users : Present(v) => Present(v)'
    BY <1>1, <2>1, <2>2, <2>3 DEF Present
  <2> HIDE DEF e
  <2> QED
    BY <2>1, <2>3, <2>4, GrantsConserve
<1>4. ASSUME NEW u \in Users, NEW amount \in Adjustments, Adjust(u, amount)
      PROVE  Conserves
  <2> DEFINE e == Entry(u, "ADMIN_ADJUSTMENT", <<"admin-adjustment", adjusted'>>, amount)
  <2>1. /\ userRow' = userRow /\ Post({e}) /\ reserved' = reserved
        /\ available' = [available EXCEPT ![u] = @ + amount]
    BY <1>4 DEF Adjust
  <2>2. amount \in Int /\ adjusted' \in Nat
    BY <1>4, AmountsType, BoundsType DEF Adjust, TypeOK
  <2>3. e \in Entries /\ e.type = "ADMIN_ADJUSTMENT" /\ e.amount = amount
    BY <2>2 DEF Entry, Entries, Operations
  <2>4. /\ available'[u] = available[u] + e.amount
        /\ \A v \in Users \ {u} : available'[v] = available[v]
        /\ \A v \in Users : Present(v) => Present(v)'
    BY <1>1, <2>1, <2>2, <2>3 DEF Present
  <2> HIDE DEF e
  <2> QED
    BY <2>1, <2>3, <2>4, GrantsConserve
<1>5. ASSUME NEW u \in Users, DeleteUser(u)
      PROVE  Conserves
  BY <1>5, DeletionConserves
<1>6. CASE \/ NextDay
           \/ \E p \in Properties : ChangeStatus(p)
           \/ \E p \in Properties, points \in Rates : Reprice(p, points)
  <2>1. UNCHANGED <<available, reserved, journal, userRow>>
    BY <1>6 DEF NextDay, ChangeStatus, Reprice, accounts
  <2> QED
    BY <2>1, StillConserves
<1> QED
  BY <1>2, <1>3, <1>4, <1>5, <1>6 DEF Environment

\* No step creates or destroys points: all balances together grow by the
\* bonuses and adjustments entered in the journal, and lose only what a deleted
\* user had, also when a deletion ends the stays of several others at once.
THEOREM NoPointsFromNowhere == Spec => PointsConserved
<1>1. JournalInv /\ JournalInv' /\ [Next]_vars => [Conserves]_vars
  <2> SUFFICES ASSUME JournalInv, JournalInv', Next
               PROVE  Conserves
    OBVIOUS
  <2>1. TypeOK /\ TypeOK'
    BY DEF JournalInv
  <2>2. CASE Environment
    BY <2>1, <2>2, EnvironmentConserves
  <2>3. CASE Settlement
    BY <2>1, <2>3, SettlementConserves DEF Settlement
  <2>4. ASSUME NEW c \in Calls, \/ CreateStart(c) \/ CreateContinue(c)
                                \/ MoveStart(c) \/ MoveContinue(c)
        PROVE  Conserves
    <3>1. UNCHANGED <<available, reserved, journal, userRow>>
      BY <2>4 DEF CreateStart, CreateReadTarget, CreateContinue, CreateReadOffered,
         CreateCheckOfferedDates, CreateCheckTargetDates, CreateCheckExisting,
         CheckStep, CreateInsert, CreateNotify, MoveStart, Preapprove, Reject, Cancel,
         StartMove, MoveContinue, TransitionUpdate, TransitionNotify, accounts
    <3> QED
      BY <2>1, <3>1, StillConserves
  <2> QED
    BY <2>2, <2>3, <2>4 DEF Next
<1> QED
  BY <1>1, JournalInvariant, PTL
     DEF Spec, PointsConserved, Conserves, Granted, Leavers

-----------------------------------------------------------------------------
(* Requests implement bookings.                                            *)

\* The prices the escrow knows.
BookingPrices == {r * Nights(trip) : r \in Rates \cup {0}, trip \in Trips}

\* What create has checked of a stay, and of the home offered for it.
Asked(r) == /\ r.total \in BookingPrices
            /\ r.requester # Owner[r.target]
            /\ r.trip.from < r.trip.to
Offers(r) == r.offered # None => Owner[r.offered] = r.requester

Sound == /\ \A id \in Requests :
                Exists(id) => Asked(request[id]) /\ Offers(request[id])
         /\ \A c \in Calls : draft[c] \in Drafts =>
                /\ Asked(draft[c])
                /\ draft[c].pc # "offered" => Offers(draft[c])

\* Nothing but statuses changes, and no row appears.
OnlyStatuses ==
    \A id \in Requests :
        request'[id].status \in Statuses =>
            /\ Exists(id)
            /\ \E s \in Statuses :
                   request'[id] = [request[id] EXCEPT !.status = s]

LEMMA StatusKeepsSound ==
    ASSUME TypeOK, Sound, draft' = draft,
           OnlyStatuses
    PROVE  Sound'
<1>1. \A id \in Requests : Exists(id) => request[id] \in Rows
  BY DEF TypeOK, Exists, NoRow, Deleted
<1>2. ASSUME NEW id \in Requests, request'[id].status \in Statuses
      PROVE  Asked(request'[id]) /\ Offers(request'[id])
  <2>1. /\ request[id] \in Rows /\ Exists(id)
        /\ \E s \in Statuses : request'[id] = [request[id] EXCEPT !.status = s]
    BY <1>1, <1>2 DEF OnlyStatuses
  <2>2. /\ request'[id].total = request[id].total
        /\ request'[id].requester = request[id].requester
        /\ request'[id].target = request[id].target
        /\ request'[id].offered = request[id].offered
        /\ request'[id].trip = request[id].trip
    BY <2>1 DEF Rows
  <2>3. Asked(request[id]) /\ Offers(request[id])
    BY <2>1 DEF Sound
  <2> QED
    BY <2>2, <2>3 DEF Asked, Offers
<1> QED
  BY <1>2 DEF Sound, Exists

LEMMA RowsSettle ==
    ASSUME TypeOK, NEW id \in Requests, NEW s \in Statuses, Exists(id),
           request' = [request EXCEPT ![id].status = s]
    PROVE  OnlyStatuses
<1>1. \A x \in Requests : Exists(x) => request[x] \in Rows
  BY DEF TypeOK, Exists, NoRow, Deleted
<1>2. \A x \in Requests \ {id} : request'[x] = request[x]
  BY DEF TypeOK
<1>3. request'[id] = [request[id] EXCEPT !.status = s]
  BY DEF TypeOK
<1>4. \A x \in Requests : Exists(x) =>
          request[x] = [request[x] EXCEPT !.status = request[x].status]
  BY <1>1 DEF Rows
<1> QED
  BY <1>2, <1>3, <1>4 DEF Exists, OnlyStatuses

LEMMA RowsStay ==
    ASSUME TypeOK,
           \A x \in Requests :
               request'[x].status \in Statuses => request'[x] = request[x]
    PROVE  OnlyStatuses
<1>1. \A x \in Requests : Exists(x) => request[x] \in Rows
  BY DEF TypeOK, Exists, NoRow, Deleted
<1>2. \A x \in Requests : Exists(x) =>
          /\ request[x].status \in Statuses
          /\ request[x] = [request[x] EXCEPT !.status = request[x].status]
  BY <1>1 DEF Rows, Exists
<1> QED
  BY <1>2 DEF Exists, OnlyStatuses

LEMMA SoundCreate ==
    ASSUME TypeOK, Sound, NEW c \in Calls, CreateStart(c) \/ CreateContinue(c)
    PROVE  Sound'
<1>1. CASE CreateStart(c)
  <2>1. PICK u \in Users, p \in Properties, offered \in Properties \cup {None},
             type \in ExchangeTypes, trip \in Trips, guests \in Parties :
          CreateReadTarget(c, u, p, offered, type, trip, guests)
    BY <1>1 DEF CreateStart
  <2> DEFINE total == IF type = "POINTS" THEN rate[p] * Nights(trip) ELSE 0
             d == [pc |-> IF type = "DIRECT" THEN "offered" ELSE "targetDates",
                   requester |-> u, target |-> p, offered |-> offered,
                   type |-> type, trip |-> trip, total |-> total, id |-> None]
  <2>2. /\ Nights(trip) >= 1 /\ Owner[p] # u
        /\ IF type = "DIRECT" THEN offered # None ELSE offered = None
        /\ draft' = [draft EXCEPT ![c] = d] /\ request' = request
    BY <2>1 DEF CreateReadTarget
  <2>3. trip.from \in Nat /\ trip.to \in Nat /\ trip.from < trip.to
    BY <2>2, TripsType DEF Nights
  <2>4. total \in BookingPrices
    <3>1. Nights(trip) \in Int /\ 0 * Nights(trip) = 0
      BY <2>3 DEF Nights
    <3>2. rate[p] \in Rates
      BY DEF TypeOK
    <3>3. /\ 0 * Nights(trip) \in BookingPrices
          /\ rate[p] * Nights(trip) \in BookingPrices
      BY <3>2 DEF BookingPrices
    <3> QED
      BY <3>1, <3>3
  <2> HIDE DEF total
  <2>5. Asked(d)
    BY <2>2, <2>3, <2>4 DEF Asked
  <2>6. d.pc # "offered" => Offers(d)
    BY <2>2 DEF Offers
  <2> HIDE DEF d
  <2>7. \A x \in Calls : draft'[x] = IF x = c THEN d ELSE draft[x]
    BY <2>2 DEF TypeOK
  <2> QED
    BY <2>2, <2>5, <2>6, <2>7 DEF Sound, Exists
<1>2. ASSUME NEW at, NEW ok, NEW pc, CheckStep(c, at, ok, pc),
             at # "idle", pc # "offered",
             at = "offered" /\ ok => Owner[draft[c].offered] = draft[c].requester
      PROVE  Sound'
  <2>1. request' = request /\ draft[c].pc = at /\ draft[c] \in Drafts
    BY <1>2 DEF CheckStep, TypeOK, NoDraft
  <2>2. \A x \in Calls \ {c} : draft'[x] = draft[x]
    BY <1>2 DEF CheckStep, Advance, Refuse, TypeOK
  <2>3. CASE ~ok
    <3>1. draft'[c] = NoDraft
      BY <1>2, <2>3 DEF CheckStep, Refuse, TypeOK
    <3>2. NoDraft \notin Drafts
      BY DEF NoDraft, Drafts
    <3> QED
      BY <2>1, <2>2, <3>1, <3>2 DEF Sound, Exists
  <2>4. CASE ok
    <3>1. draft'[c] = [draft[c] EXCEPT !.pc = pc]
      BY <1>2, <2>4 DEF CheckStep, Advance, TypeOK
    <3>2. /\ draft'[c].total = draft[c].total
          /\ draft'[c].requester = draft[c].requester
          /\ draft'[c].target = draft[c].target
          /\ draft'[c].offered = draft[c].offered
          /\ draft'[c].trip = draft[c].trip
      BY <2>1, <3>1 DEF Drafts
    <3>3. Asked(draft[c]) /\ Offers(draft[c])
      BY <1>2, <2>1, <2>4 DEF Sound, Offers
    <3>4. Asked(draft'[c]) /\ Offers(draft'[c])
      BY <3>2, <3>3 DEF Asked, Offers
    <3> QED
      BY <2>1, <2>2, <3>4 DEF Sound, Exists
  <2> QED
    BY <2>3, <2>4
<1>3. CASE CreateInsert(c)
  <2> DEFINE d == draft[c]
             row == [status |-> "PENDING", requester |-> d.requester,
                     target |-> d.target, offered |-> d.offered, type |-> d.type,
                     trip |-> d.trip, total |-> d.total]
  <2>1. d \in Drafts /\ d.pc = "insert"
    BY <1>3 DEF CreateInsert, NoDraft, TypeOK
  <2>2. Asked(d) /\ Offers(d)
    BY <2>1 DEF Sound
  <2>3. Asked(row) /\ Offers(row)
    BY <2>2 DEF Asked, Offers
  <2>4. \A x \in Calls \ {c} : draft'[x] = draft[x]
    BY <1>3 DEF CreateInsert, Refuse, TypeOK
  <2>5. \/ request' = request /\ draft'[c] = NoDraft
        \/ \E id \in Requests :
              /\ request' = [request EXCEPT ![id] = row]
              /\ draft'[c] = [d EXCEPT !.pc = "notify", !.id = id]
    BY <1>3 DEF CreateInsert, Refuse, TypeOK
  <2> HIDE DEF row
  <2>6. CASE request' = request /\ draft'[c] = NoDraft
    <3>1. NoDraft \notin Drafts
      BY DEF NoDraft, Drafts
    <3> QED
      BY <2>4, <2>6, <3>1 DEF Sound, Exists
  <2>7. ASSUME NEW id \in Requests,
               request' = [request EXCEPT ![id] = row],
               draft'[c] = [d EXCEPT !.pc = "notify", !.id = id]
        PROVE  Sound'
    <3>1. /\ request'[id] = row
          /\ \A x \in Requests \ {id} : request'[x] = request[x]
      BY <2>7 DEF TypeOK
    <3>2. /\ draft'[c].total = d.total /\ draft'[c].requester = d.requester
          /\ draft'[c].target = d.target /\ draft'[c].offered = d.offered
          /\ draft'[c].trip = d.trip
      BY <2>1, <2>7 DEF Drafts
    <3>3. Asked(draft'[c]) /\ Offers(draft'[c])
      BY <2>2, <3>2 DEF Asked, Offers
    <3> HIDE DEF d
    <3> QED
      BY <2>3, <2>4, <3>1, <3>3 DEF Sound, Exists
  <2> QED
    BY <2>5, <2>6, <2>7
<1>4. CASE CreateNotify(c)
  <2>1. request' = request /\ draft'[c] = NoDraft
        /\ \A x \in Calls \ {c} : draft'[x] = draft[x]
    BY <1>4 DEF CreateNotify, Refuse, TypeOK
  <2>2. NoDraft \notin Drafts
    BY DEF NoDraft, Drafts
  <2> QED
    BY <2>1, <2>2 DEF Sound, Exists
<1>5. CASE CreateReadOffered(c)
  BY <1>2, <1>5 DEF CreateReadOffered
<1>6. CASE CreateCheckOfferedDates(c)
  BY <1>2, <1>6 DEF CreateCheckOfferedDates
<1>7. CASE CreateCheckTargetDates(c)
  BY <1>2, <1>7 DEF CreateCheckTargetDates
<1>8. CASE CreateCheckExisting(c)
  BY <1>2, <1>8 DEF CreateCheckExisting
<1> QED
  BY <1>1, <1>3, <1>4, <1>5, <1>6, <1>7, <1>8 DEF CreateContinue

\* Every request is priced by one of the rates, for one night at least, in
\* somebody else's home, and offers a home of the guest's own.
LEMMA SoundInvariant == Spec => []Sound
<1>1. Init => Sound
  BY DEF Init, Sound, Exists, NoRow, NoDraft, Drafts
<1>2. TypeOK /\ Sound /\ [Next]_vars => Sound'
  <2> SUFFICES ASSUME TypeOK, Sound, [Next]_vars
               PROVE  Sound'
    OBVIOUS
  <2>1. CASE request' = request /\ draft' = draft
    BY <2>1, RowsStay, StatusKeepsSound
  <2>2. CASE Environment
    <3>1. CASE \E u \in Users : DeleteUser(u)
      <4>1. PICK u \in Users : DeleteUser(u)
        BY <3>1
      <4>2. draft' = draft
        BY <4>1 DEF DeleteUser, handlers
      <4>3. \A x \in Requests :
               request'[x].status \in Statuses => request'[x] = request[x]
        BY <4>1, DeletionEndsStays DEF Deleted
      <4> QED
        BY <4>2, <4>3, RowsStay, StatusKeepsSound
    <3>2. CASE ~\E u \in Users : DeleteUser(u)
      <4>1. request' = request /\ draft' = draft
        BY <2>2, <3>2 DEF Environment, NextDay, Register, VerifyEmail, Adjust,
           ChangeStatus, Reprice, handlers
      <4> QED
        BY <2>1, <4>1
    <3> QED
      BY <3>1, <3>2
  <2>3. CASE Settlement
    <3>1. PICK id \in Requests, s \in Statuses :
            /\ Exists(id) /\ request' = [request EXCEPT ![id].status = s]
            /\ draft' = draft
      BY <2>3 DEF Settlement, Confirm, CancelConfirmed, Complete, handlers
    <3> QED
      BY <3>1, RowsSettle, StatusKeepsSound
  <2>4. ASSUME NEW c \in Calls, CreateStart(c) \/ CreateContinue(c)
        PROVE  Sound'
    BY <2>4, SoundCreate
  <2>5. ASSUME NEW c \in Calls, MoveStart(c) \/ MoveContinue(c)
        PROVE  Sound'
    <3>1. draft' = draft
      BY <2>5 DEF MoveStart, Preapprove, Reject, Cancel, StartMove, MoveContinue,
         TransitionUpdate, TransitionNotify
    <3>2. CASE request' = request
      BY <2>1, <3>1, <3>2
    <3>3. CASE TransitionUpdate(c) /\ request' # request
      <4>1. move[c] \in Moves
        BY <3>3 DEF TransitionUpdate, NoMove, TypeOK
      <4> DEFINE m == move[c]
      <4>2. m.id \in Requests /\ m.to \in Statuses
        BY <4>1 DEF Moves
      <4>3. Exists(m.id) /\ request' = [request EXCEPT ![m.id].status = m.to]
        BY <3>3 DEF TransitionUpdate, UpdateStatus
      <4> HIDE DEF m
      <4> QED
        BY <3>1, <4>2, <4>3, RowsSettle, StatusKeepsSound
    <3>4. TransitionUpdate(c) \/ request' = request
      BY <2>5 DEF MoveStart, Preapprove, Reject, Cancel, StartMove, MoveContinue,
         TransitionNotify
    <3> QED
      BY <3>2, <3>3, <3>4
  <2> QED
    BY <2>1, <2>2, <2>3, <2>4, <2>5 DEF Next, vars, handlers
<1> QED
  BY <1>1, <1>2, TypeCorrect, PTL DEF Spec

\* The bookings the requests stand for.
Booked == [id \in Requests |-> BookingOf(id)]
Bookable == [guest: Users, host: Users, price: Nat]

LEMMA ConfirmedIsRow ==
    ASSUME TypeOK, NEW id \in Requests, Confirmed(id)
    PROVE  /\ request[id] \in Rows /\ Exists(id)
           /\ request[id].requester \in Users /\ Host(id) \in Users
           /\ request[id].target \in Properties /\ request[id].total \in Nat
           /\ request[id].trip \in Trips
           /\ request[id].trip.from \in Nat /\ request[id].trip.to \in Nat
           /\ HomesOf(id) \in SUBSET Properties
<1>1. request[id] \in Rows /\ Exists(id)
  BY DEF Confirmed, Exists, TypeOK, NoRow, Deleted
<1> QED
  BY <1>1, OwnerType, TripsType DEF Rows, Host, HomesOf

\* A booking is in force where the request is CONFIRMED.
LEMMA BookingType ==
    ASSUME TypeOK, NEW id \in Requests
    PROVE  /\ Booked[id] = BookingOf(id)
           /\ Confirmed(id) <=> Booked[id] # None
           /\ Confirmed(id) => /\ Booked[id].guest = request[id].requester
                               /\ Booked[id].host = Host(id)
                               /\ Booked[id].price = request[id].total
<1>1. Confirmed(id) => BookingOf(id) \in Bookable
  BY ConfirmedIsRow DEF BookingOf, Bookable
<1>2. None \notin Bookable
  BY NoneIsNoBooking DEF Bookable
<1> QED
  BY <1>1, <1>2 DEF Booked, BookingOf

\* Two stays in a home on the same night are one.
LEMMA OneStay ==
    ASSUME TypeOK, NoDoubleBooking, NEW p \in Properties, NEW n \in AllNights,
           NEW x \in StaysIn(p, n), NEW y \in StaysIn(p, n)
    PROVE  x = y
<1>1. /\ x \in Requests /\ y \in Requests /\ Confirmed(x) /\ Confirmed(y)
      /\ p \in HomesOf(x) \cap HomesOf(y)
      /\ request[x].trip.from <= n /\ n < request[x].trip.to
      /\ request[y].trip.from <= n /\ n < request[y].trip.to
  BY DEF StaysIn
<1>2. n \in Int
  BY TripsType DEF AllNights
<1>3. Overlap(request[x].trip, request[y].trip)
  <2>1. /\ request[x].trip.from \in Nat /\ request[x].trip.to \in Nat
        /\ request[y].trip.from \in Nat /\ request[y].trip.to \in Nat
    BY <1>1, ConfirmedIsRow
  <2> QED
    BY <1>1, <1>2, <2>1 DEF Overlap
<1> QED
  BY <1>1, <1>3 DEF NoDoubleBooking, Confirmed

\* The calendar names the stay in a home on a night, if there is one.
LEMMA CalendarSays ==
    ASSUME TypeOK, NoDoubleBooking, NEW p \in Properties, NEW n \in AllNights
    PROVE  /\ \A id \in Requests : Calendar[p][n] = id <=> id \in StaysIn(p, n)
           /\ StaysIn(p, n) = {} => Calendar[p][n] = None
<1>1. Calendar[p][n] =
        IF StaysIn(p, n) = {} THEN None ELSE CHOOSE id \in StaysIn(p, n) : TRUE
  BY DEF Calendar
<1>2. CASE StaysIn(p, n) = {}
  BY <1>1, <1>2, NoneIsNoBooking
<1>3. CASE StaysIn(p, n) # {}
  <2>1. PICK x \in StaysIn(p, n) : x = Calendar[p][n]
    BY <1>1, <1>3
  <2>2. \A y \in StaysIn(p, n) : y = x
    BY OneStay
  <2> QED
    BY <1>3, <2>1, <2>2
<1> QED
  BY <1>2, <1>3

\* What stays the same where the confirmed stays do.
LEMMA SameStaysSameEscrow ==
    ASSUME TypeOK, SameStays
    PROVE  Booked' = Booked /\ Calendar' = Calendar
<1>1. ASSUME NEW id \in Requests
      PROVE  /\ Confirmed(id)' <=> Confirmed(id)
             /\ Confirmed(id) => request'[id] = request[id]
  BY DEF SameStays, NoNewStay, Confirmed
<1>2. \A id \in Requests : BookingOf(id)' = BookingOf(id)
  BY <1>1 DEF BookingOf, Host
<1>3. Booked' = Booked
  BY <1>2 DEF Booked
<1>4. \A p, n : StaysIn(p, n)' = StaysIn(p, n)
  BY <1>1 DEF StaysIn, HomesOf
<1>5. \A p \in Properties : \A n \in AllNights :
        (IF StaysIn(p, n)' = {} THEN None ELSE CHOOSE id \in StaysIn(p, n)' : TRUE)
        = IF StaysIn(p, n) = {} THEN None ELSE CHOOSE id \in StaysIn(p, n) : TRUE
  <2> SUFFICES ASSUME NEW p \in Properties, NEW n \in AllNights
               PROVE  (IF StaysIn(p, n)' = {} THEN None
                       ELSE CHOOSE id \in StaysIn(p, n)' : TRUE)
                      = IF StaysIn(p, n) = {} THEN None
                        ELSE CHOOSE id \in StaysIn(p, n) : TRUE
    OBVIOUS
  <2>1. StaysIn(p, n)' = StaysIn(p, n)
    BY <1>4
  <2> QED
    BY <2>1
<1>6. Calendar' = Calendar
  BY <1>5 DEF Calendar
<1> QED
  BY <1>3, <1>6

\* The calendar once the stays bs are over.
LEMMA CalendarFreed ==
    ASSUME TypeOK, NoDoubleBooking, NEW bs \in SUBSET Requests,
           \A id \in Requests : Confirmed(id)' <=> Confirmed(id) /\ id \notin bs,
           \A id \in Requests : Confirmed(id)' =>
               /\ request'[id].trip = request[id].trip
               /\ request'[id].target = request[id].target
               /\ request'[id].offered = request[id].offered
    PROVE  Calendar' = [h \in Properties |-> [n \in AllNights |->
                           IF Calendar[h][n] \in bs THEN None ELSE Calendar[h][n]]]
<1>1. \A p, n : StaysIn(p, n)' = StaysIn(p, n) \ bs
  BY DEF StaysIn, HomesOf
<1>2. ASSUME NEW p \in Properties, NEW n \in AllNights
      PROVE  (IF StaysIn(p, n)' = {} THEN None ELSE CHOOSE id \in StaysIn(p, n)' : TRUE)
             = IF Calendar[p][n] \in bs THEN None ELSE Calendar[p][n]
  <2>1. Calendar[p][n] =
          IF StaysIn(p, n) = {} THEN None ELSE CHOOSE id \in StaysIn(p, n) : TRUE
    BY DEF Calendar
  <2>2. StaysIn(p, n) \in SUBSET Requests
    BY DEF StaysIn
  <2>3. CASE Calendar[p][n] \in bs
    <3>1. Calendar[p][n] \in StaysIn(p, n)
      BY <2>3, CalendarSays
    <3>2. \A y \in StaysIn(p, n) : y = Calendar[p][n]
      BY <3>1, OneStay
    <3>3. StaysIn(p, n)' = {}
      BY <1>1, <2>3, <3>2
    <3> QED
      BY <2>3, <3>3
  <2>4. CASE Calendar[p][n] \notin bs
    <3>1. \A id \in StaysIn(p, n) : Calendar[p][n] = id
      BY <2>2, CalendarSays
    <3>2. StaysIn(p, n)' = StaysIn(p, n)
      BY <1>1, <2>4, <3>1
    <3> QED
      BY <2>1, <2>4, <3>2
  <2> QED
    BY <2>3, <2>4
<1>3. Calendar' = [p \in Properties |-> [n \in AllNights |->
         IF StaysIn(p, n)' = {} THEN None ELSE CHOOSE id \in StaysIn(p, n)' : TRUE]]
  BY DEF Calendar
<1> QED
  BY <1>2, <1>3

LEMMA ConfirmBooks ==
    ASSUME TypeOK, Sound, NEW u \in Users, NEW id \in Requests, Confirm(u, id)
    PROVE  E!Book(id)
<1> DEFINE trip == request[id].trip
           taken == HomesOf(id)
           last == trip.to - 1
           price == request[id].total
<1>1. /\ request[id] \in Rows /\ Exists(id) /\ request[id].requester = u
      /\ ~Confirmed(id) /\ ConfirmedIn(taken, trip) = {}
  BY DEF Confirm, Exists, TypeOK, NoRow, Deleted, Confirmed
<1>2. /\ trip \in Trips /\ trip.from \in Nat /\ trip.to \in Nat
      /\ trip.from < trip.to /\ price \in BookingPrices /\ price \in Nat
      /\ u # Host(id) /\ Host(id) \in Users
      /\ taken \in SUBSET Properties /\ taken # {}
  BY <1>1, TripsType, OwnerType, NoneIsNoRow DEF Sound, Asked, Rows, HomesOf, Host
<1>3. /\ trip.from \in AllNights /\ last \in AllNights /\ trip.from <= last
  <2>1. trip.from \in trip.from..(trip.to - 1) /\ last \in trip.from..(trip.to - 1)
    BY <1>2
  <2> QED
    BY <1>2, <2>1 DEF AllNights
<1>4. request' = [request EXCEPT ![id].status = "CONFIRMED"]
  BY DEF Confirm
<1>5. /\ \A x \in Requests \ {id} : request'[x] = request[x]
      /\ request'[id].status = "CONFIRMED" /\ request'[id].requester = u
      /\ request'[id].total = price /\ request'[id].trip = trip
      /\ request'[id].target = request[id].target
      /\ request'[id].offered = request[id].offered
  BY <1>1, <1>4 DEF TypeOK, Rows
<1>6. Booked[id] = None
  BY <1>1 DEF Booked, BookingOf
<1>7. Booked' = [Booked EXCEPT ![id] = [guest |-> u, host |-> Host(id), price |-> price]]
  <2>1. \A x \in Requests \ {id} : BookingOf(x)' = BookingOf(x)
    BY <1>5 DEF BookingOf, Confirmed, Host
  <2>2. BookingOf(id)' = [guest |-> u, host |-> Host(id), price |-> price]
    BY <1>5 DEF BookingOf, Confirmed, Host
  <2> QED
    BY <2>1, <2>2 DEF Booked
<1>8. price <= available[u] /\ available' = [available EXCEPT ![u] = @ - price]
  <2>1. available \in [Users -> Nat]
    BY DEF TypeOK
  <2> QED
    BY <1>2, <2>1 DEF Confirm, Reserve, Enough
<1>9. \A p \in Properties : \A n \in AllNights :
         StaysIn(p, n)' = IF p \in taken /\ n \in trip.from..last
                          THEN StaysIn(p, n) \cup {id} ELSE StaysIn(p, n)
  <2>1. \A n \in AllNights : n \in Int
    BY TripsType DEF AllNights
  <2>2. \A n \in AllNights : n \in trip.from..last <=> trip.from <= n /\ n < trip.to
    BY <1>2, <2>1
  <2>3. HomesOf(id)' = taken /\ \A x \in Requests : x # id => HomesOf(x)' = HomesOf(x)
    BY <1>5 DEF HomesOf
  <2>4. /\ Confirmed(id)' /\ ~Confirmed(id)
        /\ \A x \in Requests : x # id => (Confirmed(x)' <=> Confirmed(x))
    BY <1>1, <1>5 DEF Confirmed
  <2> HIDE DEF taken, last
  <2> QED
    BY <1>5, <2>2, <2>3, <2>4 DEF StaysIn
<1>10. \A p \in taken : \A n \in trip.from..last : StaysIn(p, n) = {}
  <2> SUFFICES ASSUME NEW p \in taken, NEW n \in trip.from..last,
                      NEW x \in StaysIn(p, n)
               PROVE  FALSE
    OBVIOUS
  <2>1. /\ x \in Requests /\ Confirmed(x) /\ p \in HomesOf(x)
        /\ request[x].trip.from <= n /\ n < request[x].trip.to
    BY DEF StaysIn
  <2>2. request[x].trip.from \in Nat /\ request[x].trip.to \in Nat
    BY <2>1, ConfirmedIsRow
  <2>3. Overlap(request[x].trip, trip)
    BY <1>2, <2>1, <2>2 DEF Overlap
  <2> QED
    BY <1>1, <2>1, <2>3 DEF ConfirmedIn, Confirmed
<1> HIDE DEF taken, last, trip, price
<1>11. \A p \in taken : \A n \in trip.from..last : n \in AllNights => Calendar[p][n] = None
  BY <1>2, <1>10 DEF Calendar
<1>12. Calendar' = [p \in Properties |-> [n \in AllNights |->
          IF p \in taken /\ n \in trip.from..last THEN id ELSE Calendar[p][n]]]
  <2>1. ASSUME NEW p \in Properties, NEW n \in AllNights
        PROVE  (IF StaysIn(p, n)' = {} THEN None ELSE CHOOSE x \in StaysIn(p, n)' : TRUE)
               = IF p \in taken /\ n \in trip.from..last THEN id ELSE Calendar[p][n]
    <3>1. CASE p \in taken /\ n \in trip.from..last
      <4>1. StaysIn(p, n)' = {id}
        BY <1>9, <1>10, <3>1
      <4> QED
        BY <3>1, <4>1
    <3>2. CASE ~(p \in taken /\ n \in trip.from..last)
      <4>1. StaysIn(p, n)' = StaysIn(p, n)
        BY <1>9, <3>2
      <4> QED
        BY <3>2, <4>1 DEF Calendar
    <3> QED
      BY <3>1, <3>2
  <2>2. Calendar' = [p \in Properties |-> [n \in AllNights |->
         IF StaysIn(p, n)' = {} THEN None ELSE CHOOSE x \in StaysIn(p, n)' : TRUE]]
    BY DEF Calendar
  <2> QED
    BY <2>1, <2>2
<1>13. \A n \in trip.from..last : n \in AllNights
  BY <1>2 DEF AllNights, last
<1>14. E!Reserve(id, u, Host(id), price)
  BY <1>7, <1>8 DEF E!Reserve, Booked
<1>15. E!Occupy(id, taken, trip.from..last)
  BY <1>11, <1>12, <1>13 DEF E!Occupy
<1>16. price \in {r * Nights(t) : r \in Rates \cup {0}, t \in Trips}
  BY <1>2 DEF BookingPrices
<1>17. \E guest, host \in Users, pr \in {r * Nights(t) : r \in Rates \cup {0}, t \in Trips} :
           guest # host /\ E!Reserve(id, guest, host, pr)
  BY <1>2, <1>14, <1>16
<1>18. \E hs \in (SUBSET Properties) \ {{}}, from, to \in AllNights :
           from <= to /\ E!Occupy(id, hs, from..to)
  <2> USE <1>2, <1>3, <1>15
  <2> WITNESS taken \in (SUBSET Properties) \ {{}}, trip.from \in AllNights, last \in AllNights
  <2> QED
    OBVIOUS
<1> QED
  BY <1>6, <1>17, <1>18 DEF E!Book, Booked

\* Ending a stay closes its booking, in favour of the guest or of the host.
LEMMA ClosingCloses ==
    ASSUME TypeOK, NoDoubleBooking, NEW u \in Users, NEW id \in Requests,
           CancelConfirmed(u, id) \/ Complete(u, id)
    PROVE  \E payee \in Users : E!Close(id, payee)
<1> DEFINE guest == request[id].requester
           price == request[id].total
<1>1. /\ request[id] \in Rows /\ Confirmed(id) /\ ~Confirmed(id)'
      /\ \A x \in Requests \ {id} : request'[x] = request[x]
  BY ClosingEndsStay DEF Confirmed
<1>2. guest \in Users /\ Host(id) \in Users /\ price \in Nat
  BY <1>1, ConfirmedIsRow
<1>3. PICK payee \in {guest, Host(id)} : available' = [available EXCEPT ![payee] = @ + price]
  <2>1. available \in [Users -> Nat]
    BY DEF TypeOK
  <2>2. price = 0 => available = [available EXCEPT ![guest] = @ + price]
    BY <1>2, <2>1
  <2>3. CASE CancelConfirmed(u, id)
    BY <1>2, <2>2, <2>3 DEF CancelConfirmed, PayReserve
  <2>4. CASE Complete(u, id)
    BY <1>2, <2>2, <2>4 DEF Complete, PayReserve
  <2> QED
    BY <2>3, <2>4
<1>4. /\ Booked[id] # None /\ Booked[id].guest = guest /\ Booked[id].host = Host(id)
      /\ Booked[id].price = price
  BY <1>1, BookingType
<1>5. Booked' = [Booked EXCEPT ![id] = None]
  <2>1. \A x \in Requests \ {id} : BookingOf(x)' = BookingOf(x)
    BY <1>1 DEF BookingOf, Confirmed, Host
  <2>2. BookingOf(id)' = None
    BY <1>1 DEF BookingOf
  <2> QED
    BY <2>1, <2>2 DEF Booked
<1>6. Calendar' = [h \in Properties |-> [n \in AllNights |->
          IF Calendar[h][n] \in {id} THEN None ELSE Calendar[h][n]]]
  <2>1. \A x \in Requests : Confirmed(x)' <=> Confirmed(x) /\ x \notin {id}
    BY <1>1 DEF Confirmed
  <2>2. \A x \in Requests : Confirmed(x)' =>
               /\ request'[x].trip = request[x].trip
               /\ request'[x].target = request[x].target
               /\ request'[x].offered = request[x].offered
    BY <1>1
  <2>3. {id} \in SUBSET Requests
    OBVIOUS
  <2> QED
    BY <2>1, <2>2, <2>3, CalendarFreed
<1>7. payee \in Users
  BY <1>2
<1> HIDE DEF guest, price
<1>8. E!Close(id, payee)
  BY <1>3, <1>4, <1>5, <1>6 DEF E!Close, E!Sides, E!FreeDates, Booked
<1> QED
  BY <1>7, <1>8

\* The price the escrow holds for some stays.
LEMMA EscrowPrice ==
    ASSUME TypeOK, NEW S \in SUBSET Requests, \A id \in S : Confirmed(id)
    PROVE  E!Price(S) = Points(S)
<1>1. \A id \in S : Booked[id].price = request[id].total
  BY BookingType
<1>2. [id \in S |-> Booked[id].price] = [id \in S |-> request[id].total]
  BY <1>1
<1>3. \A f : E!SumOf(f) = SumOf(f)
  BY DEF E!SumOf, SumOf, E!Tokens, Tokens, E!Cardinality, Cardinality
<1>4. E!Price(S) = E!SumOf([id \in S |-> Booked[id].price])
  BY DEF E!Price, Booked
<1> QED
  BY <1>2, <1>3, <1>4 DEF Points

\* Deleting a user is the user's leaving: no one else's booking ends with it.
LEMMA DeletionLeaves ==
    ASSUME TypeOK, NoDoubleBooking, Sound, NEW u \in Users, DeleteUser(u)
    PROVE  E!Leave(u)
<1> DEFINE bs == {id \in Requests : Confirmed(id) /\ u \in Participants(id)}
<1>1. \A id \in Requests : Confirmed(id) => (id \in DeletionScope(u) <=> id \in bs)
  <2> SUFFICES ASSUME NEW id \in Requests, Confirmed(id)
               PROVE  id \in DeletionScope(u) <=> u \in Participants(id)
    OBVIOUS
  <2>1. Exists(id)
    BY ConfirmedIsRow
  <2>2. Offers(request[id])
    BY <2>1 DEF Sound
  <2>3. \A p \in HomesOf(id) : Owner[p] \in Participants(id)
    BY <2>2 DEF HomesOf, Offers, Participants, Host
  <2> QED
    BY <2>1, <2>3 DEF DeletionScope
<1>2. \A id \in Requests : request'[id] = IF id \in DeletionScope(u) THEN Deleted ELSE request[id]
  BY DeletionEndsStays
<1>3. bs \in SUBSET Requests /\ \A id \in bs : Confirmed(id)
  OBVIOUS
<1>4. \A id \in Requests : /\ Confirmed(id)' <=> Confirmed(id) /\ id \notin bs
                           /\ Confirmed(id)' => request'[id] = request[id]
  BY <1>1, <1>2 DEF Confirmed, Deleted
<1>5. bs = {id \in {x \in Requests : Booked[x] # None} :
               u \in {Booked[id].guest, Booked[id].host}}
  BY BookingType DEF Participants
<1> HIDE DEF bs
<1>6. Booked' = [id \in Requests |-> IF id \in bs THEN None ELSE Booked[id]]
  <2>1. \A id \in Requests : BookingOf(id)' = IF id \in bs THEN None ELSE BookingOf(id)
    BY <1>4 DEF BookingOf, Host
  <2> QED
    BY <2>1 DEF Booked
<1>7. Calendar' = [h \in Properties |-> [n \in AllNights |->
          IF Calendar[h][n] \in bs THEN None ELSE Calendar[h][n]]]
  <2>1. \A id \in Requests : Confirmed(id)' <=> Confirmed(id) /\ id \notin bs
    BY <1>4
  <2>2. \A id \in Requests : Confirmed(id)' =>
               /\ request'[id].trip = request[id].trip
               /\ request'[id].target = request[id].target
               /\ request'[id].offered = request[id].offered
    BY <1>4
  <2> QED
    BY <1>3, <2>1, <2>2, CalendarFreed
<1>8. ASSUME NEW v \in Users, v # u
      PROVE  Points(ReleasedTo(v, u)) = E!Price({b \in bs : Booked[b].guest = v})
  <2> DEFINE S == {b \in bs : Booked[b].guest = v}
  <2>1. /\ S \in SUBSET Requests /\ \A b \in S : Confirmed(b) /\ Exists(b)
    BY <1>3, ConfirmedIsRow
  <2>2. ReleasedTo(v, u) = {b \in S : request[b].total > 0}
    <3>1. \A b \in Requests : b \in S <=> b \in DeletionScope(u) /\ b \in HeldFor(v)
      BY <1>1, <1>3, BookingType DEF HeldFor, Confirmed
    <3> QED
      BY <1>8, <2>1, <3>1 DEF ReleasedTo, HeldFor
  <2> HIDE DEF S
  <2>3. Points(ReleasedTo(v, u)) = Points(S)
    BY <2>1, <2>2, PointsDropFree
  <2>4. E!Price(S) = Points(S)
    BY <2>1, EscrowPrice
  <2> QED
    BY <2>3, <2>4 DEF S
<1>9. available' = [v \in Users |-> IF v = u THEN 0
                      ELSE available[v] + E!Price({b \in bs : Booked[b].guest = v})]
  <2>1. available' = [v \in Users |-> IF v = u THEN 0
                        ELSE available[v] + Points(ReleasedTo(v, u))]
    BY DEF DeleteUser
  <2> QED
    BY <1>8, <2>1
<1> QED
  BY <1>5, <1>6, <1>7, <1>9 DEF E!Leave, E!InForce, E!Sides, E!FreeDates, Booked

\* Bonuses and adjustments are deposits and withdrawals.
LEMMA GrantsFund ==
    ASSUME TypeOK, TypeOK', Newcomers, NEW u \in Users,
           \/ Register(u) \/ VerifyEmail(u)
           \/ \E amount \in Adjustments : Adjust(u, amount)
    PROVE  \E n \in Bonuses \cup Adjustments : E!Fund(u, n)
<1>1. request' = request
  BY DEF Register, VerifyEmail, Adjust
<1>2. Booked' = Booked /\ Calendar' = Calendar
  <2>1. SameStays
    BY <1>1 DEF SameStays, NoNewStay
  <2> QED
    BY <2>1, SameStaysSameEscrow
<1>3. PICK n \in Bonuses \cup Adjustments : available' = [available EXCEPT ![u] = @ + n]
  <2>1. available \in [Users -> Nat] /\ Bonuses \in SUBSET Nat
    BY AmountsType DEF TypeOK
  <2>2. CASE Register(u)
    <3>1. PICK bonus \in Bonuses : available' = [available EXCEPT ![u] = bonus]
      BY <2>2 DEF Register
    <3>2. available[u] = 0 /\ bonus \in Nat
      BY <2>1, <2>2 DEF Register, Newcomers
    <3>3. available' = [available EXCEPT ![u] = @ + bonus]
      <4>1. available[u] + bonus = bonus
        BY <3>2
      <4> QED
        BY <3>1, <4>1
    <3> QED
      BY <3>3
  <2>3. CASE VerifyEmail(u)
    BY <2>3 DEF VerifyEmail
  <2>4. CASE \E amount \in Adjustments : Adjust(u, amount)
    BY <2>4 DEF Adjust
  <2> QED
    BY <2>2, <2>3, <2>4
<1>4. available[u] + n >= 0
  BY <1>3 DEF TypeOK
<1>5. E!Fund(u, n)
  BY <1>2, <1>3, <1>4 DEF E!Fund, Booked
<1> QED
  BY <1>5

LEMMA NothingForEscrow ==
    ASSUME TypeOK, SameStays, available' = available
    PROVE  UNCHANGED E!evars
  BY SameStaysSameEscrow DEF E!evars, Booked

LEMMA StepsOfEscrow ==
    ASSUME TypeOK, TypeOK', Newcomers, NoDoubleBooking, Sound, Next
    PROVE  E!Next \/ UNCHANGED E!evars
<1>1. ASSUME NEW u \in Users,
             \/ Register(u) \/ VerifyEmail(u)
             \/ \E amount \in Adjustments : Adjust(u, amount)
      PROVE  E!Next
  BY <1>1, GrantsFund DEF E!Next
<1>2. ASSUME NEW u \in Users, DeleteUser(u)
      PROVE  E!Next
  BY <1>2, DeletionLeaves DEF E!Next
<1>3. CASE \/ NextDay
           \/ \E p \in Properties : ChangeStatus(p)
           \/ \E p \in Properties, points \in Rates : Reprice(p, points)
  <2>1. request' = request /\ available' = available
    BY <1>3 DEF NextDay, ChangeStatus, Reprice, accounts
  <2> QED
    BY <2>1, NothingForEscrow DEF SameStays, NoNewStay
<1>4. CASE Settlement
  <2>1. PICK u \in Users, id \in Requests :
          Confirm(u, id) \/ CancelConfirmed(u, id) \/ Complete(u, id)
    BY <1>4 DEF Settlement
  <2>2. CASE Confirm(u, id)
    BY <2>2, ConfirmBooks DEF E!Next
  <2>3. CASE CancelConfirmed(u, id) \/ Complete(u, id)
    BY <2>3, ClosingCloses DEF E!Next
  <2> QED
    BY <2>1, <2>2, <2>3
<1>5. ASSUME NEW c \in Calls, \/ CreateStart(c) \/ CreateContinue(c)
                              \/ MoveStart(c) \/ MoveContinue(c)
      PROVE  UNCHANGED E!evars
  <2>1. available' = available
    BY <1>5 DEF CreateStart, CreateReadTarget, CreateContinue, CreateReadOffered,
       CreateCheckOfferedDates, CreateCheckTargetDates, CreateCheckExisting,
       CheckStep, CreateInsert, CreateNotify, MoveStart, Preapprove, Reject, Cancel,
       StartMove, MoveContinue, TransitionUpdate, TransitionNotify, accounts
  <2>2. SameStays
    BY <1>5, HandlersKeepStays
  <2> QED
    BY <2>1, <2>2, NothingForEscrow
<1> QED
  BY <1>1, <1>2, <1>3, <1>4, <1>5 DEF Next, Environment

\* Exchanges implements Escrow: whatever the interleaving of the handlers, the
\* service takes whole nights out of the calendars of both homes, puts the price
\* of a stay in escrow, and pays it out to exactly one side.
THEOREM RequestsAreBookings == Spec => ImplementsEscrow
<1>1. Init => E!Init
  <2> SUFFICES ASSUME Init
               PROVE  E!Init
    OBVIOUS
  <2>1. \A id \in Requests : ~Confirmed(id)
    BY DEF Init, Confirmed, NoRow
  <2>2. \A p, n : StaysIn(p, n) = {}
    BY <2>1 DEF StaysIn
  <2>3. Calendar = [p \in Properties |-> [n \in AllNights |-> None]]
    BY <2>2 DEF Calendar
  <2>4. [id \in Requests |-> BookingOf(id)] = [id \in Requests |-> None]
    BY <2>1 DEF BookingOf
  <2> QED
    BY <2>3, <2>4 DEF Init, E!Init
<1>2. /\ JournalInv /\ JournalInv' /\ NoDoubleBooking /\ Sound
      /\ [Next]_vars
      => [E!Next]_E!evars
  <2> SUFFICES ASSUME JournalInv, JournalInv', NoDoubleBooking, Sound, [Next]_vars
               PROVE  [E!Next]_E!evars
    OBVIOUS
  <2>1. TypeOK /\ TypeOK' /\ Newcomers
    BY DEF JournalInv
  <2>2. CASE Next
    BY <2>1, <2>2, StepsOfEscrow
  <2>3. CASE UNCHANGED vars
    <3>1. request' = request /\ available' = available
      BY <2>3 DEF vars, accounts
    <3> QED
      BY <2>1, <3>1, NothingForEscrow DEF SameStays, NoNewStay
  <2> QED
    BY <2>2, <2>3
<1> QED
  BY <1>1, <1>2, JournalInvariant, NeverDoubleBooked, SoundInvariant, PTL
     DEF Spec, ImplementsEscrow, E!Spec

-----------------------------------------------------------------------------
(* Who has not been told is being told.                                    *)

\* A handler that is to notify still knows whom: the home of the row it inserted,
\* or the side that made the change.
Tellers ==
    \A c \in Calls :
        /\ draft[c].pc = "notify" =>
               /\ draft[c].id \in Requests /\ request[draft[c].id] # NoRow
               /\ Exists(draft[c].id) => request[draft[c].id].target = draft[c].target
        /\ move[c].pc = "notify" =>
               /\ request[move[c].id] # NoRow
               /\ Exists(move[c].id) => move[c].by = Mover(move[c].id, move[c].to)

ToldInv == UntoldIsBeingTold /\ Tellers

\* No row appears, and those that stay have the same parties.
PartiesKept ==
    \A id \in Requests :
        /\ request'[id] = NoRow => request[id] = NoRow
        /\ Exists(id)' => /\ Exists(id)
                          /\ request'[id].requester = request[id].requester
                          /\ request'[id].target = request[id].target

\* No handler comes to its notification.
NobodyNewTells ==
    \A c \in Calls : /\ draft'[c].pc = "notify" => draft'[c] = draft[c]
                     /\ move'[c].pc = "notify" => move'[c] = move[c]

LEMMA ExistsIsRow ==
    ASSUME TypeOK, NEW id \in Requests, Exists(id)
    PROVE  request[id] \in Rows
BY DEF TypeOK, Exists, NoRow, Deleted

LEMMA TellersStay ==
    ASSUME Tellers, TypeOK', PartiesKept, NobodyNewTells
    PROVE  Tellers'
<1>1. ASSUME NEW c \in Calls, draft'[c].pc = "notify"
      PROVE  /\ draft'[c].id \in Requests /\ request'[draft'[c].id] # NoRow
             /\ Exists(draft[c].id)' => request'[draft'[c].id].target = draft'[c].target
  <2>1. draft'[c] = draft[c] /\ draft[c].pc = "notify"
    BY <1>1 DEF NobodyNewTells
  <2>2. QED
    BY <2>1 DEF Tellers, PartiesKept
<1>2. ASSUME NEW c \in Calls, move'[c].pc = "notify"
      PROVE  /\ request'[move'[c].id] # NoRow
             /\ Exists(move[c].id)' => move'[c].by = Mover(move[c].id, move[c].to)'
  <2>1. move'[c] \in Moves /\ move'[c] = move[c]
    BY <1>2 DEF TypeOK, NoMove, NobodyNewTells
  <2>2. move[c].id \in Requests /\ move[c].pc = "notify"
    BY <1>2, <2>1 DEF Moves
  <2>3. QED
    BY <1>2, <2>1, <2>2 DEF Tellers, PartiesKept, Mover, Host
<1>3. QED
  BY <1>1, <1>2 DEF Tellers

\* What id was told stays told while the notices to its parties are kept.
LEMMA ToldStays ==
    ASSUME NEW id \in Requests, NEW st, PartiesKept, Told(id, st),
           \A n \in inbox : n.to \in Participants(id) => n \in inbox'
    PROVE  Told(id, st)'
<1>1. CASE Exists(id)'
  <2>1. Exists(id) /\ Host(id)' = Host(id) /\ request'[id].requester = request[id].requester
    BY <1>1 DEF PartiesKept, Host
  <2>2. \A u : Notice(u, st, id).to = u
    BY DEF Notice
  <2>3. QED
    BY <2>1, <2>2 DEF Told, Participants
<1>2. CASE ~Exists(id)'
  BY <1>2 DEF Told
<1>3. QED
  BY <1>1, <1>2

\* A handler that tells of id is still to do so, or has.
Keeps(id) ==
    \A c \in Calls :
        /\ draft[c].pc = "notify" /\ draft[c].id = id
               => draft'[c] = draft[c] \/ Told(id, "PENDING")'
        /\ \A st : move[c].pc = "notify" /\ move[c].id = id /\ move[c].to = st
               => move'[c] = move[c] \/ Told(id, st)'

LEMMA TellingStays ==
    ASSUME NEW id \in Requests, NEW st, Telling(id, st), Keeps(id)
    PROVE  Told(id, st)' \/ Telling(id, st)'
<1>1. ASSUME NEW c \in Calls, st = "PENDING", draft[c].pc = "notify", draft[c].id = id
      PROVE  Told(id, st)' \/ Telling(id, st)'
  <2>1. draft'[c] = draft[c] => Telling(id, st)'
    BY <1>1 DEF Telling
  <2>2. draft'[c] = draft[c] \/ Told(id, "PENDING")'
    BY <1>1 DEF Keeps
  <2>3. QED
    BY <1>1, <2>1, <2>2
<1>2. ASSUME NEW c \in Calls, move[c].pc = "notify", move[c].id = id, move[c].to = st
      PROVE  Told(id, st)' \/ Telling(id, st)'
  <2>1. move'[c] = move[c] => Telling(id, st)'
    BY <1>2 DEF Telling
  <2>2. move'[c] = move[c] \/ Told(id, st)'
    BY <1>2 DEF Keeps
  <2>3. QED
    BY <2>1, <2>2
<1>3. QED
  BY <1>1, <1>2 DEF Telling

\* A row whose status stays is told of, or being told of, as before.
LEMMA SameStatusTold ==
    ASSUME UntoldIsBeingTold, NEW id \in Requests, NEW st \in Statuses,
           request[id].status = st, PartiesKept, Keeps(id),
           \A n \in inbox : n.to \in Participants(id) => n \in inbox'
    PROVE  Told(id, st)' \/ Telling(id, st)'
BY ToldStays, TellingStays DEF UntoldIsBeingTold

\* Nothing that matters here happens.
LEMMA QuietTold ==
    ASSUME TypeOK, TypeOK', ToldInv, request' = request, inbox \subseteq inbox',
           NobodyNewTells, \A id \in Requests : Keeps(id)
    PROVE  ToldInv'
<1>1. PartiesKept
  BY DEF PartiesKept, Exists
<1>2. Tellers'
  BY <1>1, TellersStay DEF ToldInv
<1>3. ASSUME NEW id \in Requests, NEW st \in Statuses, request'[id].status = st
      PROVE  Told(id, st)' \/ Telling(id, st)'
  BY <1>1, <1>3, SameStatusTold DEF ToldInv
<1>4. QED
  BY <1>2, <1>3 DEF ToldInv, UntoldIsBeingTold

\* One row changes its status, and the other side is told in the same step.
LEMMA SettlementTold ==
    ASSUME TypeOK, TypeOK', ToldInv, NEW u \in Users, NEW id \in Requests,
           Confirm(u, id) \/ CancelConfirmed(u, id) \/ Complete(u, id)
    PROVE  ToldInv'
<1>1. request[id] \in Rows /\ Exists(id) /\ u \in Participants(id)
  BY ExistsIsRow DEF Confirm, CancelConfirmed, Complete, Participants
<1>2. UNCHANGED handlers
  BY DEF Confirm, CancelConfirmed, Complete
<1>3. PICK st \in {"CONFIRMED", "CANCELLED", "COMPLETED"} :
        /\ request' = [request EXCEPT ![id].status = st]
        /\ \/ inbox' = inbox \cup {Notice(Host(id), st, id)}
           \/ inbox' = inbox \cup {Notice(Other(id, u), st, id)} /\ st # "CONFIRMED"
  BY DEF Confirm, CancelConfirmed, Complete
<1>4. /\ request'[id].status = st /\ request'[id].requester = request[id].requester
      /\ request'[id].target = request[id].target
      /\ \A x \in Requests \ {id} : request'[x] = request[x]
  BY <1>1, <1>3 DEF TypeOK, Rows
<1>5. PartiesKept
  BY <1>1, <1>4 DEF PartiesKept, Exists, NoRow
<1>6. Tellers' /\ \A x \in Requests : Keeps(x)
  BY <1>2, <1>5, TellersStay DEF ToldInv, NobodyNewTells, handlers, Keeps
<1>7. inbox \subseteq inbox'
  BY <1>3
<1>8. Told(id, st)'
  <2>1. Host(id)' = Host(id) /\ request'[id].requester = request[id].requester
    BY <1>4 DEF Host
  <2>2. st \notin {"PENDING", "PREAPPROVED", "REJECTED"}
    OBVIOUS
  <2>3. Other(id, u) \in {Host(id), request[id].requester}
    BY DEF Other
  <2>4. \/ Notice(Host(id), st, id) \in inbox'
        \/ Notice(request[id].requester, st, id) \in inbox' /\ st # "CONFIRMED"
    BY <1>3, <2>3
  <2>5. QED
    BY <2>1, <2>2, <2>4 DEF Told
<1>9. ASSUME NEW x \in Requests, NEW s \in Statuses, request'[x].status = s
      PROVE  Told(x, s)' \/ Telling(x, s)'
  <2>1. CASE x = id
    BY <1>4, <1>8, <1>9, <2>1
  <2>2. CASE x # id
    BY <1>4, <1>5, <1>6, <1>7, <1>9, <2>2, SameStatusTold DEF ToldInv
  <2>3. QED
    BY <2>1, <2>2
<1>10. QED
  BY <1>6, <1>9 DEF ToldInv, UntoldIsBeingTold

\* A deleted user takes along every request whose parties were told, and no
\* notice of the others.
LEMMA DeletionTold ==
    ASSUME TypeOK, TypeOK', ToldInv, NEW u \in Users, DeleteUser(u)
    PROVE  ToldInv'
<1>1. \A id \in Requests : request'[id] = IF id \in DeletionScope(u) THEN Deleted
                                                                    ELSE request[id]
  BY DeletionEndsStays
<1>2. \A id \in Requests : Exists(id)' => id \notin DeletionScope(u) /\ request'[id] = request[id]
  BY <1>1 DEF Exists, Deleted, Statuses, ActiveStatuses
<1>3. PartiesKept
  BY <1>1, <1>2 DEF PartiesKept, Exists, NoRow, Deleted
<1>4. UNCHANGED handlers
  BY DEF DeleteUser
<1>5. Tellers' /\ \A x \in Requests : Keeps(x)
  BY <1>3, <1>4, TellersStay DEF ToldInv, NobodyNewTells, handlers, Keeps
<1>6. \A n \in inbox : n.to # u => n \in inbox'
  BY DEF DeleteUser
<1>7. ASSUME NEW x \in Requests, NEW s \in Statuses, request'[x].status = s
      PROVE  Told(x, s)' \/ Telling(x, s)'
  <2>1. Exists(x)' /\ x \notin DeletionScope(u) /\ request[x].status = s
    BY <1>2, <1>7 DEF Exists
  <2>2. u \notin Participants(x)
    BY <2>1, <1>7 DEF DeletionScope, Exists
  <2>3. QED
    BY <1>3, <1>5, <1>6, <2>1, <2>2, SameStatusTold DEF ToldInv
<1>8. QED
  BY <1>5, <1>7 DEF ToldInv, UntoldIsBeingTold

\* create: the row it inserts is told of by its last statement.
LEMMA CreateTold ==
    ASSUME TypeOK, TypeOK', PartiesHere, ToldInv, NEW c \in Calls,
           CreateStart(c) \/ CreateContinue(c)
    PROVE  ToldInv'
<1>1. ASSUME UNCHANGED <<request, inbox, move>>, \A d \in Calls \ {c} : draft'[d] = draft[d],
             draft[c].pc # "notify", draft'[c].pc # "notify"
      PROVE  ToldInv'
  <2>1. NobodyNewTells /\ \A x \in Requests : Keeps(x)
    BY <1>1 DEF NobodyNewTells, Keeps
  <2>2. QED
    BY <1>1, <2>1, QuietTold
<1>2. CASE CreateStart(c)
  <2>1. /\ UNCHANGED <<request, inbox, move>> /\ draft[c].pc # "notify"
        /\ \A d \in Calls \ {c} : draft'[d] = draft[d]
        /\ draft'[c].pc \in {"offered", "targetDates"}
    BY <1>2 DEF CreateStart, CreateReadTarget, NoDraft, TypeOK
  <2>2. QED
    BY <1>1, <2>1
<1>3. ASSUME NEW at \in {"offered", "offeredDates", "targetDates", "existing"}, NEW ok,
             NEW pc \in {"offeredDates", "targetDates", "existing", "insert"},
             CheckStep(c, at, ok, pc)
      PROVE  ToldInv'
  <2>1. /\ UNCHANGED <<request, inbox, move>> /\ draft[c].pc # "notify"
        /\ \A d \in Calls \ {c} : draft'[d] = draft[d]
    BY <1>3 DEF CheckStep, Advance, Refuse, TypeOK
  <2>2. draft[c] \in Drafts
    BY <1>3 DEF CheckStep, NoDraft, TypeOK
  <2>3. draft'[c].pc # "notify"
    BY <1>3, <2>2 DEF CheckStep, Advance, Refuse, TypeOK, NoDraft, Drafts
  <2>4. QED
    BY <1>1, <2>1, <2>3
<1>4. CASE CreateInsert(c)
  <2>1. draft[c] \in Drafts /\ draft[c].pc = "insert"
    BY <1>4 DEF CreateInsert, NoDraft, TypeOK
  <2>2. UNCHANGED <<inbox, move>> /\ \A d \in Calls \ {c} : draft'[d] = draft[d]
    BY <1>4 DEF CreateInsert, Refuse, TypeOK
  <2>3. CASE UNCHANGED request /\ Refuse(c)
    <3>1. draft'[c].pc # "notify"
      BY <2>3 DEF Refuse, NoDraft, TypeOK
    <3>2. QED
      BY <1>1, <2>1, <2>2, <2>3, <3>1
  <2>4. CASE ~(UNCHANGED request /\ Refuse(c))
    <3> DEFINE d == draft[c]
               row == [status |-> "PENDING", requester |-> d.requester,
                       target |-> d.target, offered |-> d.offered, type |-> d.type,
                       trip |-> d.trip, total |-> d.total]
    <3>1. PICK id \in Requests : /\ request[id] = NoRow
                                 /\ request' = [request EXCEPT ![id] = row]
                                 /\ draft' = [draft EXCEPT ![c].pc = "notify", ![c].id = id]
      BY <1>4, <2>4 DEF CreateInsert
    <3>2. /\ draft'[c].pc = "notify" /\ draft'[c].id = id
          /\ draft'[c].target = draft[c].target
      BY <2>1, <3>1 DEF TypeOK, Drafts
    <3>3. /\ request'[id].status = "PENDING" /\ request'[id].target = draft[c].target
          /\ \A x \in Requests \ {id} : request'[x] = request[x]
      BY <3>1 DEF TypeOK
    <3>4. request'[id] # NoRow /\ ~Exists(id)
      BY <3>1, <3>3 DEF NoRow, Exists, Statuses, ActiveStatuses
    <3>5. ASSUME NEW e \in Calls, draft'[e].pc = "notify"
          PROVE  /\ draft'[e].id \in Requests /\ request'[draft'[e].id] # NoRow
                 /\ Exists(draft[e].id)' => request'[draft'[e].id].target = draft'[e].target
      <4>1. CASE e = c
        BY <3>2, <3>3, <3>4, <4>1
      <4>2. CASE e # c
        <5>1. draft'[e] = draft[e]
          BY <2>2, <4>2
        <5>2. draft[e].id \in Requests /\ request[draft[e].id] # NoRow
          BY <3>5, <5>1 DEF ToldInv, Tellers
        <5>3. request'[draft[e].id] = request[draft[e].id]
          BY <3>1, <3>3, <5>2
        <5>4. QED
          BY <3>5, <5>1, <5>2, <5>3 DEF ToldInv, Tellers, Exists
      <4>3. QED
        BY <4>1, <4>2
    <3>6. ASSUME NEW e \in Calls, move'[e].pc = "notify"
          PROVE  /\ request'[move'[e].id] # NoRow
                 /\ Exists(move[e].id)' => move'[e].by = Mover(move[e].id, move[e].to)'
      <4>1. move'[e] = move[e] /\ move[e] \in Moves
        BY <2>2, <3>6 DEF TypeOK, NoMove
      <4>2. move[e].id \in Requests /\ request[move[e].id] # NoRow
        BY <3>6, <4>1 DEF ToldInv, Tellers, Moves
      <4>3. request'[move[e].id] = request[move[e].id]
        BY <3>1, <3>3, <4>2
      <4>4. QED
        BY <3>6, <4>1, <4>2, <4>3 DEF ToldInv, Tellers, Exists, Mover, Host
    <3>7. ASSUME NEW x \in Requests, NEW s \in Statuses, request'[x].status = s
          PROVE  Told(x, s)' \/ Telling(x, s)'
      <4>1. CASE x = id
        BY <3>2, <3>3, <3>7, <4>1 DEF Telling
      <4>2. CASE x # id
        <5>1. request'[x] = request[x]
          BY <3>3, <4>2
        <5>2. Told(x, s) => Told(x, s)'
          BY <2>2, <5>1 DEF Told, Exists, Host
        <5>3. Keeps(x)
          BY <2>1, <2>2 DEF Keeps
        <5>4. Telling(x, s) => Told(x, s)' \/ Telling(x, s)'
          BY <5>3, TellingStays
        <5>5. QED
          BY <3>7, <5>1, <5>2, <5>4 DEF ToldInv, UntoldIsBeingTold
      <4>3. QED
        BY <4>1, <4>2
    <3>8. QED
      BY <3>5, <3>6, <3>7 DEF ToldInv, Tellers, UntoldIsBeingTold
  <2>5. QED
    BY <2>3, <2>4
<1>5. CASE CreateNotify(c)
  <2>1. draft[c] \in Drafts /\ draft[c].pc = "notify"
    BY <1>5 DEF CreateNotify, NoDraft, TypeOK
  <2>2. /\ UNCHANGED <<request, move>> /\ inbox \subseteq inbox' /\ draft'[c].pc # "notify"
        /\ \A d \in Calls \ {c} : draft'[d] = draft[d]
    BY <1>5 DEF CreateNotify, Refuse, NoDraft, TypeOK
  <2> PICK id \in Requests : id = draft[c].id
    BY <2>1 DEF ToldInv, Tellers
  <2>3. Told(id, "PENDING")'
    <3>1. CASE ~Exists(id)
      BY <2>2, <3>1 DEF Told, Exists
    <3>2. CASE Exists(id)
      <4>1. request[id].target = draft[c].target /\ Present(Host(id))
        BY <2>1, <3>2 DEF ToldInv, Tellers, PartiesHere
      <4>2. Notice(Host(id), "PENDING", id) \in inbox'
        BY <1>5, <4>1 DEF CreateNotify, Host
      <4>3. Host(id)' = Host(id)
        BY <2>2 DEF Host
      <4>4. QED
        BY <4>2, <4>3 DEF Told
    <3>3. QED
      BY <3>1, <3>2
  <2>4. NobodyNewTells /\ \A x \in Requests : Keeps(x)
    BY <2>2, <2>3 DEF NobodyNewTells, Keeps
  <2>5. QED
    BY <2>2, <2>4, QuietTold
<1>6. QED
  BY <1>2, <1>3, <1>4, <1>5
     DEF CreateContinue, CreateReadOffered, CreateCheckOfferedDates, CreateCheckTargetDates,
         CreateCheckExisting

\* preapprove, reject and cancel: the row that was changed is told of next.
LEMMA MoveTold ==
    ASSUME TypeOK, TypeOK', ToldInv, NEW c \in Calls, MoveStart(c) \/ MoveContinue(c)
    PROVE  ToldInv'
<1>1. ASSUME UNCHANGED <<request, inbox, draft>>, \A d \in Calls \ {c} : move'[d] = move[d],
             move[c].pc # "notify", move'[c].pc # "notify"
      PROVE  ToldInv'
  <2>1. NobodyNewTells /\ \A x \in Requests : Keeps(x)
    BY <1>1 DEF NobodyNewTells, Keeps
  <2>2. QED
    BY <1>1, <2>1, QuietTold
<1>2. CASE MoveStart(c)
  <2>1. /\ UNCHANGED <<request, inbox, draft>> /\ move[c].pc # "notify"
        /\ \A d \in Calls \ {c} : move'[d] = move[d]
        /\ move'[c].pc = "update"
    BY <1>2 DEF MoveStart, Preapprove, Reject, Cancel, StartMove, NoMove, TypeOK
  <2>2. QED
    BY <1>1, <2>1
<1>3. CASE TransitionUpdate(c)
  <2>1. move[c] \in Moves /\ move[c].pc = "update" /\ UNCHANGED <<inbox, draft>>
        /\ \A d \in Calls \ {c} : move'[d] = move[d]
    BY <1>3 DEF TransitionUpdate, NoMove, TypeOK
  <2>2. CASE request' = request
    <3>1. move'[c].pc # "notify"
      BY <1>3, <2>2 DEF TransitionUpdate, TypeOK, NoMove
    <3>2. QED
      BY <1>1, <2>1, <2>2, <3>1
  <2>3. CASE request' # request
    <3> DEFINE m == move[c]
               id == m.id
    <3>1. /\ id \in Requests /\ Exists(id) /\ m.by = Mover(id, m.to)
          /\ request' = [request EXCEPT ![id].status = m.to]
          /\ move'[c] = [m EXCEPT !.pc = "notify"]
      BY <1>3, <2>1, <2>3 DEF TransitionUpdate, UpdateStatus, TypeOK, Moves
    <3>2. /\ move'[c].pc = "notify" /\ move'[c].id = id /\ move'[c].to = m.to
          /\ move'[c].by = m.by
      BY <2>1, <3>1 DEF Moves
    <3>3. request[id] \in Rows
      BY <3>1, ExistsIsRow
    <3>4. /\ request'[id].status = m.to /\ request'[id].requester = request[id].requester
          /\ request'[id].target = request[id].target
          /\ \A x \in Requests \ {id} : request'[x] = request[x]
      BY <3>1, <3>3 DEF TypeOK, Rows
    <3>5. m.to \in Statuses
      BY <2>1 DEF Moves, Statuses, ActiveStatuses
    <3>6. PartiesKept /\ request'[id] # NoRow
      BY <3>1, <3>4, <3>5 DEF PartiesKept, Exists, NoRow, Statuses, ActiveStatuses
    <3>7. ASSUME NEW e \in Calls, draft'[e].pc = "notify"
          PROVE  /\ draft'[e].id \in Requests /\ request'[draft'[e].id] # NoRow
                 /\ Exists(draft[e].id)' => request'[draft'[e].id].target = draft'[e].target
      BY <2>1, <3>6, <3>7 DEF ToldInv, Tellers, PartiesKept
    <3>8. ASSUME NEW e \in Calls, move'[e].pc = "notify"
          PROVE  /\ request'[move'[e].id] # NoRow
                 /\ Exists(move[e].id)' => move'[e].by = Mover(move[e].id, move[e].to)'
      <4>1. CASE e = c
        <5>1. Mover(id, m.to)' = Mover(id, m.to)
          BY <2>1, <3>2, <3>4 DEF Mover, Host
        <5>2. QED
          BY <3>1, <3>2, <3>6, <4>1, <5>1
      <4>2. CASE e # c
        <5>1. move'[e] = move[e] /\ move[e] \in Moves
          BY <2>1, <3>8, <4>2 DEF TypeOK, NoMove
        <5>2. move[e].id \in Requests
          BY <5>1 DEF Moves
        <5>3. QED
          BY <3>6, <3>8, <5>1, <5>2 DEF ToldInv, Tellers, PartiesKept, Mover, Host
      <4>3. QED
        BY <4>1, <4>2
    <3>9. \A x \in Requests : Keeps(x)
      BY <2>1 DEF Keeps
    <3>10. ASSUME NEW x \in Requests, NEW s \in Statuses, request'[x].status = s
           PROVE  Told(x, s)' \/ Telling(x, s)'
      <4>1. CASE x = id
        BY <3>2, <3>4, <3>10, <4>1 DEF Telling
      <4>2. CASE x # id
        BY <2>1, <3>4, <3>6, <3>9, <3>10, <4>2, SameStatusTold DEF ToldInv
      <4>3. QED
        BY <4>1, <4>2
    <3>11. QED
      BY <3>7, <3>8, <3>10 DEF ToldInv, Tellers, UntoldIsBeingTold
  <2>4. QED
    BY <2>2, <2>3
<1>4. CASE TransitionNotify(c)
  <2>1. move[c] \in Moves /\ move[c].pc = "notify"
    BY <1>4 DEF TransitionNotify, NoMove, TypeOK
  <2>2. /\ UNCHANGED <<request, draft>> /\ inbox \subseteq inbox' /\ move'[c].pc # "notify"
        /\ \A d \in Calls \ {c} : move'[d] = move[d]
    BY <1>4 DEF TransitionNotify, NoMove, TypeOK
  <2> PICK id \in Requests, m \in Moves : m = move[c] /\ id = m.id
    BY <2>1 DEF Moves
  <2>3. Told(id, m.to)'
    <3>1. CASE ~Exists(id)
      BY <2>2, <3>1 DEF Told, Exists
    <3>2. CASE Exists(id)
      <4>1. m.by = Mover(id, m.to) /\ m.to \in {"PREAPPROVED", "REJECTED", "CANCELLED"}
        BY <2>1, <3>2 DEF ToldInv, Tellers, Moves
      <4>2. Notice(Other(id, m.by), m.to, id) \in inbox'
        BY <1>4, <3>2 DEF TransitionNotify
      <4>3. Other(id, m.by) = IF m.to = "CANCELLED" THEN Host(id) ELSE request[id].requester
        BY <4>1 DEF Other, Mover
      <4>4. Host(id)' = Host(id) /\ request'[id].requester = request[id].requester
        BY <2>2 DEF Host
      <4>5. QED
        BY <4>1, <4>2, <4>3, <4>4 DEF Told
    <3>3. QED
      BY <3>1, <3>2
  <2>4. NobodyNewTells /\ \A x \in Requests : Keeps(x)
    BY <2>2, <2>3 DEF NobodyNewTells, Keeps
  <2>5. QED
    BY <2>2, <2>4, QuietTold
<1>5. QED
  BY <1>2, <1>3, <1>4 DEF MoveContinue

\* A status the other side has not been told of has a handler in flight that is about
\* to tell it, for any number of handlers: the chains of create and transition lose a
\* notification only with the process.
THEOREM UntoldIsTold == Spec => []UntoldIsBeingTold
<1>1. Init => ToldInv
  <2>1. Init => UntoldIsBeingTold
    BY DEF Init, UntoldIsBeingTold, NoRow, Statuses, ActiveStatuses
  <2>2. Init => Tellers
    BY DEF Init, Tellers, NoDraft, NoMove
  <2>3. QED
    BY <2>1, <2>2 DEF ToldInv
<1>2. JournalInv /\ JournalInv' /\ ToldInv /\ [Next]_vars => ToldInv'
  <2> SUFFICES ASSUME TypeOK, TypeOK', PartiesHere, ToldInv, [Next]_vars
               PROVE  ToldInv'
    BY DEF JournalInv
  <2>1. ASSUME request' = request, inbox \subseteq inbox', UNCHANGED handlers
        PROVE  ToldInv'
    <3>1. NobodyNewTells /\ \A x \in Requests : Keeps(x)
      BY <2>1 DEF NobodyNewTells, Keeps, handlers
    <3>2. QED
      BY <2>1, <3>1, QuietTold
  <2>2. CASE UNCHANGED vars
    BY <2>1, <2>2 DEF vars
  <2>3. CASE Environment
    <3>1. CASE \E u \in Users : DeleteUser(u)
      BY <3>1, DeletionTold
    <3>2. CASE ~\E u \in Users : DeleteUser(u)
      <4>1. inbox \subseteq inbox' /\ UNCHANGED handlers
        BY <2>3, <3>2 DEF Environment, NextDay, Register, VerifyEmail, Adjust, ChangeStatus,
           Reprice
      <4>2. QED
        BY <2>1, <2>3, <3>2, <4>1, EnvironmentKeepsStays
    <3>3. QED
      BY <3>1, <3>2
  <2>4. CASE Settlement
    BY <2>4, SettlementTold DEF Settlement
  <2>5. ASSUME NEW c \in Calls, \/ CreateStart(c) \/ CreateContinue(c)
                                \/ MoveStart(c) \/ MoveContinue(c)
        PROVE  ToldInv'
    BY <2>5, CreateTold, MoveTold
  <2>6. QED
    BY <2>2, <2>3, <2>4, <2>5 DEF Next
<1>3. ToldInv => UntoldIsBeingTold
  BY DEF ToldInv
<1>4. QED
  BY <1>1, <1>2, <1>3, JournalInvariant, PTL DEF Spec
=============================================================================
