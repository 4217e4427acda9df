------------------------ MODULE ListingExchangeProofs ------------------------
(***************************************************************************)
(* Theorems about ListingExchange for any users, homes, requests and       *)
(* handlers in flight: no request is about a home that is gone, and with   *)
(* the other part for environment each of Exchanges and Listings does what *)
(* its own module allows.                                                  *)
(*                                                                         *)
(* create finds its homes long before it inserts the row.  Nothing keeps   *)
(* them in between; but a home goes only with its owner, and a row refers  *)
(* to its requester and to the owner of its target.                        *)
(***************************************************************************)
EXTENDS ListingExchange, TLAPS

\* Rows and handlers name homes there can be.
NamesHomes ==
    /\ home = [p \in Properties |-> home[p]] /\ userRow = [u \in Users |-> userRow[u]]
    /\ request = [id \in Requests |-> request[id]]
    /\ draft = [c \in Calls |-> draft[c]] /\ work = [c \in OwnerCalls |-> work[c]]
    /\ \A id \in Requests : X!Exists(id) => X!HomesOf(id) \subseteq Properties
    /\ \A c \in OwnerCalls :
         \/ work[c].pc = "idle"
         \/ work[c].home \in Properties /\ work[c].seen \in L!PropertyStatus

\* A home there is belongs to a user there is.
HomesHaveOwners == \A p \in Properties : L!Exists(p) => X!Present(Owner[p])

\* A home that was there is there, unless its owner was deleted.
ThereOrOwnerGone(p) == L!Exists(p) \/ userRow[Owner[p]] = "DELETED"

\* What create has found is there, or goes missing with who the row refers to.
HasHomes(d) ==
    \/ d.pc = "idle"
    \/ /\ d.target \in Properties /\ ThereOrOwnerGone(d.target)
       /\ d.offered # None => d.offered \in Properties
       /\ d.offered # None /\ d.pc # "offered" =>
              Owner[d.offered] = d.requester /\ ThereOrOwnerGone(d.offered)
DraftsHaveHomes == \A c \in Calls : HasHomes(draft[c])

TogetherInv == NamesHomes /\ HomesHaveOwners /\ DraftsHaveHomes /\ NoRequestWithoutHome

LEMMA OwnerIsUser == ASSUME NEW p \in Properties PROVE Owner[p] \in Users
BY OwnersAreUsers

LEMMA NoHomeYet == L!NoHome.status = "NONE" /\ L!Gone.status = "GONE"
BY DEF L!NoHome, L!Gone

LEMMA TogetherInit == Init => TogetherInv
<1> SUFFICES ASSUME Init PROVE TogetherInv
  OBVIOUS
<1>1. /\ home = [p \in Properties |-> L!NoHome] /\ userRow = [u \in Users |-> "NONE"]
      /\ request = [id \in Requests |-> X!NoRow] /\ draft = [c \in Calls |-> X!NoDraft]
      /\ work = [c \in OwnerCalls |-> L!Idle]
  BY DEF Init, X!Init, L!Init
<1>2. X!NoRow.status = "NONE" /\ X!NoDraft.pc = "idle" /\ L!Idle.pc = "idle"
  BY DEF X!NoRow, X!NoDraft, L!Idle
<1>3. \A id \in Requests : ~X!Exists(id)
  BY <1>1, <1>2 DEF X!Exists, X!Statuses, X!ActiveStatuses
<1>4. \A p \in Properties : ~L!Exists(p)
  BY <1>1, NoHomeYet DEF L!Exists, L!PropertyStatus
<1>5. \A c \in Calls : HasHomes(draft[c])
  BY <1>1, <1>2 DEF HasHomes
<1>6. NamesHomes
  BY <1>1, <1>2, <1>3 DEF NamesHomes
<1>7. QED
  BY <1>3, <1>4, <1>5, <1>6
     DEF TogetherInv, HomesHaveOwners, DraftsHaveHomes, NoRequestWithoutHome

-----------------------------------------------------------------------------
(* Steps of the exchange service.                                          *)

\* Rows of requests come to no other homes, and none is new.
RequestsStay ==
    /\ request' = [id \in Requests |-> request'[id]]
    /\ \A id \in Requests : X!Exists(id)' =>
           X!Exists(id) /\ X!HomesOf(id)' = X!HomesOf(id)
UsersStay ==
    /\ userRow' = [u \in Users |-> userRow'[u]]
    /\ \A u \in Users : /\ X!Present(u) => X!Present(u)'
                        /\ userRow[u] = "DELETED" => userRow'[u] = "DELETED"
DraftsStay ==
    /\ draft' = [c \in Calls |-> draft'[c]]
    /\ \A c \in Calls : draft'[c] = draft[c] \/ HasHomes(draft'[c])

LEMMA AboutSameHomes ==
    ASSUME TogetherInv, UNCHANGED homeVars, RequestsStay, UsersStay, DraftsStay
    PROVE  TogetherInv'
<1> USE DEF TogetherInv
<1>1. home' = home /\ work' = work
  BY DEF homeVars
<1>2. NamesHomes'
  BY <1>1 DEF NamesHomes, RequestsStay, UsersStay, DraftsStay
<1>3. \A p \in Properties : L!Exists(p)' <=> L!Exists(p)
  BY <1>1 DEF L!Exists
<1>4. HomesHaveOwners'
  BY <1>3, OwnerIsUser DEF HomesHaveOwners, UsersStay
<1>5. ASSUME NEW p \in Properties, ThereOrOwnerGone(p) PROVE ThereOrOwnerGone(p)'
  BY <1>3, <1>5, OwnerIsUser DEF ThereOrOwnerGone, UsersStay
<1>6. DraftsHaveHomes'
  <2>1. ASSUME NEW d, HasHomes(d) PROVE HasHomes(d)'
    BY <1>5, <2>1 DEF HasHomes
  <2>2. QED
    BY <2>1 DEF DraftsHaveHomes, DraftsStay
<1>7. NoRequestWithoutHome'
  BY <1>3 DEF NoRequestWithoutHome, RequestsStay, NamesHomes
<1>8. QED
  BY <1>2, <1>4, <1>6, <1>7

\* The status of one request is set to another it may have.
LEMMA StatusSet ==
    ASSUME TogetherInv, NEW id \in Requests, X!Exists(id), NEW s,
           request' = [request EXCEPT ![id].status = s]
    PROVE  RequestsStay
<1> USE DEF TogetherInv
<1>1. \A r \in Requests : r # id => request'[r] = request[r]
  BY DEF NamesHomes
<1>2. /\ request'[id] = [request[id] EXCEPT !.status = s]
      /\ request' = [r \in Requests |-> request'[r]]
  BY DEF NamesHomes
<1>3. X!HomesOf(id)' = X!HomesOf(id)
  BY <1>2 DEF X!HomesOf
<1>4. \A r \in Requests : r # id =>
          X!HomesOf(r)' = X!HomesOf(r) /\ (X!Exists(r)' => X!Exists(r))
  BY <1>1 DEF X!HomesOf, X!Exists
<1>5. QED
  BY <1>2, <1>3, <1>4 DEF RequestsStay

LEMMA NothingMoves ==
    ASSUME TogetherInv
    PROVE  /\ UNCHANGED request => RequestsStay
           /\ UNCHANGED userRow => UsersStay
           /\ UNCHANGED draft => DraftsStay
BY DEF TogetherInv, NamesHomes, RequestsStay, UsersStay, DraftsStay, X!Exists, X!HomesOf,
   X!Present

\* One handler of create reads on, gives up, or has found a home.
LEMMA OneDraft ==
    ASSUME TogetherInv, NEW c \in Calls, NEW now, draft' = [draft EXCEPT ![c] = now],
           HasHomes(now)
    PROVE  DraftsStay
BY DEF TogetherInv, NamesHomes, DraftsStay

LEMMA NoDraftHasHomes == HasHomes(X!NoDraft)
BY DEF HasHomes, X!NoDraft

LEMMA PublishedExist ==
    ASSUME NEW p \in published PROVE p \in Properties /\ L!Exists(p)
BY DEF published, L!Exists, L!PropertyStatus

LEMMA CheckSteps ==
    ASSUME TogetherInv, NEW c \in Calls, NEW at, NEW ok, NEW pc, at # "idle",
           X!CheckStep(c, at, ok, pc),
           ok => LET d == draft[c] IN
                     at = "offered" /\ d.offered # None =>
                         Owner[d.offered] = d.requester /\ d.offered \in published,
           at # "offered" => pc # "offered"
    PROVE  DraftsStay /\ UNCHANGED <<request, userRow>>
<1>1. /\ draft[c].pc = at /\ UNCHANGED <<request, userRow>>
      /\ IF ok THEN draft' = [draft EXCEPT ![c].pc = pc]
               ELSE draft' = [draft EXCEPT ![c] = X!NoDraft]
  BY DEF X!CheckStep, X!Advance, X!Refuse
<1>2. HasHomes(draft[c])
  BY DEF TogetherInv, DraftsHaveHomes
<1>3. CASE ok
  <2> DEFINE now == [draft[c] EXCEPT !.pc = pc]
  <2>1. /\ now.target = draft[c].target /\ now.offered = draft[c].offered
        /\ now.requester = draft[c].requester /\ (now.pc = pc \/ now.pc = draft[c].pc)
    OBVIOUS
  <2>2. HasHomes(now)
    BY <1>1, <1>2, <1>3, <2>1, PublishedExist DEF HasHomes, ThereOrOwnerGone
  <2>3. draft' = [draft EXCEPT ![c] = now]
    BY <1>1, <1>3
  <2> HIDE DEF now
  <2>4. QED
    BY <1>1, <2>2, <2>3, OneDraft
<1>4. CASE ~ok
  BY <1>1, <1>4, NoDraftHasHomes, OneDraft
<1>5. QED
  BY <1>3, <1>4

LEMMA CreateKeeps ==
    ASSUME TogetherInv, UNCHANGED homeVars, NEW c \in Calls,
           X!CreateStart(c) \/ X!CreateContinue(c)
    PROVE  TogetherInv'
<1>1. CASE X!CreateStart(c)
  <2>1. PICK u \in Users, p \in Properties, offered \in Properties \cup {None},
             type \in X!ExchangeTypes, trip \in Trips, guests \in Parties :
                 X!CreateReadTarget(c, u, p, offered, type, trip, guests)
    BY <1>1 DEF X!CreateStart
  <2>2. PICK total :
            /\ p \in published /\ UNCHANGED <<request, userRow>>
            /\ IF type = "DIRECT" THEN offered # None ELSE offered = None
            /\ draft' = [draft EXCEPT ![c] =
                   [pc |-> IF type = "DIRECT" THEN "offered" ELSE "targetDates",
                    requester |-> u, target |-> p, offered |-> offered, type |-> type,
                    trip |-> trip, total |-> total, id |-> None]]
    BY <2>1 DEF X!CreateReadTarget
  <2> DEFINE now == [pc |-> IF type = "DIRECT" THEN "offered" ELSE "targetDates",
                     requester |-> u, target |-> p, offered |-> offered, type |-> type,
                     trip |-> trip, total |-> total, id |-> None]
  <2>3. HasHomes(now)
    BY <2>2, PublishedExist DEF HasHomes, ThereOrOwnerGone
  <2>4. draft' = [draft EXCEPT ![c] = now]
    BY <2>2
  <2> HIDE DEF now
  <2>5. QED
    BY <2>2, <2>3, <2>4, OneDraft, NothingMoves, AboutSameHomes
<1>2. CASE X!CreateReadOffered(c) \/ X!CreateCheckOfferedDates(c)
           \/ X!CreateCheckTargetDates(c) \/ X!CreateCheckExisting(c)
  <2>1. DraftsStay /\ UNCHANGED <<request, userRow>>
    <3>1. CASE X!CreateReadOffered(c)
      BY <3>1, CheckSteps DEF X!CreateReadOffered
    <3>2. CASE X!CreateCheckOfferedDates(c)
      BY <3>2, CheckSteps DEF X!CreateCheckOfferedDates
    <3>3. CASE X!CreateCheckTargetDates(c)
      BY <3>3, CheckSteps DEF X!CreateCheckTargetDates
    <3>4. CASE X!CreateCheckExisting(c)
      BY <3>4, CheckSteps DEF X!CreateCheckExisting
    <3>5. QED
      BY <1>2, <3>1, <3>2, <3>3, <3>4
  <2>2. QED
    BY <2>1, NothingMoves, AboutSameHomes
<1>3. CASE X!CreateNotify(c)
  <2>1. UNCHANGED <<request, userRow>> /\ draft' = [draft EXCEPT ![c] = X!NoDraft]
    BY <1>3 DEF X!CreateNotify, X!Refuse
  <2>2. QED
    BY <2>1, NoDraftHasHomes, OneDraft, NothingMoves, AboutSameHomes
<1>4. CASE X!CreateInsert(c)
  <2> USE DEF TogetherInv
  <2>1. PICK d : d = draft[c]
    OBVIOUS
  <2>2. HasHomes(d) /\ d.pc = "insert" /\ UNCHANGED userRow
    BY <1>4, <2>1 DEF X!CreateInsert, DraftsHaveHomes
  <2>3. CASE draft' = [draft EXCEPT ![c] = X!NoDraft] /\ UNCHANGED request
    BY <2>2, <2>3, NoDraftHasHomes, OneDraft, NothingMoves, AboutSameHomes
  <2>4. ASSUME X!Present(d.requester), X!Present(Owner[d.target]), NEW id \in Requests,
               request' = [request EXCEPT ![id] =
                   [status |-> "PENDING", requester |-> d.requester,
                    target |-> d.target, offered |-> d.offered,
                    type |-> d.type, trip |-> d.trip, total |-> d.total]],
               draft' = [draft EXCEPT ![c].pc = "notify", ![c].id = id]
        PROVE  TogetherInv'
    <3>1. /\ d.target \in Properties /\ L!Exists(d.target)
          /\ d.offered # None => d.offered \in Properties /\ L!Exists(d.offered)
      BY <2>2, <2>4 DEF HasHomes, ThereOrOwnerGone, X!Present
    <3>2. home' = home /\ work' = work /\ userRow' = userRow
      BY <2>2 DEF homeVars
    <3>3. \A p \in Properties : L!Exists(p)' <=> L!Exists(p)
      BY <3>2 DEF L!Exists
    <3>4. /\ request'[id].target = d.target /\ request'[id].offered = d.offered
          /\ \A r \in Requests : r # id => request'[r] = request[r]
          /\ request' = [r \in Requests |-> request'[r]]
      BY <2>4 DEF NamesHomes
    <3>5. ASSUME NEW r \in Requests, X!Exists(r)'
          PROVE  X!HomesOf(r)' \subseteq Properties /\ \A p \in X!HomesOf(r)' : L!Exists(p)
      <4>1. CASE r = id
        BY <3>1, <3>4, <4>1 DEF X!HomesOf
      <4>2. CASE r # id
        <5>1. X!Exists(r) /\ X!HomesOf(r)' = X!HomesOf(r)
          BY <3>4, <3>5, <4>2 DEF X!Exists, X!HomesOf
        <5>2. QED
          BY <5>1 DEF NamesHomes, NoRequestWithoutHome
      <4>3. QED
        BY <4>1, <4>2
    <3>6. DraftsStay
      <4> DEFINE now == [d EXCEPT !.pc = "notify", !.id = id]
      <4>1. /\ now.target = d.target /\ now.offered = d.offered
            /\ now.requester = d.requester /\ (now.pc = "notify" \/ now.pc = d.pc)
        OBVIOUS
      <4>2. HasHomes(now)
        BY <2>2, <4>1 DEF HasHomes
      <4>3. draft' = [draft EXCEPT ![c] = now]
        BY <2>1, <2>4
      <4> HIDE DEF now
      <4>4. QED
        BY <4>2, <4>3, OneDraft
    <3>7. NamesHomes'
      BY <3>2, <3>4, <3>5, <3>6 DEF NamesHomes, DraftsStay
    <3>8. HomesHaveOwners'
      BY <3>2, <3>3 DEF HomesHaveOwners, X!Present
    <3>9. DraftsHaveHomes'
      <4>1. ASSUME NEW e, HasHomes(e) PROVE HasHomes(e)'
        BY <3>2, <3>3, <4>1 DEF HasHomes, ThereOrOwnerGone
      <4>2. QED
        BY <3>6, <4>1 DEF DraftsHaveHomes, DraftsStay
    <3>10. NoRequestWithoutHome'
      BY <3>3, <3>5 DEF NoRequestWithoutHome
    <3>11. QED
      BY <3>7, <3>8, <3>9, <3>10
  <2>5. QED
    BY <1>4, <2>1, <2>3, <2>4 DEF X!CreateInsert, X!Refuse
<1>5. QED
  BY <1>1, <1>2, <1>3, <1>4 DEF X!CreateContinue

LEMMA ExchangeKeeps ==
    ASSUME TogetherInv, ExchangeStep PROVE TogetherInv'
<1> USE DEF TogetherInv
<1>1. UNCHANGED homeVars
  BY DEF ExchangeStep
<1>2. ASSUME UNCHANGED <<request, userRow, draft>> PROVE TogetherInv'
  BY <1>1, <1>2, NothingMoves, AboutSameHomes
<1>3. ASSUME NEW u \in Users, X!Register(u) PROVE TogetherInv'
  <2>1. /\ userRow[u] = "NONE" /\ userRow' = [userRow EXCEPT ![u] = "PRESENT"]
        /\ UNCHANGED <<request, draft>>
    BY <1>3 DEF X!Register, X!handlers
  <2>2. UsersStay
    BY <2>1 DEF UsersStay, NamesHomes, X!Present
  <2>3. QED
    BY <1>1, <2>1, <2>2, NothingMoves, AboutSameHomes
<1>4. ASSUME NEW id \in Requests, NEW s, X!Exists(id), UNCHANGED <<userRow, draft>>,
             request' = [request EXCEPT ![id].status = s]
      PROVE  TogetherInv'
  BY <1>1, <1>4, StatusSet, NothingMoves, AboutSameHomes
<1>5. CASE X!Settlement
  BY <1>4, <1>5 DEF X!Settlement, X!Confirm, X!CancelConfirmed, X!Complete, X!handlers
<1>6. ASSUME NEW c \in Calls, X!TransitionUpdate(c) PROVE TogetherInv'
  <2>1. PICK id, by, from, to : request' = X!UpdateStatus(id, by, from, to)
    BY <1>6 DEF X!TransitionUpdate
  <2>2. UNCHANGED <<userRow, draft>>
    BY <1>6 DEF X!TransitionUpdate
  <2>3. CASE request' = request
    BY <1>2, <2>2, <2>3
  <2>4. CASE X!Exists(id) /\ request' = [request EXCEPT ![id].status = to]
    <3>1. CASE id \in Requests
      BY <1>4, <2>2, <2>4, <3>1
    <3>2. CASE id \notin Requests
      <4>1. request' = request
        BY <2>4, <3>2 DEF NamesHomes
      <4>2. QED
        BY <2>3, <4>1
    <3>3. QED
      BY <3>1, <3>2
  <2>5. QED
    BY <2>1, <2>3, <2>4 DEF X!UpdateStatus
<1>7. ASSUME NEW c \in Calls, X!MoveStart(c) PROVE TogetherInv'
  BY <1>2, <1>7 DEF X!MoveStart, X!Preapprove, X!Reject, X!Cancel, X!StartMove
<1>8. ASSUME NEW c \in Calls, X!TransitionNotify(c) PROVE TogetherInv'
  BY <1>2, <1>8 DEF X!TransitionNotify
<1>9. CASE X!NextDay
  BY <1>2, <1>9 DEF X!NextDay, X!handlers
<1>10. ASSUME NEW u \in Users, X!VerifyEmail(u) PROVE TogetherInv'
  BY <1>2, <1>10 DEF X!VerifyEmail, X!handlers
<1>11. ASSUME NEW u \in Users, NEW amount \in Adjustments, X!Adjust(u, amount)
       PROVE  TogetherInv'
  BY <1>2, <1>11 DEF X!Adjust, X!handlers
<1>12. ASSUME NEW p \in Properties, NEW points \in Rates, X!Reprice(p, points)
       PROVE  TogetherInv'
  BY <1>2, <1>12 DEF X!Reprice, X!handlers
<1>13. QED
  BY <1>1, <1>3, <1>5, <1>6, <1>7, <1>8, <1>9, <1>10, <1>11, <1>12, CreateKeeps
     DEF ExchangeStep, X!MoveContinue

-----------------------------------------------------------------------------
(* Steps on one home.                                                      *)

\* The row of one home is written, and its owner is there.
Written(p, row) == /\ home' = [home EXCEPT ![p] = row] /\ row.status \in L!PropertyStatus
                   /\ X!Present(Owner[p])
WorkNames == /\ work' = [c \in OwnerCalls |-> work'[c]]
             /\ \A c \in OwnerCalls :
                  \/ work'[c].pc = "idle"
                  \/ work'[c].home \in Properties /\ work'[c].seen \in L!PropertyStatus

LEMMA WorkStays ==
    ASSUME TogetherInv
    PROVE  /\ UNCHANGED work => WorkNames
           /\ \A c \in OwnerCalls : L!End(c) => WorkNames
BY DEF TogetherInv, NamesHomes, WorkNames, L!End, L!Idle

LEMMA StatusSetOf ==
    ASSUME TogetherInv, NEW p \in Properties, X!Present(Owner[p]), NEW s \in L!PropertyStatus,
           L!SetStatus(p, s)
    PROVE  \E row : Written(p, row)
<1> DEFINE row == [home[p] EXCEPT !.status = s]
<1>1. home' = [home EXCEPT ![p] = row] /\ row.status = s
  BY DEF L!SetStatus
<1> HIDE DEF row
<1>2. QED
  BY <1>1 DEF Written

OneHomeMoves == UNCHANGED home \/ \E p \in Properties : \E row : Written(p, row)

LEMMA RowMoves ==
    ASSUME NEW p \in Properties, NEW row, row.status \in L!PropertyStatus,
           home' = [home EXCEPT ![p] = row], X!Present(Owner[p])
    PROVE  OneHomeMoves
BY DEF OneHomeMoves, Written

LEMMA StatusMoves ==
    ASSUME TogetherInv, NEW p \in Properties, NEW s, s \in L!PropertyStatus,
           L!SetStatus(p, s), X!Present(Owner[p])
    PROVE  OneHomeMoves
BY StatusSetOf DEF OneHomeMoves

\* Two columns of one row.
LEMMA TwoColumns ==
    ASSUME TogetherInv, NEW p \in Properties, NEW s, NEW flag
    PROVE  [home EXCEPT ![p].status = s, ![p].deleted = flag]
               = [home EXCEPT ![p] = [home[p] EXCEPT !.status = s, !.deleted = flag]]
<1>1. home = [q \in Properties |-> home[q]]
  BY DEF TogetherInv, NamesHomes
<1> HIDE DEF TogetherInv
<1>2. QED
  BY <1>1

LEMMA OwnerOfHome ==
    ASSUME TogetherInv, NEW p \in Properties, L!Exists(p) PROVE X!Present(Owner[p])
BY DEF TogetherInv, HomesHaveOwners

LEMMA SomeStatuses ==
    {"DRAFT", "PENDING_MODERATION", "HIDDEN", "PUBLISHED", "ARCHIVED", "REJECTED",
     "CHANGES_REQUESTED"} \subseteq L!PropertyStatus
BY DEF L!PropertyStatus

LEMMA OwnerSteps ==
    ASSUME TogetherInv, NEW p \in Properties, X!Present(Owner[p]),
           \/ L!CreateDraft(p) \/ L!CancelSubmission(p) \/ L!Hide(p) \/ L!Restore(p)
           \/ \E verdict \in L!Verdicts : L!Decide(p, verdict)
    PROVE  WorkNames /\ OneHomeMoves
<1>1. WorkNames
  BY WorkStays DEF L!CreateDraft, L!CancelSubmission, L!Hide, L!Restore, L!Decide
<1>2. CASE L!CreateDraft(p)
  <2>1. home' = [home EXCEPT ![p] = L!Draft] /\ L!Draft.status = "DRAFT"
    BY <1>2 DEF L!CreateDraft, L!Draft
  <2>2. QED
    BY <1>1, <2>1, SomeStatuses, RowMoves
<1>3. CASE L!CancelSubmission(p)
  BY <1>1, <1>3, SomeStatuses, StatusMoves DEF L!CancelSubmission
<1>4. CASE L!Hide(p)
  BY <1>1, <1>4, SomeStatuses, StatusMoves DEF L!Hide
<1>5. CASE L!Restore(p)
  <2>1. CASE L!SetStatus(p, "PUBLISHED")
    BY <1>1, <2>1, SomeStatuses, StatusMoves
  <2>2. CASE home' = [home EXCEPT ![p].status = "DRAFT", ![p].deleted = FALSE]
    <3> DEFINE row == [home[p] EXCEPT !.status = "DRAFT", !.deleted = FALSE]
    <3>1. row.status = "DRAFT"
      OBVIOUS
    <3>2. home' = [home EXCEPT ![p] = row]
      BY <2>2, TwoColumns
    <3> HIDE DEF row
    <3>3. QED
      BY <1>1, <3>1, <3>2, SomeStatuses, RowMoves
  <2>3. QED
    BY <1>5, <2>1, <2>2 DEF L!Restore
<1>6. ASSUME NEW verdict \in L!Verdicts, L!Decide(p, verdict) PROVE OneHomeMoves
  <2>1. verdict \in L!PropertyStatus
    BY DEF L!Verdicts, L!PropertyStatus
  <2>2. QED
    BY <1>6, <2>1, StatusMoves DEF L!Decide
<1>7. QED
  BY <1>1, <1>2, <1>3, <1>4, <1>5, <1>6

LEMMA HandlerSteps ==
    ASSUME TogetherInv, NEW c \in OwnerCalls, L!HandlerContinue(c)
    PROVE  WorkNames /\ OneHomeMoves
<1>1. PICK h, seen : h = work[c].home /\ seen = work[c].seen
  OBVIOUS
<1>2. work[c].pc # "idle" /\ h \in Properties /\ seen \in L!PropertyStatus
  BY <1>1 DEF L!HandlerContinue, L!UpdateWrite, L!SubmitWrite, L!ArchiveCheck,
              L!ArchiveWrite, TogetherInv, NamesHomes
<1>3. WorkNames
  <2>1. CASE L!End(c)
    BY <2>1, WorkStays
  <2>2. CASE work' = [work EXCEPT ![c].pc = "archive"]
    BY <1>1, <1>2, <2>2 DEF WorkNames, TogetherInv, NamesHomes
  <2>3. QED
    BY <2>1, <2>2
       DEF L!HandlerContinue, L!UpdateWrite, L!SubmitWrite, L!ArchiveCheck, L!ArchiveWrite
<1>4. L!StillAs(h, seen) => L!Exists(h)
  BY <1>2 DEF L!StillAs, L!StatusIs, L!Exists
<1>5. UNCHANGED home => OneHomeMoves
  BY DEF OneHomeMoves
<1>6. CASE L!UpdateWrite(c)
  <2>1. CASE L!Exists(h)
    <3> DEFINE row == [home[h] EXCEPT !.status = L!AfterContentEdit(seen),
                                      !.text = home[h].text + 1]
    <3>1. home' = [home EXCEPT ![h].status = L!AfterContentEdit(seen), ![h].text = @ + 1]
      BY <1>1, <1>6, <2>1 DEF L!UpdateWrite
    <3>2. home' = [home EXCEPT ![h] = row]
      <4>1. home = [q \in Properties |-> home[q]]
        BY DEF TogetherInv, NamesHomes
      <4> HIDE DEF TogetherInv
      <4>2. QED
        BY <1>2, <3>1, <4>1
    <3>3. row.status = L!AfterContentEdit(seen)
      OBVIOUS
    <3>4. L!AfterContentEdit(seen) \in L!PropertyStatus
      BY <1>2 DEF L!AfterContentEdit, L!PropertyStatus
    <3> HIDE DEF row
    <3>5. QED
      BY <1>2, <1>3, <2>1, <3>2, <3>3, <3>4, OwnerOfHome, RowMoves
  <2>2. CASE ~L!Exists(h)
    BY <1>1, <1>3, <1>5, <1>6, <2>2 DEF L!UpdateWrite
  <2>3. QED
    BY <2>1, <2>2
<1>7. CASE L!SubmitWrite(c)
  <2>1. CASE L!StillAs(h, seen)
    <3>1. L!SetStatus(h, "PENDING_MODERATION")
      BY <1>1, <1>7, <2>1 DEF L!SubmitWrite
    <3>2. QED
      BY <1>2, <1>3, <1>4, <2>1, <3>1, OwnerOfHome, SomeStatuses, StatusMoves
  <2>2. CASE ~L!StillAs(h, seen)
    BY <1>1, <1>3, <1>5, <1>7, <2>2 DEF L!SubmitWrite
  <2>3. QED
    BY <2>1, <2>2
<1>8. CASE L!ArchiveCheck(c)
  BY <1>3, <1>5, <1>8 DEF L!ArchiveCheck
<1>9. CASE L!ArchiveWrite(c)
  <2>1. CASE L!StillAs(h, seen)
    <3> DEFINE row == [home[h] EXCEPT !.status = "ARCHIVED", !.deleted = TRUE]
    <3>1. row.status = "ARCHIVED"
      OBVIOUS
    <3>2. home' = [home EXCEPT ![h].status = "ARCHIVED", ![h].deleted = TRUE]
      BY <1>1, <1>9, <2>1 DEF L!ArchiveWrite
    <3>3. home' = [home EXCEPT ![h] = row]
      BY <1>2, <3>2, TwoColumns
    <3> HIDE DEF row
    <3>4. QED
      BY <1>2, <1>3, <1>4, <2>1, <3>1, <3>3, OwnerOfHome, SomeStatuses, RowMoves
  <2>2. CASE ~L!StillAs(h, seen)
    BY <1>1, <1>3, <1>5, <1>9, <2>2 DEF L!ArchiveWrite
  <2>3. QED
    BY <2>1, <2>2
<1>10. QED
  BY <1>6, <1>7, <1>8, <1>9 DEF L!HandlerContinue

LEMMA HomeSteps ==
    ASSUME TogetherInv, HomeStep
    PROVE  UNCHANGED exchangeVars /\ WorkNames /\ OneHomeMoves
<1>1. UNCHANGED exchangeVars
  BY DEF HomeStep
<1>2. ASSUME NEW f \in Photos, L!PhotoReady(f) PROVE WorkNames /\ OneHomeMoves
  BY <1>2, WorkStays DEF L!PhotoReady, OneHomeMoves
<1>3. ASSUME NEW c \in OwnerCalls, L!HandlerStart(c) PROVE WorkNames /\ OneHomeMoves
  <2>1. PICK h \in Properties, pc \in {"update", "submit", "archiveCheck"} :
            L!Begin(c, h, pc) /\ L!Exists(h)
    BY <1>3 DEF L!HandlerStart, L!UpdateRead, L!SubmitRead, L!ArchiveRead, L!Editable, L!Mine
  <2>2. /\ UNCHANGED home
        /\ work' = [work EXCEPT ![c] = [pc |-> pc, home |-> h, seen |-> home[h].status]]
    BY <2>1 DEF L!Begin
  <2>3. WorkNames
    BY <2>1, <2>2 DEF WorkNames, TogetherInv, NamesHomes, L!Exists
  <2>4. QED
    BY <2>2, <2>3 DEF OneHomeMoves
<1>4. QED
  BY <1>1, <1>2, <1>3, OwnerSteps, HandlerSteps DEF HomeStep, OwnerThere

LEMMA HomeKeeps ==
    ASSUME TogetherInv, HomeStep PROVE TogetherInv'
<1> USE DEF TogetherInv
<1>1. UNCHANGED exchangeVars /\ WorkNames /\ OneHomeMoves
  BY HomeSteps
<1>2. request' = request /\ draft' = draft /\ userRow' = userRow
  BY <1>1 DEF exchangeVars
<1>3. /\ home' = [p \in Properties |-> home'[p]]
      /\ \A p \in Properties : L!Exists(p) => L!Exists(p)'
      /\ \A p \in Properties : L!Exists(p)' => L!Exists(p) \/ X!Present(Owner[p])
  <2>1. CASE UNCHANGED home
    BY <2>1 DEF NamesHomes, L!Exists
  <2>2. ASSUME NEW p \in Properties, NEW row, Written(p, row)
        PROVE  /\ home' = [q \in Properties |-> home'[q]]
               /\ \A q \in Properties : L!Exists(q) => L!Exists(q)'
               /\ \A q \in Properties : L!Exists(q)' => L!Exists(q) \/ X!Present(Owner[q])
    BY <2>2 DEF NamesHomes, Written, L!Exists
  <2>3. QED
    BY <1>1, <2>1, <2>2 DEF OneHomeMoves
<1>4. NamesHomes'
  <2>1. \A id \in Requests : X!Exists(id)' = X!Exists(id) /\ X!HomesOf(id)' = X!HomesOf(id)
    BY <1>2 DEF X!Exists, X!HomesOf
  <2>2. QED
    BY <1>1, <1>2, <1>3, <2>1 DEF NamesHomes, WorkNames
<1>5. HomesHaveOwners'
  BY <1>2, <1>3 DEF HomesHaveOwners, X!Present
<1>6. DraftsHaveHomes'
  BY <1>2, <1>3 DEF DraftsHaveHomes, HasHomes, ThereOrOwnerGone
<1>7. NoRequestWithoutHome'
  BY <1>2, <1>3 DEF NoRequestWithoutHome, NamesHomes, X!Exists, X!HomesOf
<1>8. QED
  BY <1>4, <1>5, <1>6, <1>7

-----------------------------------------------------------------------------
(* deleteUser.                                                             *)

LEMMA DeleteSteps ==
    ASSUME TogetherInv, NEW u \in Users, DeleteOwner(u)
    PROVE  /\ userRow' = [userRow EXCEPT ![u] = "DELETED"]
           /\ home' = [p \in Properties |->
                  IF Owner[p] = u /\ L!Exists(p) THEN L!Gone ELSE home[p]]
           /\ request' = [id \in Requests |-> IF id \in X!DeletionScope(u) THEN X!Deleted
                                                                           ELSE request[id]]
           /\ draft' = draft /\ work' = work
<1>1. /\ home' = [p \in Properties |->
                  IF p \in {q \in Properties : Owner[q] = u /\ L!Exists(q)}
                  THEN L!Gone ELSE home[p]]
      /\ work' = work /\ X!DeleteUser(u)
  BY DEF DeleteOwner
<1>2. home' = [p \in Properties |->
                  IF Owner[p] = u /\ L!Exists(p) THEN L!Gone ELSE home[p]]
  BY <1>1
<1>3. /\ userRow' = [userRow EXCEPT ![u] = "DELETED"] /\ draft' = draft
      /\ request' = [id \in Requests |-> IF id \in X!DeletionScope(u) THEN X!Deleted
                                                                      ELSE request[id]]
  BY <1>1 DEF X!DeleteUser, X!handlers
<1>4. QED
  BY <1>1, <1>2, <1>3

LEMMA DeleteKeeps ==
    ASSUME TogetherInv, NEW u \in Users, DeleteOwner(u) PROVE TogetherInv'
<1>1. userRow' = [userRow EXCEPT ![u] = "DELETED"] /\ draft' = draft /\ work' = work
  BY DeleteSteps
<1>2. /\ home' = [p \in Properties |->
                  IF Owner[p] = u /\ L!Exists(p) THEN L!Gone ELSE home[p]]
      /\ request' = [id \in Requests |-> IF id \in X!DeletionScope(u) THEN X!Deleted
                                                                      ELSE request[id]]
  BY DeleteSteps
<1> USE DEF TogetherInv
<1>3. /\ userRow' = [v \in Users |-> userRow'[v]] /\ userRow'[u] = "DELETED"
      /\ \A v \in Users : v # u => userRow'[v] = userRow[v]
  BY <1>1 DEF NamesHomes
<1>4. \A p \in Properties : /\ L!Exists(p)' <=> (L!Exists(p) /\ Owner[p] # u)
  BY <1>2, NoHomeYet DEF L!Exists, L!PropertyStatus
<1>5. ASSUME NEW id \in Requests, X!Exists(id)'
      PROVE  /\ X!Exists(id) /\ X!HomesOf(id)' = X!HomesOf(id)
             /\ \A p \in X!HomesOf(id) : Owner[p] # u
  <2>1. id \notin X!DeletionScope(u)
    BY <1>2, <1>5 DEF X!Exists, X!Deleted, X!Statuses, X!ActiveStatuses
  <2>2. request'[id] = request[id]
    BY <1>2, <2>1
  <2>3. X!Exists(id) /\ X!HomesOf(id)' = X!HomesOf(id)
    BY <1>5, <2>2 DEF X!Exists, X!HomesOf
  <2>4. QED
    BY <2>1, <2>3 DEF X!DeletionScope
<1>6. NamesHomes'
  BY <1>1, <1>2, <1>3, <1>5 DEF NamesHomes
<1>7. HomesHaveOwners'
  BY <1>3, <1>4, OwnerIsUser DEF HomesHaveOwners, X!Present
<1>8. DraftsHaveHomes'
  <2>1. ASSUME NEW p \in Properties, ThereOrOwnerGone(p) PROVE ThereOrOwnerGone(p)'
    BY <1>3, <1>4, <2>1, OwnerIsUser DEF ThereOrOwnerGone
  <2>2. ASSUME NEW d, HasHomes(d) PROVE HasHomes(d)'
    BY <2>1, <2>2 DEF HasHomes
  <2>3. QED
    BY <1>1, <2>2 DEF DraftsHaveHomes
<1>9. NoRequestWithoutHome'
  BY <1>4, <1>5 DEF NoRequestWithoutHome, NamesHomes
<1>10. QED
  BY <1>6, <1>7, <1>8, <1>9

LEMMA TogetherNext == TogetherInv /\ [Next]_vars => TogetherInv'
<1> SUFFICES ASSUME TogetherInv, [Next]_vars PROVE TogetherInv'
  OBVIOUS
<1>1. CASE UNCHANGED vars
  <2>1. UNCHANGED homeVars /\ request' = request /\ userRow' = userRow /\ draft' = draft
    BY <1>1 DEF vars, exchangeVars
  <2>2. QED
    BY <2>1, NothingMoves, AboutSameHomes
<1>2. QED
  BY <1>1, ExchangeKeeps, HomeKeeps, DeleteKeeps DEF Next

\* No request is ever about a home that is not there: create may have looked
\* for its homes long ago, but they go only with deleteUser of their owner, which
\* takes the requests along and whom the foreign keys of a new row ask for.
THEOREM RequestsHaveHomes == Spec => []NoRequestWithoutHome
<1>1. TogetherInv => NoRequestWithoutHome
  BY DEF TogetherInv
<1>2. QED
  BY <1>1, TogetherInit, TogetherNext, PTL DEF Spec

-----------------------------------------------------------------------------
(* What each part does to the other is what the other expects.             *)

\* A row that is written changes whether its home is published, or does not.
LEMMA OneHomePublished ==
    ASSUME TogetherInv, NEW p \in Properties, NEW row, Written(p, row)
    PROVE  \/ published' = published
           \/ published' = IF p \in published THEN published \ {p} ELSE published \cup {p}
<1>1. \A q \in Properties : q # p => home'[q] = home[q]
  BY DEF Written, TogetherInv, NamesHomes
<1>2. \A q \in Properties : q # p => (q \in published' <=> q \in published)
  BY <1>1 DEF published
<1>3. published \subseteq Properties /\ published' \subseteq Properties
  BY DEF published
<1>4. QED
  BY <1>2, <1>3

LEMMA StepOfExchanges ==
    ASSUME TogetherInv, [Next]_vars PROVE [X!Next]_(X!vars)
<1>1. CASE ExchangeStep
  BY <1>1 DEF ExchangeStep, X!Next, X!Environment
<1>2. CASE HomeStep
  <2>1. UNCHANGED exchangeVars /\ OneHomeMoves
    BY <1>2, HomeSteps
  <2>2. CASE published' = published
    BY <2>1, <2>2 DEF exchangeVars, X!vars, X!accounts, X!homes, X!handlers
  <2>3. ASSUME NEW p \in Properties, NEW row, Written(p, row),
               published' = IF p \in published THEN published \ {p} ELSE published \cup {p}
        PROVE  X!Next
    <3>1. X!ChangeStatus(p)
      BY <2>1, <2>3
         DEF Written, X!ChangeStatus, exchangeVars, X!accounts, X!handlers
    <3>2. QED
      BY <3>1 DEF X!Next, X!Environment
  <2>4. UNCHANGED home => published' = published
    BY DEF published
  <2>5. QED
    BY <2>1, <2>2, <2>3, <2>4, OneHomePublished DEF OneHomeMoves
<1>3. ASSUME NEW u \in Users, DeleteOwner(u) PROVE X!Next
  BY <1>3 DEF DeleteOwner, X!Next, X!Environment
<1>4. CASE UNCHANGED vars
  BY <1>4 DEF vars, exchangeVars, homeVars, published, X!vars, X!accounts, X!homes, X!handlers
<1>5. QED
  BY <1>1, <1>2, <1>3, <1>4 DEF Next

\* With the listings for environment the exchange service takes no step that
\* Exchanges, where homes are published and hidden at will, does not allow.
THEOREM ExchangesImplemented == Spec => ImplementsExchanges
<1>1. Init => X!Init
  BY DEF Init
<1>2. QED
  BY <1>1, TogetherInit, TogetherNext, StepOfExchanges, PTL
     DEF Spec, ImplementsExchanges, X!Spec

Photographed == photo = [f \in Photos |-> photo[f]]

LEMMA PhotosInit == Init => Photographed
BY DEF Init, L!Init, Photographed

LEMMA PhotosNext == Photographed /\ [Next]_vars => Photographed'
<1> SUFFICES ASSUME Photographed, [Next]_vars PROVE Photographed'
  OBVIOUS
<1>1. ASSUME NEW f \in Photos, L!PhotoReady(f) PROVE Photographed'
  BY <1>1 DEF L!PhotoReady, Photographed
<1>2. ASSUME NEW u \in Users, DeleteOwner(u) PROVE Photographed'
  BY <1>2 DEF DeleteOwner, Photographed
<1>3. UNCHANGED photo => Photographed'
  BY DEF Photographed
<1>4. ASSUME NEW p \in Properties,
             \/ L!CreateDraft(p) \/ L!CancelSubmission(p) \/ L!Hide(p) \/ L!Restore(p)
             \/ \E verdict \in L!Verdicts : L!Decide(p, verdict)
      PROVE  UNCHANGED photo
  BY <1>4 DEF L!CreateDraft, L!CancelSubmission, L!Hide, L!Restore, L!Decide
<1>5. ASSUME NEW c \in OwnerCalls, L!HandlerStart(c) \/ L!HandlerContinue(c)
      PROVE  UNCHANGED photo
  BY <1>5 DEF L!HandlerStart, L!HandlerContinue, L!UpdateRead, L!SubmitRead, L!ArchiveRead,
              L!Begin, L!UpdateWrite, L!SubmitWrite, L!ArchiveCheck, L!ArchiveWrite
<1>6. QED
  BY <1>1, <1>2, <1>3, <1>4, <1>5 DEF Next, ExchangeStep, HomeStep, homeVars, vars

\* The homes an active request is about are there.
EngagedThere == \A p \in engaged : p \in Properties /\ L!Exists(p)

LEMMA EngagedExist == TogetherInv => EngagedThere
<1> SUFFICES ASSUME TogetherInv, NEW p \in engaged PROVE p \in Properties /\ L!Exists(p)
  BY DEF EngagedThere
<1>1. p \in Properties
  BY DEF engaged, EngagedIn
<1>2. PICK id \in Requests : /\ request[id].status \in {"PENDING", "PREAPPROVED", "CONFIRMED"}
                             /\ p \in {request[id].target, request[id].offered}
  BY DEF engaged, EngagedIn
<1>3. X!Exists(id) /\ p \in X!HomesOf(id)
  BY <1>1, <1>2, NoneIsNoHome DEF X!Exists, X!Statuses, X!ActiveStatuses, X!HomesOf
<1>4. QED
  BY <1>1, <1>3 DEF TogetherInv, NoRequestWithoutHome

\* Requests come and go while no home does.
LEMMA ListingsWait ==
    ASSUME TogetherInv', UNCHANGED homeVars PROVE [L!ListingNext]_(L!listingVars)
<1>1. home' = home /\ UNCHANGED <<photo, L!history, work>>
  BY DEF homeVars, L!history
<1>2. CASE engaged' = engaged
  BY <1>1, <1>2 DEF L!listingVars
<1>3. CASE engaged' # engaged
  <2>1. \A p \in engaged' : p \in Properties /\ L!Exists(p)
    <3>1. EngagedThere'
      BY EngagedExist, PTL
    <3>2. QED
      BY <1>1, <3>1 DEF EngagedThere, L!Exists
  <2>2. PICK hs : hs = engaged'
    OBVIOUS
  <2>3. L!Engage(hs) /\ hs \in SUBSET Properties
    BY <1>1, <1>3, <2>1, <2>2 DEF L!Engage
  <2>4. QED
    BY <2>3 DEF L!ListingNext, L!Surroundings
<1>4. QED
  BY <1>2, <1>3

\* deleteUser takes the homes of one owner and what was about them.
LEMMA OwnersLeave ==
    ASSUME TogetherInv, TogetherInv', Photographed, NEW u \in Users, DeleteOwner(u)
    PROVE  [L!ListingNext]_(L!listingVars)
<1>1. PICK hs : hs = {p \in Properties : Owner[p] = u /\ L!Exists(p)}
  OBVIOUS
<1>2. /\ home' = [p \in Properties |-> IF p \in hs THEN L!Gone ELSE home[p]]
      /\ photo' = [f \in Photos |-> IF PhotoHome[f] \in hs THEN L!NoMorePhoto ELSE photo[f]]
      /\ UNCHANGED <<L!history, work>>
  BY <1>1 DEF DeleteOwner, L!history
<1>3. hs \in SUBSET Properties /\ \A p \in hs : L!Exists(p)
  BY <1>1
<1>4. CASE hs = {}
  <2>1. home' = home
    BY <1>2, <1>4 DEF TogetherInv, NamesHomes
  <2>2. photo' = photo
    BY <1>2, <1>4 DEF Photographed
  <2>3. UNCHANGED homeVars
    BY <1>2, <2>1, <2>2 DEF homeVars, L!history
  <2>4. QED
    BY <2>3, ListingsWait
<1>5. CASE hs # {}
  <2>1. /\ request' = [id \in Requests |-> IF id \in X!DeletionScope(u) THEN X!Deleted
                                                                        ELSE request[id]]
        /\ \A p \in hs : ~L!Exists(p)'
    BY <1>1, <1>2, NoHomeYet DEF DeleteOwner, X!DeleteUser, L!Exists, L!PropertyStatus
  <2>2. engaged' \subseteq engaged
    BY <2>1 DEF engaged, EngagedIn, X!Deleted
  <2>3. EngagedThere'
    BY EngagedExist, PTL
  <2>4. engaged' \in SUBSET (engaged \ hs)
    BY <2>1, <2>2, <2>3 DEF EngagedThere
  <2>5. hs \cap {p \in Properties : L!Exists(p)} # {}
    BY <1>3, <1>5
  <2>6. L!DeleteHomes(hs)
    BY <1>2, <2>4, <2>5 DEF L!DeleteHomes
  <2>7. QED
    BY <1>3, <2>6 DEF L!ListingNext, L!Surroundings
<1>6. QED
  BY <1>4, <1>5

LEMMA StepOfListings ==
    ASSUME TogetherInv, TogetherInv', Photographed, [Next]_vars
    PROVE  [L!ListingNext]_(L!listingVars)
<1>1. CASE ExchangeStep
  BY <1>1, ListingsWait DEF ExchangeStep
<1>2. CASE HomeStep
  BY <1>2 DEF HomeStep, L!ListingNext, L!OwnerOrModerator
<1>3. CASE UNCHANGED vars
  BY <1>3, ListingsWait DEF vars
<1>4. QED
  BY <1>1, <1>2, <1>3, OwnersLeave DEF Next

\* With the exchange service for environment the listings take no step that
\* Listings, where requests for a home come and go at will, does not allow.
THEOREM ListingsImplemented == Spec => ImplementsListings
<1>1. Init => L!Init
  BY DEF Init
<1>2. QED
  BY <1>1, TogetherInit, TogetherNext, PhotosInit, PhotosNext, StepOfListings, PTL
     DEF Spec, ImplementsListings, L!ListingSpec
=============================================================================
