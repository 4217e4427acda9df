-------------------------- MODULE ListingExchange ---------------------------
(***************************************************************************)
(* Listings and exchange requests together, over one database.  The        *)
(* exchange service asks whether a home is PUBLISHED, archive asks whether *)
(* a home has an active request, and deleteUser removes both.  Here what   *)
(* each of the two modules leaves to its environment is what the other     *)
(* one does: `published' and `engaged' are derived, not variables.         *)
(***************************************************************************)
EXTENDS Naturals, FiniteSets

CONSTANTS
    Users, Properties, Requests, Calls, Owner, Homes, Trips, Parties, Rates,
    Bonuses, Adjustments, Verifiers, LastDay, MaxAdjust, None,
    OwnerCalls,     \* the Calls of Listings
    Photos, PhotoHome, MaxEdits, MaxSubmissions

ASSUME OwnersAreUsers == Owner \in [Properties -> Users]
ASSUME NoneIsNoHome == None \notin Properties

VARIABLES
    today, userRow, available, reserved, completed, journal, adjusted, request,
    rate, inbox, draft, move,
    home, photo, submitted, reviewed, submissions, decisions, work

exchangeVars == <<today, userRow, available, reserved, completed, journal,
                  adjusted, request, rate, inbox, draft, move>>
homeVars == <<home, photo, submitted, reviewed, submissions, decisions, work>>

\* create: only homes with status PUBLISHED are found.
published == {p \in Properties : home[p].status = "PUBLISHED"}

\* Faulty variant: a home offered in exchange is not asked for.
EngagedAsTarget(requests) ==
    {p \in Properties : \E id \in Requests :
        /\ requests[id].status \in {"PENDING", "PREAPPROVED", "CONFIRMED"}
        /\ p = requests[id].target}

\* archive: the homes an active request is about.
EngagedIn(requests) ==
    {p \in Properties : \E id \in Requests :
        /\ requests[id].status \in {"PENDING", "PREAPPROVED", "CONFIRMED"}
        /\ p \in {requests[id].target, requests[id].offered}}

engaged == EngagedIn(request)

X == INSTANCE Exchanges
L == INSTANCE Listings WITH Homes <- Properties, Calls <- OwnerCalls

-----------------------------------------------------------------------------
Init == home = [p \in Properties |-> L!NoHome] /\ X!Init /\ L!Init

\* A step of the exchange service, of the ledger, of the clock or of the
\* calendar, that leaves the listings alone.
ExchangeStep ==
    /\ UNCHANGED homeVars
    /\ \/ X!NextDay
       \/ \E u \in Users : X!Register(u) \/ X!VerifyEmail(u)
       \/ \E u \in Users, amount \in Adjustments : X!Adjust(u, amount)
       \/ \E p \in Properties, points \in Rates : X!Reprice(p, points)
       \/ X!Settlement
       \/ \E c \in Calls : \/ X!CreateStart(c) \/ X!CreateContinue(c)
                           \/ X!MoveStart(c) \/ X!MoveContinue(c)

\* Faulty variant: rows of homes without their owner's.
OwnerUnchecked(p) == TRUE

\* Property.ownerId refers to a row.
OwnerThere(p) == X!Present(Owner[p])

\* A step of an owner or a moderator on one home, whose owner is there.
HomeStep ==
    /\ UNCHANGED exchangeVars
    /\ \/ \E p \in Properties :
              /\ OwnerThere(p)
              /\ \/ L!CreateDraft(p) \/ L!CancelSubmission(p)
                 \/ L!Hide(p) \/ L!Restore(p)
                 \/ \E verdict \in L!Verdicts : L!Decide(p, verdict)
       \/ \E f \in Photos : L!PhotoReady(f)
       \/ \E c \in OwnerCalls : L!HandlerStart(c) \/ L!HandlerContinue(c)

\* Faulty variant: the homes of the user are archived, not deleted.
DeleteOwnerKeepsHomes(u) ==
    /\ home' = [p \in Properties |-> IF Owner[p] = u /\ L!Exists(p)
                                     THEN [home[p] EXCEPT !.deleted = TRUE] ELSE home[p]]
    /\ UNCHANGED <<photo, submitted, reviewed, submissions, decisions, work>>
    /\ X!DeleteUser(u)

\* deleteUser: one serializable transaction over requests, points and homes.
DeleteOwner(u) ==
    LET theirs == {p \in Properties : Owner[p] = u /\ L!Exists(p)} IN
    /\ home' = [p \in Properties |-> IF p \in theirs THEN L!Gone ELSE home[p]]
    /\ photo' = [f \in Photos |-> IF PhotoHome[f] \in theirs THEN L!NoMorePhoto
                                                             ELSE photo[f]]
    /\ UNCHANGED <<submitted, reviewed, submissions, decisions, work>>
    /\ X!DeleteUser(u)

Next == ExchangeStep \/ HomeStep \/ \E u \in Users : DeleteOwner(u)

vars == <<exchangeVars, homeVars>>
Spec == Init /\ [][Next]_vars

-----------------------------------------------------------------------------
(* Properties.                                                             *)

\* With the real listings for environment the exchange service takes no step
\* that its own module, which lets a home come and go at will, does not allow.
ImplementsExchanges == X!Spec

\* And the listings no step that Listings, which lets requests come and go at
\* will, does not allow.
ImplementsListings == L!ListingSpec

\* Every request is about homes that exist, although create saw them long
\* before it inserted the row and deleteUser may have run in between.
NoRequestWithoutHome ==
    \A id \in Requests : X!Exists(id) => \A p \in X!HomesOf(id) : L!Exists(p)

\* No home is archived while a request for it is active
\* (docs/local-manual-testing-plan.md, LIFE-03).
NoActiveRequestInArchive ==
    \A p \in engaged : home[p].status # "ARCHIVED"
=============================================================================
