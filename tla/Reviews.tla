------------------------------- MODULE Reviews -------------------------------
(***************************************************************************)
(* Reviews of completed exchanges and the ratings made of them             *)
(* (server/src/exchanges/exchange-reviews.service.ts, the deletion of a    *)
(* user, client/src/features/exchanges/ExchangeReviewDialog.tsx).          *)
(*                                                                         *)
(* Either side reviews the other once.  A rating is the mean of the        *)
(* reviews a user got in one role, to a tenth, written with each of them.  *)
(***************************************************************************)
EXTENDS Integers, FiniteSets, Sums

CONSTANTS
    Members,        \* users
    Stays,          \* exchange requests
    Bookings,       \* guest and host of each request: the ways explored
    Ratings         \* the general ratings given

ASSUME ReviewsAssumption ==
    /\ Ratings \subseteq 1..5
    /\ Bookings \subseteq [Stays -> [guest: Members, host: Members]]

VARIABLES
    booking,        \* guest and host of each request
    stay,           \* status of each request: going on, COMPLETED, or gone
    reviews,        \* ExchangeReview rows
    rating,         \* hostRating and guestRating of each profile, in tenths
    deleted,        \* users that are no more
    reviewPage,     \* per user: the dialog open and the reviews its list shows
    shrunk          \* history: ratings some of whose reviews were deleted since

reviewsVars == <<booking, stay, reviews, rating, deleted, reviewPage, shrunk>>

Roles == {"guest", "host"}
Unrated == 0
NoDialog == [of |-> "none"]

ReviewsInit ==
    /\ booking \in Bookings
    /\ stay = [s \in Stays |-> "CONFIRMED"] /\ reviews = {} /\ deleted = {} /\ shrunk = {}
    /\ rating = [u \in Members |-> [r \in Roles |-> Unrated]]
    /\ reviewPage = [u \in Members |-> [dialog |-> NoDialog, shown |-> {}]]

SidesOf(s) == {booking[s].guest, booking[s].host}
RoleIn(s, u) == IF u = booking[s].host THEN "host" ELSE "guest"
OtherSide(s, u) == IF u = booking[s].host THEN booking[s].guest ELSE booking[s].host

\* Faulty variant: what a user got as a guest counts for the host, too.
AveragedInAnyRole(rows, u, role) == {r \in rows : r.subject = u}

\* The rows aggregate takes the mean of.
Averaged(rows, u, role) == {r \in rows : r.subject = u /\ RoleIn(r.of, u) = role}

\* _avg of the ratings, as Decimal(2, 1) keeps it: rounded to the nearest tenth.
Mean(rows) ==
    LET total == SumOf([r \in rows |-> r.rating])  n == Cardinality(rows)
    IN (20 * total + n) \div (2 * n)

-----------------------------------------------------------------------------
(* The page.                                                               *)

Dialog(u) == reviewPage[u].dialog
SetDialog(u, d) == reviewPage' = [reviewPage EXCEPT ![u].dialog = d]

\* The list is loaded with the reviews each request has.
LoadRequests(u) ==
    /\ u \notin deleted /\ Dialog(u) = NoDialog
    /\ reviewPage' = [reviewPage EXCEPT ![u].shown = {r.of : r \in {q \in reviews : q.author = u}}]
    /\ UNCHANGED <<booking, stay, reviews, rating, deleted, shrunk>>

\* The button is there for completed requests without a review of one's own.
OpenReview(u, s) ==
    /\ u \notin deleted /\ Dialog(u) = NoDialog
    /\ stay[s] = "COMPLETED" /\ u \in SidesOf(s) /\ s \notin reviewPage[u].shown
    /\ SetDialog(u, [of |-> s, gives |-> Unrated])
    /\ UNCHANGED <<booking, stay, reviews, rating, deleted, shrunk>>

CloseReview(u) ==
    /\ Dialog(u) # NoDialog /\ Dialog(u).gives = Unrated
    /\ SetDialog(u, NoDialog)
    /\ UNCHANGED <<booking, stay, reviews, rating, deleted, shrunk>>

Publish(u, n) ==
    /\ Dialog(u) # NoDialog /\ Dialog(u).gives = Unrated
    /\ SetDialog(u, [of |-> Dialog(u).of, gives |-> n])
    /\ UNCHANGED <<booking, stay, reviews, rating, deleted, shrunk>>

\* An error, also an answer that is lost: the dialog stays, to try again.
ReviewFails(u) ==
    /\ Dialog(u) # NoDialog /\ Dialog(u).gives # Unrated
    /\ SetDialog(u, [of |-> Dialog(u).of, gives |-> Unrated])
    /\ UNCHANGED <<booking, stay, reviews, rating, deleted, shrunk>>

-----------------------------------------------------------------------------
(* The server.                                                             *)

\* create, serializable: a review by a side of a completed request, the only
\* one of its author, and the rating of its subject.
CreateReview(u) ==
    LET s == Dialog(u).of
        subject == OtherSide(s, u)
        role == RoleIn(s, subject)
        review == [of |-> s, author |-> u, subject |-> subject, rating |-> Dialog(u).gives]
        rows == Averaged(reviews \cup {review}, subject, role)
    IN
    /\ Dialog(u) # NoDialog /\ Dialog(u).gives # Unrated /\ u \notin deleted
    /\ stay[s] = "COMPLETED" /\ u \in SidesOf(s)
    /\ ~\E r \in reviews : r.of = s /\ r.author = u
    /\ reviews' = reviews \cup {review}
    /\ rating' = [rating EXCEPT ![subject][role] = Mean(rows)]
    /\ shrunk' = shrunk \ {<<subject, role>>}
    /\ \/ reviewPage' = [reviewPage EXCEPT ![u] =
              [dialog |-> NoDialog, shown |-> @.shown \cup {s}]]
       \/ SetDialog(u, [of |-> s, gives |-> Unrated])
    /\ UNCHANGED <<booking, stay, deleted>>

\* complete of exchanges.service.
CompleteStay(s) ==
    /\ stay[s] = "CONFIRMED" /\ stay' = [stay EXCEPT ![s] = "COMPLETED"]
    /\ UNCHANGED <<booking, reviews, rating, deleted, reviewPage, shrunk>>

\* deleteUser: the user's requests go with their reviews, of both sides; the
\* ratings of the others stay.
DeleteMember(u) ==
    LET lost == {r \in reviews : u \in SidesOf(r.of)} IN
    /\ u \notin deleted /\ deleted' = deleted \cup {u}
    /\ stay' = [s \in Stays |-> IF u \in SidesOf(s) THEN "gone" ELSE stay[s]]
    /\ reviews' = reviews \ lost
    /\ rating' = [rating EXCEPT ![u] = [r \in Roles |-> Unrated]]
    /\ shrunk' = (shrunk \cup {<<r.subject, RoleIn(r.of, r.subject)>> : r \in lost})
                 \ ({u} \X Roles)
    /\ UNCHANGED <<booking, reviewPage>>

ReviewsNext ==
    \/ \E u \in Members :
         \/ LoadRequests(u) \/ CloseReview(u) \/ ReviewFails(u) \/ CreateReview(u)
         \/ DeleteMember(u)
         \/ \E s \in Stays : OpenReview(u, s)
         \/ \E n \in Ratings : Publish(u, n)
    \/ \E s \in Stays : CompleteStay(s)

ReviewsSpec == ReviewsInit /\ [][ReviewsNext]_reviewsVars

-----------------------------------------------------------------------------
(* Properties.                                                             *)

ReviewRows == [of: Stays, author: Members, subject: Members, rating: 1..5]

ReviewsTypeOK ==
    /\ stay \in [Stays -> {"CONFIRMED", "COMPLETED", "gone"}]
    /\ reviews \subseteq ReviewRows
    /\ rating \in [Members -> [Roles -> Nat]]
    /\ deleted \subseteq Members /\ shrunk \subseteq Members \X Roles
    /\ reviewPage \in [Members ->
           [dialog: {NoDialog} \cup [of: Stays, gives: {Unrated} \cup 1..5],
            shown: SUBSET Stays]]

\* What a user was given in one role.
Given(u, role) == {r \in reviews : r.subject = u /\ RoleIn(r.of, u) = role}

\* Each rating is the mean of all reviews its user got in that role, to half a
\* tenth, whatever is retried and whoever is deleted in between, unless some of
\* them were deleted with their author and none came since.
RatingIsMean ==
    \A u \in Members, role \in Roles :
        LET rows == Given(u, role)
            off == 10 * SumOf([r \in rows |-> r.rating])
                   - Cardinality(rows) * rating[u][role]
        IN <<u, role>> \notin shrunk =>
             /\ rows = {} => rating[u][role] = Unrated
             /\ 2 * off \in -Cardinality(rows)..Cardinality(rows)
=============================================================================
