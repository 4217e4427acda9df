------------------------------ MODULE Favourites ------------------------------
(***************************************************************************)
(* The hearts of one browser tab (client/src/features/favorites) over the  *)
(* rows of the server (server/src/favorites).                              *)
(*                                                                         *)
(* All hearts share one promise of the favourites' ids, kept over pages    *)
(* and sign-ins until some change is answered.  A reload begins anew.      *)
(***************************************************************************)
CONSTANTS
    Visitors,       \* users who sign in in this tab
    Nobody,         \* no user
    Cards,          \* homes shown with a heart
    Hosted,         \* pairs of a user and a home of his own
    IdsRequests,    \* bound: requests for the ids at a time
    Clicks          \* bound: changes under way at a time

ASSUME FavouritesAssumption ==
    Nobody \notin Visitors /\ Hosted \subseteq Visitors \X Cards

VARIABLES
    favourites,     \* Favorite rows
    visitor,        \* who is signed in
    place,          \* the page, and the homes it has a heart for
    hearts,         \* per home: favorite of its heart, the promise it awaits
    asked,          \* promises of ids, the one that is kept and those under way
    known,          \* favoriteIdsPromise: which of them, or NoPromise
    clicked,        \* PUT and DELETE requests, as far as they got
    authDialog,     \* the home whose heart opened the sign-in, or "closed"
    unsure,         \* history: hearts set from what may be out of date
    lost            \* history: homes with an answer lost since known was reset

favouritesVars == <<favourites, visitor, place, hearts, asked, known, clicked,
                    authDialog, unsure, lost>>

NoPromise == "null"
ASSUME NoPromiseIsNull == NoPromise \notin IdsRequests
Unasked == [stage |-> "unasked"]
Over == [stage |-> "over"]
Off == [on |-> FALSE, waits |-> NoPromise]
NoHearts == [c \in Cards |-> Off]

FavouritesInit ==
    /\ favourites \in SUBSET ((Visitors \X Cards) \ Hosted)
    /\ visitor \in Visitors \cup {Nobody}
    /\ place = [page |-> "elsewhere", cards |-> {}] /\ hearts = NoHearts
    /\ asked = [i \in IdsRequests |-> Unasked] /\ known = NoPromise
    /\ clicked = [i \in Clicks |-> Over]
    /\ authDialog = "closed" /\ unsure = {} /\ lost = {}

Ongoing(sent, c) == {i \in Clicks : sent[i] # Over /\ sent[i].card = c}
UnderWay(c) == Ongoing(clicked, c)
Pending(c) == \E i \in UnderWay(c) : clicked[i].own
IdsOf(rows, u) == {c \in Cards : <<u, c>> \in rows}

-----------------------------------------------------------------------------
(* The ids.                                                                *)

\* ids: the promise there is, or a new one.
AskIds(u) ==
    IF known # NoPromise THEN UNCHANGED <<asked, known>>
    ELSE \E i \in IdsRequests :
           /\ asked[i] = Unasked /\ known' = i
           /\ asked' = [asked EXCEPT ![i] = [of |-> u, stage |-> "sent", ids |-> {}]]

\* The effect of a heart: off for nobody, else as the promise says, at once if
\* it was answered.
Effect(u, c, now) ==
    IF u = Nobody THEN Off
    ELSE IF asked'[known'].stage = "answered"
         THEN [on |-> c \in asked'[known'].ids, waits |-> NoPromise]
         ELSE [on |-> now, waits |-> known']

\* What those hearts cannot know yet: a change under way, or whose answer was
\* lost, and what the promise of another user says.
Doubtful(u, cards) ==
    {c \in cards : u # Nobody /\ (Ongoing(clicked', c) # {} \/ c \in lost \/ asked'[known'].of # u)}

\* Every heart there is runs its effect.
Effects(u, cards, now) ==
    /\ IF u = Nobody \/ cards = {} THEN UNCHANGED <<asked, known>> ELSE AskIds(u)
    /\ hearts' = [c \in Cards |-> IF c \in cards THEN Effect(u, c, now[c].on) ELSE Off]
    /\ unsure' = Doubtful(u, cards)

ServeIds(i) ==
    /\ asked[i].stage = "sent"
    /\ asked' = [asked EXCEPT ![i].stage = "served",
                                ![i].ids = IdsOf(favourites, asked[i].of)]
    /\ UNCHANGED <<favourites, visitor, place, hearts, known, clicked, authDialog, unsure, lost>>

\* Nobody asks an answered promise that is not kept.
Kept(promises, k) ==
    [i \in IdsRequests |-> IF promises[i].stage = "answered" /\ i # k THEN Unasked ELSE promises[i]]

AnswerIds(i) ==
    /\ asked[i].stage = "served"
    /\ asked' = Kept([asked EXCEPT ![i].stage = "answered"], known)
    /\ hearts' = [c \in Cards |-> IF hearts[c].waits # i THEN hearts[c]
                                  ELSE [on |-> c \in asked[i].ids, waits |-> NoPromise]]
    /\ UNCHANGED <<favourites, visitor, place, known, clicked, authDialog, unsure, lost>>

\* Whichever promise fails, the one that is kept is forgotten.
IdsFail(i) ==
    /\ asked[i].stage \in {"sent", "served"} /\ known' = NoPromise
    /\ asked' = Kept([asked EXCEPT ![i] = Unasked], known')
    /\ lost' = {}
    /\ hearts' = [c \in Cards |-> IF hearts[c].waits # i THEN hearts[c]
                                  ELSE [hearts[c] EXCEPT !.waits = NoPromise]]
    /\ unsure' = unsure \cup {c \in Cards : hearts[c].waits = i}
    /\ UNCHANGED <<favourites, visitor, place, clicked, authDialog>>

-----------------------------------------------------------------------------
(* Pages and sign-ins.                                                     *)

\* Another page: its hearts are new, answers reach the old ones no more.
GoTo(page, cards) ==
    /\ authDialog = "closed" /\ place' = [page |-> page, cards |-> cards]
    /\ clicked' = [i \in Clicks |-> IF clicked[i] = Over THEN Over ELSE [clicked[i] EXCEPT !.own = FALSE]]
    /\ Effects(visitor, cards, NoHearts)
    /\ UNCHANGED <<favourites, visitor, authDialog, lost>>

Browse == place.page # "catalogue" /\ GoTo("catalogue", Cards)
LeaveHearts == place.page # "elsewhere" /\ GoTo("elsewhere", {})

\* FavoritesList: those of the user's favourites that are published.
ShowFavourites ==
    /\ place.page = "elsewhere" /\ visitor # Nobody
    /\ \E cards \in SUBSET IdsOf(favourites, visitor) : GoTo("favourites", cards)

SignOut ==
    /\ visitor # Nobody /\ visitor' = Nobody /\ UNCHANGED clicked
    /\ Effects(Nobody, place.cards, hearts)
    /\ UNCHANGED <<favourites, place, authDialog, lost>>

\* A heart of nobody's opens the sign-in.
OpenAuth(c) ==
    /\ visitor = Nobody /\ c \in place.cards /\ authDialog = "closed" /\ ~Pending(c)
    /\ authDialog' = c
    /\ UNCHANGED <<favourites, visitor, place, hearts, asked, known, clicked, unsure, lost>>

CloseAuth ==
    /\ authDialog # "closed" /\ authDialog' = "closed"
    /\ UNCHANGED <<favourites, visitor, place, hearts, asked, known, clicked, unsure, lost>>

Request(u, c, op) == [card |-> c, of |-> u, op |-> op, stage |-> "sent", own |-> TRUE,
                       alone |-> UnderWay(c) = {}]
SendChange(request) == \E i \in Clicks : clicked[i] = Over /\ clicked' = [clicked EXCEPT ![i] = request]

\* completeAuth: the hearts ask for the ids, and the one that opened the
\* sign-in adds its home.
SignIn(u) ==
    /\ visitor = Nobody /\ visitor' = u /\ authDialog' = "closed"
    /\ IF authDialog = "closed" THEN UNCHANGED clicked
       ELSE SendChange(Request(u, authDialog, "add"))
    /\ Effects(u, place.cards, hearts)
    /\ UNCHANGED <<favourites, place, lost>>

-----------------------------------------------------------------------------
(* A heart clicked, on the client and the server.                          *)

ToggleFavourite(c) ==
    /\ visitor # Nobody /\ c \in place.cards /\ ~Pending(c)
    /\ SendChange(Request(visitor, c, IF hearts[c].on THEN "remove" ELSE "add"))
    /\ unsure' = IF hearts[c].waits # NoPromise THEN unsure \cup {c} ELSE unsure
    /\ UNCHANGED <<favourites, visitor, place, hearts, asked, known, authDialog, lost>>

\* add of one's own home does nothing and says so.
ServeChange(i) ==
    LET key == <<clicked[i].of, clicked[i].card>> IN
    /\ clicked[i].stage = "sent" /\ clicked' = [clicked EXCEPT ![i].stage = "served"]
    /\ favourites' = IF clicked[i].op = "remove" \/ key \in Hosted
                     THEN favourites \ {key} ELSE favourites \cup {key}
    /\ UNCHANGED <<visitor, place, hearts, asked, known, authDialog, unsure, lost>>

\* Faulty variant: an answered change leaves the promise as it is.
StillKnown == known

\* What an answered change leaves of the promise.
Forgotten == NoPromise

AnswerChange(i) ==
    LET c == clicked[i].card
        on == clicked[i].op = "add" /\ <<clicked[i].of, c>> \notin Hosted
        goes == ~on /\ clicked[i].own /\ place.page = "favourites"
    IN
    /\ clicked[i].stage = "served" /\ clicked' = [clicked EXCEPT ![i] = Over]
    /\ known' = Forgotten /\ asked' = Kept(asked, known') /\ lost' = {}
    /\ hearts' = IF clicked[i].own THEN [hearts EXCEPT ![c] = IF goes THEN Off ELSE [@ EXCEPT !.on = on]]
                 ELSE hearts
    /\ place' = IF goes THEN [place EXCEPT !.cards = @ \ {c}] ELSE place
    /\ unsure' = IF clicked[i].own /\ clicked[i].of = visitor
                    /\ hearts[c].waits = NoPromise /\ clicked[i].alone
                 THEN unsure \ {c} ELSE unsure
    /\ UNCHANGED <<favourites, visitor, authDialog>>

\* Refused, for a home no longer published, or lost before or after it.
ChangeFails(i) ==
    /\ clicked[i].stage \in {"sent", "served"}
    /\ clicked' = [clicked EXCEPT ![i] = Over]
    /\ IF clicked[i].stage = "sent" THEN UNCHANGED <<unsure, lost>>
       ELSE /\ unsure' = unsure \cup {clicked[i].card}
            /\ lost' = IF known = NoPromise THEN lost ELSE lost \cup {clicked[i].card}
    /\ UNCHANGED <<favourites, visitor, place, hearts, asked, known, authDialog>>

FavouritesNext ==
    \/ \E i \in IdsRequests : ServeIds(i) \/ AnswerIds(i) \/ IdsFail(i)
    \/ Browse \/ LeaveHearts \/ ShowFavourites \/ SignOut \/ CloseAuth
    \/ \E u \in Visitors : SignIn(u)
    \/ \E c \in Cards : OpenAuth(c) \/ ToggleFavourite(c)
    \/ \E i \in Clicks : ServeChange(i) \/ AnswerChange(i) \/ ChangeFails(i)

FavouritesSpec == FavouritesInit /\ [][FavouritesNext]_favouritesVars

-----------------------------------------------------------------------------
(* Properties.                                                             *)

FavouritesTypeOK ==
    /\ favourites \subseteq Visitors \X Cards /\ visitor \in Visitors \cup {Nobody}
    /\ place.page \in {"catalogue", "favourites", "elsewhere"} /\ place.cards \subseteq Cards
    /\ hearts \in [Cards -> [on: BOOLEAN, waits: IdsRequests \cup {NoPromise}]]
    /\ known \in IdsRequests \cup {NoPromise} /\ (known \in IdsRequests => asked[known] # Unasked)
    /\ authDialog \in Cards \cup {"closed"} /\ unsure \cup lost \subseteq Cards

\* A heart that awaits nothing is full exactly where the home is a favourite of
\* the user signed in, over pages, sign-ins and answers in any order, except
\* where it was set before a change of the home was answered (or that answer
\* lost), or from the ids of the user signed in before.
HeartIsTrue ==
    \A c \in place.cards \ unsure :
        visitor # Nobody /\ hearts[c].waits = NoPromise /\ ~Pending(c) =>
            (hearts[c].on <=> <<visitor, c>> \in favourites)

\* What a user sees of his favourites is the same on all pages (FAV-01,
\* docs/local-manual-testing-plan.md:289).
HeartsInStep ==
    \A c \in place.cards :
        visitor # Nobody /\ hearts[c].waits = NoPromise /\ UnderWay(c) = {} =>
            (hearts[c].on <=> <<visitor, c>> \in favourites)
=============================================================================
