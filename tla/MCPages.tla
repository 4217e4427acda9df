------------------------------ MODULE MCPages -------------------------------
(***************************************************************************)
(* Six parts of the system that share no state, in one run: accounts and   *)
(* the administrator, a home's calendar, the chat with the bell, a         *)
(* profile, reviews, the hearts of a tab.  A behaviour is about one of     *)
(* them, the others stay as they are.                                      *)
(***************************************************************************)
EXTENDS Accounts, Calendar, Live, Profiles, Reviews, Favourites, TLC

VARIABLE about

CONSTANTS ann, bob, eve, a, b, y
With(guest, host) == [guest |-> guest, host |-> host]
TwoGuests == [s \in {a, b} |-> IF s = a THEN With(ann, bob) ELSE With(eve, bob)]
ThereAndBack == [s \in {a, b} |-> IF s = a THEN With(ann, bob) ELSE With(bob, ann)]
BobsHome == {<<bob, y>>}
BothWays == {TwoGuests, ThereAndBack}

vars == <<about, accountsVars, calendarVars, liveVars, profilesVars, reviewsVars,
          favouritesVars>>

PartsInit ==
    /\ about \in {"accounts", "calendar", "live", "profile", "reviews",
                 "favourites"}
    /\ AccountsInit /\ CalendarInit /\ LiveInit
    /\ about # "live" => looks = "bell"
    /\ ProfilesInit /\ ReviewsInit /\ FavouritesInit
    /\ about # "reviews" => booking = TwoGuests
    /\ about # "favourites" => favourites = {} /\ visitor = Nobody

PartsNext ==
    /\ UNCHANGED about
    /\ \/ /\ about = "accounts" /\ AccountsNext
          /\ UNCHANGED <<calendarVars, liveVars, profilesVars, reviewsVars, favouritesVars>>
       \/ /\ about = "calendar" /\ CalendarNext
          /\ UNCHANGED <<accountsVars, liveVars, profilesVars, reviewsVars, favouritesVars>>
       \/ /\ about = "live" /\ LiveNext
          /\ UNCHANGED <<accountsVars, calendarVars, profilesVars, reviewsVars, favouritesVars>>
       \/ /\ about = "profile" /\ ProfilesNext
          /\ UNCHANGED <<accountsVars, calendarVars, liveVars, reviewsVars, favouritesVars>>
       \/ /\ about = "reviews" /\ ReviewsNext
          /\ UNCHANGED <<accountsVars, calendarVars, liveVars, profilesVars, favouritesVars>>
       \/ /\ about = "favourites" /\ FavouritesNext
          /\ UNCHANGED <<accountsVars, calendarVars, liveVars, profilesVars, reviewsVars>>

PartsSpec == PartsInit /\ [][PartsNext]_vars

P(from, to, type, min, max, guests) ==
    [from |-> from, to |-> to, type |-> type, min |-> min, max |-> max, guests |-> guests]
SmallInputs == {P(1, 4, "BOTH", 1, 0, 2), P(1, 2, "POINTS", 1, 1, 1),
                P(3, 4, "ON_REQUEST", 1, 0, 2), P(3, 3, "UNAVAILABLE", 1, 0, 2),
                P(2, 4, "DIRECT", 2, 1, 2)}
SmallPatches == [from: {3}] \cup [to: {2}]
SmallHome == [points |-> TRUE, direct |-> FALSE, guests |-> 2]

Symmetry == Permutations(Requests) \cup Permutations(Periods)
=============================================================================
