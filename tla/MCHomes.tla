------------------------------ MODULE MCHomes -------------------------------
(***************************************************************************)
(* Two views of one home: the service with handlers of all kinds under    *)
(* way, and the wizard with which its owner edits it.  They share no      *)
(* state; a behaviour is about one of them.                                *)
(***************************************************************************)
EXTENDS Listings, Wizard, TLC

VARIABLE about

CONSTANTS house, p1
OnePhoto == p1 :> house

vars == <<about, listingVars, wizardVars>>

HomesInit == about \in {"service", "wizard"} /\ Init /\ WizardInit

HomesNext ==
    /\ UNCHANGED about
    /\ \/ about = "service" /\ ListingNext /\ UNCHANGED wizardVars
       \/ about = "wizard" /\ WizardNext /\ UNCHANGED listingVars

HomesSpec == HomesInit /\ [][HomesNext]_vars

Symmetry == Permutations(Calls) \cup Permutations(Saves)
=============================================================================
