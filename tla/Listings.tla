------------------------------ MODULE Listings ------------------------------
(***************************************************************************)
(* The life cycle of a listing: the owner's handlers of                    *)
(* server/src/properties/properties.service.ts and the moderators' decide  *)
(* of moderation.service.ts.                                               *)
(*                                                                         *)
(* update, submit and archive read the row, await other statements and     *)
(* write later.  submit and archive write only while the status is still   *)
(* the one they read; update writes the status it computed from what it    *)
(* read whatever the row has become.  cancelSubmission, hide and restore   *)
(* read too, but all they decide is decided again by the condition of      *)
(* their update: one step each.                                            *)
(***************************************************************************)
EXTENDS Naturals, FiniteSets

CONSTANTS
    Homes,          \* ids of Property rows
    Photos,         \* ids of PropertyPhoto rows
    Calls,          \* invocations of update, submit and archive in flight
    PhotoHome,      \* PhotoHome[f]: the home whose photo f is or will be
    MaxEdits,       \* bound: how many texts a home goes through
    MaxSubmissions  \* bound: how often a home is submitted

ASSUME PhotoHomeType == PhotoHome \in [Photos -> Homes]
ASSUME ListingBounds == MaxEdits \in Nat /\ MaxSubmissions \in Nat

VARIABLES
    home,           \* Property rows: status, deletedAt and the text shown
    photo,          \* PropertyPhoto rows
    engaged,        \* homes with an active exchange request
    submitted,      \* ghost: the text each home had when last submitted
    reviewed,       \* ghost: its READY photos then
    submissions,    \* ghost: how often each home was submitted
    decisions,      \* ghost: how many verdicts were given on it
    work            \* per call: a handler between two of its awaits

history == <<submitted, reviewed, submissions, decisions>>
listingVars == <<home, photo, engaged, history, work>>

PropertyStatus == {"DRAFT", "PENDING_MODERATION", "PUBLISHED", "CHANGES_REQUESTED",
                   "REJECTED", "HIDDEN", "ARCHIVED"}
Submittable == {"DRAFT", "CHANGES_REQUESTED", "REJECTED"}
Verdicts == {"PUBLISHED", "CHANGES_REQUESTED", "REJECTED"}

PropertyRows == [status: PropertyStatus, deleted: BOOLEAN, text: 0..MaxEdits]
NoHome == [status |-> "NONE"]
Gone == [status |-> "GONE"]
Draft == [status |-> "DRAFT", deleted |-> FALSE, text |-> 0]

PhotoStates == {"PENDING_UPLOAD", "PROCESSING", "READY", "FAILED"}
\* stored: the bucket storageKey points into, the private one until processed.
PhotoRows == [state: PhotoStates, primary: BOOLEAN, stored: {"private", "public"}]
NoPhoto == [state |-> "NONE"]
NoMorePhoto == [state |-> "GONE"]

Idle == [pc |-> "idle"]
Works == [pc: {"update", "submit", "archiveCheck", "archive"}, home: Homes,
          seen: PropertyStatus]

Exists(h) == home[h].status \in PropertyStatus
StatusIs(h, s) == home[h].status = s

\* getMine: a deleted home is found only while it is ARCHIVED.
Mine(h) == Exists(h) /\ (home[h].deleted => StatusIs(h, "ARCHIVED"))

\* prepareContentEdit: no edits while moderators look at the home.
Editable(h) == Mine(h) /\ ~StatusIs(h, "PENDING_MODERATION")

\* Faulty variant: a published home stays published after an edit.
AfterEditStays(status) == status

\* statusAfterContentEdit: what was public goes back to DRAFT.
AfterContentEdit(status) ==
    IF status \in {"PUBLISHED", "HIDDEN"} THEN "DRAFT" ELSE status

PhotosOf(h) == {f \in Photos : PhotoHome[f] = h}
Ready(h) == {f \in PhotosOf(h) : photo[f].state = "READY"}

Processed(primary) == [state |-> "READY", stored |-> "public", primary |-> primary]

Init == /\ home = [h \in Homes |-> NoHome]
        /\ photo = [f \in Photos |-> NoPhoto]
        /\ engaged = {}
        /\ submitted = [h \in Homes |-> 0]
        /\ reviewed = [h \in Homes |-> {}]
        /\ submissions = [h \in Homes |-> 0]
        /\ decisions = [h \in Homes |-> 0]
        /\ work = [c \in Calls |-> Idle]

-----------------------------------------------------------------------------
(* The handlers' common parts.                                             *)

SetStatus(h, s) == home' = [home EXCEPT ![h].status = s]

\* Begin a handler that has read the row of h.
Begin(c, h, pc) ==
    /\ work[c] = Idle
    /\ work' = [work EXCEPT ![c] =
           [pc |-> pc, home |-> h, seen |-> home[h].status]]
    /\ UNCHANGED <<home, photo, engaged, history>>

End(c) == work' = [work EXCEPT ![c] = Idle]

\* Faulty variant: the status read is not part of the update's condition.
UnchangedNever(h, seen) == Exists(h)

\* changeStatus and submit: updateMany where the status is the one read.
StillAs(h, seen) == StatusIs(h, seen)

-----------------------------------------------------------------------------
(* The owner.                                                              *)

CreateDraft(h) ==
    /\ home[h] = NoHome
    /\ home' = [home EXCEPT ![h] = Draft]
    /\ UNCHANGED <<photo, engaged, history, work>>

UpdateRead(c, h) ==
    /\ Editable(h)
    /\ home[h].text < MaxEdits
    /\ Begin(c, h, "update")

\* update: the new text and the status computed from the row read before, in
\* one statement.
UpdateWrite(c) ==
    /\ work[c].pc = "update"
    /\ LET w == work[c] IN
       IF Exists(w.home)
       THEN /\ home[w.home].text < MaxEdits
            /\ home' = [home EXCEPT ![w.home].status = AfterContentEdit(w.seen),
                                    ![w.home].text = @ + 1]
       ELSE UNCHANGED home
    /\ End(c)
    /\ UNCHANGED <<photo, engaged, history>>

\* submit: the row is complete, that is, one of its photos is READY; the other
\* fields it asks for are taken to be filled in and the e-mail to be verified.
SubmitRead(c, h) ==
    /\ Mine(h) /\ home[h].status \in Submittable
    /\ Ready(h) # {}
    /\ Begin(c, h, "submit")

SubmitWrite(c) ==
    /\ work[c].pc = "submit"
    /\ LET h == work[c].home IN
       IF StillAs(h, work[c].seen)
       THEN /\ submissions[h] < MaxSubmissions
            /\ SetStatus(h, "PENDING_MODERATION")
            /\ submitted' = [submitted EXCEPT ![h] = home[h].text]
            /\ reviewed' = [reviewed EXCEPT ![h] = Ready(h)]
            /\ submissions' = [submissions EXCEPT ![h] = @ + 1]
       ELSE UNCHANGED <<home, submitted, reviewed, submissions>>
    /\ End(c)
    /\ UNCHANGED <<photo, engaged, decisions>>

\* archive: read, look for active requests, archive if the status is the same.
ArchiveRead(c, h) ==
    /\ Mine(h) /\ home[h].status \notin {"PENDING_MODERATION", "ARCHIVED"}
    /\ Begin(c, h, "archiveCheck")

ArchiveCheck(c) ==
    /\ work[c].pc = "archiveCheck"
    /\ IF work[c].home \in engaged THEN End(c)
       ELSE work' = [work EXCEPT ![c].pc = "archive"]
    /\ UNCHANGED <<home, photo, engaged, history>>

ArchiveWrite(c) ==
    /\ work[c].pc = "archive"
    /\ LET h == work[c].home IN
       home' = IF StillAs(h, work[c].seen)
               THEN [home EXCEPT ![h].status = "ARCHIVED", ![h].deleted = TRUE]
               ELSE home
    /\ End(c)
    /\ UNCHANGED <<photo, engaged, history>>

CancelSubmission(h) ==
    /\ Mine(h) /\ StatusIs(h, "PENDING_MODERATION")
    /\ SetStatus(h, "DRAFT")
    /\ UNCHANGED <<photo, engaged, history, work>>

Hide(h) ==
    /\ Mine(h) /\ StatusIs(h, "PUBLISHED")
    /\ SetStatus(h, "HIDDEN")
    /\ UNCHANGED <<photo, engaged, history, work>>

\* restore: a hidden home is public again, an archived one is a draft.
Restore(h) ==
    /\ Mine(h)
    /\ \/ StatusIs(h, "HIDDEN") /\ SetStatus(h, "PUBLISHED")
       \/ /\ StatusIs(h, "ARCHIVED")
          /\ home' = [home EXCEPT ![h].status = "DRAFT", ![h].deleted = FALSE]
    /\ UNCHANGED <<photo, engaged, history, work>>

-----------------------------------------------------------------------------
(* Moderators, exchange requests, deletion of the owner.                   *)

\* Faulty variant: a home decided on can be decided on again.
UndecidedOrPublished(h) ==
    Exists(h) /\ home[h].status \in {"PENDING_MODERATION", "PUBLISHED"}

\* Faulty variant: deletedAt is not looked at.
UndecidedEvenDeleted(h) == StatusIs(h, "PENDING_MODERATION")

\* What decide accepts: a home in the queue that is not deleted.
Undecided(h) == StatusIs(h, "PENDING_MODERATION") /\ ~home[h].deleted

\* decide, one serializable transaction.
Decide(h, verdict) ==
    /\ Undecided(h)
    /\ verdict = "PUBLISHED" => Ready(h) # {}
    /\ SetStatus(h, verdict)
    /\ decisions' = [decisions EXCEPT ![h] = @ + 1]
    /\ UNCHANGED <<photo, engaged, submitted, reviewed, submissions, work>>

\* The exchange service: which homes have an active request, decided some time
\* after it saw them published.
Engage(hs) ==
    /\ hs # engaged /\ \A h \in hs : Exists(h)
    /\ engaged' = hs
    /\ UNCHANGED <<home, photo, history, work>>

\* deleteUser deletes the owner's homes with their photos and requests.
DeleteHomes(hs) ==
    /\ hs \cap {h \in Homes : Exists(h)} # {}
    /\ home' = [h \in Homes |-> IF h \in hs THEN Gone ELSE home[h]]
    /\ photo' = [f \in Photos |-> IF PhotoHome[f] \in hs THEN NoMorePhoto ELSE photo[f]]
    /\ engaged' \in SUBSET (engaged \ hs)
    /\ UNCHANGED <<history, work>>

\* PropertyPhotosService.complete ends: one more photo is READY, whatever has
\* become of the status of its home.
PhotoReady(f) ==
    /\ photo[f] = NoPhoto /\ Exists(PhotoHome[f])
    /\ photo' = [photo EXCEPT ![f] = Processed(Ready(PhotoHome[f]) = {})]
    /\ UNCHANGED <<home, engaged, history, work>>

HandlerStart(c) ==
    \E h \in Homes : UpdateRead(c, h) \/ SubmitRead(c, h) \/ ArchiveRead(c, h)

HandlerContinue(c) ==
    UpdateWrite(c) \/ SubmitWrite(c) \/ ArchiveCheck(c) \/ ArchiveWrite(c)

OwnerOrModerator ==
    \/ \E h \in Homes : \/ CreateDraft(h) \/ CancelSubmission(h)
                        \/ Hide(h) \/ Restore(h)
                        \/ \E verdict \in Verdicts : Decide(h, verdict)
    \/ \E c \in Calls : HandlerStart(c) \/ HandlerContinue(c)

Surroundings == \E hs \in SUBSET Homes : Engage(hs) \/ DeleteHomes(hs)

ListingNext == OwnerOrModerator \/ Surroundings \/ \E f \in Photos : PhotoReady(f)

ListingSpec == Init /\ [][ListingNext]_listingVars

-----------------------------------------------------------------------------
(* Properties.                                                             *)

TypeOK ==
    /\ home \in [Homes -> PropertyRows \cup {NoHome, Gone}]
    /\ photo \in [Photos -> PhotoRows \cup {NoPhoto, NoMorePhoto}]
    /\ engaged \subseteq Homes
    /\ submitted \in [Homes -> 0..MaxEdits]
    /\ reviewed \in [Homes -> SUBSET Photos]
    /\ submissions \in [Homes -> 0..MaxSubmissions]
    /\ decisions \in [Homes -> 0..MaxSubmissions]
    /\ work \in [Calls -> Works \cup {Idle}]

\* The text in the moderation queue, in the catalogue or hidden from it is the
\* text the owner submitted: an update that read the row before submit, decide
\* or restore takes the home out of the catalogue when it writes.
TextAsSubmitted ==
    \A h \in Homes :
        home[h].status \in {"PENDING_MODERATION", "PUBLISHED", "HIDDEN"}
        => home[h].text = submitted[h]

\* Every decision is taken on a submission of its own, although two moderators
\* decide at once and owners withdraw, edit and submit again.
OneDecisionPerSubmission ==
    \A h \in Homes :
        decisions[h] + (IF StatusIs(h, "PENDING_MODERATION") THEN 1 ELSE 0)
            <= submissions[h]

\* A home enters the queue from a status it may be submitted in, whatever update,
\* decide and archive did since submit read it.
QueuedFromDraft ==
    [][\A h \in Homes :
           (StatusIs(h, "PENDING_MODERATION"))' /\ ~StatusIs(h, "PENDING_MODERATION")
           => home[h].status \in Submittable]_listingVars

\* No home with deletedAt set is in the catalogue or hidden from it, also when
\* archive and a stale update leave a deleted DRAFT that a submit still holds.
NothingDeletedIsPublic ==
    \A h \in Homes : home[h].status \in {"PUBLISHED", "HIDDEN"} => ~home[h].deleted

\* An archived home can be restored: getMine finds every home that archive
\* marked as deleted (docs/local-manual-testing-plan.md, LIFE-03).
ArchivedCanBeRestored == \A h \in Homes : Exists(h) => Mine(h)
=============================================================================
