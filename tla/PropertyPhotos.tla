--------------------------- MODULE PropertyPhotos ---------------------------
(***************************************************************************)
(* The photos of a listing: server/src/properties/property-photos.service.ts *)
(* with the two buckets of files.service.ts, next to the listing's own     *)
(* handlers.                                                               *)
(*                                                                         *)
(* Every handler has the same beginning (prepareContentEdit, a read,       *)
(* markContentChanged) and then works on rows and objects one await at a   *)
(* time, while the listing is submitted, decided on, archived or deleted.  *)
(* The order of the photos matters only to which one remove promotes: any. *)
(***************************************************************************)
EXTENDS Listings

CONSTANTS
    Jobs,       \* invocations of the photo handlers in flight
    MaxPhotos   \* how many photos a home may have

ASSUME MaxPhotosPositive == MaxPhotos \in Nat \ {0}

VARIABLES
    uploads,    \* the private bucket: photos whose uploaded file is there
    images,     \* the public bucket: photos whose processed image is there
    jobs        \* per job: a photo handler between two of its awaits

storeVars == <<uploads, images>>
photoVars == <<listingVars, storeVars, jobs>>

Kinds == {"createUpload", "complete", "reorder", "setPrimary", "remove"}
Stages == {"read", "mark", "markWrite", "act", "processing", "file", "put",
           "count", "ready", "cleanUp", "failed", "objects", "next", "promote"}

NoJob == [kind |-> "none"]
JobRows == [kind: Kinds, pc: Stages, photo: Photos, row: PhotoRows \cup {NoPhoto},
            seen: PropertyStatus, first: BOOLEAN]

Rows(h) == {f \in PhotosOf(h) : photo[f].state \in PhotoStates}
Stored(f) == photo[f].state \in PhotoStates

PhotosInit == Init /\ uploads = {} /\ images = {} /\ jobs = [j \in Jobs |-> NoJob]

-----------------------------------------------------------------------------
(* The stages of a handler.                                                *)

At(j, kind, pc) == jobs[j] # NoJob /\ jobs[j].kind = kind /\ jobs[j].pc = pc
HomeOf(j) == PhotoHome[jobs[j].photo]

Go(j, pc) == jobs' = [jobs EXCEPT ![j].pc = pc]
Leave(j) == jobs' = [jobs EXCEPT ![j] = NoJob]

\* One of the listing's own steps.
Listing(A) == A /\ UNCHANGED <<storeVars, jobs>>

\* A handler starts with prepareContentEdit.  The id of a new photo is its own.
Start(j, f, kind) ==
    /\ jobs[j] = NoJob
    /\ Editable(PhotoHome[f])
    /\ kind = "createUpload" =>
           /\ photo[f] = NoPhoto
           /\ \A i \in Jobs \ {j} :
                  jobs[i] # NoJob /\ jobs[i].kind = kind => jobs[i].photo # f
    /\ kind \in {"complete", "setPrimary", "remove"} => photo[f] # NoPhoto
    /\ jobs' = [jobs EXCEPT ![j] =
           [kind |-> kind, pc |-> "read", photo |-> f, row |-> NoPhoto,
            seen |-> "DRAFT", first |-> FALSE]]
    /\ UNCHANGED <<listingVars, storeVars>>

\* What the handler asks of the row it reads: getPhoto and the checks after it.
Accepts(kind, f) ==
    CASE kind = "complete"     -> Stored(f) /\ photo[f].state # "READY"
      [] kind = "setPrimary"   -> Stored(f) /\ photo[f].state = "READY"
      [] kind = "remove"       -> Stored(f)
      [] kind = "createUpload" -> Cardinality(Rows(PhotoHome[f])) < MaxPhotos
      [] kind = "reorder"      -> TRUE

Read(j) ==
    /\ jobs[j] # NoJob /\ jobs[j].pc = "read"
    /\ LET f == jobs[j].photo IN
       IF Accepts(jobs[j].kind, f)
       THEN jobs' = [jobs EXCEPT ![j].pc = "mark",
                         ![j].row = IF Stored(f) THEN photo[f] ELSE NoPhoto,
                         ![j].first = Rows(PhotoHome[f]) = {}]
       ELSE Leave(j)
    /\ UNCHANGED <<listingVars, storeVars>>

\* markContentChanged writes only a status that changes.
MarkNeeded(status) == AfterContentEdit(status) # status

MarkRead(j) ==
    /\ jobs[j] # NoJob /\ jobs[j].pc = "mark"
    /\ LET h == HomeOf(j) IN
       IF ~Editable(h) THEN Leave(j)
       ELSE IF MarkNeeded(home[h].status)
            THEN jobs' = [jobs EXCEPT ![j].pc = "markWrite", ![j].seen = home[h].status]
            ELSE Go(j, "act")
    /\ UNCHANGED <<listingVars, storeVars>>

MarkWrite(j) ==
    /\ jobs[j] # NoJob /\ jobs[j].pc = "markWrite"
    /\ IF Exists(HomeOf(j))
       THEN SetStatus(HomeOf(j), AfterContentEdit(jobs[j].seen)) /\ Go(j, "act")
       ELSE UNCHANGED home /\ Leave(j)
    /\ UNCHANGED <<photo, engaged, history, work, storeVars>>

\* A step on the photo rows, or on the objects, and nothing else.
OnlyRows == UNCHANGED <<home, engaged, history, work, storeVars>>
OnlyObjects == UNCHANGED listingVars

-----------------------------------------------------------------------------
(* The short handlers.                                                     *)

\* createUpload: the row; the first photo of the home is the primary one.
CreateRow(j) ==
    /\ At(j, "createUpload", "act")
    /\ photo' = IF Exists(HomeOf(j))
                THEN [photo EXCEPT ![jobs[j].photo] =
                         [state |-> "PENDING_UPLOAD", stored |-> "private",
                          primary |-> jobs[j].first]]
                ELSE photo
    /\ Leave(j) /\ OnlyRows

\* The client sends the file with the signed URL, as often as it likes.
Upload(f) ==
    /\ photo[f] # NoPhoto
    /\ uploads' = uploads \cup {f}
    /\ UNCHANGED <<listingVars, images, jobs>>

\* reorder: only the order, which is not modelled.
Reorder(j) == At(j, "reorder", "act") /\ Leave(j) /\ UNCHANGED photo /\ OnlyRows

\* setPrimary: all flags cleared and one set, or nothing if the photo is gone.
SetPrimary(j) ==
    /\ At(j, "setPrimary", "act")
    /\ LET f == jobs[j].photo IN
       photo' = [g \in Photos |->
           IF Stored(f) /\ g \in Rows(HomeOf(j))
           THEN [photo[g] EXCEPT !.primary = g = f] ELSE photo[g]]
    /\ Leave(j) /\ OnlyRows

-----------------------------------------------------------------------------
(* complete.                                                               *)

\* The uploaded file is looked up under the key that was read.
Uploaded(j) == jobs[j].row.stored = "private" /\ jobs[j].photo \in uploads

\* head: the file is there, and its size and type are accepted or not.
Head(j) ==
    /\ At(j, "complete", "act")
    /\ Go(j, "failed") \/ (Uploaded(j) /\ Go(j, "processing"))
    /\ OnlyObjects /\ UNCHANGED storeVars

Processing(j) ==
    /\ At(j, "complete", "processing")
    /\ IF Stored(jobs[j].photo)
       THEN photo' = [photo EXCEPT ![jobs[j].photo].state = "PROCESSING"] /\ Go(j, "file")
       ELSE UNCHANGED photo /\ Go(j, "failed")
    /\ OnlyRows

\* read and convert the file; either may fail.
Convert(j) ==
    /\ At(j, "complete", "file")
    /\ Go(j, "failed") \/ (Uploaded(j) /\ Go(j, "put"))
    /\ OnlyObjects /\ UNCHANGED storeVars

\* Faulty variant: the failure of put is not awaited.
PutNotAwaited(j) ==
    /\ At(j, "complete", "put")
    /\ images' \in {images, images \cup {jobs[j].photo}} /\ Go(j, "count")
    /\ OnlyObjects /\ UNCHANGED uploads

PutImages(j) ==
    /\ At(j, "complete", "put")
    /\ \/ images' = images \cup {jobs[j].photo} /\ Go(j, "count")
       \/ UNCHANGED images /\ Go(j, "failed")
    /\ OnlyObjects /\ UNCHANGED uploads

\* Faulty variant: photos that are not READY count as well.
CountAnyPrimaries(j) ==
    /\ At(j, "complete", "count")
    /\ jobs' = [jobs EXCEPT ![j].pc = "ready",
                    ![j].first = \A g \in Rows(HomeOf(j)) : ~photo[g].primary]
    /\ OnlyObjects /\ UNCHANGED storeVars

CountPrimaries(j) ==
    /\ At(j, "complete", "count")
    /\ jobs' = [jobs EXCEPT ![j].pc = "ready",
                    ![j].first = \A g \in Ready(HomeOf(j)) : ~photo[g].primary]
    /\ OnlyObjects /\ UNCHANGED storeVars

SetReady(j) ==
    /\ At(j, "complete", "ready")
    /\ LET f == jobs[j].photo
           first == jobs[j].first IN
       IF Stored(f)
       THEN /\ photo' = [g \in Photos |->
                   IF g = f THEN Processed(first)
                   ELSE IF first /\ g \in Rows(HomeOf(j))
                        THEN [photo[g] EXCEPT !.primary = FALSE] ELSE photo[g]]
            /\ Go(j, "cleanUp")
       ELSE UNCHANGED photo /\ Go(j, "failed")
    /\ OnlyRows

\* The uploaded file is deleted; a failure here is caught like any other.
CleanUp(j) ==
    /\ At(j, "complete", "cleanUp")
    /\ \/ uploads' = uploads \ {jobs[j].photo} /\ Leave(j)
       \/ UNCHANGED uploads /\ Go(j, "failed")
    /\ OnlyObjects /\ UNCHANGED images

\* Faulty variant: the failure is reported and not stored.
FailUnrecorded(j) == At(j, "complete", "failed") /\ Leave(j) /\ UNCHANGED photo /\ OnlyRows

\* catch: the photo is FAILED, or gone.
Fail(j) ==
    /\ At(j, "complete", "failed")
    /\ photo' = IF Stored(jobs[j].photo)
                THEN [photo EXCEPT ![jobs[j].photo].state = "FAILED"] ELSE photo
    /\ Leave(j) /\ OnlyRows

-----------------------------------------------------------------------------
(* remove.                                                                 *)

DeleteRow(j) ==
    /\ At(j, "remove", "act")
    /\ IF Stored(jobs[j].photo)
       THEN photo' = [photo EXCEPT ![jobs[j].photo] = NoMorePhoto] /\ Go(j, "objects")
       ELSE UNCHANGED photo /\ Leave(j)
    /\ OnlyRows

\* The objects the row read named; failures to delete them are ignored.
DeleteObjects(j) ==
    /\ At(j, "remove", "objects")
    /\ LET f == jobs[j].photo
           row == jobs[j].row IN
       /\ images' \in {images, IF row.state = "READY" THEN images \ {f} ELSE images}
       /\ uploads' \in {uploads, IF row.state # "READY" /\ row.stored = "private"
                                 THEN uploads \ {f} ELSE uploads}
       /\ IF row.primary THEN Go(j, "next") ELSE Leave(j)
    /\ OnlyObjects

FindNext(j) ==
    /\ At(j, "remove", "next")
    /\ IF Ready(HomeOf(j)) = {} THEN Leave(j)
       ELSE \E g \in Ready(HomeOf(j)) :
                jobs' = [jobs EXCEPT ![j].pc = "promote", ![j].photo = g]
    /\ OnlyObjects /\ UNCHANGED storeVars

Promote(j) ==
    /\ At(j, "remove", "promote")
    /\ photo' = IF Stored(jobs[j].photo)
                THEN [photo EXCEPT ![jobs[j].photo].primary = TRUE] ELSE photo
    /\ Leave(j) /\ OnlyRows

\* deleteUser, after its transaction: the objects it listed, or some of them.
Purge(h) ==
    /\ home[h] = Gone
    /\ images' \in {images, images \ PhotosOf(h)}
    /\ uploads' \in {uploads, uploads \ PhotosOf(h)}
    /\ UNCHANGED <<listingVars, jobs>>

JobContinue(j) ==
    \/ Read(j) \/ MarkRead(j) \/ MarkWrite(j)
    \/ CreateRow(j) \/ Reorder(j) \/ SetPrimary(j)
    \/ Head(j) \/ Processing(j) \/ Convert(j) \/ PutImages(j)
    \/ CountPrimaries(j) \/ SetReady(j) \/ CleanUp(j) \/ Fail(j)
    \/ DeleteRow(j) \/ DeleteObjects(j) \/ FindNext(j) \/ Promote(j)

PhotosNext ==
    \/ Listing(OwnerOrModerator \/ Surroundings)
    \/ \E f \in Photos : Upload(f)
    \/ \E h \in Homes : Purge(h)
    \/ \E j \in Jobs :
           \/ JobContinue(j)
           \/ \E f \in Photos, kind \in Kinds : Start(j, f, kind)

PhotosSpec == PhotosInit /\ [][PhotosNext]_photoVars

\* A handler whose statement or S3 call returned or failed is resumed.
FairPhotosSpec == PhotosSpec /\ \A j \in Jobs : WF_photoVars(JobContinue(j))

-----------------------------------------------------------------------------
(* Properties.                                                             *)

PhotosTypeOK ==
    /\ TypeOK
    /\ uploads \subseteq Photos /\ images \subseteq Photos
    /\ jobs \in [Jobs -> JobRows \cup {NoJob}]

\* What is shown as READY has its image in the public bucket, through repeated
\* completions and removals that fail half way.
ReadyHasImage == \A f \in Photos : photo[f].state = "READY" => f \in images

\* A home has one photo for its cards, where handlers do not overlap: at most one
\* of its rows is primary, and one of its READY ones is, but for a removal that
\* has yet to promote one.  Deleted homes, failed conversions and repeated
\* completions included.
Alone == \A i, j \in Jobs : i = j
Promoting(h) ==
    \E j \in Jobs : /\ jobs[j] # NoJob /\ jobs[j].kind = "remove" /\ HomeOf(j) = h
                    /\ jobs[j].pc \in {"objects", "next", "promote"}
OnePrimary ==
    Alone =>
        \A h \in Homes :
            /\ \A f, g \in Rows(h) : photo[f].primary /\ photo[g].primary => f = g
            /\ Ready(h) # {} => (\E f \in Ready(h) : photo[f].primary) \/ Promoting(h)

\* However handlers overlap, a home gets a second photo for its cards only where a
\* removal promotes one, since it does not look whether another has become primary
\* after it had deleted the primary row.
Heads(f) == photo[f].state = "READY" /\ photo[f].primary
SecondIsPromoted ==
    [][\A f, g \in Photos :
           f # g /\ PhotoHome[f] = PhotoHome[g] /\ Heads(f)' /\ Heads(g)'
           => (Heads(f) /\ Heads(g)) \/ \E j \in Jobs : Promote(j)]_photoVars

\* A photo that is PROCESSING has a completion in flight that is to make it READY or
\* FAILED, whichever others fail and whatever is removed meanwhile: the handler has
\* no path out of it that leaves the row as it is.
Ending == {"file", "put", "count", "ready", "failed"}
Settles(w, f) == w # NoJob /\ w.kind = "complete" /\ w.photo = f /\ w.pc \in Ending
ProcessingIsHandled ==
    \A f \in Photos : photo[f].state = "PROCESSING" => \E j \in Jobs : Settles(jobs[j], f)

\* No photo is left PROCESSING: some handler ends it, whatever failed.
PhotoSettles ==
    \A f \in Photos : photo[f].state = "PROCESSING" ~> photo[f].state # "PROCESSING"

\* The photos of a home in the catalogue are photos it had when it was submitted
\* (docs/local-manual-testing-plan.md, LIFE-02).
ShownPhotosReviewed ==
    \A h \in Homes : StatusIs(h, "PUBLISHED") => Ready(h) \subseteq reviewed[h]

\* A photo that was processed stays processed until it is removed
\* (docs/local-manual-testing-plan.md, HOME-02).
ReadyStaysReady ==
    [][\A f \in Photos : photo[f].state = "READY"
                         => photo'[f].state \in {"READY", "GONE"}]_photoVars
=============================================================================
