--------------------------- MODULE ListingsProofs ---------------------------
(***************************************************************************)
(* Theorems about Listings for any homes, photos and handlers in flight,   *)
(* and about PropertyPhotos, which puts the photo handlers next to them.   *)
(***************************************************************************)
EXTENDS PropertyPhotos, TLAPS

\* What a handler read stays what its guard asked for.
SeenWhenRead ==
    \A c \in Calls :
        /\ work[c].pc = "update" => work[c].seen # "PENDING_MODERATION"
        /\ work[c].pc = "submit" => work[c].seen \in Submittable

\* The inductive invariant: the text and the decisions are right because every
\* write is either conditional on the status or takes the home out of the
\* catalogue, which SeenWhenRead says of the unconditional one.
ListingInv == /\ TypeOK /\ SeenWhenRead
              /\ TextAsSubmitted /\ OneDecisionPerSubmission
              /\ NothingDeletedIsPublic

USE DEF PropertyStatus, Submittable, Verdicts

LEMMA RowOfHome ==
    ASSUME TypeOK, NEW h \in Homes, Exists(h)
    PROVE  /\ home[h] \in PropertyRows
           /\ home[h] = [status |-> home[h].status, deleted |-> home[h].deleted,
                         text |-> home[h].text]
BY DEF TypeOK, Exists, NoHome, Gone, PropertyRows

LEMMA WorkRow ==
    ASSUME TypeOK, NEW c \in Calls, work[c].pc # "idle"
    PROVE  work[c] \in Works
BY DEF TypeOK, Idle

LEMMA ListingInit == Init => ListingInv
BY ListingBounds DEF Init, ListingInv, TypeOK, SeenWhenRead, TextAsSubmitted,
   OneDecisionPerSubmission, NothingDeletedIsPublic, NoHome, NoPhoto, Idle, StatusIs

-----------------------------------------------------------------------------
(* One lemma for the steps that change the status of one home.  Every action *)
(* below that writes a row is shown to be such a step.                     *)

\* The row of h becomes `row', which fits the ghosts of the next state.
LEMMA RowChange ==
    ASSUME ListingInv, NEW h \in Homes, NEW row \in PropertyRows,
           home' = [home EXCEPT ![h] = row],
           photo' = photo, engaged' = engaged,
           submitted' \in [Homes -> 0..MaxEdits],
           reviewed' \in [Homes -> SUBSET Photos],
           submissions' \in [Homes -> 0..MaxSubmissions],
           decisions' \in [Homes -> Nat],
           \A g \in Homes \ {h} : /\ submitted'[g] = submitted[g]
                                  /\ submissions'[g] = submissions[g]
                                  /\ decisions'[g] = decisions[g],
           row.status \in {"PENDING_MODERATION", "PUBLISHED", "HIDDEN"}
               => row.text = submitted'[h],
           decisions'[h] + (IF row.status = "PENDING_MODERATION" THEN 1 ELSE 0)
               <= submissions'[h],
           row.status \in {"PUBLISHED", "HIDDEN"} => ~row.deleted
    PROVE  /\ home' \in [Homes -> PropertyRows \cup {NoHome, Gone}]
           /\ decisions' \in [Homes -> 0..MaxSubmissions]
           /\ TextAsSubmitted' /\ OneDecisionPerSubmission'
           /\ NothingDeletedIsPublic'
<1> USE DEF ListingInv, TypeOK
<1>1. home' \in [Homes -> PropertyRows \cup {NoHome, Gone}]
  OBVIOUS
<1>2. home'[h] = row /\ \A g \in Homes \ {h} : home'[g] = home[g]
  OBVIOUS
<1>3. TextAsSubmitted'
  BY <1>2 DEF TextAsSubmitted
<1>4. OneDecisionPerSubmission'
  BY <1>2 DEF OneDecisionPerSubmission, StatusIs
<1>5. NothingDeletedIsPublic'
  BY <1>2 DEF NothingDeletedIsPublic
<1>6. \A g \in Homes : decisions'[g] \in 0..MaxSubmissions
  <2> TAKE g \in Homes
  <2>1. /\ decisions'[g] \in Nat /\ submissions'[g] \in 0..MaxSubmissions
        /\ decisions'[g] + (IF (StatusIs(g, "PENDING_MODERATION"))' THEN 1 ELSE 0)
               <= submissions'[g]
    BY <1>4 DEF OneDecisionPerSubmission
  <2> QED
    BY <2>1, ListingBounds
<1> QED
  BY <1>1, <1>3, <1>4, <1>5, <1>6

\* The same when only the row changes, and not into the queue.
LEMMA StatusChange ==
    ASSUME ListingInv, NEW h \in Homes, NEW row \in PropertyRows,
           home' = [home EXCEPT ![h] = row],
           UNCHANGED <<photo, engaged, history>>,
           row.status # "PENDING_MODERATION",
           row.status \in {"PUBLISHED", "HIDDEN"}
               => row.text = submitted[h] /\ ~row.deleted
    PROVE  /\ home' \in [Homes -> PropertyRows \cup {NoHome, Gone}]
           /\ decisions' \in [Homes -> 0..MaxSubmissions]
           /\ TextAsSubmitted' /\ OneDecisionPerSubmission'
           /\ NothingDeletedIsPublic'
<1>1. decisions[h] \in Nat /\ submissions[h] \in Nat /\ decisions[h] <= submissions[h]
  BY ListingBounds DEF ListingInv, TypeOK, OneDecisionPerSubmission
<1>2. /\ photo' = photo /\ engaged' = engaged /\ submitted' = submitted
      /\ reviewed' = reviewed /\ submissions' = submissions /\ decisions' = decisions
  BY DEF history
<1>3. /\ submitted' \in [Homes -> 0..MaxEdits] /\ reviewed' \in [Homes -> SUBSET Photos]
      /\ submissions' \in [Homes -> 0..MaxSubmissions] /\ decisions' \in [Homes -> Nat]
  BY <1>2 DEF ListingInv, TypeOK
<1>4. decisions'[h] + (IF row.status = "PENDING_MODERATION" THEN 1 ELSE 0)
          <= submissions'[h]
  BY <1>1, <1>2
<1> QED
  BY <1>2, <1>3, <1>4, RowChange

\* A step that leaves the rows of homes alone.
LEMMA NoHomeChange ==
    ASSUME ListingInv, UNCHANGED <<home, history>>
    PROVE  /\ home' \in [Homes -> PropertyRows \cup {NoHome, Gone}]
           /\ decisions' \in [Homes -> 0..MaxSubmissions]
           /\ TextAsSubmitted' /\ OneDecisionPerSubmission'
           /\ NothingDeletedIsPublic'
BY DEF ListingInv, TypeOK, history, TextAsSubmitted, OneDecisionPerSubmission,
   NothingDeletedIsPublic, StatusIs

-----------------------------------------------------------------------------
(* The steps.                                                              *)

\* What a step on one home, or on none, leaves to be said of the other parts.
ElseTyped == /\ photo' \in [Photos -> PhotoRows \cup {NoPhoto, NoMorePhoto}]
             /\ engaged' \subseteq Homes
             /\ submitted' \in [Homes -> 0..MaxEdits]
             /\ reviewed' \in [Homes -> SUBSET Photos]
             /\ submissions' \in [Homes -> 0..MaxSubmissions]
             /\ work' \in [Calls -> Works \cup {Idle}]
             /\ SeenWhenRead'

LEMMA SameElse ==
    ASSUME ListingInv, UNCHANGED <<photo, engaged, submitted, reviewed, submissions, work>>
    PROVE  ElseTyped
BY DEF ListingInv, TypeOK, SeenWhenRead, ElseTyped

LEMMA EndWork ==
    ASSUME ListingInv, NEW c \in Calls, End(c)
    PROVE  work' \in [Calls -> Works \cup {Idle}] /\ SeenWhenRead'
BY DEF ListingInv, TypeOK, SeenWhenRead, End, Idle

LEMMA BeginWork ==
    ASSUME ListingInv, NEW c \in Calls, NEW h \in Homes, Exists(h),
           NEW pc \in {"update", "submit", "archiveCheck"}, Begin(c, h, pc),
           pc = "update" => home[h].status # "PENDING_MODERATION",
           pc = "submit" => home[h].status \in Submittable
    PROVE  ListingInv'
<1> DEFINE w == [pc |-> pc, home |-> h, seen |-> home[h].status]
<1>1. w \in Works
  BY DEF Exists, Works
<1>2. work' = [work EXCEPT ![c] = w]
  BY DEF Begin
<1>3. work' \in [Calls -> Works \cup {Idle}]
  BY <1>1, <1>2 DEF ListingInv, TypeOK
<1>4. SeenWhenRead'
  BY <1>2 DEF ListingInv, TypeOK, SeenWhenRead
<1>5. UNCHANGED <<home, photo, engaged, history>>
  BY DEF Begin
<1> QED
  BY <1>3, <1>4, <1>5, NoHomeChange DEF ListingInv, TypeOK, history

LEMMA OwnerStep ==
    ASSUME ListingInv, NEW h \in Homes,
           \/ CreateDraft(h) \/ CancelSubmission(h) \/ Hide(h) \/ Restore(h)
           \/ \E verdict \in Verdicts : Decide(h, verdict)
    PROVE  ListingInv'
<1> USE DEF ListingInv
<1>1. CASE CreateDraft(h)
  <2>1. Draft \in PropertyRows
    BY ListingBounds DEF Draft, PropertyRows
  <2>2. UNCHANGED <<photo, engaged, history>> /\ home' = [home EXCEPT ![h] = Draft]
    BY <1>1 DEF CreateDraft
  <2>3. Draft.status = "DRAFT"
    BY DEF Draft
  <2> QED
    BY <2>1, <2>2, <2>3, <1>1, StatusChange, SameElse
       DEF CreateDraft, ElseTyped, TypeOK, history
<1>2. CASE CancelSubmission(h)
  <2> DEFINE row == [home[h] EXCEPT !.status = "DRAFT"]
  <2>1. row \in PropertyRows /\ row.status = "DRAFT"
    BY <1>2, RowOfHome DEF CancelSubmission, Mine, PropertyRows
  <2>2. UNCHANGED <<photo, engaged, history>> /\ home' = [home EXCEPT ![h] = row]
    BY <1>2 DEF CancelSubmission, SetStatus
  <2> QED
    BY <2>1, <2>2, <1>2, StatusChange, SameElse
       DEF CancelSubmission, ElseTyped, TypeOK, history
<1>3. CASE Hide(h)
  <2> DEFINE row == [home[h] EXCEPT !.status = "HIDDEN"]
  <2>1. row \in PropertyRows /\ row.status = "HIDDEN" /\ row.text = home[h].text
        /\ row.deleted = home[h].deleted
    BY <1>3, RowOfHome DEF Hide, Mine, PropertyRows
  <2>2. UNCHANGED <<photo, engaged, history>> /\ home' = [home EXCEPT ![h] = row]
    BY <1>3 DEF Hide, SetStatus
  <2>3. home[h].text = submitted[h] /\ ~home[h].deleted
    BY <1>3 DEF Hide, StatusIs, TextAsSubmitted, NothingDeletedIsPublic
  <2> QED
    BY <2>1, <2>2, <2>3, <1>3, StatusChange, SameElse
       DEF Hide, ElseTyped, TypeOK, history
<1>4. CASE Restore(h)
  <2>1. CASE StatusIs(h, "HIDDEN") /\ SetStatus(h, "PUBLISHED")
    <3> DEFINE row == [home[h] EXCEPT !.status = "PUBLISHED"]
    <3>1. row \in PropertyRows /\ row.status = "PUBLISHED" /\ row.text = home[h].text
          /\ row.deleted = home[h].deleted
      BY <1>4, RowOfHome DEF Restore, Mine, PropertyRows
    <3>2. UNCHANGED <<photo, engaged, history>> /\ home' = [home EXCEPT ![h] = row]
      BY <1>4, <2>1 DEF Restore, SetStatus
    <3>3. home[h].text = submitted[h] /\ ~home[h].deleted
      BY <2>1 DEF StatusIs, TextAsSubmitted, NothingDeletedIsPublic
    <3> QED
      BY <3>1, <3>2, <3>3, <1>4, StatusChange, SameElse
         DEF Restore, ElseTyped, TypeOK, history
  <2>2. CASE home' = [home EXCEPT ![h].status = "DRAFT", ![h].deleted = FALSE]
    <3> DEFINE row == [home[h] EXCEPT !.status = "DRAFT", !.deleted = FALSE]
    <3>1. row \in PropertyRows /\ row.status = "DRAFT"
      BY <1>4, RowOfHome DEF Restore, Mine, PropertyRows
    <3>2. UNCHANGED <<photo, engaged, history>> /\ home' = [home EXCEPT ![h] = row]
      BY <1>4, <2>2 DEF Restore
    <3> QED
      BY <3>1, <3>2, <1>4, StatusChange, SameElse
         DEF Restore, ElseTyped, TypeOK, history
  <2> QED
    BY <1>4, <2>1, <2>2 DEF Restore
<1>5. ASSUME NEW verdict \in Verdicts, Decide(h, verdict)
      PROVE  ListingInv'
  <2> DEFINE row == [home[h] EXCEPT !.status = verdict]
  <2>1. StatusIs(h, "PENDING_MODERATION") /\ ~home[h].deleted /\ Exists(h)
    BY <1>5 DEF Decide, Undecided, StatusIs, Exists
  <2>2. row \in PropertyRows /\ row.status = verdict /\ row.text = home[h].text
        /\ row.deleted = home[h].deleted
    BY <2>1, RowOfHome DEF PropertyRows
  <2>3. home' = [home EXCEPT ![h] = row]
    BY <1>5 DEF Decide, SetStatus
  <2>4. home[h].text = submitted[h]
    BY <2>1 DEF StatusIs, TextAsSubmitted
  <2>5. /\ decisions' = [decisions EXCEPT ![h] = @ + 1]
        /\ UNCHANGED <<photo, engaged, submitted, reviewed, submissions, work>>
    BY <1>5 DEF Decide
  <2>6. decisions[h] + 1 <= submissions[h] /\ decisions[h] \in Nat
    BY <2>1 DEF OneDecisionPerSubmission, TypeOK, StatusIs
  <2>7. /\ decisions' \in [Homes -> Nat] /\ decisions'[h] = decisions[h] + 1
        /\ \A g \in Homes \ {h} : decisions'[g] = decisions[g]
    BY <2>5, <2>6 DEF TypeOK
  <2>8. decisions'[h] + (IF row.status = "PENDING_MODERATION" THEN 1 ELSE 0)
            <= submissions'[h]
    BY <2>2, <2>5, <2>6, <2>7
  <2>9. ElseTyped
    BY <2>5, SameElse
  <2>10. /\ home' \in [Homes -> PropertyRows \cup {NoHome, Gone}]
         /\ decisions' \in [Homes -> 0..MaxSubmissions]
         /\ TextAsSubmitted' /\ OneDecisionPerSubmission' /\ NothingDeletedIsPublic'
    BY <2>1, <2>2, <2>3, <2>4, <2>5, <2>7, <2>8, <2>9, RowChange DEF ElseTyped
  <2> QED
    BY <2>9, <2>10 DEF ElseTyped, TypeOK
<1> QED
  BY <1>1, <1>2, <1>3, <1>4, <1>5

LEMMA StartStep ==
    ASSUME ListingInv, NEW c \in Calls, HandlerStart(c)
    PROVE  ListingInv'
<1>1. PICK h \in Homes : UpdateRead(c, h) \/ SubmitRead(c, h) \/ ArchiveRead(c, h)
  BY DEF HandlerStart
<1>2. CASE UpdateRead(c, h)
  BY <1>2, BeginWork DEF UpdateRead, Editable, Mine, StatusIs
<1>3. CASE SubmitRead(c, h)
  BY <1>3, BeginWork DEF SubmitRead, Mine
<1>4. CASE ArchiveRead(c, h)
  BY <1>4, BeginWork DEF ArchiveRead, Mine
<1> QED
  BY <1>1, <1>2, <1>3, <1>4

LEMMA ContinueStep ==
    ASSUME ListingInv, NEW c \in Calls, HandlerContinue(c)
    PROVE  ListingInv'
<1> USE DEF ListingInv
<1>1. CASE UpdateWrite(c)
  <2> DEFINE w == work[c]
             h == w.home
             row == [home[h] EXCEPT !.status = AfterContentEdit(w.seen), !.text = @ + 1]
  <2>1. w \in Works /\ h \in Homes
    BY <1>1, WorkRow DEF UpdateWrite, Works
  <2>2. AfterContentEdit(w.seen) \in PropertyStatus
                                     \ {"PENDING_MODERATION", "PUBLISHED", "HIDDEN"}
    BY <1>1, <2>1 DEF UpdateWrite, SeenWhenRead, AfterContentEdit, Works
  <2>3. UNCHANGED <<photo, engaged, history>> /\ End(c)
    BY <1>1 DEF UpdateWrite
  <2>4. CASE Exists(h)
    <3>0. home[h] \in PropertyRows
      BY <2>1, <2>4, RowOfHome
    <3>1. home[h].text \in Nat /\ home[h].text < MaxEdits /\ home[h].deleted \in BOOLEAN
      <4>1. home[h].text < MaxEdits
        BY <1>1, <2>4 DEF UpdateWrite
      <4> QED
        BY <3>0, <4>1, ListingBounds DEF PropertyRows
    <3>2. home[h].text + 1 \in 0..MaxEdits
      BY <3>1, ListingBounds
    <3>3. row \in PropertyRows /\ row.status = AfterContentEdit(w.seen)
      BY <2>2, <3>0, <3>2 DEF PropertyRows
    <3>4. home' = [home EXCEPT ![h] = row]
      BY <1>1, <2>4 DEF UpdateWrite
    <3>5. row.status \notin {"PENDING_MODERATION", "PUBLISHED", "HIDDEN"}
      BY <2>2, <3>3
    <3> HIDE DEF row
    <3>6. /\ home' \in [Homes -> PropertyRows \cup {NoHome, Gone}]
          /\ decisions' \in [Homes -> 0..MaxSubmissions]
          /\ TextAsSubmitted' /\ OneDecisionPerSubmission' /\ NothingDeletedIsPublic'
      BY <2>1, <2>3, <3>3, <3>4, <3>5, StatusChange
    <3> QED
      BY <2>3, <3>6, EndWork DEF TypeOK, history
  <2>5. CASE ~Exists(h)
    BY <1>1, <2>3, <2>5, EndWork, NoHomeChange DEF UpdateWrite, TypeOK, history
  <2> QED
    BY <2>4, <2>5
<1>2. CASE SubmitWrite(c)
  <2> DEFINE w == work[c]
             h == w.home
             row == [home[h] EXCEPT !.status = "PENDING_MODERATION"]
  <2>1. w \in Works /\ h \in Homes /\ w.seen \in Submittable
    BY <1>2, WorkRow DEF SubmitWrite, Works, SeenWhenRead
  <2>2. UNCHANGED <<photo, engaged, decisions>> /\ End(c)
    BY <1>2 DEF SubmitWrite
  <2>3. CASE StillAs(h, w.seen)
    <3>1. Exists(h) /\ home[h].status # "PENDING_MODERATION"
      BY <2>1, <2>3 DEF StillAs, StatusIs, Exists
    <3>2. /\ row \in PropertyRows /\ row.status = "PENDING_MODERATION"
          /\ row.text = home[h].text /\ home[h].text \in 0..MaxEdits
      BY <2>1, <3>1, RowOfHome DEF PropertyRows
    <3>3. /\ submissions[h] < MaxSubmissions
          /\ home' = [home EXCEPT ![h] = row]
          /\ submitted' = [submitted EXCEPT ![h] = home[h].text]
          /\ reviewed' = [reviewed EXCEPT ![h] = Ready(h)]
          /\ submissions' = [submissions EXCEPT ![h] = @ + 1]
      BY <1>2, <2>3 DEF SubmitWrite, SetStatus
    <3> HIDE DEF row
    <3>4. /\ submissions[h] \in Nat /\ decisions[h] \in Nat
          /\ decisions[h] <= submissions[h]
      BY <2>1, <3>1, ListingBounds DEF TypeOK, OneDecisionPerSubmission, StatusIs
    <3>5. /\ submissions[h] + 1 \in 0..MaxSubmissions
          /\ submissions' \in [Homes -> 0..MaxSubmissions]
          /\ submissions'[h] = submissions[h] + 1
      BY <2>1, <3>3, <3>4, ListingBounds DEF TypeOK
    <3>6. /\ submitted' \in [Homes -> 0..MaxEdits] /\ submitted'[h] = home[h].text
          /\ reviewed' \in [Homes -> SUBSET Photos]
      BY <2>1, <3>2, <3>3 DEF TypeOK, Ready, PhotosOf
    <3>7. \A g \in Homes \ {h} : /\ submitted'[g] = submitted[g]
                                 /\ submissions'[g] = submissions[g]
                                 /\ decisions'[g] = decisions[g]
      BY <2>1, <2>2, <3>3 DEF TypeOK
    <3>8. decisions'[h] + (IF row.status = "PENDING_MODERATION" THEN 1 ELSE 0)
              <= submissions'[h]
      BY <2>2, <3>2, <3>4, <3>5
    <3>9. decisions' \in [Homes -> Nat]
      BY <2>2 DEF TypeOK
    <3>10. row.status \in {"PENDING_MODERATION", "PUBLISHED", "HIDDEN"}
               => row.text = submitted'[h]
      BY <3>2, <3>6
    <3>11. /\ home' \in [Homes -> PropertyRows \cup {NoHome, Gone}]
           /\ decisions' \in [Homes -> 0..MaxSubmissions]
           /\ TextAsSubmitted' /\ OneDecisionPerSubmission' /\ NothingDeletedIsPublic'
      BY <2>1, <2>2, <3>2, <3>3, <3>5, <3>6, <3>7, <3>8, <3>9, <3>10, RowChange
    <3> QED
      BY <2>2, <3>5, <3>6, <3>11, EndWork DEF TypeOK
  <2>4. CASE ~StillAs(h, w.seen)
    BY <1>2, <2>2, <2>4, EndWork, NoHomeChange DEF SubmitWrite, TypeOK, history
  <2> QED
    BY <2>3, <2>4
<1>3. CASE ArchiveCheck(c)
  <2>1. UNCHANGED <<home, photo, engaged, history>>
    BY <1>3 DEF ArchiveCheck
  <2>2. CASE End(c)
    BY <2>1, <2>2, EndWork, NoHomeChange DEF TypeOK, history
  <2>3. CASE work' = [work EXCEPT ![c].pc = "archive"]
    <3>1. work[c] \in Works
      BY <1>3, WorkRow DEF ArchiveCheck
    <3>2. [work[c] EXCEPT !.pc = "archive"] \in Works
      BY <3>1 DEF Works
    <3>3. work' \in [Calls -> Works \cup {Idle}] /\ SeenWhenRead'
      BY <2>3, <3>1, <3>2 DEF TypeOK, SeenWhenRead, Works
    <3> QED
      BY <2>1, <3>3, NoHomeChange DEF TypeOK, history
  <2> QED
    BY <1>3, <2>2, <2>3 DEF ArchiveCheck
<1>4. CASE ArchiveWrite(c)
  <2> DEFINE w == work[c]
             h == w.home
             row == [home[h] EXCEPT !.status = "ARCHIVED", !.deleted = TRUE]
  <2>1. w \in Works /\ h \in Homes /\ w.seen \in PropertyStatus
    BY <1>4, WorkRow DEF ArchiveWrite, Works
  <2>2. UNCHANGED <<photo, engaged, history>> /\ End(c)
    BY <1>4 DEF ArchiveWrite
  <2>3. CASE StillAs(h, w.seen)
    <3>1. row \in PropertyRows /\ row.status = "ARCHIVED"
      BY <2>1, <2>3, RowOfHome DEF StillAs, StatusIs, Exists, PropertyRows
    <3>2. home' = [home EXCEPT ![h] = row]
      BY <1>4, <2>3 DEF ArchiveWrite
    <3> HIDE DEF row
    <3> QED
      BY <2>1, <2>2, <3>1, <3>2, StatusChange, EndWork DEF TypeOK, history
  <2>4. CASE ~StillAs(h, w.seen)
    BY <1>4, <2>2, <2>4, EndWork, NoHomeChange DEF ArchiveWrite, TypeOK, history
  <2> QED
    BY <2>3, <2>4
<1> QED
  BY <1>1, <1>2, <1>3, <1>4 DEF HandlerContinue

LEMMA SurroundingsStep ==
    ASSUME ListingInv, Surroundings \/ (\E f \in Photos : PhotoReady(f))
    PROVE  ListingInv'
<1> USE DEF ListingInv
<1>1. ASSUME NEW hs \in SUBSET Homes, Engage(hs)
      PROVE  ListingInv'
  BY <1>1, NoHomeChange DEF Engage, TypeOK, SeenWhenRead, history
<1>2. ASSUME NEW hs \in SUBSET Homes, DeleteHomes(hs)
      PROVE  ListingInv'
  <2>1. /\ home' = [h \in Homes |-> IF h \in hs THEN Gone ELSE home[h]]
        /\ photo' = [f \in Photos |-> IF PhotoHome[f] \in hs THEN NoMorePhoto
                                                           ELSE photo[f]]
        /\ engaged' \subseteq engaged /\ UNCHANGED <<history, work>>
    BY <1>2 DEF DeleteHomes
  <2>2. TypeOK' /\ SeenWhenRead'
    BY <2>1 DEF TypeOK, SeenWhenRead, history
  <2>3. \A h \in Homes : home'[h] = Gone \/ home'[h] = home[h]
    BY <2>1
  <2>4. TextAsSubmitted' /\ NothingDeletedIsPublic'
    BY <2>1, <2>3 DEF TextAsSubmitted, NothingDeletedIsPublic, Gone, history
  <2>5. OneDecisionPerSubmission'
    <3> SUFFICES ASSUME NEW h \in Homes
                 PROVE  decisions[h] + (IF home'[h].status = "PENDING_MODERATION"
                                        THEN 1 ELSE 0) <= submissions[h]
      BY <2>1 DEF OneDecisionPerSubmission, StatusIs, history
    <3>1. CASE home'[h] = home[h]
      BY <3>1 DEF OneDecisionPerSubmission, StatusIs
    <3>2. CASE home'[h] = Gone
      <4>1. decisions[h] \in Nat /\ submissions[h] \in Nat
        BY ListingBounds DEF TypeOK
      <4> QED
        BY <3>2, <4>1 DEF OneDecisionPerSubmission, Gone
    <3> QED
      BY <2>3, <3>1, <3>2
  <2> QED
    BY <2>2, <2>4, <2>5
<1>3. ASSUME NEW f \in Photos, PhotoReady(f)
      PROVE  ListingInv'
  <2>1. /\ UNCHANGED <<home, engaged, history, work>>
        /\ photo' = [photo EXCEPT ![f] = Processed(Ready(PhotoHome[f]) = {})]
    BY <1>3 DEF PhotoReady
  <2>2. Processed(Ready(PhotoHome[f]) = {}) \in PhotoRows
    BY DEF Processed, PhotoRows, PhotoStates
  <2>3. photo' \in [Photos -> PhotoRows \cup {NoPhoto, NoMorePhoto}]
    BY <2>1, <2>2 DEF TypeOK
  <2> QED
    BY <2>1, <2>3, NoHomeChange DEF TypeOK, SeenWhenRead, history
<1> QED
  BY <1>1, <1>2, <1>3 DEF Surroundings

-----------------------------------------------------------------------------
(* The theorems.                                                           *)

LEMMA ListingStep == ListingInv /\ [ListingNext]_listingVars => ListingInv'
<1> SUFFICES ASSUME ListingInv, [ListingNext]_listingVars
             PROVE  ListingInv'
  OBVIOUS
<1>1. CASE ListingNext
  BY <1>1, OwnerStep, StartStep, ContinueStep, SurroundingsStep
     DEF ListingNext, OwnerOrModerator
<1>2. CASE UNCHANGED listingVars
  BY <1>2, NoHomeChange DEF listingVars, ListingInv, TypeOK, SeenWhenRead, history
<1> QED
  BY <1>1, <1>2

THEOREM ListingInvariant == ListingSpec => []ListingInv
BY ListingInit, ListingStep, PTL DEF ListingSpec

\* Every reachable state is well typed.
THEOREM ListingTypes == ListingSpec => []TypeOK
BY ListingInvariant, PTL DEF ListingInv

\* What is in the queue, in the catalogue or hidden from it is the text that was
\* submitted, for any number of updates, submissions and decisions in flight.
THEOREM TextIsSubmitted == ListingSpec => []TextAsSubmitted
BY ListingInvariant, PTL DEF ListingInv

\* Moderators never decide twice on one submission (decide, MOD-04).
THEOREM DecidedOnce == ListingSpec => []OneDecisionPerSubmission
BY ListingInvariant, PTL DEF ListingInv

\* No home with deletedAt set is published or hidden (decide, restore).
THEOREM DeletedNeverPublic == ListingSpec => []NothingDeletedIsPublic
BY ListingInvariant, PTL DEF ListingInv

\* A home enters the queue only from a status it may be submitted in (submit).
THEOREM QueuedOnlyFromDraft == ListingSpec => QueuedFromDraft
<1>1. ListingInv /\ [ListingNext]_listingVars
      => [\A h \in Homes :
              (StatusIs(h, "PENDING_MODERATION"))' /\ ~StatusIs(h, "PENDING_MODERATION")
              => home[h].status \in Submittable]_listingVars
  <2> SUFFICES ASSUME ListingInv, ListingNext, NEW h \in Homes,
                      (StatusIs(h, "PENDING_MODERATION"))',
                      ~StatusIs(h, "PENDING_MODERATION")
               PROVE  home[h].status \in Submittable
    OBVIOUS
  <2> USE DEF ListingInv, StatusIs
  <2> DEFINE Set(g, status) ==
               /\ home[g] \in PropertyRows
               /\ \E row \in PropertyRows : /\ row.status = status
                                            /\ home' = [home EXCEPT ![g] = row]
  <2>0. ASSUME NEW g \in Homes, NEW status, status # "PENDING_MODERATION", Set(g, status)
        PROVE  FALSE
    BY <2>0 DEF TypeOK
  <2> HIDE DEF Set
  <2>1. ASSUME NEW g \in Homes,
               \/ CreateDraft(g) \/ CancelSubmission(g) \/ Hide(g) \/ Restore(g)
               \/ \E verdict \in Verdicts : Decide(g, verdict)
        PROVE  FALSE
    <3>1. ASSUME CreateDraft(g)
          PROVE  FALSE
      BY <3>1 DEF CreateDraft, Draft, TypeOK
    <3>2. ASSUME NEW status \in PropertyStatus \ {"PENDING_MODERATION"},
                 SetStatus(g, status), Exists(g)
          PROVE  FALSE
      <4>1. home[g] \in PropertyRows
        BY <3>2, RowOfHome
      <4>2. /\ [home[g] EXCEPT !.status = status] \in PropertyRows
            /\ [home[g] EXCEPT !.status = status].status = status
        BY <4>1 DEF PropertyRows
      <4> QED
        BY <2>0, <3>2, <4>1, <4>2 DEF SetStatus, Set
    <3>3. ASSUME Exists(g), home' = [home EXCEPT ![g].status = "DRAFT", ![g].deleted = FALSE]
          PROVE  FALSE
      <4>1. home[g] \in PropertyRows
        BY <3>3, RowOfHome
      <4>2. /\ [home[g] EXCEPT !.status = "DRAFT", !.deleted = FALSE] \in PropertyRows
            /\ [home[g] EXCEPT !.status = "DRAFT", !.deleted = FALSE].status = "DRAFT"
        BY <4>1 DEF PropertyRows
      <4> QED
        BY <2>0, <3>3, <4>1, <4>2 DEF Set
    <3> QED
      BY <2>1, <3>1, <3>2, <3>3
         DEF CancelSubmission, Hide, Restore, Decide, Mine, Undecided, Exists
  <2>2. ASSUME NEW c \in Calls, HandlerStart(c)
        PROVE  FALSE
    BY <2>2 DEF HandlerStart, UpdateRead, SubmitRead, ArchiveRead, Begin
  <2>3. ASSUME NEW c \in Calls, UpdateWrite(c)
        PROVE  FALSE
    <3> DEFINE g == work[c].home
               status == AfterContentEdit(work[c].seen)
    <3>1. g \in Homes /\ status \in PropertyStatus /\ status # "PENDING_MODERATION"
      BY <2>3, WorkRow DEF UpdateWrite, SeenWhenRead, AfterContentEdit, Works
    <3>2. Exists(g)
      BY <2>3 DEF UpdateWrite
    <3>3. home[g] \in PropertyRows
      BY <3>1, <3>2, RowOfHome
    <3>4. home[g].text + 1 \in 0..MaxEdits
      <4>1. home[g].text < MaxEdits
        BY <2>3, <3>2 DEF UpdateWrite
      <4> QED
        BY <3>3, <4>1, ListingBounds DEF PropertyRows
    <3>5. home' = [home EXCEPT ![g] = [home[g] EXCEPT !.status = status, !.text = @ + 1]]
      BY <2>3, <3>2 DEF UpdateWrite
    <3>6. /\ [home[g] EXCEPT !.status = status, !.text = @ + 1] \in PropertyRows
          /\ [home[g] EXCEPT !.status = status, !.text = @ + 1].status = status
      BY <3>1, <3>3, <3>4 DEF PropertyRows
    <3> HIDE DEF g, status
    <3> QED
      BY <2>0, <3>1, <3>3, <3>5, <3>6 DEF Set
  <2>4. ASSUME NEW c \in Calls, SubmitWrite(c)
        PROVE  home[h].status \in Submittable
    BY <2>4 DEF SubmitWrite, SeenWhenRead, StillAs, SetStatus, TypeOK
  <2>5. ASSUME NEW c \in Calls, ArchiveCheck(c) \/ ArchiveWrite(c)
        PROVE  FALSE
    <3> DEFINE g == work[c].home
    <3>1. g \in Homes /\ work[c].seen \in PropertyStatus
      BY <2>5, WorkRow DEF ArchiveCheck, ArchiveWrite, Works
    <3>2. /\ ArchiveWrite(c) /\ StillAs(g, work[c].seen)
          /\ home' = [home EXCEPT ![g] = [home[g] EXCEPT !.status = "ARCHIVED",
                                                       !.deleted = TRUE]]
      BY <2>5 DEF ArchiveCheck, ArchiveWrite
    <3>3. home[g] \in PropertyRows
      BY <3>1, <3>2, RowOfHome DEF StillAs, Exists
    <3>4. /\ [home[g] EXCEPT !.status = "ARCHIVED", !.deleted = TRUE] \in PropertyRows
          /\ [home[g] EXCEPT !.status = "ARCHIVED", !.deleted = TRUE].status = "ARCHIVED"
      BY <3>3 DEF PropertyRows
    <3> HIDE DEF g
    <3> QED
      BY <2>0, <3>1, <3>2, <3>3, <3>4 DEF Set
  <2>6. ASSUME Surroundings \/ (\E f \in Photos : PhotoReady(f))
        PROVE  FALSE
    BY <2>6 DEF Surroundings, Engage, DeleteHomes, PhotoReady, Gone
  <2> QED
    BY <2>1, <2>2, <2>3, <2>4, <2>5, <2>6
       DEF ListingNext, OwnerOrModerator, HandlerContinue
<1> QED
  BY <1>1, ListingInvariant, PTL DEF ListingSpec, QueuedFromDraft

-----------------------------------------------------------------------------
(* The photos.  A handler works on rows and objects one await at a time, so *)
(* what is true of a photo between two of them has to be said of the        *)
(* handlers in flight.                                                      *)

\* What markContentChanged is to write takes the home out of the catalogue.
Marking == {row \in JobRows : row.pc = "markWrite" => row.seen \in {"PUBLISHED", "HIDDEN"}}

PhotosTyped ==
    /\ uploads \subseteq Photos /\ images \subseteq Photos
    /\ jobs \in [Jobs -> Marking \cup {NoJob}]

Removed(f) == photo[f] = NoMorePhoto
HomeGone(f) == home[PhotoHome[f]] = Gone

\* A deleted home has no photos left, and never will.
GoneHasNone == \A f \in Photos : HomeGone(f) => Removed(f)

\* What is to be a new photo is none yet, and one handler's only.
NewIsNew ==
    \A j \in Jobs : jobs[j].kind = "createUpload" =>
        /\ photo[jobs[j].photo] = NoPhoto \/ HomeGone(jobs[j].photo)
        /\ \A i \in Jobs \ {j} :
               jobs[i].kind = "createUpload" => jobs[i].photo # jobs[j].photo

\* complete knows its image to be stored before it says READY, unless the
\* photo is removed meanwhile; remove deletes the row before the objects.
ImageFirst ==
    \A j \in Jobs :
        /\ jobs[j].kind = "complete" =>
             /\ photo[jobs[j].photo] # NoPhoto
             /\ jobs[j].pc \in {"count", "ready"}
                    => jobs[j].photo \in images \/ Removed(jobs[j].photo)
        /\ jobs[j].kind = "remove" /\ jobs[j].pc = "objects" => Removed(jobs[j].photo)

PhotosInv == /\ ListingInv /\ PhotosTyped /\ ReadyHasImage
             /\ GoneHasNone /\ NewIsNew /\ ImageFirst

LEMMA PhotosInvInit == PhotosInit => PhotosInv
BY ListingInit, PhotoHomeType DEF PhotosInit, Init, PhotosInv, PhotosTyped, ReadyHasImage, GoneHasNone,
   NewIsNew, ImageFirst, HomeGone, NoHome, Gone, NoPhoto, NoJob

-----------------------------------------------------------------------------
(* How homes, rows, objects and handlers may change.                       *)

HomesMove ==
    \A h \in Homes : \/ home'[h] = Gone <=> home[h] = Gone
                     \/ home'[h] = Gone /\ \A f \in PhotosOf(h) : photo'[f] = NoMorePhoto
RowsMove ==
    \A f \in Photos :
        \/ photo'[f] = photo[f]
        \/ photo'[f] = NoMorePhoto /\ (Stored(f) \/ HomeGone(f)')
        \/ /\ Stored(f) /\ photo'[f] \in PhotoRows
           /\ photo'[f].state = "READY" => f \in images
ObjectsMove == \A f \in images \ images' : Removed(f)
JobMoves(j) ==
    \/ jobs'[j] = jobs[j]
    \/ jobs'[j] = NoJob
    \/ jobs'[j].kind = "remove" /\ jobs'[j].pc # "objects"
    \/ /\ jobs'[j].kind = jobs[j].kind /\ jobs'[j].photo = jobs[j].photo
       /\ jobs'[j].kind = "complete" /\ jobs'[j].pc \in {"count", "ready"}
              => jobs[j].photo \in images' \/ photo'[jobs[j].photo] = NoMorePhoto
       /\ jobs'[j].kind = "remove" /\ jobs'[j].pc = "objects"
              => photo'[jobs[j].photo] = NoMorePhoto

StoreMoves == /\ HomesMove /\ RowsMove /\ ObjectsMove
              /\ \A j \in Jobs : JobMoves(j)

LEMMA PhotoStatesDiffer ==
    /\ NoPhoto.state = "NONE" /\ NoMorePhoto.state = "GONE"
    /\ NoPhoto # NoMorePhoto /\ NoJob.kind = "none"
    /\ \A f \in Photos : Stored(f) => photo[f] # NoPhoto /\ photo[f] # NoMorePhoto
    /\ \A row \in PhotoRows : row # NoPhoto /\ row # NoMorePhoto
BY DEF NoPhoto, NoMorePhoto, NoJob, Stored, PhotoStates, PhotoRows

LEMMA JobPhoto ==
    ASSUME PhotosTyped, NEW j \in Jobs, jobs[j].kind # "none"
    PROVE  jobs[j] \in Marking /\ jobs[j] \in JobRows /\ jobs[j].photo \in Photos
BY DEF PhotosTyped, Marking, JobRows, NoJob

LEMMA StoreStays ==
    ASSUME PhotosInv, StoreMoves, ListingInv', PhotosTyped' PROVE PhotosInv'
<1> USE DEF PhotosInv
<1>0. ASSUME NEW f \in Photos PROVE PhotoHome[f] \in Homes /\ f \in PhotosOf(PhotoHome[f])
  BY <1>0, PhotoHomeType DEF PhotosOf
<1>1. ASSUME NEW f \in Photos
      PROVE  /\ Removed(f) => photo'[f] = NoMorePhoto
             /\ HomeGone(f) => HomeGone(f)' /\ photo'[f] = NoMorePhoto
             /\ photo[f] # NoPhoto => photo'[f] # NoPhoto
  <2>1. Removed(f) => photo'[f] = NoMorePhoto
    BY PhotoStatesDiffer DEF StoreMoves, RowsMove, Removed
  <2>2. HomeGone(f) => HomeGone(f)'
    BY <1>0 DEF StoreMoves, HomesMove, HomeGone
  <2>3. photo[f] # NoPhoto => photo'[f] # NoPhoto
    BY PhotoStatesDiffer DEF StoreMoves, RowsMove
  <2>4. QED
    BY <2>1, <2>2, <2>3 DEF GoneHasNone
<1>2. ReadyHasImage'
  <2> SUFFICES ASSUME NEW f \in Photos, photo'[f].state = "READY" PROVE f \in images'
    BY DEF ReadyHasImage
  <2>1. f \in images
    BY PhotoStatesDiffer DEF StoreMoves, RowsMove, ReadyHasImage
  <2>2. CASE f \notin images'
    <3>1. Removed(f)
      BY <2>1, <2>2 DEF StoreMoves, ObjectsMove
    <3>2. QED
      BY <1>1, <3>1, PhotoStatesDiffer
  <2>3. QED
    BY <2>2
<1>3. GoneHasNone'
  <2> SUFFICES ASSUME NEW f \in Photos, HomeGone(f)' PROVE photo'[f] = NoMorePhoto
    BY DEF GoneHasNone, Removed
  <2>1. CASE HomeGone(f)
    BY <1>1, <2>1
  <2>2. CASE ~HomeGone(f)
    BY <1>0, <2>2 DEF StoreMoves, HomesMove, HomeGone
  <2>3. QED
    BY <2>1, <2>2
<1>4. NewIsNew'
  <2>1. ASSUME NEW j \in Jobs, jobs'[j].kind = "createUpload"
        PROVE  /\ jobs[j].kind = "createUpload" /\ jobs'[j].photo = jobs[j].photo
               /\ jobs[j].photo \in Photos
    <3>1. jobs[j].kind = "createUpload" /\ jobs'[j].photo = jobs[j].photo
      BY <2>1, PhotoStatesDiffer DEF StoreMoves, JobMoves
    <3>2. QED
      BY <3>1, JobPhoto
  <2>2. ASSUME NEW j \in Jobs, jobs'[j].kind = "createUpload"
        PROVE  photo'[jobs'[j].photo] = NoPhoto \/ HomeGone(jobs[j].photo)'
    <3>1. PICK f \in Photos : f = jobs[j].photo
      BY <2>1, <2>2
    <3>2. photo[f] = NoPhoto \/ HomeGone(f)
      BY <2>1, <2>2, <3>1 DEF NewIsNew
    <3>3. photo'[f] = NoPhoto \/ HomeGone(f)'
      <4>1. CASE HomeGone(f)
        BY <1>1, <4>1
      <4>2. CASE photo[f] = NoPhoto /\ ~HomeGone(f)
        BY <1>0, <4>2, PhotoStatesDiffer DEF StoreMoves, RowsMove
      <4>3. QED
        BY <3>2, <4>1, <4>2
    <3>4. QED
      BY <2>1, <2>2, <3>1, <3>3 DEF HomeGone
  <2>3. ASSUME NEW j \in Jobs, jobs'[j].kind = "createUpload", NEW i \in Jobs \ {j},
               jobs'[i].kind = "createUpload"
        PROVE  jobs'[i].photo # jobs'[j].photo
    <3>1. jobs[i].photo # jobs[j].photo
      BY <2>1, <2>3 DEF NewIsNew
    <3>2. QED
      BY <2>1, <2>3, <3>1
  <2>4. QED
    BY <2>2, <2>3 DEF NewIsNew
<1>5. ImageFirst'
  <2>1. ASSUME NEW j \in Jobs, jobs'[j].kind = "complete"
        PROVE  /\ photo'[jobs'[j].photo] # NoPhoto
               /\ jobs'[j].pc \in {"count", "ready"}
                    => jobs'[j].photo \in images' \/ photo'[jobs'[j].photo] = NoMorePhoto
    <3>1. jobs[j].kind = "complete" /\ jobs'[j].photo = jobs[j].photo
      BY <2>1, PhotoStatesDiffer DEF StoreMoves, JobMoves
    <3>2. PICK f \in Photos : f = jobs[j].photo
      BY <3>1, JobPhoto
    <3>3. photo'[f] # NoPhoto
      BY <1>1, <3>1, <3>2 DEF ImageFirst
    <3>4. jobs'[j].pc \in {"count", "ready"} => f \in images' \/ photo'[f] = NoMorePhoto
      <4>1. CASE jobs'[j] = jobs[j] /\ jobs[j].pc \in {"count", "ready"}
        <5>1. f \in images \/ Removed(f)
          BY <3>1, <3>2, <4>1 DEF ImageFirst
        <5>2. f \in images' \/ Removed(f)
          BY <5>1 DEF StoreMoves, ObjectsMove
        <5>3. QED
          BY <1>1, <5>2
      <4>2. CASE jobs'[j] # jobs[j]
        BY <2>1, <3>1, <3>2, <4>2, PhotoStatesDiffer DEF StoreMoves, JobMoves
      <4>3. QED
        BY <4>1, <4>2
    <3>5. QED
      BY <3>1, <3>2, <3>3, <3>4
  <2>2. ASSUME NEW j \in Jobs, jobs'[j].kind = "remove", jobs'[j].pc = "objects"
        PROVE  photo'[jobs'[j].photo] = NoMorePhoto
    <3>1. CASE jobs'[j] = jobs[j]
      BY <1>1, <2>2, <3>1, JobPhoto DEF ImageFirst
    <3>2. CASE jobs'[j] # jobs[j]
      BY <2>2, <3>2, PhotoStatesDiffer DEF StoreMoves, JobMoves
    <3>3. QED
      BY <3>1, <3>2
  <2>3. QED
    BY <2>1, <2>2 DEF ImageFirst, Removed
<1>6. QED
  BY <1>2, <1>3, <1>4, <1>5

-----------------------------------------------------------------------------
(* The steps of one handler.                                               *)

JobStep(j) == /\ jobs' \in [Jobs -> Marking \cup {NoJob}] /\ JobMoves(j)
              /\ \A i \in Jobs \ {j} : jobs'[i] = jobs[i]
RowsTyped == photo' \in [Photos -> PhotoRows \cup {NoPhoto, NoMorePhoto}]

\* What a handler may only say after it is so.
Warranted(j, pc) ==
    /\ jobs[j].kind = "complete" /\ pc \in {"count", "ready"}
           => jobs[j].photo \in images' \/ photo'[jobs[j].photo] = NoMorePhoto
    /\ jobs[j].kind = "remove" /\ pc = "objects" => photo'[jobs[j].photo] = NoMorePhoto

LEMMA JobBecomes ==
    ASSUME PhotosTyped, NEW j \in Jobs, NEW now \in Marking \cup {NoJob},
           jobs' = [jobs EXCEPT ![j] = now],
           \/ now = NoJob
           \/ now.kind = "remove" /\ now.pc # "objects"
           \/ now.kind = jobs[j].kind /\ now.photo = jobs[j].photo /\ Warranted(j, now.pc)
    PROVE  JobStep(j) /\ jobs'[j] = now
BY DEF PhotosTyped, JobStep, JobMoves, Warranted

LEMMA JobLeaves ==
    ASSUME PhotosTyped, NEW j \in Jobs, Leave(j) PROVE JobStep(j)
BY JobBecomes DEF Leave

LEMMA JobGoes ==
    ASSUME PhotosTyped, NEW j \in Jobs, jobs[j] # NoJob, NEW pc \in Stages \ {"markWrite"},
           Go(j, pc), Warranted(j, pc)
    PROVE  JobStep(j)
<1>1. jobs[j] \in JobRows
  BY DEF PhotosTyped, Marking
<1> DEFINE now == [jobs[j] EXCEPT !.pc = pc]
<1>2. now \in Marking /\ now.kind = jobs[j].kind /\ now.photo = jobs[j].photo /\ now.pc = pc
  BY <1>1 DEF Marking, JobRows
<1>3. jobs' = [jobs EXCEPT ![j] = now]
  BY DEF Go
<1> HIDE DEF now
<1>4. QED
  BY <1>2, <1>3, JobBecomes

LEMMA RowsStep ==
    ASSUME PhotosInv, NEW j \in Jobs, OnlyRows, RowsTyped, RowsMove, JobStep(j)
    PROVE  PhotosInv'
<1>1. ListingInv'
  BY NoHomeChange
     DEF PhotosInv, OnlyRows, ListingInv, TypeOK, SeenWhenRead, history, RowsTyped
<1>2. PhotosTyped'
  BY DEF PhotosInv, PhotosTyped, OnlyRows, storeVars, JobStep
<1>3. StoreMoves
  BY DEF StoreMoves, HomesMove, ObjectsMove, OnlyRows, storeVars, JobStep, JobMoves
<1>4. QED
  BY <1>1, <1>2, <1>3, StoreStays

LEMMA ObjectsStep ==
    ASSUME PhotosInv, NEW j \in Jobs, UNCHANGED listingVars, uploads' \subseteq Photos,
           images' \subseteq Photos, ObjectsMove, JobStep(j)
    PROVE  PhotosInv'
<1>1. ListingInv'
  BY ListingStep DEF PhotosInv
<1>2. PhotosTyped'
  BY DEF PhotosInv, PhotosTyped, JobStep
<1>3. StoreMoves
  BY DEF StoreMoves, HomesMove, RowsMove, listingVars, JobStep, JobMoves
<1>4. QED
  BY <1>1, <1>2, <1>3, StoreStays

LEMMA NothingStored ==
    ASSUME PhotosInv, UNCHANGED storeVars
    PROVE  uploads' \subseteq Photos /\ images' \subseteq Photos /\ ObjectsMove
BY DEF PhotosInv, PhotosTyped, storeVars, ObjectsMove

LEMMA SameRows ==
    ASSUME PhotosInv, UNCHANGED photo PROVE RowsTyped /\ RowsMove
BY DEF PhotosInv, ListingInv, TypeOK, RowsTyped, RowsMove

LEMMA StoredIsRow ==
    ASSUME PhotosInv, NEW f \in Photos, Stored(f) PROVE photo[f] \in PhotoRows
BY PhotoStatesDiffer DEF PhotosInv, ListingInv, TypeOK, Stored

LEMMA OneRow ==
    ASSUME PhotosInv, NEW f \in Photos, Stored(f), NEW row \in PhotoRows \cup {NoMorePhoto},
           photo' = [photo EXCEPT ![f] = row], row.state = "READY" => f \in images
    PROVE  RowsTyped /\ RowsMove
BY DEF PhotosInv, ListingInv, TypeOK, RowsTyped, RowsMove

\* A row gets another state than READY, or another flag.
LEMMA StateSet ==
    ASSUME PhotosInv, NEW f \in Photos, Stored(f), NEW s \in PhotoStates \ {"READY"},
           photo' = [photo EXCEPT ![f].state = s]
    PROVE  RowsTyped /\ RowsMove
<1> DEFINE row == [photo[f] EXCEPT !.state = s]
<1>1. row \in PhotoRows /\ row.state = s
  BY StoredIsRow DEF PhotoRows
<1>2. photo' = [photo EXCEPT ![f] = row]
  OBVIOUS
<1> HIDE DEF row
<1>3. QED
  BY <1>1, <1>2, OneRow

LEMMA FlagSet ==
    ASSUME PhotosInv, NEW f \in Photos, Stored(f), NEW flag \in BOOLEAN
    PROVE  /\ [photo[f] EXCEPT !.primary = flag] \in PhotoRows
           /\ [photo[f] EXCEPT !.primary = flag].state = photo[f].state
BY StoredIsRow DEF PhotoRows

LEMMA RowStored ==
    ASSUME NEW h, NEW f \in Rows(h) PROVE f \in Photos /\ Stored(f)
BY DEF Rows, PhotosOf, Stored

-----------------------------------------------------------------------------
(* The beginning of a handler.                                             *)

LEMMA StartOfJob ==
    ASSUME PhotosInv, NEW j \in Jobs, NEW f \in Photos, NEW kind \in Kinds, Start(j, f, kind)
    PROVE  PhotosInv'
<1> USE DEF PhotosInv
<1> DEFINE now == [kind |-> kind, pc |-> "read", photo |-> f, row |-> NoPhoto,
                   seen |-> "DRAFT", first |-> FALSE]
<1>1. /\ UNCHANGED <<listingVars, storeVars>> /\ jobs' = [jobs EXCEPT ![j] = now]
      /\ kind = "createUpload" => photo[f] = NoPhoto
      /\ kind = "createUpload" => \A i \in Jobs \ {j} :
             jobs[i] # NoJob /\ jobs[i].kind = kind => jobs[i].photo # f
      /\ kind = "complete" => photo[f] # NoPhoto
  BY DEF Start
<1>2. /\ now \in Marking /\ now.kind = kind /\ now.pc = "read" /\ now.photo = f
  BY DEF Marking, JobRows, Stages, PropertyStatus
<1> HIDE DEF now
<1>3. jobs'[j] = now /\ \A i \in Jobs \ {j} : jobs'[i] = jobs[i]
  BY <1>1 DEF PhotosTyped
<1>4. ListingInv'
  BY <1>1, ListingStep
<1>5. PhotosTyped' /\ ReadyHasImage' /\ GoneHasNone'
  BY <1>1, <1>2
     DEF PhotosTyped, ReadyHasImage, GoneHasNone, HomeGone, Removed, listingVars, storeVars
<1>6. photo' = photo /\ home' = home /\ images' = images
  BY <1>1 DEF listingVars, storeVars
<1>7. NewIsNew'
  <2>1. ASSUME NEW i \in Jobs \ {j}, jobs[i].kind = "createUpload", kind = "createUpload"
        PROVE  jobs[i].photo # f
    BY <1>1, <2>1, PhotoStatesDiffer
  <2>2. QED
    BY <1>1, <1>2, <1>3, <1>6, <2>1 DEF NewIsNew, HomeGone
<1>8. ImageFirst'
  BY <1>1, <1>2, <1>3, <1>6 DEF ImageFirst, Removed
<1>9. QED
  BY <1>4, <1>5, <1>7, <1>8

LEMMA ReadStep ==
    ASSUME PhotosInv, NEW j \in Jobs, Read(j) \/ MarkRead(j) PROVE PhotosInv'
<1>1. UNCHANGED <<listingVars, storeVars>> /\ jobs[j] # NoJob /\ jobs[j] \in JobRows
  BY DEF Read, MarkRead, PhotosInv, PhotosTyped, Marking
<1>2. PICK f : f = jobs[j].photo
  OBVIOUS
<1>3. f \in Photos
  BY <1>1, <1>2 DEF JobRows
<1>4. JobStep(j)
  <2>1. CASE Leave(j)
    BY <2>1, JobLeaves DEF PhotosInv
  <2>2. CASE Go(j, "act")
    BY <1>1, <2>2, JobGoes DEF PhotosInv, Stages, Warranted
  <2>3. ASSUME NEW row \in PhotoRows \cup {NoPhoto}, NEW first \in BOOLEAN,
               jobs' = [jobs EXCEPT ![j].pc = "mark", ![j].row = row, ![j].first = first]
        PROVE  JobStep(j)
    <3> DEFINE now == [jobs[j] EXCEPT !.pc = "mark", !.row = row, !.first = first]
    <3>1. now \in Marking /\ now.kind = jobs[j].kind /\ now.photo = jobs[j].photo
          /\ now.pc = "mark"
      BY <1>1 DEF Marking, JobRows, Stages
    <3>2. jobs' = [jobs EXCEPT ![j] = now]
      BY <2>3
    <3>3. Warranted(j, "mark")
      BY DEF Warranted
    <3> HIDE DEF now
    <3>4. QED
      BY <3>1, <3>2, <3>3, JobBecomes DEF PhotosInv
  <2>4. ASSUME NEW seen \in {"PUBLISHED", "HIDDEN"},
               jobs' = [jobs EXCEPT ![j].pc = "markWrite", ![j].seen = seen]
        PROVE  JobStep(j)
    <3> DEFINE now == [jobs[j] EXCEPT !.pc = "markWrite", !.seen = seen]
    <3>1. now \in Marking /\ now.kind = jobs[j].kind /\ now.photo = jobs[j].photo
          /\ now.pc = "markWrite"
      BY <1>1 DEF Marking, JobRows, Stages
    <3>2. jobs' = [jobs EXCEPT ![j] = now]
      BY <2>4
    <3>3. Warranted(j, "markWrite")
      BY DEF Warranted
    <3> HIDE DEF now
    <3>4. QED
      BY <3>1, <3>2, <3>3, JobBecomes DEF PhotosInv
  <2>5. CASE Read(j)
    <3>1. (IF Stored(f) THEN photo[f] ELSE NoPhoto) \in PhotoRows \cup {NoPhoto}
      BY <1>3, StoredIsRow
    <3>2. QED
      BY <1>2, <2>1, <2>3, <2>5, <3>1 DEF Read
  <2>6. CASE MarkRead(j)
    <3>1. \A s : MarkNeeded(s) => s \in {"PUBLISHED", "HIDDEN"}
      BY DEF MarkNeeded, AfterContentEdit
    <3>2. QED
      BY <2>1, <2>2, <2>4, <2>6, <3>1 DEF MarkRead
  <2>7. QED
    BY <2>5, <2>6
<1>5. QED
  BY <1>1, <1>4, NothingStored, ObjectsStep

\* markContentChanged takes the home out of the catalogue, whatever it has become.
LEMMA MarkStep ==
    ASSUME PhotosInv, NEW j \in Jobs, MarkWrite(j) PROVE PhotosInv'
<1>1. /\ jobs[j] # NoJob /\ jobs[j].pc = "markWrite" /\ jobs[j] \in Marking
      /\ UNCHANGED <<photo, engaged, history, work, storeVars>>
  BY DEF MarkWrite, PhotosInv, PhotosTyped
<1>2. PICK h : h = HomeOf(j)
  OBVIOUS
<1>3. h \in Homes /\ AfterContentEdit(jobs[j].seen) = "DRAFT"
  BY <1>1, <1>2, PhotoHomeType DEF HomeOf, Marking, JobRows, AfterContentEdit
<1>4. JobStep(j)
  <2>1. Go(j, "act") \/ Leave(j)
    BY DEF MarkWrite
  <2>2. QED
    BY <1>1, <2>1, JobLeaves, JobGoes DEF PhotosInv, Stages, Warranted
<1>5. PhotosTyped'
  BY <1>1, <1>4 DEF JobStep, PhotosInv, PhotosTyped, storeVars
<1>6. ListingInv' /\ HomesMove
  <2>1. CASE Exists(h)
    <3> DEFINE row == [home[h] EXCEPT !.status = "DRAFT"]
    <3>1. row \in PropertyRows /\ row.status = "DRAFT" /\ home[h] \in PropertyRows
      BY <1>3, <2>1, RowOfHome DEF PropertyRows, PhotosInv, ListingInv
    <3>2. home' = [home EXCEPT ![h] = row]
      BY <1>2, <1>3, <2>1 DEF MarkWrite, SetStatus
    <3> HIDE DEF row
    <3>3. /\ home' \in [Homes -> PropertyRows \cup {NoHome, Gone}]
          /\ decisions' \in [Homes -> 0..MaxSubmissions]
          /\ TextAsSubmitted' /\ OneDecisionPerSubmission' /\ NothingDeletedIsPublic'
      BY <1>1, <1>3, <3>1, <3>2, StatusChange DEF PhotosInv
    <3>4. ElseTyped
      BY <1>1, SameElse DEF PhotosInv, history
    <3>5. ListingInv'
      BY <3>3, <3>4 DEF ListingInv, ElseTyped, TypeOK
    <3>6. row # Gone /\ home[h] # Gone
      BY <3>1 DEF Gone, PropertyRows
    <3>7. HomesMove
      BY <1>3, <3>2, <3>6 DEF HomesMove, PhotosInv, ListingInv, TypeOK
    <3>8. QED
      BY <3>5, <3>7
  <2>2. CASE ~Exists(h)
    <3>1. UNCHANGED listingVars
      BY <1>1, <1>2, <2>2 DEF MarkWrite, listingVars
    <3>2. QED
      BY <3>1, ListingStep DEF PhotosInv, HomesMove, listingVars
  <2>3. QED
    BY <2>1, <2>2
<1>7. StoreMoves
  BY <1>1, <1>4, <1>6 DEF StoreMoves, RowsMove, ObjectsMove, storeVars, JobStep, JobMoves
<1>8. QED
  BY <1>5, <1>6, <1>7, StoreStays

-----------------------------------------------------------------------------
(* The short handlers, complete and remove.                                *)

LEMMA CreateRowStep ==
    ASSUME PhotosInv, NEW j \in Jobs, CreateRow(j) PROVE PhotosInv'
<1> USE DEF PhotosInv
<1>1. /\ jobs[j] # NoJob /\ jobs[j].kind = "createUpload" /\ jobs[j] \in JobRows
      /\ Leave(j) /\ OnlyRows
  BY DEF CreateRow, At, PhotosTyped, Marking
<1>2. PICK f : f = jobs[j].photo
  OBVIOUS
<1>3. f \in Photos
  BY <1>1, <1>2 DEF JobRows
<1>4. JobStep(j) /\ jobs'[j] = NoJob
  BY <1>1, JobLeaves DEF Leave, PhotosTyped
<1>5. CASE UNCHANGED photo
  BY <1>1, <1>4, <1>5, SameRows, RowsStep
<1>6. ASSUME Exists(PhotoHome[f]),
             photo' = [photo EXCEPT ![f] = [state |-> "PENDING_UPLOAD", stored |-> "private",
                                            primary |-> jobs[j].first]]
      PROVE  PhotosInv'
  <2> DEFINE row == [state |-> "PENDING_UPLOAD", stored |-> "private",
                     primary |-> jobs[j].first]
  <2>1. row \in PhotoRows /\ row.state = "PENDING_UPLOAD"
    BY <1>1 DEF JobRows, PhotoRows, PhotoStates
  <2>2. photo' = [photo EXCEPT ![f] = row]
    BY <1>6
  <2> HIDE DEF row
  <2>3. photo[f] = NoPhoto /\ ~HomeGone(f)
    BY <1>1, <1>2, <1>6 DEF NewIsNew, Exists, HomeGone, Gone
  <2>4. photo'[f] = row /\ \A g \in Photos \ {f} : photo'[g] = photo[g]
    BY <1>3, <2>2 DEF ListingInv, TypeOK
  <2>5. ListingInv'
    <3>1. RowsTyped
      BY <2>1, <2>2 DEF RowsTyped, ListingInv, TypeOK
    <3>2. QED
      BY <1>1, <3>1, NoHomeChange
         DEF OnlyRows, ListingInv, TypeOK, SeenWhenRead, history, RowsTyped
  <2>6. home' = home /\ images' = images /\ PhotosTyped'
    BY <1>1, <1>4 DEF OnlyRows, storeVars, JobStep, PhotosTyped
  <2>7. ReadyHasImage' /\ GoneHasNone'
    BY <2>1, <2>3, <2>4, <2>6 DEF ReadyHasImage, GoneHasNone, HomeGone, Removed
  <2>8. ASSUME NEW i \in Jobs, jobs'[i].kind # "none"
        PROVE  i # j /\ jobs'[i] = jobs[i] /\ jobs[i].photo \in Photos
    BY <1>4, <2>8, JobPhoto, PhotoStatesDiffer DEF JobStep
  <2>9. NewIsNew'
    <3>1. ASSUME NEW i \in Jobs, jobs'[i].kind = "createUpload"
          PROVE  /\ jobs[i].photo # f /\ jobs'[i].photo = jobs[i].photo
                 /\ photo'[jobs[i].photo] = NoPhoto \/ HomeGone(jobs[i].photo)'
      <4>1. i # j /\ jobs'[i] = jobs[i] /\ jobs[i].photo \in Photos
        BY <2>8, <3>1
      <4>2. jobs[i].photo # f
        BY <1>1, <1>2, <3>1, <4>1 DEF NewIsNew
      <4>3. photo[jobs[i].photo] = NoPhoto \/ HomeGone(jobs[i].photo)
        BY <3>1, <4>1 DEF NewIsNew
      <4>4. QED
        BY <2>4, <2>6, <4>1, <4>2, <4>3 DEF HomeGone
    <3>2. ASSUME NEW i \in Jobs, jobs'[i].kind = "createUpload", NEW k \in Jobs \ {i},
                 jobs'[k].kind = "createUpload"
          PROVE  jobs'[k].photo # jobs'[i].photo
      BY <2>8, <3>2 DEF NewIsNew
    <3>3. QED
      BY <2>6, <3>1, <3>2 DEF NewIsNew, HomeGone
  <2>10. ImageFirst'
    <3>1. ASSUME NEW i \in Jobs, jobs'[i].kind = "complete"
          PROVE  jobs[i].photo # f /\ jobs'[i] = jobs[i] /\ jobs[i].photo \in Photos
      BY <2>3, <2>8, <3>1 DEF ImageFirst
    <3>2. ASSUME NEW i \in Jobs, jobs'[i].kind = "remove", jobs'[i].pc = "objects"
          PROVE  jobs[i].photo # f /\ jobs'[i] = jobs[i] /\ jobs[i].photo \in Photos
      BY <2>3, <2>8, <3>2, PhotoStatesDiffer DEF ImageFirst, Removed
    <3>3. QED
      BY <2>4, <2>6, <3>1, <3>2 DEF ImageFirst, Removed
  <2>11. QED
    BY <2>5, <2>6, <2>7, <2>9, <2>10
<1>7. QED
  BY <1>2, <1>5, <1>6 DEF CreateRow, HomeOf

LEMMA ShortStep ==
    ASSUME PhotosInv, NEW j \in Jobs, Reorder(j) \/ SetPrimary(j) PROVE PhotosInv'
<1>1. /\ jobs[j] # NoJob /\ jobs[j] \in JobRows /\ Leave(j) /\ OnlyRows
  BY DEF Reorder, SetPrimary, At, PhotosInv, PhotosTyped, Marking
<1>2. JobStep(j)
  BY <1>1, JobLeaves DEF PhotosInv
<1>3. CASE Reorder(j)
  BY <1>1, <1>2, <1>3, SameRows, RowsStep DEF Reorder
<1>4. CASE SetPrimary(j)
  <2> DEFINE f == jobs[j].photo
             Row(g) == IF Stored(f) /\ g \in Rows(HomeOf(j))
                       THEN [photo[g] EXCEPT !.primary = g = f] ELSE photo[g]
  <2>1. photo' = [g \in Photos |-> Row(g)]
    BY <1>4 DEF SetPrimary
  <2>2. ASSUME NEW g \in Photos
        PROVE  \/ Row(g) = photo[g]
               \/ Stored(g) /\ Row(g) \in PhotoRows /\ Row(g).state = photo[g].state
    <3>1. CASE Stored(f) /\ g \in Rows(HomeOf(j))
      BY <3>1, RowStored, FlagSet
    <3>2. QED
      BY <3>1
  <2> HIDE DEF Row
  <2>3. RowsTyped /\ RowsMove
    BY <2>1, <2>2 DEF RowsTyped, RowsMove, PhotosInv, ListingInv, TypeOK, ReadyHasImage
  <2>4. QED
    BY <1>1, <1>2, <2>3, RowsStep
<1>5. QED
  BY <1>3, <1>4

\* The steps of complete that only decide how it goes on.
LEMMA DecidingStep ==
    ASSUME PhotosInv, NEW j \in Jobs, Head(j) \/ Convert(j) \/ CountPrimaries(j)
    PROVE  PhotosInv'
<1>1. /\ jobs[j] # NoJob /\ jobs[j] \in JobRows /\ OnlyObjects /\ UNCHANGED storeVars
      /\ jobs[j].kind = "complete"
  BY DEF Head, Convert, CountPrimaries, At, PhotosInv, PhotosTyped, Marking
<1>2. CASE Go(j, "failed") \/ Go(j, "processing") \/ Go(j, "put")
  <2>1. JobStep(j)
    BY <1>1, <1>2, JobGoes DEF PhotosInv, Stages, Warranted
  <2>2. QED
    BY <1>1, <2>1, NothingStored, ObjectsStep DEF OnlyObjects
<1>3. CASE CountPrimaries(j)
  <2>1. PICK first \in BOOLEAN : jobs' = [jobs EXCEPT ![j].pc = "ready", ![j].first = first]
    BY <1>3 DEF CountPrimaries
  <2> DEFINE now == [jobs[j] EXCEPT !.pc = "ready", !.first = first]
  <2>2. now \in Marking /\ now.kind = jobs[j].kind /\ now.photo = jobs[j].photo
        /\ now.pc = "ready"
    BY <1>1 DEF Marking, JobRows, Stages
  <2>3. jobs' = [jobs EXCEPT ![j] = now]
    BY <2>1
  <2> HIDE DEF now
  <2>4. Warranted(j, "ready")
    BY <1>1, <1>3 DEF Warranted, CountPrimaries, At, PhotosInv, ImageFirst, Removed,
       OnlyObjects, listingVars, storeVars
  <2>5. JobStep(j)
    BY <2>2, <2>3, <2>4, JobBecomes DEF PhotosInv
  <2>6. QED
    BY <1>1, <2>5, NothingStored, ObjectsStep DEF OnlyObjects
<1>4. QED
  BY <1>2, <1>3 DEF Head, Convert

\* The images are put, or not; the uploaded file is deleted, or not.
LEMMA StoringStep ==
    ASSUME PhotosInv, NEW j \in Jobs, PutImages(j) \/ CleanUp(j) PROVE PhotosInv'
<1>1. /\ jobs[j] # NoJob /\ jobs[j] \in JobRows /\ OnlyObjects /\ jobs[j].kind = "complete"
      /\ jobs[j].photo \in Photos
  BY DEF PutImages, CleanUp, At, PhotosInv, PhotosTyped, Marking, JobRows
<1>2. /\ uploads' \subseteq Photos /\ images' \subseteq Photos /\ images \subseteq images'
  BY <1>1 DEF PutImages, CleanUp, PhotosInv, PhotosTyped
<1>3. \/ Leave(j) \/ Go(j, "failed")
      \/ Go(j, "count") /\ jobs[j].photo \in images'
  BY DEF PutImages, CleanUp
<1>4. JobStep(j)
  BY <1>1, <1>3, JobLeaves, JobGoes DEF PhotosInv, Stages, Warranted
<1>5. ObjectsMove
  BY <1>2 DEF ObjectsMove
<1>6. QED
  BY <1>1, <1>2, <1>4, <1>5, ObjectsStep DEF OnlyObjects

LEMMA StateStep ==
    ASSUME PhotosInv, NEW j \in Jobs, Processing(j) \/ Fail(j) PROVE PhotosInv'
<1>1. /\ jobs[j] # NoJob /\ OnlyRows /\ jobs[j].kind = "complete"
      /\ jobs[j].photo \in Photos
  BY DEF Processing, Fail, At, PhotosInv, PhotosTyped, Marking, JobRows
<1>2. Go(j, "file") \/ Go(j, "failed") \/ Leave(j)
  BY DEF Processing, Fail
<1>3. JobStep(j)
  BY <1>1, <1>2, JobLeaves, JobGoes DEF PhotosInv, Stages, Warranted
<1>4. RowsTyped /\ RowsMove
  BY <1>1, StateSet, SameRows DEF Processing, Fail, PhotoStates
<1>5. QED
  BY <1>1, <1>3, <1>4, RowsStep

LEMMA ReadyStep ==
    ASSUME PhotosInv, NEW j \in Jobs, SetReady(j) PROVE PhotosInv'
<1>1. /\ jobs[j] # NoJob /\ jobs[j] \in JobRows /\ OnlyRows /\ jobs[j].kind = "complete"
      /\ jobs[j].pc = "ready"
  BY DEF SetReady, At, PhotosInv, PhotosTyped, Marking
<1>2. PICK f, first : f = jobs[j].photo /\ first = jobs[j].first
  OBVIOUS
<1>3. f \in Photos /\ first \in BOOLEAN
  BY <1>1, <1>2 DEF JobRows
<1>4. Go(j, "cleanUp") \/ Go(j, "failed")
  BY DEF SetReady
<1>5. JobStep(j)
  BY <1>1, <1>4, JobGoes DEF PhotosInv, Stages, Warranted
<1>6. CASE UNCHANGED photo
  BY <1>1, <1>5, <1>6, SameRows, RowsStep
<1>7. CASE Stored(f)
  <2> DEFINE Row(g) == IF g = f THEN Processed(first)
                       ELSE IF first /\ g \in Rows(HomeOf(j))
                            THEN [photo[g] EXCEPT !.primary = FALSE] ELSE photo[g]
  <2>1. photo' = [g \in Photos |-> Row(g)]
    BY <1>2, <1>7 DEF SetReady
  <2>2. f \in images
    BY <1>1, <1>2, <1>3, <1>7, PhotoStatesDiffer DEF PhotosInv, ImageFirst, Removed
  <2>3. ASSUME NEW g \in Photos
        PROVE  \/ Row(g) = photo[g]
               \/ /\ Stored(g) /\ Row(g) \in PhotoRows
                  /\ Row(g).state = "READY" => g \in images
    <3>1. CASE g = f
      BY <1>3, <1>7, <2>2, <3>1 DEF Processed, PhotoRows, PhotoStates
    <3>2. CASE g # f /\ first /\ g \in Rows(HomeOf(j))
      BY <3>2, RowStored, FlagSet DEF PhotosInv, ReadyHasImage
    <3>3. QED
      BY <3>1, <3>2
  <2> HIDE DEF Row
  <2>4. RowsTyped /\ RowsMove
    BY <2>1, <2>3 DEF RowsTyped, RowsMove, PhotosInv, ListingInv, TypeOK
  <2>5. QED
    BY <1>1, <1>5, <2>4, RowsStep
<1>8. QED
  BY <1>2, <1>6, <1>7 DEF SetReady

LEMMA RemoveStep ==
    ASSUME PhotosInv, NEW j \in Jobs,
           DeleteRow(j) \/ DeleteObjects(j) \/ FindNext(j) \/ Promote(j)
    PROVE  PhotosInv'
<1>1. /\ jobs[j] # NoJob /\ jobs[j] \in JobRows /\ jobs[j].kind = "remove"
  BY DEF DeleteRow, DeleteObjects, FindNext, Promote, At, PhotosInv, PhotosTyped, Marking
<1>2. PICK f : f = jobs[j].photo
  OBVIOUS
<1>3. f \in Photos
  BY <1>1, <1>2 DEF JobRows
<1>4. CASE DeleteRow(j)
  <2>1. RowsTyped /\ RowsMove
    BY <1>2, <1>3, <1>4, OneRow, SameRows, PhotoStatesDiffer DEF DeleteRow
  <2>2. \/ Go(j, "objects") /\ photo'[f] = NoMorePhoto
        \/ Leave(j)
    BY <1>2, <1>3, <1>4 DEF DeleteRow, PhotosInv, ListingInv, TypeOK
  <2>3. JobStep(j)
    BY <1>1, <1>2, <2>2, JobLeaves, JobGoes DEF PhotosInv, Stages, Warranted
  <2>4. QED
    BY <1>4, <2>1, <2>3, RowsStep DEF DeleteRow
<1>5. CASE DeleteObjects(j)
  <2>1. Removed(f)
    BY <1>1, <1>2, <1>5 DEF DeleteObjects, At, PhotosInv, ImageFirst
  <2>2. /\ images' \subseteq images /\ images \ images' \subseteq {f}
        /\ uploads' \subseteq uploads
    BY <1>2, <1>5 DEF DeleteObjects
  <2>3. JobStep(j)
    <3>1. Go(j, "next") \/ Leave(j)
      BY <1>5 DEF DeleteObjects
    <3>2. QED
      BY <1>1, <3>1, JobLeaves, JobGoes DEF PhotosInv, Stages, Warranted
  <2>4. ObjectsMove
    BY <2>1, <2>2 DEF ObjectsMove
  <2>5. QED
    BY <1>5, <2>2, <2>3, <2>4, ObjectsStep
       DEF DeleteObjects, OnlyObjects, PhotosInv, PhotosTyped
<1>6. CASE FindNext(j)
  <2>1. CASE Leave(j)
    BY <1>6, <2>1, JobLeaves, NothingStored, ObjectsStep DEF FindNext, OnlyObjects, PhotosInv
  <2>2. ASSUME NEW g \in Photos,
               jobs' = [jobs EXCEPT ![j].pc = "promote", ![j].photo = g]
        PROVE  PhotosInv'
    <3> DEFINE now == [jobs[j] EXCEPT !.pc = "promote", !.photo = g]
    <3>1. now \in Marking /\ now.kind = "remove" /\ now.pc = "promote"
      BY <1>1 DEF Marking, JobRows, Stages
    <3>2. jobs' = [jobs EXCEPT ![j] = now]
      BY <2>2
    <3> HIDE DEF now
    <3>3. JobStep(j)
      BY <3>1, <3>2, JobBecomes DEF PhotosInv
    <3>4. QED
      BY <1>6, <3>3, NothingStored, ObjectsStep DEF FindNext, OnlyObjects
  <2>3. QED
    BY <1>6, <2>1, <2>2 DEF FindNext, Ready, PhotosOf
<1>7. CASE Promote(j)
  <2>1. JobStep(j)
    BY <1>7, JobLeaves DEF Promote, PhotosInv
  <2>2. RowsTyped /\ RowsMove
    <3>1. CASE Stored(f)
      <4> DEFINE row == [photo[f] EXCEPT !.primary = TRUE]
      <4>1. row \in PhotoRows /\ row.state = photo[f].state
        BY <1>3, <3>1, FlagSet
      <4>2. photo' = [photo EXCEPT ![f] = row]
        BY <1>2, <1>7, <3>1 DEF Promote
      <4> HIDE DEF row
      <4>3. QED
        BY <1>3, <3>1, <4>1, <4>2, OneRow DEF PhotosInv, ReadyHasImage
    <3>2. CASE ~Stored(f)
      BY <1>2, <1>7, <3>2, SameRows DEF Promote
    <3>3. QED
      BY <3>1, <3>2
  <2>3. QED
    BY <1>7, <2>1, <2>2, RowsStep DEF Promote
<1>8. QED
  BY <1>4, <1>5, <1>6, <1>7

-----------------------------------------------------------------------------
(* The listing's own steps.                                                *)

\* The row of a home that is there, or not yet, is written.
Writes(h, row) == /\ home[h] # Gone /\ row.status \in PropertyStatus
                  /\ home' = [home EXCEPT ![h] = row]

LEMMA RowWritten ==
    ASSUME TypeOK, NEW h \in Homes, NEW row, Writes(h, row) PROVE HomesMove
BY DEF HomesMove, TypeOK, Gone, Writes

LEMMA StatusWritten ==
    ASSUME TypeOK, NEW h \in Homes, Exists(h), NEW s \in PropertyStatus, SetStatus(h, s)
    PROVE  HomesMove
<1> DEFINE row == [home[h] EXCEPT !.status = s]
<1>1. home[h] \in PropertyRows /\ home[h] # Gone
  BY RowOfHome DEF PropertyRows, Gone
<1>2. row.status = s
  BY <1>1 DEF PropertyRows
<1>3. home' = [home EXCEPT ![h] = row]
  BY DEF SetStatus
<1> HIDE DEF row
<1>4. QED
  BY <1>1, <1>2, <1>3, RowWritten DEF Writes

LEMMA OwnersMove ==
    ASSUME ListingInv, OwnerOrModerator
    PROVE  HomesMove /\ UNCHANGED photo
<1> USE DEF ListingInv
<1>0. ASSUME UNCHANGED home PROVE HomesMove
  BY <1>0 DEF HomesMove
<1>1. ASSUME NEW h \in Homes, CreateDraft(h) PROVE HomesMove /\ UNCHANGED photo
  <2>1. home[h] # Gone /\ Draft.status \in PropertyStatus
    BY <1>1 DEF CreateDraft, NoHome, Gone, Draft
  <2>2. QED
    BY <1>1, <2>1, RowWritten DEF CreateDraft, Writes
<1>2. ASSUME NEW h \in Homes, CancelSubmission(h) \/ Hide(h) PROVE HomesMove /\ UNCHANGED photo
  BY <1>2, StatusWritten DEF CancelSubmission, Hide, Mine
<1>3. ASSUME NEW h \in Homes, Exists(h),
             NEW s \in PropertyStatus, NEW deleted,
             home' = [home EXCEPT ![h].status = s, ![h].deleted = deleted]
      PROVE  HomesMove
  <2> DEFINE row == [home[h] EXCEPT !.status = s, !.deleted = deleted]
  <2>1. home[h] \in PropertyRows /\ home[h] # Gone
    BY <1>3, RowOfHome DEF PropertyRows, Gone
  <2>2. row.status = s /\ home' = [home EXCEPT ![h] = row]
    BY <1>3, <2>1 DEF PropertyRows
  <2> HIDE DEF row
  <2>3. QED
    BY <1>3, <2>1, <2>2, RowWritten DEF Writes
<1>4. ASSUME NEW h \in Homes, Restore(h) PROVE HomesMove /\ UNCHANGED photo
  BY <1>3, <1>4, StatusWritten DEF Restore, Mine
<1>5. ASSUME NEW h \in Homes, NEW verdict \in Verdicts, Decide(h, verdict)
      PROVE  HomesMove /\ UNCHANGED photo
  BY <1>5, StatusWritten DEF Decide, Undecided, StatusIs, Exists
<1>6. ASSUME NEW c \in Calls, HandlerStart(c) PROVE HomesMove /\ UNCHANGED photo
  BY <1>0, <1>6 DEF HandlerStart, UpdateRead, SubmitRead, ArchiveRead, Begin
<1>7. ASSUME NEW c \in Calls, UpdateWrite(c) PROVE HomesMove /\ UNCHANGED photo
  <2> DEFINE w == work[c]
             row == [home[w.home] EXCEPT !.status = AfterContentEdit(w.seen), !.text = @ + 1]
  <2>1. w \in Works
    BY <1>7, WorkRow DEF UpdateWrite
  <2>2. w.home \in Homes /\ AfterContentEdit(w.seen) \in PropertyStatus
    BY <2>1 DEF Works, AfterContentEdit
  <2>3. CASE Exists(w.home)
    <3>1. home[w.home] \in PropertyRows /\ home[w.home] # Gone
      BY <2>2, <2>3, RowOfHome DEF PropertyRows, Gone
    <3>2. row.status \in PropertyStatus /\ home' = [home EXCEPT ![w.home] = row]
      BY <1>7, <2>2, <2>3, <3>1 DEF UpdateWrite, PropertyRows
    <3> HIDE DEF row
    <3>3. QED
      BY <1>7, <2>2, <3>1, <3>2, RowWritten DEF UpdateWrite, Writes
  <2>4. CASE ~Exists(w.home)
    BY <1>0, <1>7, <2>4 DEF UpdateWrite
  <2>5. QED
    BY <2>3, <2>4
<1>8. ASSUME NEW c \in Calls, SubmitWrite(c) \/ ArchiveWrite(c)
      PROVE  HomesMove /\ UNCHANGED photo
  <2>1. PICK h : h = work[c].home
    OBVIOUS
  <2>2. work[c] \in Works
    BY <1>8, WorkRow DEF SubmitWrite, ArchiveWrite
  <2>3. h \in Homes /\ (StillAs(h, work[c].seen) => Exists(h))
    BY <2>1, <2>2 DEF Works, StillAs, StatusIs, Exists
  <2>4. CASE SubmitWrite(c)
    BY <1>0, <2>1, <2>3, <2>4, StatusWritten DEF SubmitWrite
  <2>5. CASE ArchiveWrite(c)
    BY <1>0, <1>3, <2>1, <2>3, <2>5 DEF ArchiveWrite
  <2>6. QED
    BY <1>8, <2>4, <2>5
<1>9. ASSUME NEW c \in Calls, ArchiveCheck(c) PROVE HomesMove /\ UNCHANGED photo
  BY <1>0, <1>9 DEF ArchiveCheck
<1>10. QED
  BY <1>1, <1>2, <1>4, <1>5, <1>6, <1>7, <1>8, <1>9 DEF OwnerOrModerator, HandlerContinue

LEMMA ListingSteps ==
    ASSUME PhotosInv, Listing(OwnerOrModerator \/ Surroundings) PROVE PhotosInv'
<1>1. UNCHANGED <<storeVars, jobs>> /\ (OwnerOrModerator \/ Surroundings)
  BY DEF Listing
<1>2. ListingInv' /\ PhotosTyped'
  BY <1>1, ListingStep DEF PhotosInv, PhotosTyped, storeVars, ListingNext
<1>3. ObjectsMove /\ \A j \in Jobs : JobMoves(j)
  BY <1>1 DEF ObjectsMove, JobMoves, storeVars
<1>4. HomesMove /\ RowsMove
  <2>1. CASE OwnerOrModerator
    BY <2>1, OwnersMove DEF RowsMove, PhotosInv
  <2>2. ASSUME NEW hs \in SUBSET Homes, Engage(hs) PROVE HomesMove /\ RowsMove
    BY <2>2 DEF Engage, HomesMove, RowsMove
  <2>3. ASSUME NEW hs \in SUBSET Homes, DeleteHomes(hs) PROVE HomesMove /\ RowsMove
    BY <2>3, PhotoHomeType DEF DeleteHomes, HomesMove, RowsMove, PhotosOf, HomeGone
  <2>4. QED
    BY <1>1, <2>1, <2>2, <2>3 DEF Surroundings
<1>5. QED
  BY <1>2, <1>3, <1>4, StoreStays DEF StoreMoves

\* The client sends a file; deleteUser deletes objects of homes that are gone.
LEMMA FilesStep ==
    ASSUME PhotosInv,
           (\E f \in Photos : Upload(f)) \/ (\E h \in Homes : Purge(h))
    PROVE  PhotosInv'
<1>1. UNCHANGED <<listingVars, jobs>> /\ uploads' \subseteq Photos /\ images' \subseteq Photos
  BY DEF Upload, Purge, PhotosInv, PhotosTyped
<1>2. ObjectsMove
  BY DEF Upload, Purge, ObjectsMove, PhotosOf, PhotosInv, GoneHasNone, HomeGone
<1>3. ListingInv' /\ PhotosTyped'
  BY <1>1, ListingStep DEF PhotosInv, PhotosTyped
<1>4. StoreMoves
  BY <1>1, <1>2 DEF StoreMoves, HomesMove, RowsMove, JobMoves, listingVars
<1>5. QED
  BY <1>3, <1>4, StoreStays

LEMMA PhotosInvNext == PhotosInv /\ [PhotosNext]_photoVars => PhotosInv'
<1> SUFFICES ASSUME PhotosInv, [PhotosNext]_photoVars PROVE PhotosInv'
  OBVIOUS
<1>1. CASE UNCHANGED photoVars
  <2>1. UNCHANGED <<listingVars, storeVars, jobs>>
    BY <1>1 DEF photoVars
  <2>2. ListingInv' /\ PhotosTyped'
    BY <2>1, ListingStep DEF PhotosInv, PhotosTyped, storeVars
  <2>3. StoreMoves
    BY <2>1
       DEF StoreMoves, HomesMove, RowsMove, ObjectsMove, JobMoves, listingVars, storeVars
  <2>4. QED
    BY <2>2, <2>3, StoreStays
<1>2. ASSUME NEW j \in Jobs, JobContinue(j) PROVE PhotosInv'
  BY <1>2, ReadStep, MarkStep, CreateRowStep, ShortStep, DecidingStep, StoringStep, StateStep,
     ReadyStep, RemoveStep DEF JobContinue
<1>3. QED
  BY <1>1, <1>2, ListingSteps, FilesStep, StartOfJob DEF PhotosNext

LEMMA PhotosInvariant == PhotosSpec => []PhotosInv
BY PhotosInvInit, PhotosInvNext, PTL DEF PhotosSpec

\* Rows, objects and the handlers between two awaits stay well typed.
THEOREM PhotoTypes == PhotosSpec => []PhotosTypeOK
<1>1. PhotosInv => PhotosTypeOK
  BY DEF PhotosInv, ListingInv, PhotosTyped, Marking, PhotosTypeOK
<1>2. QED
  BY <1>1, PhotosInvariant, PTL

\* What is shown as READY has its image, for any number of completions,
\* removals and deletions in flight (property-photos.service.ts complete,
\* which stores before it says so, and remove, which does the reverse).
THEOREM ReadyPhotosHaveImages == PhotosSpec => []ReadyHasImage
BY PhotosInvariant, PTL DEF PhotosInv

\* The photo handlers, which take the home out of the catalogue whatever it
\* has become, let no text into it that was not submitted (markContentChanged).
THEOREM PhotosKeepTexts == PhotosSpec => []TextAsSubmitted
BY PhotosInvariant, PTL DEF PhotosInv, ListingInv

-----------------------------------------------------------------------------
(* The primary photo.  The predicates are over a handler w and photos p, so *)
(* that a lemma says what one write does and the steps only cite it.       *)

\* What is said of the photos p of a home h, whatever p is: the rows, the READY
\* ones, the primary ones; that one at most is primary, and that one is if any
\* is READY.
Has(p, h) == {f \in Photos : PhotoHome[f] = h /\ p[f].state \in PhotoStates}
ReadyIn(p, h) == {f \in Photos : PhotoHome[f] = h /\ p[f].state = "READY"}
Flagged(p, h) == {f \in Has(p, h) : p[f].primary}
FlagOnce(p, h) == \A f, g \in Flagged(p, h) : f = g
FlagThere(p, h) == ReadyIn(p, h) = {} \/ \E f \in ReadyIn(p, h) : p[f].primary

\* The stages after the row is read and before it is written.
Opening == {"mark", "markWrite", "act"}
\* A removal that may still have to promote a photo of h.
Tail(w, h) == /\ w.kind = "remove" /\ PhotoHome[w.photo] = h
              /\ w.pc \in {"objects", "next", "promote"}

\* What the handler read is still so when it writes.
Opened(w, p) ==
    LET f == w.photo  rows == Has(p, PhotoHome[w.photo]) IN
    w.pc \in Opening =>
        /\ w.kind = "createUpload" /\ w.first => rows = {}
        /\ w.kind = "setPrimary" /\ f \in rows => p[f].state = "READY"
        /\ w.kind = "remove" /\ f \in rows => w.row = p[f]
\* complete: its photo is not READY before it says so, what it counted is so when
\* it writes, and only the sole READY photo can be the primary one it fails.
Completes(w, p) ==
    LET f == w.photo  h == PhotoHome[w.photo] IN
    w.kind = "complete" =>
        /\ w.pc \in Opening \cup {"processing", "file", "put", "count", "ready"}
               => p[f].state # "READY"
        /\ w.pc = "ready" /\ f \in Has(p, h)
               => (w.first <=> \A g \in ReadyIn(p, h) : ~p[g].primary)
        /\ w.pc \in {"cleanUp", "failed"} /\ f \in ReadyIn(p, h) /\ p[f].primary
               => ReadyIn(p, h) = {f}
\* remove: no photo of the home is primary from the deletion of the primary row on.
Removes(w, p) ==
    LET f == w.photo  h == PhotoHome[w.photo] IN
    w.kind = "remove" =>
        /\ w.pc = "objects" /\ ~w.row.primary => FlagThere(p, h)
        /\ (w.pc = "objects" /\ w.row.primary) \/ w.pc \in {"next", "promote"}
               => Flagged(p, h) = {}
        /\ w.pc = "promote" => IF f \in Has(p, h) THEN p[f].state = "READY"
                               ELSE ReadyIn(p, h) = {}

\* The inductive invariant for one handler w over photos p.
Fine(w, p) == /\ \A h \in Homes : FlagOnce(p, h)
              /\ \A h \in Homes : FlagThere(p, h) \/ Tail(w, h)
              /\ Opened(w, p) /\ Completes(w, p) /\ Removes(w, p)

PhotoTable == [Photos -> PhotoRows \cup {NoPhoto, NoMorePhoto}]

\* The READY photos of a home are rows of it.
LEMMA ReadyIsRow ==
    ASSUME NEW p, NEW h
    PROVE  ReadyIn(p, h) \subseteq Has(p, h) /\ ReadyIn(p, h) = {f \in Has(p, h) : p[f].state = "READY"}
BY DEF ReadyIn, Has, PhotoStates

\* What happens to the photos of one home is nothing to the others.
LEMMA OtherHomes ==
    ASSUME NEW p, NEW q, NEW h, NEW k, k # h,
           \A g \in Photos : PhotoHome[g] # h => q[g] = p[g]
    PROVE  (FlagOnce(p, k) => FlagOnce(q, k)) /\ (FlagThere(p, k) => FlagThere(q, k))
<1>1. Has(q, k) = Has(p, k) /\ ReadyIn(q, k) = ReadyIn(p, k)
  BY DEF Has, ReadyIn
<1>2. /\ \A g \in Has(p, k) : q[g] = p[g]
      /\ \A g \in ReadyIn(p, k) : q[g] = p[g]
  BY DEF Has, ReadyIn
<1>3. Flagged(q, k) = Flagged(p, k)
  BY <1>1, <1>2 DEF Flagged
<1>4. QED
  BY <1>1, <1>2, <1>3 DEF FlagOnce, FlagThere

\* One handler is done, with nothing more to promote.
LEMMA FineAtRest ==
    ASSUME NEW w, NEW p, Fine(w, p), \A h \in Homes : Tail(w, h) => FlagThere(p, h)
    PROVE  Fine(NoJob, p)
BY DEF Fine, NoJob, Opened, Completes, Removes

\* A handler that is not in a tail goes on.
LEMMA FineGoes ==
    ASSUME NEW w, NEW p, Fine(w, p), NEW v,
           \A h \in Homes : Tail(w, h) => Tail(v, h) \/ FlagThere(p, h),
           Opened(v, p), Completes(v, p), Removes(v, p)
    PROVE  Fine(v, p)
BY DEF Fine

\* Homes go with all their photos.
LEMMA FineDelete ==
    ASSUME NEW w \in JobRows \cup {NoJob}, NEW p \in PhotoTable, NEW q \in PhotoTable, Fine(w, p), NEW hs,
           \A f \in Photos : q[f] = IF PhotoHome[f] \in hs THEN NoMorePhoto ELSE p[f]
    PROVE  Fine(w, q)
<1>1. \A h : h \in hs => Has(q, h) = {} /\ ReadyIn(q, h) = {} /\ Flagged(q, h) = {}
  BY DEF Has, ReadyIn, Flagged, NoMorePhoto, PhotoStates
<1>2. ASSUME NEW h, h \notin hs
      PROVE  /\ Has(q, h) = Has(p, h) /\ ReadyIn(q, h) = ReadyIn(p, h)
             /\ \A f \in Has(p, h) : q[f] = p[f]
  BY <1>2 DEF Has, ReadyIn
<1>3. ASSUME NEW h, h \notin hs
      PROVE  /\ Flagged(q, h) = Flagged(p, h) /\ FlagThere(q, h) = FlagThere(p, h)
             /\ FlagOnce(q, h) = FlagOnce(p, h)
  BY <1>2, <1>3, ReadyIsRow DEF Flagged, FlagThere, FlagOnce
<1>4. \A h : h \in hs => FlagOnce(q, h) /\ FlagThere(q, h)
  BY <1>1 DEF FlagOnce, FlagThere
<1>5. \A h \in Homes : FlagOnce(q, h) /\ (FlagThere(q, h) \/ Tail(w, h))
  BY <1>3, <1>4 DEF Fine
<1>6. CASE w = NoJob
  BY <1>5, <1>6 DEF Fine, NoJob, Opened, Completes, Removes
<1>7. CASE w \in JobRows
  <2> DEFINE f == w.photo
             h == PhotoHome[f]
  <2>1. f \in Photos /\ (h \in hs => q[f] = NoMorePhoto) /\ (h \notin hs => q[f] = p[f])
    BY <1>7 DEF JobRows
  <2>2. Opened(w, q)
    BY <1>1, <1>2, <2>1 DEF Fine, Opened
  <2>3. Completes(w, q)
    BY <1>1, <1>2, <2>1, ReadyIsRow DEF Fine, Completes, NoMorePhoto
  <2>4. Removes(w, q)
    BY <1>1, <1>2, <1>3, <1>4, <2>1 DEF Fine, Removes
  <2>5. QED
    BY <1>5, <2>2, <2>3, <2>4 DEF Fine
<1>8. QED
  BY <1>6, <1>7

\* createUpload makes a row where there was none.
LEMMA FineCreate ==
    ASSUME NEW w \in JobRows, NEW p \in PhotoTable, NEW q \in PhotoTable, Fine(w, p),
           w.kind = "createUpload", w.pc = "act", p[w.photo] = NoPhoto,
           q = [p EXCEPT ![w.photo] = [state |-> "PENDING_UPLOAD", stored |-> "private",
                                      primary |-> w.first]]
    PROVE  Fine(NoJob, q)
<1> DEFINE f == w.photo
<1>1. /\ f \in Photos /\ q[f].state = "PENDING_UPLOAD" /\ q[f].primary = w.first
      /\ \A g \in Photos \ {f} : q[g] = p[g]
  BY DEF JobRows, PhotoTable
<1>2. \A h : ReadyIn(q, h) = ReadyIn(p, h) /\ f \notin ReadyIn(q, h) /\ f \notin Has(p, h)
  BY <1>1 DEF ReadyIn, NoPhoto, Has, PhotoStates
<1>3. \A h \in Homes : FlagThere(q, h)
  BY <1>1, <1>2 DEF Fine, FlagThere, Tail, ReadyIn
<1>4. \A h \in Homes : FlagOnce(q, h)
  <2> SUFFICES ASSUME NEW h \in Homes, NEW a \in Flagged(q, h), NEW b \in Flagged(q, h) PROVE a = b
    BY DEF FlagOnce
  <2>1. \A g \in Flagged(q, h) : g = f \/ g \in Flagged(p, h)
    BY <1>1 DEF Flagged, Has
  <2>2. f \in Flagged(q, h) => Has(p, h) = {}
    BY <1>1 DEF Flagged, Has, Fine, Opened, Opening
  <2>3. QED
    BY <2>1, <2>2 DEF Fine, FlagOnce, Flagged
<1>5. QED
  BY <1>3, <1>4 DEF Fine, NoJob, Opened, Completes, Removes

\* setPrimary: one READY photo of the home is primary then.
LEMMA FineSet ==
    ASSUME NEW w \in JobRows, NEW p \in PhotoTable, NEW q \in PhotoTable, Fine(w, p),
           w.kind = "setPrimary", w.pc = "act",
           LET f == w.photo  h == PhotoHome[w.photo] IN
           q = [g \in Photos |-> IF f \in Has(p, h) /\ g \in Has(p, h)
                                 THEN [p[g] EXCEPT !.primary = g = f] ELSE p[g]]
    PROVE  Fine(NoJob, q)
<1> DEFINE f == w.photo
           h == PhotoHome[f]
<1>1. f \in Photos
  BY DEF JobRows
<1>2. CASE f \notin Has(p, h)
  <2>1. q = p
    BY <1>2 DEF PhotoTable
  <2>2. QED
    BY <2>1, FineAtRest DEF Tail
<1>3. CASE f \in Has(p, h)
  <2>1. p[f].state = "READY"
    BY <1>3 DEF Fine, Opened, Opening
  <2>2. \A g \in Has(p, h) : /\ q[g].state = p[g].state /\ q[g].primary = (g = f)
    <3> SUFFICES ASSUME NEW g \in Has(p, h) PROVE q[g].state = p[g].state /\ q[g].primary = (g = f)
      OBVIOUS
    <3>1. g \in Photos /\ p[g] \in PhotoRows
      BY DEF Has, PhotoTable, NoPhoto, NoMorePhoto, PhotoStates
    <3>2. q[g] = [p[g] EXCEPT !.primary = g = f]
      BY <1>3, <3>1
    <3>3. QED
      BY <3>1, <3>2 DEF PhotoRows
  <2>3. \A g \in Photos \ Has(p, h) : q[g] = p[g]
    OBVIOUS
  <2> HIDE DEF h
  <2>4. \A g \in Photos : PhotoHome[g] # h => q[g] = p[g]
    BY <2>3 DEF Has
  <2>5. ASSUME NEW k \in Homes, k # h PROVE FlagOnce(q, k) /\ FlagThere(q, k)
    BY <2>4, <2>5, OtherHomes DEF Fine, Tail
  <2>6. Has(q, h) = Has(p, h)
    BY <2>2, <2>3 DEF Has
  <2>7. FlagOnce(q, h)
    BY <2>2, <2>6 DEF FlagOnce, Flagged
  <2>8. f \in ReadyIn(q, h) /\ q[f].primary
    BY <1>1, <1>3, <2>1, <2>2 DEF ReadyIn, h
  <2>9. FlagThere(q, h)
    BY <2>8 DEF FlagThere
  <2>10. QED
    BY <2>5, <2>7, <2>9 DEF Fine, NoJob, Opened, Completes, Removes
<1>4. QED
  BY <1>2, <1>3

\* One row of a home gets another state, or is made READY, or goes.
LEMMA FineState ==
    ASSUME NEW w \in JobRows, NEW p \in PhotoTable, NEW q \in PhotoTable, Fine(w, p),
           w.kind = "complete", w.pc \in {"processing", "failed"},
           w.photo \in Has(p, PhotoHome[w.photo]),
           q[w.photo].state \in PhotoStates \ {"READY"},
           q[w.photo].primary = p[w.photo].primary,
           \A g \in Photos \ {w.photo} : q[g] = p[g]
    PROVE  \A k \in Homes : FlagOnce(q, k) /\ FlagThere(q, k)
<1> DEFINE f == w.photo
           h == PhotoHome[f]
<1>1. f \in Photos /\ f \in Has(p, h)
  BY DEF JobRows
<1>2. /\ q[f].state \in PhotoStates /\ q[f].state # "READY" /\ q[f].primary = p[f].primary
      /\ \A g \in Photos \ {f} : q[g] = p[g]
  OBVIOUS
<1> HIDE DEF h
<1>3. ASSUME NEW k \in Homes, k # h PROVE FlagOnce(q, k) /\ FlagThere(q, k)
  <2>1. \A g \in Photos : PhotoHome[g] # h => q[g] = p[g]
    BY <1>2 DEF h
  <2>2. FlagOnce(p, k) /\ FlagThere(p, k)
    BY <1>3 DEF Fine, Tail
  <2>3. QED
    BY <1>3, <2>1, <2>2, OtherHomes
<1>4. \A g \in Flagged(q, h) : g \in Flagged(p, h)
  BY <1>1, <1>2 DEF Flagged, Has
<1>5. h \in Homes
  BY <1>1, PhotoHomeType DEF h
<1>6. FlagOnce(q, h)
  BY <1>4, <1>5 DEF Fine, FlagOnce
<1>7. ReadyIn(q, h) = ReadyIn(p, h) \ {f}
  BY <1>1, <1>2 DEF ReadyIn
<1>8. f \in ReadyIn(p, h) /\ p[f].primary => ReadyIn(p, h) = {f}
  <2>1. w.pc = "processing" => f \notin ReadyIn(p, h)
    BY DEF Fine, Completes, ReadyIn
  <2>2. w.pc = "failed" /\ f \in ReadyIn(p, h) /\ p[f].primary => ReadyIn(p, h) = {f}
    BY DEF Fine, Completes, h
  <2>3. QED
    BY <2>1, <2>2
<1>9. FlagThere(p, h)
  BY <1>5 DEF Fine, Tail
<1>10. \A g \in ReadyIn(q, h) : g \in Photos \ {f}
  BY <1>7 DEF ReadyIn
<1>11. FlagThere(q, h)
  BY <1>2, <1>7, <1>8, <1>9, <1>10 DEF FlagThere
<1>12. QED
  BY <1>3, <1>6, <1>11

\* complete: the photo is READY, and primary if no READY one was.
LEMMA FineReady ==
    ASSUME NEW w \in JobRows, NEW p \in PhotoTable, NEW q \in PhotoTable, Fine(w, p),
           w.kind = "complete", w.pc = "ready",
           w.photo \in Has(p, PhotoHome[w.photo]),
           q = [g \in Photos |->
                   IF g = w.photo THEN Processed(w.first)
                   ELSE IF w.first /\ g \in Has(p, PhotoHome[w.photo])
                        THEN [p[g] EXCEPT !.primary = FALSE] ELSE p[g]]
    PROVE  Fine([w EXCEPT !.pc = "cleanUp"], q)
<1> DEFINE f == w.photo
           h == PhotoHome[f]
           v == [w EXCEPT !.pc = "cleanUp"]
<1>1. f \in Photos /\ w.first \in BOOLEAN
  BY DEF JobRows
<1>2. v.kind = "complete" /\ v.pc = "cleanUp" /\ v.photo = f
  BY DEF JobRows
<1> HIDE DEF v
<1>3. q[f].state = "READY" /\ q[f].primary = w.first
  BY <1>1 DEF Processed
<1>4. \A g \in Has(p, h) \ {f} : /\ q[g].state = p[g].state
                               /\ q[g].primary = (p[g].primary /\ ~w.first)
  <2> SUFFICES ASSUME NEW g \in Has(p, h) \ {f}
               PROVE  q[g].state = p[g].state /\ q[g].primary = (p[g].primary /\ ~w.first)
    OBVIOUS
  <2>1. g \in Photos /\ p[g] \in PhotoRows
    BY DEF Has, PhotoTable, NoPhoto, NoMorePhoto, PhotoStates
  <2>2. q[g] = IF w.first THEN [p[g] EXCEPT !.primary = FALSE] ELSE p[g]
    BY <2>1
  <2>3. QED
    BY <1>1, <2>1, <2>2 DEF PhotoRows
<1>5. \A g \in Photos \ Has(p, h) : q[g] = p[g]
  OBVIOUS
<1> HIDE DEF h
<1>6. h \in Homes
  BY <1>1, PhotoHomeType DEF h
<1>7. ASSUME NEW k \in Homes, k # h PROVE FlagOnce(q, k) /\ FlagThere(q, k)
  <2>1. \A g \in Photos : PhotoHome[g] # h => q[g] = p[g]
    BY <1>5 DEF Has
  <2>2. FlagOnce(p, k) /\ FlagThere(p, k)
    BY <1>7 DEF Fine, Tail
  <2>3. QED
    BY <1>7, <2>1, <2>2, OtherHomes
<1>8. p[f].state # "READY" /\ (w.first <=> \A g \in ReadyIn(p, h) : ~p[g].primary)
  BY DEF Fine, Completes, h
<1>9. \A g \in Has(q, h) : g = f \/ g \in Has(p, h) \ {f}
  BY <1>5 DEF Has
<1>10. FlagOnce(q, h)
  <2> SUFFICES ASSUME NEW a \in Flagged(q, h), NEW b \in Flagged(q, h) PROVE a = b
    BY DEF FlagOnce
  <2>1. CASE w.first
    BY <1>4, <1>9, <2>1 DEF Flagged
  <2>2. CASE ~w.first
    <3>1. \A g \in Flagged(q, h) : g \in Flagged(p, h)
      BY <1>3, <1>4, <1>9, <2>2 DEF Flagged
    <3>2. QED
      BY <1>6, <3>1 DEF Fine, FlagOnce
  <2>3. QED
    BY <2>1, <2>2
<1>11. f \in ReadyIn(q, h) /\ \A g \in Photos \ {f} : g \in ReadyIn(p, h) => g \in ReadyIn(q, h)
  <2>1. f \in ReadyIn(q, h)
    BY <1>1, <1>3 DEF ReadyIn, h
  <2>2. QED
    BY <2>1, <1>4, ReadyIsRow DEF ReadyIn
<1>12. FlagThere(q, h)
  <2>1. CASE w.first
    BY <1>3, <1>11, <2>1 DEF FlagThere
  <2>2. CASE ~w.first
    <3>1. PICK g \in ReadyIn(p, h) : p[g].primary
      BY <1>8, <2>2
    <3>2. g \in Has(p, h) \ {f} /\ g \in Photos
      BY <1>8, ReadyIsRow DEF ReadyIn
    <3>3. q[g].primary /\ g \in ReadyIn(q, h)
      BY <1>4, <1>11, <2>2, <3>1, <3>2
    <3>4. QED
      BY <3>3 DEF FlagThere
  <2>3. QED
    BY <2>1, <2>2
<1>13. w.first => ReadyIn(q, h) = {f}
  <2> SUFFICES ASSUME w.first PROVE ReadyIn(q, h) = {f}
    OBVIOUS
  <2>1. ReadyIn(p, h) = {}
    BY <1>6, <1>8 DEF Fine, FlagThere, Tail
  <2>2. \A g \in ReadyIn(q, h) : g = f
    BY <1>4, <1>9, <2>1, ReadyIsRow DEF ReadyIn
  <2>3. QED
    BY <1>11, <2>2
<1>14. Completes(v, q) /\ Opened(v, q) /\ Removes(v, q)
  BY <1>2, <1>3, <1>13 DEF Completes, Opened, Removes, Opening, h
<1>15. QED
  BY <1>7, <1>10, <1>12, <1>14 DEF Fine, v

\* remove: the row goes, and with it the flag if it was the primary one.
LEMMA FineRemove ==
    ASSUME NEW w \in JobRows, NEW p \in PhotoTable, NEW q \in PhotoTable, Fine(w, p),
           w.kind = "remove", w.pc = "act", w.photo \in Has(p, PhotoHome[w.photo]),
           q[w.photo] = NoMorePhoto, \A g \in Photos \ {w.photo} : q[g] = p[g]
    PROVE  Fine([w EXCEPT !.pc = "objects"], q)
<1> DEFINE f == w.photo
           h == PhotoHome[f]
           v == [w EXCEPT !.pc = "objects"]
<1>1. f \in Photos
  BY DEF JobRows
<1>2. v.kind = "remove" /\ v.pc = "objects" /\ v.photo = f /\ v.row = w.row
  BY DEF JobRows
<1> HIDE DEF v
<1>3. w.row = p[f]
  BY DEF Fine, Opened, Opening
<1>4. q[f].state = "GONE" /\ \A g \in Photos \ {f} : q[g] = p[g]
  BY <1>1 DEF PhotoTable, NoMorePhoto
<1>5. h \in Homes /\ f \in Has(p, h)
  BY <1>1, PhotoHomeType
<1> HIDE DEF h
<1>6. ASSUME NEW k \in Homes, k # h PROVE FlagOnce(q, k) /\ FlagThere(q, k)
  <2>1. \A g \in Photos : PhotoHome[g] # h => q[g] = p[g]
    BY <1>4 DEF h
  <2>2. FlagOnce(p, k) /\ FlagThere(p, k)
    BY <1>6 DEF Fine, Tail
  <2>3. QED
    BY <1>6, <2>1, <2>2, OtherHomes
<1>7. /\ Has(q, h) = Has(p, h) \ {f} /\ ReadyIn(q, h) = ReadyIn(p, h) \ {f}
      /\ Flagged(q, h) = Flagged(p, h) \ {f}
  <2>1. Has(q, h) = Has(p, h) \ {f} /\ ReadyIn(q, h) = ReadyIn(p, h) \ {f}
    BY <1>4 DEF Has, ReadyIn, PhotoStates
  <2>2. \A g \in Has(q, h) : q[g] = p[g]
    BY <1>4, <2>1 DEF Has
  <2>3. QED
    BY <2>1, <2>2 DEF Flagged
<1>8. FlagOnce(q, h)
  BY <1>5, <1>7 DEF Fine, FlagOnce
<1>9. p[f].primary => Flagged(q, h) = {}
  <2>1. p[f].primary => \A g \in Flagged(p, h) : g = f
    <3>1. p[f].primary => f \in Flagged(p, h)
      BY <1>5 DEF Flagged
    <3>2. FlagOnce(p, h)
      BY <1>5 DEF Fine
    <3>3. QED
      BY <3>1, <3>2 DEF FlagOnce
  <2>2. QED
    BY <1>7, <2>1
<1>10. ~p[f].primary => FlagThere(q, h)
  <2>1. FlagThere(p, h)
    BY <1>5 DEF Fine, Tail
  <2>2. \A g \in ReadyIn(q, h) : q[g] = p[g]
    BY <1>4, <1>7 DEF ReadyIn
  <2>3. QED
    BY <1>7, <2>1, <2>2 DEF FlagThere
<1>11. Opened(v, q) /\ Completes(v, q) /\ Removes(v, q)
  BY <1>2, <1>3, <1>9, <1>10 DEF Opened, Opening, Completes, Removes, h
<1>12. Tail(v, h)
  BY <1>2 DEF Tail, h
<1>13. QED
  BY <1>6, <1>8, <1>11, <1>12 DEF Fine, v

\* remove: another READY photo is the primary one then.
LEMMA FinePromote ==
    ASSUME NEW w \in JobRows, NEW p \in PhotoTable, NEW q \in PhotoTable, Fine(w, p),
           w.kind = "remove", w.pc = "promote",
           q[w.photo] = IF w.photo \in Has(p, PhotoHome[w.photo])
                        THEN [p[w.photo] EXCEPT !.primary = TRUE] ELSE p[w.photo],
           \A g \in Photos \ {w.photo} : q[g] = p[g]
    PROVE  Fine(NoJob, q)
<1> DEFINE f == w.photo
           h == PhotoHome[f]
<1>1. f \in Photos /\ h \in Homes
  BY PhotoHomeType DEF JobRows
<1>2. CASE f \notin Has(p, h)
  <2>1. q = p
    BY <1>2 DEF PhotoTable
  <2>2. \A k \in Homes : Tail(w, k) => FlagThere(p, k)
    BY <1>2 DEF Fine, Removes, Tail, FlagThere
  <2>3. QED
    BY <2>1, <2>2, FineAtRest
<1>3. CASE f \in Has(p, h)
  <2>1. p[f] \in PhotoRows /\ p[f].state = "READY" /\ Flagged(p, h) = {}
    BY <1>1, <1>3 DEF Fine, Removes, Has, PhotoTable, NoPhoto, NoMorePhoto, PhotoStates
  <2>2. /\ q[f].state = "READY" /\ q[f].primary
        /\ \A g \in Photos \ {f} : q[g] = p[g]
    BY <1>1, <1>3, <2>1 DEF PhotoTable, PhotoRows
  <2> HIDE DEF h
  <2>3. ASSUME NEW k \in Homes, k # h PROVE FlagOnce(q, k) /\ FlagThere(q, k)
    <3>1. \A g \in Photos : PhotoHome[g] # h => q[g] = p[g]
      BY <2>2 DEF h
    <3>2. FlagOnce(p, k) /\ FlagThere(p, k)
      BY <2>3 DEF Fine, Tail, h
    <3>3. QED
      BY <2>3, <3>1, <3>2, OtherHomes
  <2>4. FlagOnce(q, h)
    <3>1. \A g \in Flagged(q, h) : g = f \/ g \in Flagged(p, h)
      BY <2>2 DEF Flagged, Has
    <3>2. QED
      BY <2>1, <3>1 DEF FlagOnce
  <2>5. FlagThere(q, h)
    BY <1>1, <2>2 DEF FlagThere, ReadyIn, h
  <2>6. QED
    BY <2>3, <2>4, <2>5 DEF Fine, NoJob, Opened, Completes, Removes
<1>4. QED
  BY <1>2, <1>3

-----------------------------------------------------------------------------
(* The steps of the one handler, and those of the listing next to it.      *)

\* The one handler there may be, as it stands.
Working == IF Jobs = {} THEN NoJob ELSE jobs[CHOOSE j \in Jobs : TRUE]
FlagsInv == Fine(Working, photo)

\* That handler is the one at hand.
LEMMA OnlyHandler ==
    ASSUME Alone, NEW j \in Jobs
    PROVE  Working = jobs[j] /\ Working' = jobs'[j]
<1>1. (CHOOSE i \in Jobs : TRUE) \in Jobs
  OBVIOUS
<1>2. (CHOOSE i \in Jobs : TRUE) = j
  BY <1>1 DEF Alone
<1>3. Jobs # {}
  OBVIOUS
<1>4. QED
  BY <1>2, <1>3 DEF Working

\* The sets of the model, said of the photos there are.
LEMMA SameSets == \A h : Rows(h) = Has(photo, h) /\ Ready(h) = ReadyIn(photo, h)
BY DEF Rows, Ready, PhotosOf, Has, ReadyIn

\* Both sides of a step are tables of photo rows.
LEMMA PhotoTables ==
    ASSUME PhotosInv, PhotosInv' PROVE photo \in PhotoTable /\ photo' \in PhotoTable
BY DEF PhotosInv, ListingInv, TypeOK, PhotoTable

\* A handler that has begun, and the row it works on.
LEMMA HandlerIs ==
    ASSUME PhotosInv, Alone, FlagsInv, NEW j \in Jobs, jobs[j] # NoJob
    PROVE  /\ jobs[j] \in JobRows /\ Fine(jobs[j], photo)
           /\ jobs[j].photo \in Photos /\ HomeOf(j) \in Homes
           /\ Stored(jobs[j].photo) <=> jobs[j].photo \in Has(photo, HomeOf(j))
<1>1. jobs[j] \in JobRows /\ Fine(jobs[j], photo)
  BY OnlyHandler DEF PhotosInv, PhotosTyped, Marking, FlagsInv
<1>2. jobs[j].photo \in Photos /\ HomeOf(j) \in Homes
  BY <1>1, PhotoHomeType DEF JobRows, HomeOf
<1>3. QED
  BY <1>1, <1>2 DEF Stored, Has, HomeOf

\* Photos as they were: the handler leaves, or goes on.
LEMMA LeavesFine ==
    ASSUME PhotosInv, Alone, FlagsInv, NEW j \in Jobs, jobs[j] # NoJob, Leave(j), UNCHANGED photo,
           \A h \in Homes : Tail(jobs[j], h) => FlagThere(photo, h)
    PROVE  FlagsInv'
<1>1. Working' = NoJob
  BY OnlyHandler DEF Leave, PhotosInv, PhotosTyped
<1>2. Fine(NoJob, photo)
  BY HandlerIs, FineAtRest
<1>3. QED
  BY <1>1, <1>2 DEF FlagsInv

\* ... or it goes on to v.
LEMMA GoesFine ==
    ASSUME PhotosInv, Alone, FlagsInv, NEW j \in Jobs, NEW v, UNCHANGED photo,
           jobs' = [jobs EXCEPT ![j] = v],
           \A h \in Homes : Tail(jobs[j], h) => Tail(v, h) \/ FlagThere(photo, h),
           Opened(v, photo), Completes(v, photo), Removes(v, photo)
    PROVE  FlagsInv'
<1>1. Working' = v /\ Working = jobs[j]
  BY OnlyHandler DEF PhotosInv, PhotosTyped
<1>2. Fine(v, photo)
  BY <1>1, FineGoes DEF FlagsInv
<1>3. QED
  BY <1>1, <1>2 DEF FlagsInv

\* What Go leaves of a handler.
LEMMA GoesOn ==
    ASSUME PhotosInv, NEW j \in Jobs, jobs[j] # NoJob, NEW pc, Go(j, pc)
    PROVE  \E v : /\ jobs' = [jobs EXCEPT ![j] = v] /\ v = [jobs[j] EXCEPT !.pc = pc]
                  /\ v.pc = pc /\ v.kind = jobs[j].kind /\ v.photo = jobs[j].photo
                  /\ v.row = jobs[j].row /\ v.first = jobs[j].first
<1> DEFINE v == [jobs[j] EXCEPT !.pc = pc]
<1>1. jobs[j] \in JobRows
  BY DEF PhotosInv, PhotosTyped, Marking
<1>2. v.pc = pc /\ v.kind = jobs[j].kind /\ v.photo = jobs[j].photo
      /\ v.row = jobs[j].row /\ v.first = jobs[j].first
  BY <1>1 DEF JobRows
<1>3. jobs' = [jobs EXCEPT ![j] = v]
  BY DEF Go
<1>4. QED
  BY <1>2, <1>3

\* The common beginning: start, the read, and markContentChanged.
LEMMA FlagsOpen ==
    ASSUME PhotosInv, PhotosInv', Alone, FlagsInv, NEW j \in Jobs,
           \/ \E f \in Photos, kind \in Kinds : Start(j, f, kind)
           \/ Read(j) \/ MarkRead(j) \/ MarkWrite(j)
    PROVE  FlagsInv'
<1>1. ASSUME NEW f \in Photos, NEW kind \in Kinds, Start(j, f, kind) PROVE FlagsInv'
  <2> DEFINE v == [kind |-> kind, pc |-> "read", photo |-> f, row |-> NoPhoto,
                   seen |-> "DRAFT", first |-> FALSE]
  <2>1. v.pc = "read"
    OBVIOUS
  <2>2. jobs[j] = NoJob /\ jobs' = [jobs EXCEPT ![j] = v] /\ UNCHANGED photo
    BY <1>1 DEF Start, listingVars
  <2> HIDE DEF v
  <2>3. Opened(v, photo) /\ Completes(v, photo) /\ Removes(v, photo)
    BY <2>1 DEF Opened, Opening, Completes, Removes
  <2>4. \A h \in Homes : ~Tail(jobs[j], h)
    BY <2>2 DEF Tail, NoJob
  <2>5. QED
    BY <2>2, <2>3, <2>4, GoesFine
<1>2. ASSUME jobs[j] # NoJob, jobs[j].pc \in {"read", "mark", "markWrite"}, UNCHANGED photo, Leave(j)
      PROVE  FlagsInv'
  BY <1>2, LeavesFine DEF Tail
<1>3. ASSUME jobs[j] # NoJob, jobs[j].pc \in {"mark", "markWrite"}, UNCHANGED photo,
             NEW v, jobs' = [jobs EXCEPT ![j] = v],
             v.kind = jobs[j].kind, v.photo = jobs[j].photo, v.pc \in {"markWrite", "act"},
             v.row = jobs[j].row, v.first = jobs[j].first
      PROVE  FlagsInv'
  <2>1. Fine(jobs[j], photo)
    BY <1>3, HandlerIs
  <2>2. Opened(v, photo)
    BY <1>3, <2>1 DEF Fine, Opened, Opening
  <2>3. Completes(v, photo) /\ Removes(v, photo)
    BY <1>3, <2>1 DEF Fine, Completes, Removes, Opening
  <2>4. QED
    BY <1>3, <2>2, <2>3, GoesFine DEF Tail
<1>4. CASE Read(j)
  <2>1. jobs[j] # NoJob /\ jobs[j].pc = "read" /\ UNCHANGED photo
    BY <1>4 DEF Read, listingVars
  <2>2. CASE Leave(j)
    BY <1>2, <2>1, <2>2
  <2>3. CASE ~Leave(j)
    <3> DEFINE f == jobs[j].photo
               row == IF Stored(f) THEN photo[f] ELSE NoPhoto
               v == [jobs[j] EXCEPT !.pc = "mark", !.row = row,
                                    !.first = Rows(PhotoHome[f]) = {}]
    <3>1. Accepts(jobs[j].kind, f)
      BY <1>4, <2>3 DEF Read
    <3>2. jobs' = [jobs EXCEPT ![j].pc = "mark", ![j].row = row,
                               ![j].first = Rows(PhotoHome[f]) = {}]
      BY <1>4, <2>3 DEF Read
    <3>3. jobs' = [jobs EXCEPT ![j] = v]
      BY <3>2
    <3>4. jobs[j] \in JobRows
      BY <2>1, HandlerIs
    <3>5. v.kind = jobs[j].kind /\ v.photo = f /\ v.pc = "mark" /\ v.row = row
          /\ v.first = (Has(photo, PhotoHome[f]) = {})
      BY <3>4, SameSets DEF JobRows
    <3> HIDE DEF v
    <3>6. Stored(f) <=> f \in Has(photo, PhotoHome[f])
      BY <2>1, HandlerIs DEF HomeOf
    <3>7. Opened(v, photo)
      BY <3>1, <3>5, <3>6 DEF Opened, Accepts
    <3>8. Completes(v, photo) /\ Removes(v, photo)
      BY <3>1, <3>5 DEF Completes, Removes, Accepts
    <3>9. QED
      BY <2>1, <3>3, <3>7, <3>8, GoesFine DEF Tail
  <2>4. QED
    BY <2>2, <2>3
<1>5. ASSUME NEW pc \in {"markWrite", "act"}, NEW seen,
             jobs[j] # NoJob, jobs[j].pc \in {"mark", "markWrite"}, UNCHANGED photo,
             jobs' = [jobs EXCEPT ![j].pc = pc, ![j].seen = seen]
      PROVE  FlagsInv'
  <2> DEFINE v == [jobs[j] EXCEPT !.pc = pc, !.seen = seen]
  <2>1. jobs[j] \in JobRows
    BY <1>5, HandlerIs
  <2>2. v.kind = jobs[j].kind /\ v.photo = jobs[j].photo /\ v.pc = pc /\ v.row = jobs[j].row
        /\ v.first = jobs[j].first
    BY <2>1 DEF JobRows
  <2>3. jobs' = [jobs EXCEPT ![j] = v]
    BY <1>5
  <2> HIDE DEF v
  <2>4. QED
    BY <1>3, <1>5, <2>2, <2>3
<1>6. ASSUME jobs[j] # NoJob, jobs[j].pc \in {"mark", "markWrite"}, UNCHANGED photo, Go(j, "act")
      PROVE  FlagsInv'
  BY <1>3, <1>6, GoesOn
<1>7. CASE MarkRead(j)
  <2>1. jobs[j] # NoJob /\ jobs[j].pc = "mark" /\ UNCHANGED photo
    BY <1>7 DEF MarkRead, listingVars
  <2>2. QED
    BY <1>2, <1>5, <1>6, <1>7, <2>1 DEF MarkRead
<1>8. CASE MarkWrite(j)
  <2>1. jobs[j] # NoJob /\ jobs[j].pc = "markWrite" /\ UNCHANGED photo
    BY <1>8 DEF MarkWrite
  <2>2. QED
    BY <1>2, <1>6, <1>8, <2>1 DEF MarkWrite
<1>9. QED
  BY <1>1, <1>4, <1>7, <1>8

\* createUpload, reorder and setPrimary write and are done.
LEMMA FlagsShort ==
    ASSUME PhotosInv, PhotosInv', Alone, FlagsInv, NEW j \in Jobs,
           CreateRow(j) \/ Reorder(j) \/ SetPrimary(j)
    PROVE  FlagsInv'
<1> DEFINE f == jobs[j].photo
           h == PhotoHome[f]
<1>1. /\ jobs[j] # NoJob /\ jobs[j].pc = "act" /\ Leave(j)
      /\ jobs[j].kind \in {"createUpload", "reorder", "setPrimary"}
  BY DEF CreateRow, Reorder, SetPrimary, At
<1>2. /\ jobs[j] \in JobRows /\ Fine(jobs[j], photo) /\ f \in Photos
      /\ photo \in PhotoTable /\ photo' \in PhotoTable /\ HomeOf(j) = h
  BY <1>1, HandlerIs, PhotoTables DEF HomeOf
<1>3. Working' = NoJob
  BY <1>1, OnlyHandler DEF Leave, PhotosInv, PhotosTyped
<1>4. CASE UNCHANGED photo
  BY <1>1, <1>4, LeavesFine DEF Tail
<1>5. CASE CreateRow(j)
  <2>1. CASE ~Exists(HomeOf(j))
    BY <1>4, <1>5, <2>1 DEF CreateRow
  <2>2. CASE Exists(HomeOf(j))
    <3>1. photo' = [photo EXCEPT ![f] = [state |-> "PENDING_UPLOAD", stored |-> "private",
                                         primary |-> jobs[j].first]]
      BY <1>5, <2>2 DEF CreateRow
    <3>2. jobs[j].kind = "createUpload"
      BY <1>5 DEF CreateRow, At
    <3>3. photo[f] = NoPhoto
      BY <1>2, <2>2, <3>2 DEF PhotosInv, NewIsNew, Exists, HomeGone, Gone, PropertyStatus
    <3>4. Fine(NoJob, photo')
      BY <1>1, <1>2, <3>1, <3>2, <3>3, FineCreate
    <3>5. QED
      BY <1>3, <3>4 DEF FlagsInv
  <2>3. QED
    BY <2>1, <2>2
<1>6. CASE SetPrimary(j)
  <2>1. jobs[j].kind = "setPrimary"
    BY <1>6 DEF SetPrimary, At
  <2>2. photo' = [g \in Photos |-> IF f \in Has(photo, h) /\ g \in Has(photo, h)
                                   THEN [photo[g] EXCEPT !.primary = g = f] ELSE photo[g]]
    <3>1. photo' = [g \in Photos |-> IF Stored(f) /\ g \in Rows(HomeOf(j))
                                     THEN [photo[g] EXCEPT !.primary = g = f] ELSE photo[g]]
      BY <1>6 DEF SetPrimary
    <3>2. Rows(HomeOf(j)) = Has(photo, h) /\ (Stored(f) <=> f \in Has(photo, h))
      BY <1>1, <1>2, HandlerIs, SameSets
    <3>3. QED
      BY <3>1, <3>2
  <2>3. Fine(NoJob, photo')
    BY <1>1, <1>2, <2>1, <2>2, FineSet
  <2>4. QED
    BY <1>3, <2>3 DEF FlagsInv
<1>7. QED
  BY <1>4, <1>5, <1>6 DEF Reorder

\* complete, between its rows: it goes on or leaves.
LEMMA FlagsComplete ==
    ASSUME PhotosInv, PhotosInv', Alone, FlagsInv, NEW j \in Jobs,
           Head(j) \/ Convert(j) \/ PutImages(j) \/ CountPrimaries(j) \/ CleanUp(j)
    PROVE  FlagsInv'
<1>1. /\ jobs[j] # NoJob /\ jobs[j].kind = "complete" /\ UNCHANGED photo
      /\ jobs[j].pc \in {"act", "file", "put", "count", "cleanUp"}
  BY DEF Head, Convert, PutImages, CountPrimaries, CleanUp, At, OnlyObjects, listingVars
<1>2. jobs[j] \in JobRows /\ Fine(jobs[j], photo)
  BY <1>1, HandlerIs
<1>3. CASE Leave(j)
  BY <1>1, <1>3, LeavesFine DEF Tail
<1>4. ASSUME NEW v, jobs' = [jobs EXCEPT ![j] = v], v.kind = "complete",
             v.photo = jobs[j].photo, Completes(v, photo), v.pc \notin Opening
      PROVE  FlagsInv'
  <2>1. Opened(v, photo) /\ Removes(v, photo)
    BY <1>4 DEF Opened, Removes
  <2>2. QED
    BY <1>1, <1>4, <2>1, GoesFine DEF Tail
<1>5. ASSUME NEW pc, Go(j, pc), pc \in {"processing", "failed", "put", "count"},
             jobs[j].pc = "cleanUp" => pc = "failed"
      PROVE  FlagsInv'
  <2>1. PICK v : /\ jobs' = [jobs EXCEPT ![j] = v] /\ v.pc = pc /\ v.kind = "complete"
                 /\ v.photo = jobs[j].photo
    BY <1>1, <1>5, GoesOn
  <2>2. Completes(v, photo)
    BY <1>1, <1>2, <1>5, <2>1 DEF Fine, Completes, Opening, ReadyIn
  <2>3. QED
    BY <1>4, <1>5, <2>1, <2>2 DEF Opening
<1>6. CASE CountPrimaries(j)
  <2> DEFINE h == PhotoHome[jobs[j].photo]
             first == \A g \in ReadyIn(photo, h) : ~photo[g].primary
             v == [jobs[j] EXCEPT !.pc = "ready", !.first = first]
  <2>1. jobs' = [jobs EXCEPT ![j].pc = "ready", ![j].first = first]
    BY <1>6, SameSets DEF CountPrimaries, HomeOf
  <2>2. jobs' = [jobs EXCEPT ![j] = v]
    BY <2>1
  <2>3. v.kind = "complete" /\ v.photo = jobs[j].photo /\ v.pc = "ready" /\ v.first = first
    BY <1>1, <1>2 DEF JobRows
  <2> HIDE DEF v
  <2>4. jobs[j].pc = "count"
    BY <1>6 DEF CountPrimaries, At
  <2>5. Completes(v, photo)
    BY <1>1, <1>2, <2>3, <2>4 DEF Fine, Completes
  <2>6. QED
    BY <1>4, <2>2, <2>3, <2>5 DEF Opening
<1>7. QED
  BY <1>3, <1>5, <1>6 DEF Head, Convert, PutImages, CleanUp, At

\* complete and remove, where they write a row.
LEMMA FlagsState ==
    ASSUME PhotosInv, PhotosInv', Alone, FlagsInv, NEW j \in Jobs, Processing(j) \/ Fail(j)
    PROVE  FlagsInv'
<1> DEFINE f == jobs[j].photo
           h == PhotoHome[f]
<1>1. /\ jobs[j] # NoJob /\ jobs[j].kind = "complete" /\ jobs[j].pc \in {"processing", "failed"}
  BY DEF Processing, Fail, At
<1>2. /\ jobs[j] \in JobRows /\ Fine(jobs[j], photo) /\ f \in Photos
      /\ photo \in PhotoTable /\ photo' \in PhotoTable
      /\ Stored(f) <=> f \in Has(photo, h)
  BY <1>1, HandlerIs, PhotoTables DEF HomeOf
<1>3. ASSUME NEW s \in {"PROCESSING", "FAILED"}, Stored(f),
             photo' = [photo EXCEPT ![f].state = s]
      PROVE  /\ \A k \in Homes : FlagOnce(photo', k) /\ FlagThere(photo', k)
             /\ photo'[f].state = s
  <2>1. photo[f] \in PhotoRows
    BY <1>2, <1>3, StoredIsRow
  <2>2. /\ photo'[f].state = s /\ photo'[f].primary = photo[f].primary
        /\ \A g \in Photos \ {f} : photo'[g] = photo[g]
    BY <1>2, <1>3, <2>1 DEF PhotoTable, PhotoRows
  <2>3. f \in Has(photo, h)
    BY <1>2, <1>3
  <2>4. s \in PhotoStates \ {"READY"}
    BY DEF PhotoStates
  <2>5. \A k \in Homes : FlagOnce(photo', k) /\ FlagThere(photo', k)
    BY <1>1, <1>2, <2>2, <2>3, <2>4, FineState
  <2>6. QED
    BY <2>2, <2>5
<1>4. CASE Processing(j)
  <2>1. jobs[j].pc = "processing"
    BY <1>4 DEF Processing, At
  <2>2. CASE Stored(f)
    <3>1. /\ \A k \in Homes : FlagOnce(photo', k) /\ FlagThere(photo', k)
          /\ photo'[f].state = "PROCESSING" /\ Go(j, "file")
      BY <1>3, <1>4, <2>1, <2>2 DEF Processing
    <3>2. PICK v : /\ jobs' = [jobs EXCEPT ![j] = v] /\ v.pc = "file" /\ v.kind = "complete"
                   /\ v.photo = f
      BY <1>1, <3>1, GoesOn
    <3>3. Fine(v, photo')
      BY <3>1, <3>2 DEF Fine, Opened, Opening, Completes, Removes
    <3>4. Working' = v
      BY <3>2, OnlyHandler DEF PhotosInv, PhotosTyped
    <3>5. QED
      BY <3>3, <3>4 DEF FlagsInv
  <2>3. CASE ~Stored(f)
    <3>1. UNCHANGED photo /\ Go(j, "failed")
      BY <1>4, <2>3 DEF Processing
    <3>2. PICK v : /\ jobs' = [jobs EXCEPT ![j] = v] /\ v.pc = "failed" /\ v.kind = "complete"
                   /\ v.photo = f
      BY <1>1, <3>1, GoesOn
    <3>3. Opened(v, photo) /\ Completes(v, photo) /\ Removes(v, photo)
      BY <1>2, <2>3, <3>2, ReadyIsRow DEF Opened, Opening, Completes, Removes
    <3>4. QED
      BY <1>1, <3>1, <3>2, <3>3, GoesFine DEF Tail
  <2>4. QED
    BY <2>2, <2>3
<1>5. CASE Fail(j)
  <2>1. jobs[j].pc = "failed" /\ Leave(j)
    BY <1>5 DEF Fail, At
  <2>2. CASE Stored(f)
    <3>1. \A k \in Homes : FlagOnce(photo', k) /\ FlagThere(photo', k)
      BY <1>3, <1>5, <2>1, <2>2 DEF Fail
    <3>2. Fine(NoJob, photo')
      BY <3>1 DEF Fine, NoJob, Opened, Completes, Removes
    <3>3. Working' = NoJob
      BY <2>1, OnlyHandler DEF Leave, PhotosInv, PhotosTyped
    <3>4. QED
      BY <3>2, <3>3 DEF FlagsInv
  <2>3. CASE ~Stored(f)
    BY <1>1, <1>5, <2>1, <2>3, LeavesFine DEF Fail, Tail
  <2>4. QED
    BY <2>2, <2>3
<1>6. QED
  BY <1>4, <1>5

\* complete makes its photo READY, or finds it gone.
LEMMA FlagsReady ==
    ASSUME PhotosInv, PhotosInv', Alone, FlagsInv, NEW j \in Jobs, SetReady(j)
    PROVE  FlagsInv'
<1> DEFINE f == jobs[j].photo
           h == PhotoHome[f]
<1>1. jobs[j] # NoJob /\ jobs[j].kind = "complete" /\ jobs[j].pc = "ready"
  BY DEF SetReady, At
<1>2. /\ jobs[j] \in JobRows /\ Fine(jobs[j], photo) /\ f \in Photos
      /\ photo \in PhotoTable /\ photo' \in PhotoTable /\ HomeOf(j) = h
      /\ Stored(f) <=> f \in Has(photo, h)
  BY <1>1, HandlerIs, PhotoTables DEF HomeOf
<1>3. CASE Stored(f)
  <2>1. photo' = [g \in Photos |->
                   IF g = f THEN Processed(jobs[j].first)
                   ELSE IF jobs[j].first /\ g \in Has(photo, h)
                        THEN [photo[g] EXCEPT !.primary = FALSE] ELSE photo[g]]
    BY <1>2, <1>3, SameSets DEF SetReady
  <2>2. PICK v : jobs' = [jobs EXCEPT ![j] = v] /\ v = [jobs[j] EXCEPT !.pc = "cleanUp"]
    BY <1>1, <1>3, GoesOn DEF SetReady
  <2>3. Fine(v, photo')
    BY <1>1, <1>2, <1>3, <2>1, <2>2, FineReady
  <2>4. Working' = v
    BY <2>2, OnlyHandler DEF PhotosInv, PhotosTyped
  <2>5. QED
    BY <2>3, <2>4 DEF FlagsInv
<1>4. CASE ~Stored(f)
  <2>1. UNCHANGED photo /\ Go(j, "failed")
    BY <1>4 DEF SetReady
  <2>2. PICK v : /\ jobs' = [jobs EXCEPT ![j] = v] /\ v.pc = "failed" /\ v.kind = "complete"
                 /\ v.photo = f
    BY <1>1, <2>1, GoesOn
  <2>3. Opened(v, photo) /\ Completes(v, photo) /\ Removes(v, photo)
    BY <1>2, <1>4, <2>2, ReadyIsRow DEF Opened, Opening, Completes, Removes
  <2>4. QED
    BY <1>1, <2>1, <2>2, <2>3, GoesFine DEF Tail
<1>5. QED
  BY <1>3, <1>4

\* remove: the row, the objects, the search for another photo, and its promotion.
LEMMA FlagsRemove ==
    ASSUME PhotosInv, PhotosInv', Alone, FlagsInv, NEW j \in Jobs,
           DeleteRow(j) \/ DeleteObjects(j) \/ FindNext(j) \/ Promote(j)
    PROVE  FlagsInv'
<1> DEFINE f == jobs[j].photo
           h == PhotoHome[f]
<1>1. /\ jobs[j] # NoJob /\ jobs[j].kind = "remove"
      /\ jobs[j].pc \in {"act", "objects", "next", "promote"}
  BY DEF DeleteRow, DeleteObjects, FindNext, Promote, At
<1>2. /\ jobs[j] \in JobRows /\ Fine(jobs[j], photo) /\ f \in Photos
      /\ photo \in PhotoTable /\ photo' \in PhotoTable /\ HomeOf(j) = h
      /\ Stored(f) <=> f \in Has(photo, h)
  BY <1>1, HandlerIs, PhotoTables DEF HomeOf
<1>3. CASE DeleteRow(j)
  <2>1. jobs[j].pc = "act"
    BY <1>3 DEF DeleteRow, At
  <2>2. CASE Stored(f)
    <3>1. photo'[f] = NoMorePhoto /\ \A g \in Photos \ {f} : photo'[g] = photo[g]
      BY <1>2, <1>3, <2>2 DEF DeleteRow, PhotoTable
    <3>2. PICK v : jobs' = [jobs EXCEPT ![j] = v] /\ v = [jobs[j] EXCEPT !.pc = "objects"]
      BY <1>1, <1>3, <2>2, GoesOn DEF DeleteRow
    <3>3. Fine(v, photo')
      BY <1>1, <1>2, <2>1, <2>2, <3>1, <3>2, FineRemove
    <3>4. Working' = v
      BY <3>2, OnlyHandler DEF PhotosInv, PhotosTyped
    <3>5. QED
      BY <3>3, <3>4 DEF FlagsInv
  <2>3. CASE ~Stored(f)
    BY <1>1, <1>3, <2>1, <2>3, LeavesFine DEF DeleteRow, Tail
  <2>4. QED
    BY <2>2, <2>3
<1>4. CASE DeleteObjects(j)
  <2>1. jobs[j].pc = "objects" /\ UNCHANGED photo
    BY <1>4 DEF DeleteObjects, At, OnlyObjects, listingVars
  <2>2. CASE jobs[j].row.primary
    <3>1. PICK v : /\ jobs' = [jobs EXCEPT ![j] = v] /\ v.pc = "next" /\ v.kind = "remove"
                   /\ v.photo = f
      BY <1>1, <1>4, <2>2, GoesOn DEF DeleteObjects
    <3>2. Opened(v, photo) /\ Completes(v, photo) /\ Removes(v, photo)
      BY <1>1, <1>2, <2>1, <2>2, <3>1 DEF Opened, Opening, Completes, Fine, Removes
    <3>3. QED
      BY <2>1, <3>1, <3>2, GoesFine DEF Tail
  <2>3. CASE ~jobs[j].row.primary
    <3>1. \A k \in Homes : Tail(jobs[j], k) => FlagThere(photo, k)
      BY <1>1, <1>2, <2>1, <2>3 DEF Fine, Removes, Tail
    <3>2. QED
      BY <1>1, <1>4, <2>1, <2>3, <3>1, LeavesFine DEF DeleteObjects
  <2>4. QED
    BY <2>2, <2>3
<1>5. CASE FindNext(j)
  <2>1. jobs[j].pc = "next" /\ UNCHANGED photo
    BY <1>5 DEF FindNext, At, OnlyObjects, listingVars
  <2>2. CASE Ready(h) = {}
    <3>1. \A k \in Homes : Tail(jobs[j], k) => FlagThere(photo, k)
      BY <2>2, SameSets DEF Tail, FlagThere
    <3>2. QED
      BY <1>1, <1>2, <1>5, <2>1, <2>2, <3>1, LeavesFine DEF FindNext
  <2>3. ASSUME NEW g \in Ready(h), jobs' = [jobs EXCEPT ![j].pc = "promote", ![j].photo = g]
        PROVE  FlagsInv'
    <3> DEFINE v == [jobs[j] EXCEPT !.pc = "promote", !.photo = g]
    <3>1. jobs' = [jobs EXCEPT ![j] = v]
      BY <2>3
    <3>2. v.kind = "remove" /\ v.pc = "promote" /\ v.photo = g
      BY <1>1, <1>2 DEF JobRows
    <3> HIDE DEF v
    <3>3. PhotoHome[g] = h /\ photo[g].state = "READY" /\ g \in ReadyIn(photo, h)
      BY SameSets DEF ReadyIn
    <3>4. Flagged(photo, h) = {}
      BY <1>1, <1>2, <2>1 DEF Fine, Removes
    <3>5. Removes(v, photo)
      BY <3>2, <3>3, <3>4, ReadyIsRow DEF Removes
    <3>6. Opened(v, photo) /\ Completes(v, photo)
      BY <3>2 DEF Opened, Opening, Completes
    <3>7. QED
      BY <2>1, <3>1, <3>2, <3>3, <3>5, <3>6, GoesFine DEF Tail
  <2>4. QED
    BY <1>2, <1>5, <2>2, <2>3 DEF FindNext
<1>6. CASE Promote(j)
  <2>1. jobs[j].pc = "promote" /\ Leave(j)
    BY <1>6 DEF Promote, At
  <2>2. /\ photo'[f] = IF f \in Has(photo, h) THEN [photo[f] EXCEPT !.primary = TRUE] ELSE photo[f]
        /\ \A g \in Photos \ {f} : photo'[g] = photo[g]
    <3>1. CASE Stored(f)
      BY <1>2, <1>6, <3>1 DEF Promote, PhotoTable
    <3>2. CASE ~Stored(f)
      BY <1>2, <1>6, <3>2 DEF Promote
    <3>3. QED
      BY <3>1, <3>2
  <2>3. Fine(NoJob, photo')
    BY <1>1, <1>2, <2>1, <2>2, FinePromote
  <2>4. Working' = NoJob
    BY <2>1, OnlyHandler DEF Leave, PhotosInv, PhotosTyped
  <2>5. QED
    BY <2>3, <2>4 DEF FlagsInv
<1>7. QED
  BY <1>3, <1>4, <1>5, <1>6

\* The listing's own steps leave the photos, but for a deletion of homes.
LEMMA FlagsElse ==
    ASSUME PhotosInv, PhotosInv', Alone, FlagsInv,
           \/ Listing(OwnerOrModerator \/ Surroundings) \/ UNCHANGED photoVars
           \/ (\E f \in Photos : Upload(f)) \/ (\E h \in Homes : Purge(h))
    PROVE  FlagsInv'
<1>1. UNCHANGED jobs
  BY DEF Listing, photoVars, Upload, Purge
<1>2. Working' = Working
  BY <1>1 DEF Working
<1>3. CASE UNCHANGED photo
  BY <1>2, <1>3 DEF FlagsInv
<1>4. ASSUME NEW hs \in SUBSET Homes, DeleteHomes(hs) PROVE FlagsInv'
  <2>1. Working \in JobRows \cup {NoJob}
    BY DEF Working, PhotosInv, PhotosTyped, Marking
  <2>2. \A f \in Photos : photo'[f] = IF PhotoHome[f] \in hs THEN NoMorePhoto ELSE photo[f]
    BY <1>4 DEF DeleteHomes
  <2>3. Fine(Working, photo')
    BY <2>1, <2>2, PhotoTables, FineDelete DEF FlagsInv
  <2>4. QED
    BY <1>2, <2>3 DEF FlagsInv
<1>5. CASE OwnerOrModerator
  BY <1>3, <1>5, OwnersMove DEF PhotosInv
<1>6. QED
  BY <1>3, <1>4, <1>5 DEF Listing, Surroundings, Engage, photoVars, listingVars, Upload, Purge

\* Every step keeps the invariant.
LEMMA FlagsNext == Alone /\ PhotosInv /\ PhotosInv' /\ FlagsInv /\ [PhotosNext]_photoVars => FlagsInv'
<1> SUFFICES ASSUME Alone, PhotosInv, PhotosInv', FlagsInv, [PhotosNext]_photoVars
             PROVE  FlagsInv'
  OBVIOUS
<1>1. ASSUME NEW j \in Jobs, JobContinue(j) PROVE FlagsInv'
  BY <1>1, FlagsOpen, FlagsShort, FlagsComplete, FlagsState, FlagsReady, FlagsRemove
     DEF JobContinue
<1>2. QED
  BY <1>1, FlagsOpen, FlagsElse DEF PhotosNext

\* Where photo handlers do not overlap a home has one primary photo at most, and one
\* of its READY photos is, but for a removal on its way to promote one, for any homes
\* and photos and whatever the listing's handlers do meanwhile (createUpload,
\* complete, setPrimary and remove).
THEOREM OnePrimaryPhoto == PhotosSpec => []OnePrimary
<1>1. PhotosInit => FlagsInv
  <2> SUFFICES ASSUME PhotosInit PROVE Fine(Working, photo)
    BY DEF FlagsInv
  <2>1. \A h : Has(photo, h) = {} /\ ReadyIn(photo, h) = {}
    BY DEF PhotosInit, Init, Has, ReadyIn, NoPhoto, PhotoStates
  <2>2. Working = NoJob
    BY DEF PhotosInit, Working
  <2>3. QED
    BY <2>1, <2>2
       DEF Fine, FlagOnce, FlagThere, Flagged, NoJob, Opened, Completes, Removes
<1>2. PhotosInv /\ (Alone => FlagsInv) => OnePrimary
  <2> SUFFICES ASSUME PhotosInv, Alone, FlagsInv, NEW h \in Homes
      PROVE  /\ \A f, g \in Rows(h) : photo[f].primary /\ photo[g].primary => f = g
             /\ Ready(h) # {} => (\E f \in Ready(h) : photo[f].primary) \/ Promoting(h)
    BY DEF OnePrimary
  <2>1. FlagOnce(photo, h) /\ (FlagThere(photo, h) \/ Tail(Working, h))
    BY DEF FlagsInv, Fine
  <2>2. \A f, g \in Rows(h) : photo[f].primary /\ photo[g].primary => f = g
    BY <2>1, SameSets DEF FlagOnce, Flagged
  <2>3. Tail(Working, h) => Promoting(h)
    <3> SUFFICES ASSUME Tail(Working, h) PROVE Promoting(h)
      OBVIOUS
    <3>1. Working # NoJob
      BY DEF Tail, NoJob
    <3>2. PICK j \in Jobs : TRUE
      BY <3>1 DEF Working
    <3>3. Working = jobs[j]
      BY OnlyHandler
    <3>4. QED
      BY <3>1, <3>3 DEF Tail, Promoting, HomeOf
  <2>4. QED
    BY <2>1, <2>2, <2>3, SameSets DEF FlagThere
<1>3. PhotosInv /\ PhotosInv' /\ (Alone => FlagsInv) /\ [PhotosNext]_photoVars
      => (Alone' => FlagsInv')
  <2>1. Alone' => Alone
    BY DEF Alone
  <2>2. QED
    BY <2>1, FlagsNext
<1>4. QED
  BY <1>1, <1>2, <1>3, PhotosInvariant, PTL DEF PhotosSpec

-----------------------------------------------------------------------------
(* A second primary photo, however handlers overlap.                       *)

\* f and g are both READY and primary after the step only if they were before.
Second(f, g) ==
    f # g /\ PhotoHome[f] = PhotoHome[g] /\ Heads(f)' /\ Heads(g)' => Heads(f) /\ Heads(g)

\* Photos that are not READY and primary afterwards make no pair.
LEMMA SecondStays ==
    ASSUME NEW A \in SUBSET Photos, \A f \in Photos \ A : photo'[f] = photo[f],
           \A f \in A : ~Heads(f)', NEW f \in Photos, NEW g \in Photos
    PROVE  Second(f, g)
BY DEF Second, Heads

\* No step but a promotion makes a pair.
LEMMA SecondStep ==
    ASSUME PhotosInv, PhotosInv', [PhotosNext]_photoVars, ~\E j \in Jobs : Promote(j),
           NEW f \in Photos, NEW g \in Photos
    PROVE  Second(f, g)
<1>0. photo \in PhotoTable /\ photo' \in PhotoTable
  BY PhotoTables
<1>1. CASE UNCHANGED photo
  BY <1>1 DEF Second, Heads
<1>2. ASSUME NEW x \in Photos, photo' = [photo EXCEPT ![x] = photo'[x]],
             photo'[x].state # "READY"
      PROVE  Second(f, g)
  <2>1. \A y \in Photos \ {x} : photo'[y] = photo[y]
    BY <1>0, <1>2 DEF PhotoTable
  <2>2. QED
    BY <1>2, <2>1 DEF Second, Heads
<1>3. ASSUME NEW j \in Jobs, jobs[j] # NoJob PROVE jobs[j] \in JobRows /\ jobs[j].photo \in Photos
  BY <1>3 DEF PhotosInv, PhotosTyped, Marking, JobRows
<1>4. ASSUME NEW j \in Jobs, CreateRow(j) PROVE Second(f, g)
  <2> DEFINE x == jobs[j].photo
  <2>1. x \in Photos
    BY <1>3, <1>4 DEF CreateRow, At
  <2>2. QED
    BY <1>0, <1>1, <1>2, <1>4, <2>1 DEF CreateRow, PhotoTable
<1>5. ASSUME NEW j \in Jobs, Processing(j) \/ Fail(j) PROVE Second(f, g)
  <2> DEFINE x == jobs[j].photo
  <2>1. x \in Photos
    BY <1>3, <1>5 DEF Processing, Fail, At
  <2>2. CASE Stored(x)
    <3>1. photo[x] \in PhotoRows
      BY <2>1, <2>2, StoredIsRow
    <3>2. PICK s \in {"PROCESSING", "FAILED"} : photo' = [photo EXCEPT ![x].state = s]
      BY <1>5, <2>2 DEF Processing, Fail
    <3>3. photo'[x].state = s
      BY <1>0, <2>1, <3>1, <3>2 DEF PhotoTable, PhotoRows
    <3>4. \A y \in Photos \ {x} : photo'[y] = photo[y]
      BY <1>0, <3>2 DEF PhotoTable
    <3>5. QED
      BY <3>3, <3>4 DEF Second, Heads
  <2>3. CASE ~Stored(x)
    BY <1>1, <1>5, <2>3 DEF Processing, Fail
  <2>4. QED
    BY <2>2, <2>3
<1>6. ASSUME NEW j \in Jobs, DeleteRow(j) PROVE Second(f, g)
  <2> DEFINE x == jobs[j].photo
  <2>1. x \in Photos
    BY <1>3, <1>6 DEF DeleteRow, At
  <2>2. CASE Stored(x)
    BY <1>0, <1>2, <1>6, <2>1, <2>2 DEF DeleteRow, NoMorePhoto, PhotoTable
  <2>3. CASE ~Stored(x)
    BY <1>1, <1>6, <2>3 DEF DeleteRow
  <2>4. QED
    BY <2>2, <2>3
<1>7. ASSUME NEW j \in Jobs, NEW x \in Photos, HomeOf(j) = PhotoHome[x],
             NEW Row, photo' = [y \in Photos |-> Row[y]],
             \A y \in Photos \ {x} : y \in Rows(HomeOf(j)) => ~Row[y].primary,
             \A y \in Photos \ {x} : y \notin Rows(HomeOf(j)) => Row[y] = photo[y]
      PROVE  Second(f, g)
  <2>1. \A y \in Photos \ {x} : PhotoHome[y] = PhotoHome[x] => ~Heads(y)'
    BY <1>7 DEF Heads, Rows, PhotosOf, PhotoStates
  <2>2. \A y \in Photos \ {x} : PhotoHome[y] # PhotoHome[x] => photo'[y] = photo[y]
    BY <1>7 DEF Rows, PhotosOf
  <2>3. QED
    BY <2>1, <2>2 DEF Second, Heads
<1>8. ASSUME NEW j \in Jobs, SetPrimary(j) PROVE Second(f, g)
  <2> DEFINE x == jobs[j].photo
             Row == [y \in Photos |-> [photo[y] EXCEPT !.primary = y = x]]
             Now == [y \in Photos |-> IF y \in Rows(HomeOf(j)) THEN Row[y] ELSE photo[y]]
  <2>1. x \in Photos
    BY <1>3, <1>8 DEF SetPrimary, At
  <2>2. CASE Stored(x)
    <3>1. photo' = [y \in Photos |-> Now[y]]
      BY <1>8, <2>2 DEF SetPrimary
    <3>2. \A y \in Photos \ {x} : y \in Rows(HomeOf(j)) => ~Now[y].primary
      <4> SUFFICES ASSUME NEW y \in Photos \ {x}, y \in Rows(HomeOf(j)) PROVE ~Now[y].primary
        OBVIOUS
      <4>1. photo[y] \in PhotoRows
        BY RowStored, StoredIsRow
      <4>2. Now[y] = [photo[y] EXCEPT !.primary = FALSE]
        OBVIOUS
      <4>3. QED
        BY <4>1, <4>2 DEF PhotoRows
    <3>3. \A y \in Photos \ {x} : y \notin Rows(HomeOf(j)) => Now[y] = photo[y]
      OBVIOUS
    <3> HIDE DEF Now
    <3>4. QED
      BY <1>7, <2>1, <3>1, <3>2, <3>3 DEF HomeOf
  <2>3. CASE ~Stored(x)
    BY <1>0, <1>1, <1>8, <2>3 DEF SetPrimary, PhotoTable
  <2>4. QED
    BY <2>2, <2>3
<1>9. ASSUME NEW j \in Jobs, SetReady(j) PROVE Second(f, g)
  <2> DEFINE x == jobs[j].photo
             first == jobs[j].first
             Now == [y \in Photos |-> IF y = x THEN Processed(first)
                                      ELSE IF first /\ y \in Rows(HomeOf(j))
                                           THEN [photo[y] EXCEPT !.primary = FALSE] ELSE photo[y]]
  <2>1. x \in Photos /\ first \in BOOLEAN
    BY <1>3, <1>9 DEF SetReady, At, JobRows
  <2>2. CASE Stored(x)
    <3>1. photo' = [y \in Photos |-> Now[y]]
      BY <1>9, <2>2 DEF SetReady
    <3>2. CASE first
      <4>1. \A y \in Photos \ {x} : y \in Rows(HomeOf(j)) => ~Now[y].primary
        <5> SUFFICES ASSUME NEW y \in Photos \ {x}, y \in Rows(HomeOf(j)) PROVE ~Now[y].primary
          OBVIOUS
        <5>1. photo[y] \in PhotoRows
          BY RowStored, StoredIsRow
        <5>2. Now[y] = [photo[y] EXCEPT !.primary = FALSE]
          BY <3>2
        <5>3. QED
          BY <5>1, <5>2 DEF PhotoRows
      <4>2. \A y \in Photos \ {x} : y \notin Rows(HomeOf(j)) => Now[y] = photo[y]
        OBVIOUS
      <4> HIDE DEF Now
      <4>3. QED
        BY <1>7, <2>1, <3>1, <4>1, <4>2 DEF HomeOf
    <3>3. CASE ~first
      <4>1. photo'[x] = Processed(FALSE) /\ \A y \in Photos \ {x} : photo'[y] = photo[y]
        BY <2>1, <3>1, <3>3
      <4>2. QED
        BY <4>1 DEF Second, Heads, Processed
    <3>4. QED
      BY <2>1, <3>2, <3>3
  <2>3. CASE ~Stored(x)
    BY <1>1, <1>9, <2>3 DEF SetReady
  <2>4. QED
    BY <2>2, <2>3
<1>10. ASSUME NEW hs \in SUBSET Homes, DeleteHomes(hs) PROVE Second(f, g)
  <2>1. \A y \in Photos : photo'[y] = photo[y] \/ photo'[y] = NoMorePhoto
    BY <1>10 DEF DeleteHomes
  <2>2. QED
    BY <2>1 DEF Second, Heads, NoMorePhoto
<1>11. CASE OwnerOrModerator
  BY <1>1, <1>11, OwnersMove DEF PhotosInv
<1>12. ASSUME NEW j \in Jobs, JobContinue(j) PROVE Second(f, g)
  <2>1. CASE UNCHANGED listingVars
    BY <1>1, <2>1 DEF listingVars
  <2>2. QED
    BY <1>1, <1>4, <1>5, <1>6, <1>8, <1>9, <1>12, <2>1
       DEF JobContinue, Read, MarkRead, MarkWrite, Reorder, Head, Convert, PutImages,
           CountPrimaries, CleanUp, DeleteObjects, FindNext, OnlyObjects
<1>13. QED
  BY <1>1, <1>10, <1>11, <1>12
     DEF PhotosNext, Listing, Surroundings, Engage, Upload, Purge, Start, photoVars, listingVars

\* However photo handlers overlap, only the promotion that ends a removal gives a
\* home a second READY photo that is primary: two completions that each counted none
\* leave one, since the second clears the flag of the first.
THEOREM SecondByPromotion == PhotosSpec => SecondIsPromoted
<1>1. PhotosInv /\ PhotosInv' /\ [PhotosNext]_photoVars =>
        [\A f, g \in Photos :
           f # g /\ PhotoHome[f] = PhotoHome[g] /\ Heads(f)' /\ Heads(g)'
           => (Heads(f) /\ Heads(g)) \/ \E j \in Jobs : Promote(j)]_photoVars
  BY SecondStep DEF Second
<1>2. QED
  BY <1>1, PhotosInvariant, PTL DEF PhotosSpec, SecondIsPromoted

-----------------------------------------------------------------------------
(* A photo that is PROCESSING has a handler that will end it.              *)

\* Only complete makes a photo PROCESSING.
LEMMA NewlyProcessing ==
    ASSUME PhotosInv, PhotosInv', [PhotosNext]_photoVars, NEW f \in Photos,
           photo'[f].state = "PROCESSING", photo[f].state # "PROCESSING"
    PROVE  \E j \in Jobs : /\ Processing(j) /\ jobs[j].photo = f /\ Go(j, "file")
<1>0. photo \in PhotoTable /\ photo' \in PhotoTable
  BY PhotoTables
<1>1. photo' # photo
  OBVIOUS
<1>2. ASSUME NEW j \in Jobs, jobs[j] # NoJob PROVE jobs[j] \in JobRows /\ jobs[j].photo \in Photos
  BY <1>2 DEF PhotosInv, PhotosTyped, Marking, JobRows
<1>3. ASSUME NEW j \in Jobs, CreateRow(j) \/ Fail(j) \/ DeleteRow(j) PROVE FALSE
  <2> DEFINE x == jobs[j].photo
  <2>1. x \in Photos
    BY <1>2, <1>3 DEF CreateRow, Fail, DeleteRow, At
  <2>2. \A g \in Photos \ {x} : photo'[g] = photo[g]
    BY <1>0, <1>3 DEF CreateRow, Fail, DeleteRow, PhotoTable
  <2>3. CASE Fail(j) /\ Stored(x)
    <3>1. photo[x] \in PhotoRows
      BY <2>1, <2>3, StoredIsRow
    <3>2. photo'[x].state = "FAILED"
      BY <1>0, <2>1, <2>3, <3>1 DEF Fail, PhotoTable, PhotoRows
    <3>3. QED
      BY <2>2, <3>2
  <2>4. CASE Fail(j) /\ ~Stored(x)
    BY <1>1, <2>4 DEF Fail
  <2>5. CASE CreateRow(j) \/ DeleteRow(j)
    <3>1. photo' = photo \/ photo'[x].state = "PENDING_UPLOAD" \/ photo'[x] = NoMorePhoto
      BY <1>0, <2>1, <2>5 DEF CreateRow, DeleteRow, PhotoTable
    <3>2. QED
      BY <1>1, <2>2, <3>1 DEF NoMorePhoto
  <2>6. QED
    BY <1>3, <2>3, <2>4, <2>5
<1>4. ASSUME NEW b \in BOOLEAN, photo'[f] = [photo[f] EXCEPT !.primary = b], Stored(f)
      PROVE  FALSE
  <2>1. photo[f] \in PhotoRows
    BY <1>4, StoredIsRow
  <2>2. QED
    BY <1>4, <2>1 DEF PhotoRows
<1>5. ASSUME NEW j \in Jobs, SetPrimary(j) \/ SetReady(j) \/ Promote(j) PROVE FALSE
  <2> DEFINE x == jobs[j].photo
  <2>1. \/ photo'[f] = photo[f] \/ photo'[f] = Processed(jobs[j].first)
        \/ Stored(f) /\ \E b \in BOOLEAN : photo'[f] = [photo[f] EXCEPT !.primary = b]
    BY <1>0, <1>5, RowStored DEF SetPrimary, SetReady, Promote, PhotoTable
  <2>2. photo'[f] # photo[f] /\ photo'[f] # Processed(jobs[j].first)
    BY DEF Processed
  <2>3. PICK b \in BOOLEAN : Stored(f) /\ photo'[f] = [photo[f] EXCEPT !.primary = b]
    BY <2>1, <2>2
  <2>4. QED
    BY <1>4, <2>3
<1>6. ASSUME NEW j \in Jobs, Processing(j) PROVE jobs[j].photo = f /\ Go(j, "file")
  <2> DEFINE x == jobs[j].photo
  <2>1. Stored(x) /\ Go(j, "file") /\ photo' = [photo EXCEPT ![x].state = "PROCESSING"]
    BY <1>1, <1>6 DEF Processing
  <2>2. QED
    BY <1>0, <2>1 DEF PhotoTable
<1>7. ASSUME NEW j \in Jobs, JobContinue(j) PROVE Processing(j)
  <2>1. ~UNCHANGED listingVars
    BY <1>1 DEF listingVars
  <2>2. QED
    BY <1>1, <1>3, <1>5, <1>7, <2>1
       DEF JobContinue, Read, MarkRead, MarkWrite, Reorder, Head, Convert, PutImages,
           CountPrimaries, CleanUp, DeleteObjects, FindNext, OnlyObjects
<1>8. ASSUME NEW hs \in SUBSET Homes, DeleteHomes(hs) PROVE FALSE
  <2>1. photo'[f] = photo[f] \/ photo'[f] = NoMorePhoto
    BY <1>8 DEF DeleteHomes
  <2>2. QED
    BY <2>1 DEF NoMorePhoto
<1>9. ~OwnerOrModerator
  BY <1>1, OwnersMove DEF PhotosInv
<1>10. PICK j \in Jobs : JobContinue(j)
  BY <1>1, <1>8, <1>9
     DEF PhotosNext, Listing, Surroundings, Engage, Upload, Purge, Start, photoVars, listingVars
<1>11. QED
  BY <1>6, <1>7, <1>10

\* One handler moves and goes on settling what it was settling.
LEMMA HandledBy ==
    ASSUME PhotosInv, ProcessingIsHandled, NEW f \in Photos, photo[f].state = "PROCESSING",
           NEW j \in Jobs, \A i \in Jobs \ {j} : jobs'[i] = jobs[i],
           Settles(jobs[j], f) => Settles(jobs'[j], f)
    PROVE  \E i \in Jobs : Settles(jobs'[i], f)
BY DEF ProcessingIsHandled

\* A handler on its way to the end of its photo stays on it until it has written
\* READY or FAILED.
LEMMA EndingStays ==
    ASSUME PhotosInv, PhotosInv', NEW f \in Photos, photo'[f].state = "PROCESSING",
           NEW j \in Jobs, JobContinue(j), Settles(jobs[j], f)
    PROVE  Settles(jobs'[j], f)
<1>0. photo \in PhotoTable /\ photo' \in PhotoTable
  BY PhotoTables
<1>1. /\ jobs[j] \in JobRows /\ jobs[j].kind = "complete" /\ jobs[j].photo = f
      /\ jobs[j].pc \in Ending /\ jobs[j] # NoJob
  BY DEF Settles, PhotosInv, PhotosTyped, Marking
<1>2. ASSUME NEW pc \in Ending, Go(j, pc) PROVE Settles(jobs'[j], f)
  <2>1. PICK v : /\ jobs' = [jobs EXCEPT ![j] = v] /\ v.pc = pc /\ v.kind = "complete"
                 /\ v.photo = f
    BY <1>1, <1>2, GoesOn
  <2>2. jobs'[j] = v
    BY <2>1 DEF PhotosInv, PhotosTyped
  <2>3. v # NoJob
    <3>1. jobs'[j] \in JobRows \cup {NoJob}
      BY DEF PhotosInv, PhotosTyped, Marking
    <3>2. NoJob.kind = "none"
      BY DEF NoJob
    <3>3. QED
      BY <2>1, <3>2
  <2>4. QED
    BY <1>2, <2>1, <2>2, <2>3 DEF Settles
<1>3. CASE Convert(j) \/ PutImages(j)
  BY <1>2, <1>3 DEF Convert, PutImages, Ending
<1>4. CASE CountPrimaries(j)
  <2> DEFINE first == \A g \in Ready(HomeOf(j)) : ~photo[g].primary
             v == [jobs[j] EXCEPT !.pc = "ready", !.first = first]
  <2>1. jobs' = [jobs EXCEPT ![j].pc = "ready", ![j].first = first]
    BY <1>4 DEF CountPrimaries
  <2>2. jobs' = [jobs EXCEPT ![j] = v]
    BY <2>1
  <2>3. v.kind = "complete" /\ v.photo = f /\ v.pc = "ready"
    BY <1>1 DEF JobRows
  <2> HIDE DEF v
  <2>4. jobs'[j] = v
    BY <2>2 DEF PhotosInv, PhotosTyped
  <2>5. v # NoJob
    BY <2>3 DEF NoJob
  <2>6. QED
    BY <2>3, <2>4, <2>5 DEF Settles, Ending
<1>5. CASE SetReady(j)
  <2>1. CASE Stored(f)
    <3>1. photo'[f] = Processed(jobs[j].first)
      BY <1>1, <1>5, <2>1 DEF SetReady
    <3>2. QED
      BY <3>1 DEF Processed
  <2>2. CASE ~Stored(f)
    BY <1>1, <1>2, <1>5, <2>2 DEF SetReady, Ending
  <2>3. QED
    BY <2>1, <2>2
<1>6. CASE Fail(j)
  <2>1. CASE Stored(f)
    <3>1. photo[f] \in PhotoRows
      BY <2>1, StoredIsRow
    <3>2. photo'[f].state = "FAILED"
      BY <1>0, <1>1, <1>6, <2>1, <3>1 DEF Fail, PhotoTable, PhotoRows
    <3>3. QED
      BY <3>2
  <2>2. CASE ~Stored(f)
    BY <1>1, <1>6, <2>2 DEF Fail, Stored, PhotoStates
  <2>3. QED
    BY <2>1, <2>2
<1>7. /\ ~(Read(j) \/ MarkRead(j) \/ MarkWrite(j))
      /\ ~(Head(j) \/ Processing(j) \/ CleanUp(j))
  BY <1>1 DEF Read, MarkRead, MarkWrite, Head, Processing, CleanUp, At, Ending
<1>8. /\ ~(CreateRow(j) \/ Reorder(j) \/ SetPrimary(j))
      /\ ~(DeleteRow(j) \/ DeleteObjects(j) \/ FindNext(j) \/ Promote(j))
  BY <1>1 DEF CreateRow, Reorder, SetPrimary, DeleteRow, DeleteObjects, FindNext, Promote, At
<1>9. QED
  BY <1>3, <1>4, <1>5, <1>6, <1>7, <1>8 DEF JobContinue

LEMMA OneHandlerMoves ==
    ASSUME PhotosInv, NEW j \in Jobs, JobContinue(j)
    PROVE  \A i \in Jobs \ {j} : jobs'[i] = jobs[i]
BY DEF JobContinue, Read, MarkRead, MarkWrite, CreateRow, Reorder, SetPrimary, Head, Processing,
       Convert, PutImages, CountPrimaries, SetReady, CleanUp, Fail, DeleteRow, DeleteObjects,
       FindNext, Promote, Go, Leave, PhotosInv, PhotosTyped

\* A photo that is PROCESSING has a completion in flight that is to make it READY or
\* FAILED, for any number of handlers and whatever fails or is removed (complete,
\* whose catch writes FAILED on every path that has not written READY).
THEOREM ProcessingHasHandler == PhotosSpec => []ProcessingIsHandled
<1>1. PhotosInit => ProcessingIsHandled
  BY DEF PhotosInit, Init, ProcessingIsHandled, NoPhoto
<1>2. PhotosInv /\ PhotosInv' /\ ProcessingIsHandled /\ [PhotosNext]_photoVars
      => ProcessingIsHandled'
  <2> SUFFICES ASSUME PhotosInv, PhotosInv', ProcessingIsHandled, [PhotosNext]_photoVars,
                      NEW f \in Photos, photo'[f].state = "PROCESSING"
               PROVE  \E i \in Jobs : Settles(jobs'[i], f)
    BY DEF ProcessingIsHandled
  <2>1. CASE photo[f].state # "PROCESSING"
    <3>1. PICK j \in Jobs : Processing(j) /\ jobs[j].photo = f /\ Go(j, "file")
      BY <2>1, NewlyProcessing
    <3>2. jobs[j] # NoJob /\ jobs[j].kind = "complete"
      BY <3>1 DEF Processing, At
    <3>3. PICK v : /\ jobs' = [jobs EXCEPT ![j] = v] /\ v.pc = "file" /\ v.kind = "complete"
                   /\ v.photo = f
      BY <3>1, <3>2, GoesOn
    <3>4. jobs'[j] = v
      BY <3>3 DEF PhotosInv, PhotosTyped
    <3>5. v # NoJob
      BY <3>3 DEF NoJob
    <3>6. Settles(jobs'[j], f)
      BY <3>3, <3>4, <3>5 DEF Settles, Ending
    <3>7. QED
      BY <3>6
  <2>2. CASE photo[f].state = "PROCESSING"
    <3>1. CASE UNCHANGED jobs
      BY <2>2, <3>1 DEF ProcessingIsHandled
    <3>2. ASSUME NEW j \in Jobs, NEW x \in Photos, NEW kind \in Kinds, Start(j, x, kind)
          PROVE  \E i \in Jobs : Settles(jobs'[i], f)
      <4>1. jobs[j] = NoJob /\ \A i \in Jobs \ {j} : jobs'[i] = jobs[i]
        BY <3>2 DEF Start, PhotosInv, PhotosTyped
      <4>2. QED
        BY <2>2, <4>1, HandledBy DEF Settles
    <3>3. ASSUME NEW j \in Jobs, JobContinue(j)
          PROVE  \E i \in Jobs : Settles(jobs'[i], f)
      BY <2>2, <3>3, OneHandlerMoves, EndingStays, HandledBy
    <3>4. QED
      BY <3>1, <3>2, <3>3 DEF PhotosNext, Listing, Upload, Purge, photoVars
  <2>3. QED
    BY <2>1, <2>2
<1>3. QED
  BY <1>1, <1>2, PhotosInvariant, PTL DEF PhotosSpec
=============================================================================
