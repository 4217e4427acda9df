----------------------------- MODULE PagesProofs -----------------------------
(***************************************************************************)
(* Theorems about Profiles, Reviews, Favourites, Calendar and Wizard, for *)
(* any pages, pictures and links, users, requests and bookings, visitors   *)
(* and cards, periods and inputs, homes and texts: a profile with an       *)
(* uploaded avatar shows it, a rating is the mean of the reviews it is     *)
(* made of, a heart nobody waits on is what the rows say, the periods of a *)
(* home stay apart, what the catalogue finds can be asked for and what the *)
(* page shows as booked is booked, and the newest text of a home is not    *)
(* lost.                                                                   *)
(***************************************************************************)
EXTENDS Profiles, Reviews, Favourites, Calendar, Wizard, SequenceTheorems, SumsTheorems

-----------------------------------------------------------------------------
(* Avatars.  Keys are never used twice, so a picture that some upload found *)
(* in the row is one that was written: it is not yet to come, and the       *)
(* upload that put it there is over.  What an upload deletes is thus never  *)
(* what the row names, whichever way uploads overlap.                       *)

Keys == Pictures \cup {NoAvatar}
AvatarRows == [key: Keys, url: Links \cup {"own", NoAvatar}]

AvatarWaits == {NotAsking} \cup [asks: {"upload"}, of: Pictures]
         \cup [asks: {"save"}, patch: [url: Links \cup {"own", NoAvatar, "as it is"}],
               knew: Keys]

\* Only what the steps below need of the types.
ProfileTypes ==
    /\ profile \in AvatarRows \cup {NoRow}
    /\ avatarWork = [f \in Pictures |-> avatarWork[f]]
    /\ \A f \in Pictures : avatarWork[f].pc \in {"delete", "done"} => avatarWork[f].row \in AvatarRows
    /\ settings \in [Tabs -> [form: AvatarRows \cup {NotLoaded}, wait: AvatarWaits]]

Written(f) == f \in Pictures /\ avatarWork[f].pc \in {"delete", "done"}

\* An upload between its put and its write has its picture in the bucket.
PutIsThere == \A f \in Pictures : avatarWork[f].pc \in {"read", "write"} => f \in public

\* What the row names was written, and so was what an upload found there: no
\* picture that an upload deletes is one that another has yet to write.
RowWasWritten == profile.key # NoAvatar => Written(profile.key)
FoundWasWritten ==
    \A f \in Pictures : avatarWork[f].pc \in {"write", "delete"}
        => avatarWork[f].old = NoAvatar \/ Written(avatarWork[f].old)

\* An upload never deletes the picture that is in the row.
DeletesAnother ==
    \A f \in Pictures : avatarWork[f].pc = "delete" /\ profile.key # NoAvatar
        => avatarWork[f].old # profile.key

\* A link is sent only by pages that know of no upload.
SentKnowingNone ==
    \A t \in Tabs : settings[t].wait.asks = "save"
        => settings[t].wait.patch.url = "as it is" \/ settings[t].wait.knew = NoAvatar

ProfileInv ==
    /\ ProfileTypes /\ PutIsThere /\ RowWasWritten /\ FoundWasWritten
    /\ DeletesAnother /\ SentKnowingNone /\ AvatarShown

LEMMA ProfileInvInit == ProfilesInit => ProfileInv
<1> SUFFICES ASSUME ProfilesInit PROVE ProfileInv
  OBVIOUS
<1> USE ProfilesAssumption DEF ProfilesInit
<1>1. /\ profile.key = NoAvatar
      /\ \A f \in Pictures : avatarWork[f].pc = "unused"
      /\ \A t \in Tabs : settings[t].wait.asks = "nothing"
  BY DEF Unused, NotAsking
<1>2. ProfileTypes
  <2>1. profile \in AvatarRows
    BY DEF AvatarRows, Keys
  <2>2. NotAsking \in AvatarWaits
    BY DEF AvatarWaits
  <2>3. QED
    BY <1>1, <2>1, <2>2 DEF ProfileTypes
<1>3. QED
  BY <1>1, <1>2 DEF ProfileInv, PutIsThere, RowWasWritten, FoundWasWritten, DeletesAnother,
     SentKnowingNone, AvatarShown

LEMMA StillKnowingNone ==
    ASSUME SentKnowingNone,
           \A t \in Tabs : settings'[t].wait \in {settings[t].wait, NotAsking}
    PROVE  SentKnowingNone'
<1>1. NotAsking.asks # "save"
  BY DEF NotAsking
<1>2. QED
  BY <1>1 DEF SentKnowingNone

\* What the steps of a page leave of the invariant to show.
LEMMA OfPages ==
    ASSUME ProfileInv, UNCHANGED <<profile, public, avatarWork, overwritten>>,
           settings' \in [Tabs -> [form: AvatarRows \cup {NotLoaded}, wait: AvatarWaits]],
           \A t \in Tabs : settings'[t].wait \in {settings[t].wait, NotAsking}
    PROVE  ProfileInv'
<1> USE DEF ProfileInv
<1>1. ProfileTypes'
  BY DEF ProfileTypes
<1>2. SentKnowingNone'
  BY StillKnowingNone
<1>3. QED
  BY <1>1, <1>2 DEF PutIsThere, RowWasWritten, FoundWasWritten, Written, DeletesAnother,
     AvatarShown, Registered

LEMMA NotAskingWaits == NotAsking \in AvatarWaits
BY DEF AvatarWaits

LEMMA UploadWaits ==
    ASSUME NEW w \in AvatarWaits, w.asks = "upload" PROVE w.of \in Pictures
<1>1. NotAsking.asks = "nothing"
  BY DEF NotAsking
<1>2. \A v \in [asks: {"save"}, knew: Keys,
                patch: [url: Links \cup {"own", NoAvatar, "as it is"}]] : v.asks = "save"
  OBVIOUS
<1>3. w \in [asks: {"upload"}, of: Pictures]
  BY <1>1, <1>2 DEF AvatarWaits
<1>4. QED
  BY <1>3

LEMMA SaveWaits ==
    ASSUME NEW w \in AvatarWaits, w.asks = "save"
    PROVE  w.patch.url \in Links \cup {"own", NoAvatar, "as it is"}
<1>1. NotAsking.asks = "nothing"
  BY DEF NotAsking
<1>2. \A v \in [asks: {"upload"}, of: Pictures] : v.asks = "upload"
  OBVIOUS
<1>3. w \in [asks: {"save"}, knew: Keys,
             patch: [url: Links \cup {"own", NoAvatar, "as it is"}]]
  BY <1>1, <1>2 DEF AvatarWaits
<1>4. QED
  BY <1>3

LEMMA FormShows ==
    ASSUME ProfileTypes, NEW t \in Tabs, NEW row \in AvatarRows, Shows(t, row)
    PROVE  /\ settings' \in [Tabs -> [form: AvatarRows \cup {NotLoaded}, wait: AvatarWaits]]
           /\ \A u \in Tabs : settings'[u].wait \in {settings[u].wait, NotAsking}
BY NotAskingWaits DEF ProfileTypes, Shows

LEMMA Answered ==
    ASSUME ProfileTypes, NEW t \in Tabs, Awaits(t, NotAsking)
    PROVE  /\ settings' \in [Tabs -> [form: AvatarRows \cup {NotLoaded}, wait: AvatarWaits]]
           /\ \A u \in Tabs : settings'[u].wait \in {settings[u].wait, NotAsking}
BY NotAskingWaits DEF ProfileTypes, Awaits

LEMMA PageSteps ==
    ASSUME ProfileInv, NEW t \in Tabs,
           \/ LoadProfile(t) \/ SaveFails(t) \/ AvatarAnswered(t)
           \/ \E link \in Links \cup {NoAvatar} : TypeLink(t, link)
    PROVE  ProfileInv'
<1>1. CASE LoadProfile(t)
  BY <1>1, OfPages, FormShows DEF LoadProfile, Registered, ProfileInv, ProfileTypes
<1>2. CASE SaveFails(t)
  BY <1>2, OfPages, Answered DEF SaveFails, ProfileInv
<1>3. CASE AvatarAnswered(t)
  <2>1. CASE Awaits(t, NotAsking)
    BY <1>3, <2>1, OfPages, Answered DEF AvatarAnswered, ProfileInv
  <2>2. CASE /\ avatarWork[settings[t].wait.of].pc = "done"
             /\ Shows(t, avatarWork[settings[t].wait.of].row)
    <3>1. settings[t].wait.of \in Pictures
      BY <1>3, UploadWaits DEF AvatarAnswered, ProfileInv, ProfileTypes
    <3>2. avatarWork[settings[t].wait.of].row \in AvatarRows
      BY <2>2, <3>1 DEF ProfileInv, ProfileTypes
    <3>3. QED
      BY <1>3, <2>2, <3>2, OfPages, FormShows DEF AvatarAnswered, ProfileInv
  <2>3. QED
    BY <1>3, <2>1, <2>2 DEF AvatarAnswered
<1>4. ASSUME NEW link \in Links \cup {NoAvatar}, TypeLink(t, link)
      PROVE  ProfileInv'
  <2>1. settings[t].form \in AvatarRows
    BY <1>4 DEF TypeLink, Loaded, ProfileInv, ProfileTypes
  <2>2. [settings[t].form EXCEPT !.url = link] \in AvatarRows
    BY <2>1 DEF AvatarRows
  <2>3. settings' = [settings EXCEPT ![t].form = [settings[t].form EXCEPT !.url = link]]
    BY <1>4 DEF TypeLink, ProfileInv, ProfileTypes
  <2>4. /\ settings' \in [Tabs -> [form: AvatarRows \cup {NotLoaded}, wait: AvatarWaits]]
        /\ \A u \in Tabs : settings'[u].wait = settings[u].wait
    BY <2>2, <2>3 DEF ProfileInv, ProfileTypes
  <2>5. QED
    BY <1>4, <2>4, OfPages DEF TypeLink
<1>5. QED
  BY <1>1, <1>2, <1>3, <1>4

LEMMA SaveSteps ==
    ASSUME ProfileInv, NEW t \in Tabs, SaveProfile(t)
    PROVE  ProfileInv'
<1> USE DEF ProfileInv
<1> DEFINE asks == [asks |-> "save", patch |-> SentFields(settings[t].form),
                    knew |-> settings[t].form.key]
<1>1. asks \in AvatarWaits
  <2>1. settings[t].form \in AvatarRows
    BY DEF SaveProfile, Loaded, ProfileTypes
  <2>2. SentFields(settings[t].form) \in [url: Links \cup {"own", NoAvatar, "as it is"}]
    BY <2>1 DEF SentFields, AvatarRows
  <2>3. settings[t].form.key \in Keys
    BY <2>1 DEF AvatarRows
  <2>4. QED
    BY <2>2, <2>3 DEF AvatarWaits
<1>2. /\ settings' = [settings EXCEPT ![t].wait = asks]
      /\ UNCHANGED <<profile, public, avatarWork, overwritten>>
  BY DEF SaveProfile, Awaits
<1>3. asks.patch.url = "as it is" \/ asks.knew = NoAvatar
  BY DEF SentFields
<1> HIDE DEF asks
<1>4. ProfileTypes'
  BY <1>1, <1>2 DEF ProfileTypes
<1>5. SentKnowingNone'
  BY <1>2, <1>3 DEF ProfileTypes, SentKnowingNone
<1>6. QED
  BY <1>2, <1>4, <1>5 DEF PutIsThere, RowWasWritten, FoundWasWritten, Written,
     DeletesAnother, AvatarShown, Registered

\* The fields saved keep the key of the row, and its link unless the page
\* knew of no upload.
LEMMA SavedSteps ==
    ASSUME ProfileInv, NEW t \in Tabs, ServeSave(t)
    PROVE  ProfileInv'
<1> USE ProfilesAssumption DEF ProfileInv
<1> DEFINE patch == settings[t].wait.patch
<1>1. /\ profile \in AvatarRows
      /\ \/ patch.url = "as it is" /\ profile' = profile
         \/ /\ patch.url \in Links \cup {"own", NoAvatar} /\ settings[t].wait.knew = NoAvatar
            /\ profile' = [profile EXCEPT !.url = patch.url]
  <2>1. patch.url \in Links \cup {"own", NoAvatar, "as it is"}
    BY SaveWaits DEF ServeSave, ProfileTypes
  <2>2. QED
    BY <2>1 DEF ServeSave, Registered, ProfileTypes, SentKnowingNone, SavedRow
<1>2. /\ profile' \in AvatarRows /\ profile'.key = profile.key
      /\ UNCHANGED <<public, avatarWork>>
  BY <1>1 DEF AvatarRows, ServeSave
<1>3. Shows(t, profile') \/ Awaits(t, NotAsking)
  BY DEF ServeSave
<1>4. ProfileTypes' /\ SentKnowingNone'
  <2>1. /\ settings' \in [Tabs -> [form: AvatarRows \cup {NotLoaded}, wait: AvatarWaits]]
        /\ \A u \in Tabs : settings'[u].wait \in {settings[u].wait, NotAsking}
    BY <1>2, <1>3, FormShows, Answered
  <2>2. SentKnowingNone'
    BY <2>1, StillKnowingNone
  <2>3. QED
    BY <1>2, <2>1, <2>2 DEF ProfileTypes
<1>5. AvatarShown'
  <2>1. overwritten' = (overwritten \/ (profile.key # settings[t].wait.knew
                                         /\ profile'.url # "own"))
    BY <1>1 DEF ServeSave, SavedRow
  <2>2. Registered
    BY DEF ServeSave
  <2>3. CASE profile' = profile
    BY <1>2, <2>1, <2>2, <2>3 DEF AvatarShown, Registered
  <2>4. CASE settings[t].wait.knew = NoAvatar
    BY <1>2, <2>1, <2>2, <2>4 DEF AvatarShown, Registered
  <2>5. QED
    BY <1>1, <2>3, <2>4
<1>6. QED
  BY <1>2, <1>4, <1>5 DEF PutIsThere, RowWasWritten, FoundWasWritten, Written, DeletesAnother

\* A step of one upload before its row is written: other uploads stay.
LEMMA OnlyThisWork ==
    ASSUME ProfileInv, NEW f \in Pictures, ~Written(f), NEW work,
           Now(f, work), work.pc \notin {"delete", "done"},
           work.pc = "write" => work.old = NoAvatar \/ Written(work.old),
           work.pc \in {"read", "write"} => f \in public',
           public \subseteq public', UNCHANGED <<profile, overwritten>>
    PROVE  /\ avatarWork' = [g \in Pictures |-> avatarWork'[g]]
           /\ \A g \in Pictures : avatarWork'[g].pc \in {"delete", "done"}
                => avatarWork'[g].row \in AvatarRows
           /\ PutIsThere' /\ RowWasWritten' /\ FoundWasWritten' /\ DeletesAnother'
           /\ AvatarShown'
<1> USE DEF ProfileInv
<1>1. /\ avatarWork' = [g \in Pictures |-> avatarWork'[g]]
      /\ avatarWork'[f] = work
      /\ \A g \in Pictures \ {f} : avatarWork'[g] = avatarWork[g]
  BY DEF ProfileTypes, Now
<1>2. \A g : Written(g) => Written(g)'
  BY <1>1 DEF Written
<1>3. \A g \in Pictures : avatarWork'[g].pc \in {"delete", "done"}
          => avatarWork'[g].row \in AvatarRows
  BY <1>1 DEF ProfileTypes
<1>4. PutIsThere' /\ RowWasWritten' /\ DeletesAnother' /\ AvatarShown'
  BY <1>1, <1>2 DEF PutIsThere, RowWasWritten, DeletesAnother, AvatarShown, Registered
<1>5. FoundWasWritten'
  BY <1>1, <1>2 DEF FoundWasWritten
<1>6. QED
  BY <1>1, <1>3, <1>4, <1>5

LEMMA UploadSteps ==
    ASSUME ProfileInv, NEW f \in Pictures, NEW t \in Tabs, UploadAvatar(t, f)
    PROVE  ProfileInv'
<1>1. ~Written(f)
  BY DEF UploadAvatar, Written, Unused
<1>2. Now(f, [pc |-> "convert"])
  BY DEF UploadAvatar, Now
<1>3. UNCHANGED <<profile, public, overwritten>>
  BY DEF UploadAvatar
<1>4. settings' \in [Tabs -> [form: AvatarRows \cup {NotLoaded}, wait: AvatarWaits]]
  <2>1. [asks |-> "upload", of |-> f] \in AvatarWaits
    BY DEF AvatarWaits
  <2>2. QED
    BY <2>1 DEF UploadAvatar, Awaits, ProfileInv, ProfileTypes
<1>5. SentKnowingNone'
  BY DEF UploadAvatar, Awaits, ProfileInv, ProfileTypes, SentKnowingNone
<1>6. QED
  BY <1>1, <1>2, <1>3, <1>4, <1>5, OnlyThisWork DEF ProfileInv, ProfileTypes

LEMMA WorkSteps ==
    ASSUME ProfileInv, NEW f \in Pictures, AvatarPut(f) \/ AvatarFails(f) \/ AvatarRead(f)
    PROVE  ProfileInv'
<1>1. ~Written(f) /\ UNCHANGED <<profile, settings, overwritten>>
  BY DEF AvatarPut, AvatarFails, AvatarRead, OnlyWork, Written
<1>2. CASE AvatarPut(f)
  BY <1>1, <1>2, OnlyThisWork DEF AvatarPut, ProfileInv, ProfileTypes, SentKnowingNone
<1>3. CASE AvatarFails(f)
  BY <1>1, <1>3, OnlyThisWork DEF AvatarFails, ProfileInv, ProfileTypes, SentKnowingNone
<1>4. CASE AvatarRead(f)
  BY <1>1, <1>4, OnlyThisWork
     DEF AvatarRead, ProfileInv, ProfileTypes, SentKnowingNone, RowWasWritten, PutIsThere
<1>5. QED
  BY <1>2, <1>3, <1>4

\* The row names a picture no upload has seen before.
LEMMA WriteSteps ==
    ASSUME ProfileInv, NEW f \in Pictures, AvatarWrite(f)
    PROVE  ProfileInv'
<1> USE ProfilesAssumption DEF ProfileInv
<1> DEFINE row == [key |-> f, url |-> "own"]
<1>1. ~Written(f) /\ f # NoAvatar /\ f \in public
  BY DEF AvatarWrite, Written, PutIsThere
<1>2. /\ profile' = row /\ row \in AvatarRows
      /\ UNCHANGED <<public, settings, overwritten>>
  BY DEF AvatarWrite, AvatarRows, Keys
<1>3. /\ avatarWork' = [g \in Pictures |-> avatarWork'[g]]
      /\ avatarWork'[f].pc = "delete" /\ avatarWork'[f].row = row
      /\ avatarWork'[f].old = avatarWork[f].old
      /\ \A g \in Pictures \ {f} : avatarWork'[g] = avatarWork[g]
  BY <1>2 DEF AvatarWrite, Now, ProfileTypes
<1>4. (\A g : Written(g) => Written(g)') /\ Written(f)'
  BY <1>3 DEF Written
<1>5. ProfileTypes' /\ SentKnowingNone'
  BY <1>2, <1>3 DEF ProfileTypes, SentKnowingNone
<1>6. PutIsThere' /\ RowWasWritten' /\ AvatarShown'
  BY <1>1, <1>2, <1>3, <1>4 DEF PutIsThere, RowWasWritten, AvatarShown
<1>7. FoundWasWritten'
  BY <1>3, <1>4 DEF FoundWasWritten, AvatarWrite
<1>8. DeletesAnother'
  <2>1. avatarWork[f].old # f
    BY <1>1 DEF FoundWasWritten, AvatarWrite
  <2>2. \A g \in Pictures : avatarWork[g].pc = "delete" => avatarWork[g].old # f
    BY <1>1 DEF FoundWasWritten
  <2>3. QED
    BY <1>2, <1>3, <2>1, <2>2 DEF DeletesAnother
<1>9. QED
  BY <1>5, <1>6, <1>7, <1>8

\* What is deleted was written, and is not what the row names.
LEMMA CleanUpSteps ==
    ASSUME ProfileInv, NEW f \in Pictures, AvatarCleanUp(f)
    PROVE  ProfileInv'
<1> USE ProfilesAssumption DEF ProfileInv
<1>1. /\ public \ {avatarWork[f].old} \subseteq public'
      /\ UNCHANGED <<profile, settings, overwritten>>
  BY DEF AvatarCleanUp, Replaced
<1>2. /\ avatarWork' = [g \in Pictures |-> avatarWork'[g]]
      /\ avatarWork'[f].pc = "done" /\ avatarWork'[f].row = avatarWork[f].row
      /\ \A g \in Pictures \ {f} : avatarWork'[g] = avatarWork[g]
  BY DEF AvatarCleanUp, Now, ProfileTypes
<1>3. avatarWork[f].pc = "delete"
  BY DEF AvatarCleanUp
<1>4. \A g : Written(g) => Written(g)'
  BY <1>2 DEF Written
<1>5. ProfileTypes' /\ SentKnowingNone'
  BY <1>1, <1>2, <1>3 DEF ProfileTypes, SentKnowingNone
<1>6. PutIsThere'
  <2>1. \A g \in Pictures : avatarWork[g].pc \in {"read", "write"} => g # avatarWork[f].old
    BY <1>3 DEF FoundWasWritten, Written
  <2>2. QED
    BY <1>1, <1>2, <2>1 DEF PutIsThere
<1>7. RowWasWritten' /\ FoundWasWritten' /\ DeletesAnother'
  BY <1>1, <1>2, <1>4 DEF RowWasWritten, FoundWasWritten, DeletesAnother
<1>8. AvatarShown'
  BY <1>1, <1>3 DEF AvatarShown, Registered, DeletesAnother
<1>9. QED
  BY <1>5, <1>6, <1>7, <1>8

LEMMA DeleteSteps == ProfileInv /\ DeleteProfile => ProfileInv'
<1> SUFFICES ASSUME ProfileInv, DeleteProfile PROVE ProfileInv'
  OBVIOUS
<1> USE ProfilesAssumption DEF ProfileInv
<1>1. /\ profile' = NoRow /\ NoRow.key = NoAvatar
      /\ UNCHANGED <<avatarWork, settings, overwritten>>
      /\ public \ {profile.key} \subseteq public'
  BY DEF DeleteProfile, NoRow
<1>2. PutIsThere'
  BY <1>1 DEF PutIsThere, RowWasWritten, Written
<1>3. QED
  BY <1>1, <1>2 DEF ProfileTypes, SentKnowingNone, RowWasWritten, FoundWasWritten, Written,
     DeletesAnother, AvatarShown

LEMMA ProfileInvNext == ProfileInv /\ [ProfilesNext]_profilesVars => ProfileInv'
<1>1. CASE UNCHANGED profilesVars
  BY <1>1 DEF profilesVars, ProfileInv, ProfileTypes, PutIsThere, RowWasWritten,
     FoundWasWritten, Written, DeletesAnother, SentKnowingNone, AvatarShown, Registered
<1>2. ASSUME ProfileInv, ProfilesNext PROVE ProfileInv'
  BY <1>2, PageSteps, SaveSteps, SavedSteps, UploadSteps, WorkSteps, WriteSteps,
     CleanUpSteps, DeleteSteps DEF ProfilesNext
<1>3. QED
  BY <1>1, <1>2

\* However uploads and their deletions of older pictures interleave with each
\* other and with pages that save, a profile with an uploaded avatar shows it
\* (profile-avatar.service.ts, profiles.service.ts).
THEOREM AvatarAlwaysShown == ProfilesSpec => []AvatarShown
<1>1. ProfileInv => AvatarShown
  BY DEF ProfileInv
<1>2. QED
  BY <1>1, ProfileInvInit, ProfileInvNext, PTL DEF ProfilesSpec

\* The buckets, the uploads and the count of saves.
WorkTypes ==
    /\ public \subseteq Pictures /\ uploads \subseteq Pictures /\ saves \in 0..MaxSaves
    /\ \A f \in Pictures : avatarWork[f].pc \in
           {"unused", "convert", "read", "write", "delete", "done", "failed"}

LEMMA SavesBounded == MaxSaves \in Nat
BY Zenon, ProfilesAssumption

LEMMA WorkTypesNext ==
    ProfileInv /\ WorkTypes /\ [ProfilesNext]_profilesVars => WorkTypes'
<1> SUFFICES ASSUME ProfileInv, WorkTypes, [ProfilesNext]_profilesVars PROVE WorkTypes'
  OBVIOUS
<1>1. avatarWork = [f \in Pictures |-> avatarWork[f]]
  BY DEF ProfileInv, ProfileTypes
<1>2. ASSUME NEW t \in Tabs,
             \/ LoadProfile(t) \/ SaveProfile(t) \/ ServeSave(t) \/ SaveFails(t)
             \/ AvatarAnswered(t) \/ \E link \in Links \cup {NoAvatar} : TypeLink(t, link)
      PROVE  WorkTypes'
  <2>1. /\ UNCHANGED <<public, uploads, avatarWork>>
        /\ saves' = saves \/ (saves < MaxSaves /\ saves' = saves + 1)
    BY <1>2 DEF LoadProfile, SaveProfile, ServeSave, SaveFails, AvatarAnswered, TypeLink, Save
  <2>2. saves' \in 0..MaxSaves
    BY <2>1, SavesBounded DEF WorkTypes
  <2>3. QED
    BY <2>1, <2>2 DEF WorkTypes
<1>3. ASSUME NEW t \in Tabs, NEW f \in Pictures, UploadAvatar(t, f) PROVE WorkTypes'
  BY <1>1, <1>3 DEF UploadAvatar, WorkTypes
<1>4. ASSUME NEW f \in Pictures,
             \/ AvatarPut(f) \/ AvatarFails(f) \/ AvatarRead(f) \/ AvatarWrite(f)
             \/ AvatarCleanUp(f)
      PROVE  WorkTypes'
  <2>1. /\ public' \subseteq public \cup {f} /\ uploads' \subseteq uploads /\ saves' = saves
    BY <1>4 DEF AvatarPut, AvatarFails, AvatarRead, AvatarWrite, AvatarCleanUp, OnlyWork
  <2>2. ASSUME NEW work, Now(f, work), work.pc \in {"read", "write", "delete", "done", "failed"}
        PROVE  WorkTypes'
    BY <1>1, <2>1, <2>2 DEF WorkTypes, Now
  <2>3. QED
    BY <1>4, <2>2 DEF AvatarPut, AvatarFails, AvatarRead, AvatarWrite, AvatarCleanUp
<1>5. CASE DeleteProfile
  BY <1>5 DEF DeleteProfile, WorkTypes
<1>6. CASE UNCHANGED profilesVars
  BY <1>6 DEF profilesVars, WorkTypes
<1>7. QED
  BY <1>2, <1>3, <1>4, <1>5, <1>6 DEF ProfilesNext

\* The row, the buckets, the forms and the uploads keep their types, whatever
\* pages and uploads overlap.
THEOREM ProfilesTypesHold == ProfilesSpec => []ProfilesTypeOK
<1>1. ProfilesInit => WorkTypes
  <2> SUFFICES ASSUME ProfilesInit PROVE WorkTypes
    OBVIOUS
  <2>1. saves \in 0..MaxSaves
    BY SavesBounded DEF ProfilesInit
  <2>2. QED
    BY <2>1 DEF ProfilesInit, WorkTypes, Unused
<1>2. ProfileInv /\ WorkTypes => ProfilesTypeOK
  <2> SUFFICES ASSUME ProfileInv, WorkTypes PROVE ProfilesTypeOK
    OBVIOUS
  <2>1. profile \in ProfileRows \ {NotLoaded}
    <3>1. NoRow # NotLoaded /\ NotLoaded \notin AvatarRows
      BY ProfilesAssumption DEF NoRow, NotLoaded, AvatarRows
    <3>2. QED
      BY <3>1 DEF ProfileInv, ProfileTypes, ProfileRows, AvatarRows, Keys
  <2>2. QED
    BY <2>1 DEF ProfileInv, ProfileTypes, WorkTypes, ProfilesTypeOK, ProfileRows, AvatarRows, Keys
<1>3. QED
  BY <1>1, <1>2, ProfileInvInit, ProfileInvNext, WorkTypesNext, PTL DEF ProfilesSpec

-----------------------------------------------------------------------------
(* Ratings.                                                                *)

\* A rating is the mean of these reviews, to half a tenth.
IsMeanOf(rows, x) ==
    LET n == Cardinality(rows) IN
    /\ rows = {} => x = Unrated
    /\ 2 * (10 * SumOf([r \in rows |-> r.rating]) - n * x) \in -n..n

\* Whoever is reviewed took part in the request, so his reviews go with him.
SubjectsTookPart == \A r \in reviews : r.subject \in SidesOf(r.of)

ReviewsTypes ==
    /\ booking \in [Stays -> [guest: Members, host: Members]]
    /\ reviews \subseteq ReviewRows /\ IsFiniteSet(reviews)
    /\ rating \in [Members -> [Roles -> Nat]]
    /\ reviewPage \in [Members ->
           [dialog: {NoDialog} \cup [of: Stays, gives: {Unrated} \cup 1..5],
            shown: SUBSET Stays]]

ReviewsInv == ReviewsTypes /\ SubjectsTookPart /\ RatingIsMean

LEMMA MeansAre ==
    RatingIsMean <=>
        \A u \in Members, role \in Roles :
            <<u, role>> \notin shrunk => IsMeanOf(Given(u, role), rating[u][role])
BY DEF RatingIsMean, IsMeanOf

LEMMA MeansAreThen ==
    RatingIsMean' <=>
        \A u \in Members, role \in Roles :
            <<u, role>> \notin shrunk' => IsMeanOf(Given(u, role)', rating'[u][role])
BY DEF RatingIsMean, IsMeanOf

LEMMA NothingGiven == IsMeanOf({}, Unrated)
<1> DEFINE f == [r \in {} |-> r.rating]
<1>1. SumOf(f) = 0
  BY SumEmpty
<1>2. Cardinality({}) = 0
  BY FS_EmptySet
<1> HIDE DEF f
<1>3. 2 * (10 * SumOf(f) - 0 * 0) \in -0..0
  BY <1>1
<1>4. QED
  BY <1>2, <1>3 DEF IsMeanOf, Unrated, f

\* Rounding to the nearest tenth.
LEMMA NearestTenth ==
    ASSUME NEW total \in Nat, NEW n \in Nat, n > 0
    PROVE  /\ (20 * total + n) \div (2 * n) \in Nat
           /\ 2 * (10 * total - n * ((20 * total + n) \div (2 * n))) \in -n..n
<1> DEFINE q == (20 * total + n) \div (2 * n)
<1>1. /\ q \in Int
      /\ (2 * n) * q <= 20 * total + n
      /\ 20 * total + n < (2 * n) * q + 2 * n
  BY SMTT(30)
<1> HIDE DEF q
<1>2. (2 * n) * q = 2 * (n * q) /\ n * q \in Int
  BY <1>1
<1>3. q >= 0
  <2>1. CASE q < 0
    <3>1. n * q <= -n
      BY <1>1, <2>1
    <3>2. QED
      BY <1>1, <1>2, <3>1
  <2>2. QED
    BY <1>1, <2>1
<1>4. 2 * (10 * total - n * q) \in -n..n
  BY <1>1, <1>2
<1>5. QED
  BY <1>1, <1>3, <1>4 DEF q

LEMMA MeanIsMean ==
    ASSUME NEW rows, IsFiniteSet(rows), rows # {}, rows \subseteq ReviewRows
    PROVE  Mean(rows) \in Nat /\ IsMeanOf(rows, Mean(rows))
<1> DEFINE f == [r \in rows |-> r.rating]
           n == Cardinality(rows)
<1>1. f \in [rows -> Int]
  BY DEF ReviewRows
<1>2. n \in Nat /\ n > 0
  BY FS_CardinalityType, FS_EmptySet
<1> HIDE DEF f
<1>3. SumOf(f) \in Nat
  BY <1>1, SumType
<1> HIDE DEF n
<1>4. Mean(rows) = (20 * SumOf(f) + n) \div (2 * n)
  BY DEF Mean, f, n
<1>5. /\ Mean(rows) \in Nat
      /\ 2 * (10 * SumOf(f) - n * Mean(rows)) \in -n..n
  BY <1>2, <1>3, <1>4, NearestTenth
<1>6. QED
  BY <1>5 DEF IsMeanOf, f, n

LEMMA ReviewsInvInit == ReviewsInit => ReviewsInv
<1> SUFFICES ASSUME ReviewsInit PROVE ReviewsInv
  OBVIOUS
<1>1. ReviewsTypes
  BY ReviewsAssumption, FS_EmptySet DEF ReviewsInit, ReviewsTypes, Unrated
<1>2. SubjectsTookPart
  BY DEF ReviewsInit, SubjectsTookPart
<1>3. RatingIsMean
  <2> SUFFICES ASSUME NEW u \in Members, NEW role \in Roles
               PROVE  IsMeanOf(Given(u, role), rating[u][role])
    BY MeansAre
  <2>1. Given(u, role) = {} /\ rating[u][role] = Unrated
    BY DEF ReviewsInit, Given
  <2>2. QED
    BY <2>1, NothingGiven
<1>4. QED
  BY <1>1, <1>2, <1>3 DEF ReviewsInv

\* Steps that leave reviews and ratings alone.
LEMMA ReviewPageSteps ==
    ASSUME ReviewsInv, UNCHANGED <<booking, reviews, rating, shrunk>>, ReviewsTypes'
    PROVE  ReviewsInv'
<1> USE DEF ReviewsInv
<1>1. \A u, role : Given(u, role)' = Given(u, role)
  BY DEF Given, RoleIn
<1>2. RatingIsMean'
  BY <1>1, MeansAre, MeansAreThen
<1>3. SubjectsTookPart'
  BY DEF SubjectsTookPart, SidesOf
<1>4. QED
  BY <1>2, <1>3

LEMMA DialogSteps ==
    ASSUME ReviewsInv, NEW u \in Members,
           \/ LoadRequests(u) \/ CloseReview(u) \/ ReviewFails(u)
           \/ \E s \in Stays : OpenReview(u, s)
           \/ \E n \in Ratings : Publish(u, n)
    PROVE  ReviewsInv'
<1> DEFINE Dialogs == {NoDialog} \cup [of: Stays, gives: {Unrated} \cup 1..5]
<1> USE DEF ReviewsInv
<1>0. reviewPage \in [Members -> [dialog: Dialogs, shown: SUBSET Stays]]
  BY DEF ReviewsTypes
<1>1. Dialog(u) # NoDialog => Dialog(u).of \in Stays
  BY <1>0 DEF Dialog
<1>2. \A s \in Stays, n \in {Unrated} \cup 1..5 : [of |-> s, gives |-> n] \in Dialogs
  OBVIOUS
<1>3. NoDialog \in Dialogs
  OBVIOUS
<1> HIDE DEF Dialogs
<1>4. ASSUME NEW d \in Dialogs, SetDialog(u, d)
      PROVE  reviewPage' \in [Members -> [dialog: Dialogs, shown: SUBSET Stays]]
  BY <1>0, <1>4 DEF SetDialog
<1>5. reviewPage' \in [Members -> [dialog: Dialogs, shown: SUBSET Stays]]
  <2>1. CASE LoadRequests(u)
    <3>1. {r.of : r \in {q \in reviews : q.author = u}} \in SUBSET Stays
      BY DEF ReviewsTypes, ReviewRows
    <3>2. QED
      BY <1>0, <2>1, <3>1 DEF LoadRequests
  <2>2. CASE CloseReview(u)
    BY <1>3, <1>4, <2>2 DEF CloseReview
  <2>3. CASE ReviewFails(u)
    BY <1>1, <1>2, <1>4, <2>3 DEF ReviewFails
  <2>4. ASSUME NEW s \in Stays, OpenReview(u, s)
        PROVE  reviewPage' \in [Members -> [dialog: Dialogs, shown: SUBSET Stays]]
    BY <1>2, <1>4, <2>4 DEF OpenReview
  <2>5. ASSUME NEW n \in Ratings, Publish(u, n)
        PROVE  reviewPage' \in [Members -> [dialog: Dialogs, shown: SUBSET Stays]]
    BY <1>1, <1>2, <1>4, <2>5, ReviewsAssumption DEF Publish
  <2>6. QED
    BY <2>1, <2>2, <2>3, <2>4, <2>5
<1>6. UNCHANGED <<booking, reviews, rating, shrunk>>
  BY DEF LoadRequests, CloseReview, ReviewFails, OpenReview, Publish
<1>7. ReviewsTypes'
  BY <1>5, <1>6 DEF ReviewsTypes, Dialogs
<1>8. QED
  BY <1>6, <1>7, ReviewPageSteps

LEMMA CompleteSteps ==
    ASSUME ReviewsInv, NEW s \in Stays, CompleteStay(s)
    PROVE  ReviewsInv'
BY ReviewPageSteps DEF CompleteStay, ReviewsInv, ReviewsTypes

\* A review counts for its subject in one role; the rest is as it was.
LEMMA ReviewSteps ==
    ASSUME ReviewsInv, NEW u \in Members, CreateReview(u)
    PROVE  ReviewsInv'
<1> USE DEF ReviewsInv
<1> DEFINE s == Dialog(u).of
           subject == OtherSide(s, u)
           role == RoleIn(s, subject)
           review == [of |-> s, author |-> u, subject |-> subject, rating |-> Dialog(u).gives]
           rows == Averaged(reviews \cup {review}, subject, role)
<1>1. s \in Stays /\ Dialog(u).gives \in 1..5
  BY DEF CreateReview, ReviewsTypes, Dialog
<1>2. subject \in Members /\ subject \in SidesOf(s) /\ role \in Roles
  BY <1>1 DEF ReviewsTypes, OtherSide, SidesOf, RoleIn, Roles
<1>3. review \in ReviewRows
  BY <1>1, <1>2 DEF ReviewRows
<1>4. /\ reviews' = reviews \cup {review} /\ booking' = booking
      /\ rating' = [rating EXCEPT ![subject][role] = Mean(rows)]
      /\ shrunk' = shrunk \ {<<subject, role>>}
  BY DEF CreateReview
<1>5. /\ review.of = s /\ review.subject = subject
  OBVIOUS
<1>6. /\ IsFiniteSet(reviews') /\ reviews' \subseteq ReviewRows
  BY <1>3, <1>4, FS_AddElement DEF ReviewsTypes
<1>7. reviewPage' \in [Members ->
           [dialog: {NoDialog} \cup [of: Stays, gives: {Unrated} \cup 1..5],
            shown: SUBSET Stays]]
  <2> DEFINE Dialogs == {NoDialog} \cup [of: Stays, gives: {Unrated} \cup 1..5]
             after == [of |-> s, gives |-> Unrated]
             closed == [dialog |-> NoDialog, shown |-> reviewPage[u].shown \cup {s}]
  <2>1. reviewPage \in [Members -> [dialog: Dialogs, shown: SUBSET Stays]]
    BY DEF ReviewsTypes
  <2>2. after \in Dialogs /\ NoDialog \in Dialogs
    BY <1>1
  <2> HIDE DEF Dialogs, after
  <2>3. closed \in [dialog: Dialogs, shown: SUBSET Stays]
    BY <1>1, <2>1, <2>2
  <2>4. \/ reviewPage' = [reviewPage EXCEPT ![u] = closed]
        \/ reviewPage' = [reviewPage EXCEPT ![u].dialog = after]
    BY DEF CreateReview, SetDialog, after
  <2> HIDE DEF closed
  <2>5. reviewPage' \in [Members -> [dialog: Dialogs, shown: SUBSET Stays]]
    BY <2>1, <2>2, <2>3, <2>4
  <2>6. QED
    BY <2>5 DEF Dialogs
<1> HIDE DEF s, review, subject
<1>8. /\ review \in rows
      /\ \A v \in Members, q \in Roles :
            v = subject /\ q = role => Given(v, q)' = rows
  BY <1>4, <1>5 DEF Averaged, Given, RoleIn, role
<1>9. IsFiniteSet(rows) /\ rows \subseteq ReviewRows
  BY <1>4, <1>6, FS_Subset DEF Averaged
<1>10. Mean(rows) \in Nat /\ IsMeanOf(rows, Mean(rows))
  BY <1>8, <1>9, MeanIsMean
<1> HIDE DEF rows
<1>11. \A v \in Members, q \in Roles : <<v, q>> # <<subject, role>>
          => Given(v, q)' = Given(v, q) /\ rating'[v][q] = rating[v][q]
  <2> SUFFICES ASSUME NEW v \in Members, NEW q \in Roles, <<v, q>> # <<subject, role>>
               PROVE  Given(v, q)' = Given(v, q) /\ rating'[v][q] = rating[v][q]
    OBVIOUS
  <2>1. ~(review.subject = v /\ RoleIn(review.of, v) = q)
    BY <1>5 DEF role
  <2>2. Given(v, q)' = Given(v, q)
    BY <1>4, <2>1 DEF Given, RoleIn
  <2>3. rating'[v][q] = rating[v][q]
    BY <1>2, <1>4 DEF ReviewsTypes
  <2>4. QED
    BY <2>2, <2>3
<1> HIDE DEF role
<1>12. rating'[subject][role] = Mean(rows) /\ rating' \in [Members -> [Roles -> Nat]]
  BY <1>2, <1>4, <1>10 DEF ReviewsTypes
<1>13. ReviewsTypes'
  BY <1>4, <1>6, <1>7, <1>12 DEF ReviewsTypes
<1>14. SubjectsTookPart'
  BY <1>2, <1>4, <1>5 DEF SubjectsTookPart, SidesOf
<1>15. RatingIsMean'
  <2> SUFFICES ASSUME NEW v \in Members, NEW q \in Roles, <<v, q>> \notin shrunk'
               PROVE  IsMeanOf(Given(v, q)', rating'[v][q])
    BY MeansAreThen
  <2>1. CASE <<v, q>> = <<subject, role>>
    BY <1>8, <1>10, <1>12, <2>1
  <2>2. CASE <<v, q>> # <<subject, role>>
    BY <1>4, <1>11, <2>2, MeansAre
  <2>3. QED
    BY <2>1, <2>2
<1>16. QED
  BY <1>13, <1>14, <1>15

\* The reviews of the user deleted are all gone; those of others that are
\* not listed as shrunk all stay.
LEMMA DeletionSteps ==
    ASSUME ReviewsInv, NEW u \in Members, DeleteMember(u)
    PROVE  ReviewsInv'
<1> USE DEF ReviewsInv
<1> DEFINE gone == {r \in reviews : u \in SidesOf(r.of)}
<1>1. /\ reviews' = reviews \ gone
      /\ rating' = [rating EXCEPT ![u] = [r \in Roles |-> Unrated]]
      /\ shrunk' = (shrunk \cup {<<r.subject, RoleIn(r.of, r.subject)>> : r \in gone})
                   \ ({u} \X Roles)
      /\ UNCHANGED <<booking, reviewPage>>
  BY DEF DeleteMember
<1>2. ReviewsTypes'
  <2>1. IsFiniteSet(reviews') /\ reviews' \subseteq ReviewRows
    BY <1>1, FS_Subset DEF ReviewsTypes
  <2>2. rating' \in [Members -> [Roles -> Nat]]
    BY <1>1 DEF ReviewsTypes, Unrated
  <2>3. QED
    BY <1>1, <2>1, <2>2 DEF ReviewsTypes
<1>3. SubjectsTookPart'
  BY <1>1 DEF SubjectsTookPart, SidesOf
<1>4. RatingIsMean'
  <2> SUFFICES ASSUME NEW v \in Members, NEW q \in Roles, <<v, q>> \notin shrunk'
               PROVE  IsMeanOf(Given(v, q)', rating'[v][q])
    BY MeansAreThen
  <2>1. CASE v = u
    <3>1. Given(v, q)' = {}
      BY <1>1, <2>1 DEF Given, SubjectsTookPart
    <3>2. rating'[v][q] = Unrated
      BY <1>1, <2>1 DEF ReviewsTypes
    <3>3. QED
      BY <3>1, <3>2, NothingGiven
  <2>2. CASE v # u
    <3>1. /\ <<v, q>> \notin shrunk
          /\ \A r \in gone : <<r.subject, RoleIn(r.of, r.subject)>> # <<v, q>>
      BY <1>1, <2>2
    <3>2. Given(v, q)' = Given(v, q)
      BY <1>1, <3>1 DEF Given, RoleIn
    <3>3. rating'[v][q] = rating[v][q]
      BY <1>1, <2>2 DEF ReviewsTypes
    <3>4. QED
      BY <3>1, <3>2, <3>3, MeansAre
  <2>3. QED
    BY <2>1, <2>2
<1>5. QED
  BY <1>2, <1>3, <1>4

LEMMA ReviewsInvNext == ReviewsInv /\ [ReviewsNext]_reviewsVars => ReviewsInv'
<1>1. CASE UNCHANGED reviewsVars
  BY <1>1, ReviewPageSteps DEF reviewsVars, ReviewsInv, ReviewsTypes
<1>2. ASSUME ReviewsInv, ReviewsNext PROVE ReviewsInv'
  BY <1>2, DialogSteps, CompleteSteps, ReviewSteps, DeletionSteps DEF ReviewsNext
<1>3. QED
  BY <1>1, <1>2

\* Whatever is retried and whoever is deleted in between, a rating is the mean
\* of all reviews its user got in that role, to half a tenth, unless some were
\* deleted with their author and none came since
\* (exchange-reviews.service.ts create, admin.service.ts deleteUser).
THEOREM RatingsAreMeans == ReviewsSpec => []RatingIsMean
<1>1. ReviewsInv => RatingIsMean
  BY DEF ReviewsInv
<1>2. QED
  BY <1>1, ReviewsInvInit, ReviewsInvNext, PTL DEF ReviewsSpec

StayTypes ==
    /\ stay \in [Stays -> {"CONFIRMED", "COMPLETED", "gone"}]
    /\ deleted \subseteq Members /\ shrunk \subseteq Members \X Roles

LEMMA StayTypesNext ==
    ReviewsInv /\ StayTypes /\ [ReviewsNext]_reviewsVars => StayTypes'
<1> SUFFICES ASSUME ReviewsInv, StayTypes, [ReviewsNext]_reviewsVars PROVE StayTypes'
  OBVIOUS
<1>1. ASSUME NEW u \in Members,
             \/ LoadRequests(u) \/ CloseReview(u) \/ ReviewFails(u) \/ CreateReview(u)
             \/ \E s \in Stays : OpenReview(u, s)
             \/ \E n \in Ratings : Publish(u, n)
      PROVE  StayTypes'
  <2>1. UNCHANGED <<stay, deleted>> /\ shrunk' \subseteq shrunk
    BY <1>1 DEF LoadRequests, CloseReview, ReviewFails, CreateReview, OpenReview, Publish
  <2>2. QED
    BY <2>1 DEF StayTypes
<1>2. ASSUME NEW s \in Stays, CompleteStay(s) PROVE StayTypes'
  BY <1>2 DEF CompleteStay, StayTypes
<1>3. ASSUME NEW u \in Members, DeleteMember(u) PROVE StayTypes'
  <2>1. \A r \in reviews : r.subject \in Members /\ RoleIn(r.of, r.subject) \in Roles
    BY DEF ReviewsInv, ReviewsTypes, ReviewRows, RoleIn, Roles
  <2>2. shrunk' \subseteq Members \X Roles
    BY <1>3, <2>1 DEF DeleteMember, StayTypes
  <2>3. QED
    BY <1>3, <2>2 DEF DeleteMember, StayTypes
<1>4. CASE UNCHANGED reviewsVars
  BY <1>4 DEF reviewsVars, StayTypes
<1>5. QED
  BY <1>1, <1>2, <1>3, <1>4 DEF ReviewsNext

\* Requests, reviews, ratings and the dialogs of members keep their types,
\* whatever is retried and whoever is deleted in between.
THEOREM ReviewsTypesHold == ReviewsSpec => []ReviewsTypeOK
<1>1. ReviewsInit => StayTypes
  BY DEF ReviewsInit, StayTypes
<1>2. ReviewsInv /\ StayTypes => ReviewsTypeOK
  BY DEF ReviewsInv, ReviewsTypes, StayTypes, ReviewsTypeOK
<1>3. QED
  BY <1>1, <1>2, ReviewsInvInit, ReviewsInvNext, StayTypesNext, PTL DEF ReviewsSpec

-----------------------------------------------------------------------------
(* Hearts.  A heart the page is sure of says what the rows say, or will     *)
(* when its promise is answered: the promise that is kept and the answers   *)
(* under way agree with the rows but for what the server did since, and a   *)
(* change alone under way is the only writer of its row.                    *)

Promises == {Unasked} \cup [of: Visitors, stage: {"sent", "served", "answered"},
                            ids: SUBSET Cards]
Changes == {Over} \cup [card: Cards, of: Visitors, op: {"add", "remove"},
                        stage: {"sent", "served"}, own: BOOLEAN, alone: BOOLEAN]

HeartRows == [on: BOOLEAN, waits: IdsRequests \cup {NoPromise}]

\* Only what the steps below need of the types.
HeartTypes ==
    /\ place.cards \subseteq Cards /\ visitor \in Visitors \cup {Nobody}
    /\ hearts \in [Cards -> HeartRows]
    /\ asked \in [IdsRequests -> Promises] /\ clicked \in [Clicks -> Changes]
    /\ known \in IdsRequests \cup {NoPromise}
    /\ known # NoPromise => asked[known] # Unasked

\* The server has done a change of the home, the page does not know yet.
Served(c) == \E i \in UnderWay(c) : clicked[i].stage = "served"
Favourite(c) == <<visitor, c>> \in favourites

\* The sign-in is open for nobody, and for a heart with nothing under way.
DialogInv ==
    authDialog # "closed" => /\ authDialog \in Cards /\ visitor = Nobody
                             /\ ~Pending(authDialog)

\* A change the page sent with none under way remains the only one while the
\* heart that sent it is there, and once served it is what the rows say.
OnlyChange ==
    \A i \in Clicks : clicked[i] # Over /\ clicked[i].own /\ clicked[i].alone =>
        LET key == <<clicked[i].of, clicked[i].card>> IN
        /\ UnderWay(clicked[i].card) = {i}
        /\ clicked[i].stage = "served" =>
               (key \in favourites <=> clicked[i].op = "add" /\ key \notin Hosted)

\* The promise that is kept says what the rows say, but for changes that the
\* server has done since.
KnownIsTrue ==
    known # NoPromise /\ asked[known].stage \in {"served", "answered"} =>
        \A c \in Cards : c \notin lost /\ ~Served(c) =>
            (c \in asked[known].ids <=> <<asked[known].of, c>> \in favourites)

\* A heart that says what the rows say, or will when its promise is answered.
Sure(c) ==
    /\ \A i \in UnderWay(c) : /\ clicked[i].own /\ clicked[i].alone
                              /\ clicked[i].of = visitor /\ hearts[c].waits = NoPromise
    /\ hearts[c].waits = NoPromise /\ ~Served(c) => (hearts[c].on <=> Favourite(c))
    /\ hearts[c].waits # NoPromise =>
           LET promise == asked[hearts[c].waits] IN
           /\ promise.stage \in {"sent", "served"} /\ promise.of = visitor
           /\ promise.stage = "served" => (c \in promise.ids <=> Favourite(c))
SureHearts == visitor # Nobody => \A c \in place.cards \ unsure : Sure(c)

HeartsInv == HeartTypes /\ DialogInv /\ OnlyChange /\ KnownIsTrue /\ SureHearts

LEMMA HeartsInit == FavouritesInit => HeartsInv
<1> SUFFICES ASSUME FavouritesInit PROVE HeartsInv
  OBVIOUS
<1>1. HeartTypes
  BY DEF FavouritesInit, HeartTypes, HeartRows, NoHearts, Off, Promises, Changes
<1>2. \A i \in Clicks : clicked[i] = Over
  BY DEF FavouritesInit
<1>3. place.cards = {} /\ known = NoPromise /\ authDialog = "closed"
  BY DEF FavouritesInit
<1>4. QED
  BY <1>1, <1>2, <1>3 DEF HeartsInv, DialogInv, OnlyChange, KnownIsTrue, SureHearts

LEMMA HeartsAreTrue == HeartsInv => HeartIsTrue
BY DEF HeartsInv, HeartTypes, SureHearts, Sure, HeartIsTrue, Pending, Served, Favourite, UnderWay,
   Ongoing

LEMMA StagesOfChanges ==
    ASSUME HeartTypes, NEW i \in Clicks
    PROVE  /\ clicked[i] # Over <=> clicked[i].stage \in {"sent", "served"}
           /\ clicked[i].stage # "over" => clicked[i].card \in Cards
BY DEF HeartTypes, HeartRows, Changes, Over

\* Changes under way, none that the page or the server has gone on with.
LEMMA ChangesStay ==
    ASSUME UNCHANGED clicked
    PROVE  \A c : /\ UnderWay(c)' = UnderWay(c) /\ Served(c)' = Served(c)
                  /\ Pending(c)' = Pending(c)
BY DEF UnderWay, Ongoing, Served, Pending

\* A heart nothing happens to.
LEMMA HeartStays ==
    ASSUME UNCHANGED <<visitor, hearts>>, NEW c, Sure(c),
           UnderWay(c)' = UnderWay(c),
           \A i \in UnderWay(c) : clicked'[i] = clicked[i],
           Favourite(c)' = Favourite(c),
           hearts[c].waits # NoPromise => asked'[hearts[c].waits] = asked[hearts[c].waits]
    PROVE  Sure(c)'
<1>1. Served(c)' = Served(c)
  BY DEF Served
<1>2. QED
  BY <1>1 DEF Sure

-----------------------------------------------------------------------------
\* Answered promises that are not kept are forgotten, no heart awaits them.
LEMMA KeptStay ==
    ASSUME NEW promises \in [IdsRequests -> Promises], NEW k, NEW i \in IdsRequests
    PROVE  /\ Kept(promises, k) \in [IdsRequests -> Promises]
           /\ i = k \/ promises[i].stage # "answered" => Kept(promises, k)[i] = promises[i]
BY DEF Kept, Promises

LEMMA ServeIdsKeeps ==
    ASSUME HeartsInv, NEW i \in IdsRequests, ServeIds(i) PROVE HeartsInv'
<1> USE DEF HeartsInv
<1>1. /\ asked[i].stage = "sent"
      /\ asked' = [asked EXCEPT ![i].stage = "served",
                                ![i].ids = IdsOf(favourites, asked[i].of)]
      /\ UNCHANGED <<favourites, visitor, place, hearts, known, clicked, authDialog, unsure, lost>>
  BY DEF ServeIds
<1>2. asked[i] \in Promises /\ asked[i] # Unasked
  BY <1>1 DEF HeartTypes, HeartRows, Unasked
<1>3. PICK ids : ids = IdsOf(favourites, asked[i].of)
  OBVIOUS
<1>4. ids \subseteq Cards /\ \A c \in Cards : c \in ids <=> <<asked[i].of, c>> \in favourites
  BY <1>3 DEF IdsOf
<1>5. PICK new : new = [asked[i] EXCEPT !.stage = "served", !.ids = ids]
  OBVIOUS
<1>6. /\ new.stage = "served" /\ new.ids = ids /\ new.of = asked[i].of
      /\ new \in Promises /\ new # Unasked
  BY <1>2, <1>4, <1>5 DEF Promises, Unasked
<1>7. /\ asked' = [asked EXCEPT ![i] = new] /\ asked'[i] = new
      /\ \A j \in IdsRequests : j # i => asked'[j] = asked[j]
  BY <1>1, <1>3, <1>5 DEF HeartTypes, HeartRows
<1>8. HeartTypes'
  BY <1>1, <1>6, <1>7 DEF HeartTypes, HeartRows
<1>9. DialogInv' /\ OnlyChange'
  BY <1>1 DEF DialogInv, OnlyChange, Pending, UnderWay, Ongoing
<1>10. KnownIsTrue'
  BY <1>1, <1>4, <1>6, <1>7, ChangesStay DEF KnownIsTrue, HeartTypes
<1>11. SureHearts'
  <2> SUFFICES ASSUME visitor # Nobody, NEW c \in place.cards \ unsure PROVE Sure(c)'
    BY <1>1 DEF SureHearts
  <2>1. Sure(c) /\ c \in Cards
    BY DEF SureHearts, HeartTypes
  <2>2. CASE hearts[c].waits = i
    <3>1. UnderWay(c) = {} /\ asked[i].of = visitor /\ hearts'[c].waits = i
      BY <1>1, <2>1, <2>2, NoPromiseIsNull DEF Sure
    <3>2. asked'[i].of = visitor /\ (c \in asked'[i].ids <=> Favourite(c))
      BY <1>4, <1>6, <1>7, <2>1, <3>1 DEF Favourite
    <3>3. UnderWay(c)' = {} /\ visitor' = visitor /\ (Favourite(c)' <=> Favourite(c))
      BY <1>1, <3>1, ChangesStay DEF Favourite
    <3>4. asked'[i].stage = "served"
      BY <1>6, <1>7
    <3>5. QED
      BY <3>1, <3>2, <3>3, <3>4, NoPromiseIsNull DEF Sure
  <2>3. CASE hearts[c].waits # i
    BY <1>1, <1>7, <2>1, <2>3, HeartStays, ChangesStay DEF HeartTypes, HeartRows, Favourite
  <2>4. QED
    BY <2>2, <2>3
<1>12. QED
  BY <1>8, <1>9, <1>10, <1>11

LEMMA AnswerIdsKeeps ==
    ASSUME HeartsInv, NEW i \in IdsRequests, AnswerIds(i) PROVE HeartsInv'
<1> USE DEF HeartsInv
<1>1. /\ asked[i].stage = "served"
      /\ hearts' = [c \in Cards |-> IF hearts[c].waits # i THEN hearts[c]
                                    ELSE [on |-> c \in asked[i].ids, waits |-> NoPromise]]
      /\ UNCHANGED <<favourites, visitor, place, known, clicked, authDialog, unsure, lost>>
  BY DEF AnswerIds
<1>2. asked[i] \in Promises /\ asked[i] # Unasked
  BY <1>1 DEF HeartTypes, HeartRows, Unasked
<1>3. PICK new : new = [asked[i] EXCEPT !.stage = "answered"]
  OBVIOUS
<1>4. /\ new.stage = "answered" /\ new.ids = asked[i].ids /\ new.of = asked[i].of
      /\ new \in Promises /\ new # Unasked
  BY <1>2, <1>3 DEF Promises, Unasked
<1>5. PICK promises : promises = [asked EXCEPT ![i] = new]
  OBVIOUS
<1>6. /\ promises \in [IdsRequests -> Promises] /\ promises[i] = new
      /\ \A j \in IdsRequests : j # i => promises[j] = asked[j]
      /\ asked' = Kept(promises, known)
  BY <1>3, <1>4, <1>5 DEF HeartTypes, HeartRows, AnswerIds
<1>7. /\ asked' \in [IdsRequests -> Promises]
      /\ known # NoPromise => asked'[known] = promises[known]
      /\ \A j \in IdsRequests : j # i /\ asked[j].stage # "answered" => asked'[j] = asked[j]
  <2>1. known # NoPromise => known \in IdsRequests
    BY DEF HeartTypes, HeartRows
  <2> HIDE DEF HeartsInv
  <2>2. asked' \in [IdsRequests -> Promises]
    BY <1>6, KeptStay
  <2>3. \A j \in IdsRequests :
            j = known \/ promises[j].stage # "answered" => asked'[j] = promises[j]
    BY <1>6, KeptStay
  <2>4. QED
    BY <1>6, <2>1, <2>2, <2>3
<1>8. HeartTypes'
  BY <1>1, <1>2, <1>4, <1>6, <1>7 DEF HeartTypes, HeartRows, Promises
<1>9. DialogInv' /\ OnlyChange'
  BY <1>1 DEF DialogInv, OnlyChange, Pending, UnderWay, Ongoing
<1>10. KnownIsTrue'
  BY <1>1, <1>4, <1>6, <1>7, ChangesStay DEF KnownIsTrue, HeartTypes
<1>11. SureHearts'
  <2> SUFFICES ASSUME visitor # Nobody, NEW c \in place.cards \ unsure PROVE Sure(c)'
    BY <1>1 DEF SureHearts
  <2>1. Sure(c) /\ c \in Cards
    BY DEF SureHearts, HeartTypes
  <2>2. CASE hearts[c].waits = i
    <3>1. UnderWay(c) = {} /\ (c \in asked[i].ids <=> Favourite(c))
      BY <1>1, <2>1, <2>2, NoPromiseIsNull DEF Sure
    <3>2. hearts'[c].waits = NoPromise /\ (hearts'[c].on <=> c \in asked[i].ids)
      BY <1>1, <2>1, <2>2
    <3>3. QED
      BY <1>1, <3>1, <3>2, ChangesStay DEF Sure, Favourite
  <2>3. CASE hearts[c].waits # i
    <3>1. hearts'[c] = hearts[c]
      BY <1>1, <2>1, <2>3
    <3>2. hearts[c].waits # NoPromise => asked'[hearts[c].waits] = asked[hearts[c].waits]
      BY <1>7, <2>1, <2>3 DEF Sure, HeartTypes, HeartRows
    <3>3. QED
      BY <1>1, <2>1, <3>1, <3>2, ChangesStay DEF Sure, Favourite
  <2>4. QED
    BY <2>2, <2>3
<1>12. QED
  BY <1>8, <1>9, <1>10, <1>11

LEMMA IdsFailKeeps ==
    ASSUME HeartsInv, NEW i \in IdsRequests, IdsFail(i) PROVE HeartsInv'
<1> USE DEF HeartsInv
<1>1. /\ known' = NoPromise
      /\ asked' = Kept([asked EXCEPT ![i] = Unasked], NoPromise)
      /\ hearts' = [c \in Cards |-> IF hearts[c].waits # i THEN hearts[c]
                                    ELSE [hearts[c] EXCEPT !.waits = NoPromise]]
      /\ unsure' = unsure \cup {c \in Cards : hearts[c].waits = i}
      /\ UNCHANGED <<favourites, visitor, place, clicked, authDialog>>
  BY DEF IdsFail
<1>2. PICK promises : promises = [asked EXCEPT ![i] = Unasked]
  OBVIOUS
<1>3. /\ promises \in [IdsRequests -> Promises]
      /\ \A j \in IdsRequests : j # i => promises[j] = asked[j]
  BY <1>2 DEF HeartTypes, HeartRows, Promises
<1>4. /\ asked' \in [IdsRequests -> Promises]
      /\ \A j \in IdsRequests : j # i /\ asked[j].stage # "answered" => asked'[j] = asked[j]
  BY <1>1, <1>2, <1>3, KeptStay
<1>5. HeartTypes'
  BY <1>1, <1>4 DEF HeartTypes, HeartRows
<1>6. DialogInv' /\ OnlyChange' /\ KnownIsTrue'
  BY <1>1 DEF DialogInv, OnlyChange, KnownIsTrue, Pending, UnderWay, Ongoing
<1>7. SureHearts'
  <2> SUFFICES ASSUME visitor # Nobody, NEW c \in place.cards \ unsure, hearts[c].waits # i
               PROVE  Sure(c)'
    BY <1>1 DEF SureHearts, HeartTypes
  <2>1. Sure(c) /\ c \in Cards
    BY DEF SureHearts, HeartTypes
  <2>2. hearts'[c] = hearts[c]
    BY <1>1, <2>1
  <2>3. hearts[c].waits # NoPromise => asked'[hearts[c].waits] = asked[hearts[c].waits]
    BY <1>4, <2>1 DEF Sure, HeartTypes, HeartRows
  <2>4. QED
    BY <1>1, <2>1, <2>2, <2>3, ChangesStay DEF Sure, Favourite
<1>8. QED
  BY <1>5, <1>6, <1>7

-----------------------------------------------------------------------------
LEMMA OffIsHeart == Off \in HeartRows
BY DEF Off, HeartRows

\* What Effect gives a heart of a user.
DrawnFrom(heart, promise, c, old, k) ==
    heart = IF promise.stage = "answered" THEN [on |-> c \in promise.ids, waits |-> NoPromise]
                                          ELSE [on |-> old.on, waits |-> k]

HeartSays(heart, promise, c, k) ==
    /\ heart \in HeartRows
    /\ promise.stage = "answered" =>
           heart.waits = NoPromise /\ (heart.on <=> c \in promise.ids)
    /\ promise.stage # "answered" => heart.waits = k

LEMMA SaidHeart ==
    ASSUME NEW ids, NEW c, NEW heart, heart = [on |-> c \in ids, waits |-> NoPromise]
    PROVE  heart.on <=> c \in ids
OBVIOUS

LEMMA DrawnHeart ==
    ASSUME NEW promise, NEW c, NEW old \in HeartRows, NEW k \in IdsRequests, NEW heart,
           DrawnFrom(heart, promise, c, old, k)
    PROVE  HeartSays(heart, promise, c, k)
<1> USE DEF DrawnFrom, HeartSays
<1>1. CASE promise.stage = "answered"
  <2>1. heart = [on |-> c \in promise.ids, waits |-> NoPromise]
    BY <1>1
  <2>2. heart \in HeartRows
    BY <2>1 DEF HeartRows
  <2>3. heart.on <=> c \in promise.ids
    <3> HIDE DEF DrawnFrom, HeartSays
    <3>1. QED
      BY <2>1, SaidHeart
  <2>4. heart.waits = NoPromise
    BY <2>1
  <2>5. QED
    BY <1>1, <2>2, <2>3, <2>4
<1>2. CASE promise.stage # "answered"
  <2>1. heart = [on |-> old.on, waits |-> k]
    BY <1>2
  <2>2. QED
    BY <1>2, <2>1 DEF HeartRows
<1>3. QED
  BY <1>1, <1>2

\* Hearts drawn anew say what the promise says, or are unsure.
LEMMA Drawn ==
    ASSUME HeartsInv, NEW u \in Visitors \cup {Nobody}, NEW cards \in SUBSET Cards,
           NEW now \in [Cards -> HeartRows],
           Effects(u, cards, now), visitor' = u, place'.cards = cards,
           UNCHANGED <<favourites, lost>>, clicked' \in [Clicks -> Changes],
           \A c \in Cards : Served(c)' <=> Served(c)
    PROVE  HeartTypes' /\ KnownIsTrue' /\ SureHearts'
<1> USE DEF HeartsInv
<1>1. /\ IF u = Nobody \/ cards = {} THEN UNCHANGED <<asked, known>> ELSE AskIds(u)
      /\ hearts' = [c \in Cards |-> IF c \in cards THEN Effect(u, c, now[c].on) ELSE Off]
      /\ unsure' = Doubtful(u, cards)
  BY DEF Effects
<1>2. /\ asked' \in [IdsRequests -> Promises] /\ known' \in IdsRequests \cup {NoPromise}
      /\ known' # NoPromise => asked'[known'] # Unasked
      /\ KnownIsTrue'
      /\ u # Nobody /\ cards # {} => known' # NoPromise
  <2>1. CASE UNCHANGED <<asked, known>>
    <3>1. KnownIsTrue'
      BY <2>1 DEF KnownIsTrue
    <3>2. u # Nobody /\ cards # {} => known' # NoPromise
      BY <1>1, <2>1, NoPromiseIsNull DEF AskIds
    <3>3. QED
      BY <2>1, <3>1, <3>2 DEF HeartTypes
  <2>2. CASE u # Nobody /\ known = NoPromise /\ AskIds(u)
    <3>1. PICK i \in IdsRequests : /\ known' = i
              /\ asked' = [asked EXCEPT ![i] = [of |-> u, stage |-> "sent", ids |-> {}]]
      BY <2>2 DEF AskIds
    <3>2. [of |-> u, stage |-> "sent", ids |-> {}] \in Promises
      BY <2>2 DEF Promises
    <3>3. /\ asked'[i].stage = "sent" /\ asked' \in [IdsRequests -> Promises]
      BY <3>1, <3>2 DEF HeartTypes
    <3>4. QED
      BY <3>1, <3>3, NoPromiseIsNull DEF KnownIsTrue, Unasked
  <2>3. QED
    BY <1>1, <2>1, <2>2 DEF AskIds
<1>3. ASSUME NEW c \in cards, u # Nobody PROVE
          /\ known' \in IdsRequests /\ asked'[known'] \in Promises \ {Unasked}
          /\ hearts'[c] \in HeartRows
          /\ asked'[known'].stage = "answered" =>
                 hearts'[c].waits = NoPromise /\ (hearts'[c].on <=> c \in asked'[known'].ids)
          /\ asked'[known'].stage # "answered" => hearts'[c].waits = known'
  <2>1. known' \in IdsRequests /\ asked'[known'] \in Promises \ {Unasked}
    BY <1>2, <1>3
  <2>2. PICK promise, k, heart, old :
            promise = asked'[known'] /\ k = known' /\ heart = hearts'[c] /\ old = now[c]
    OBVIOUS
  <2>3. DrawnFrom(heart, promise, c, old, k)
    BY <1>1, <1>3, <2>2 DEF Effect, DrawnFrom
  <2>4. old \in HeartRows /\ k \in IdsRequests
    BY <2>1, <2>2
  <2>5. HeartSays(heart, promise, c, k)
    <3> HIDE DEF HeartsInv
    <3>1. QED
      BY <2>3, <2>4, DrawnHeart
  <2>6. QED
    BY <2>1, <2>2, <2>5 DEF HeartSays
<1>4. ASSUME NEW c \in Cards, c \notin cards \/ u = Nobody PROVE hearts'[c] = Off
  BY <1>1, <1>4 DEF Effect
<1>5. hearts' \in [Cards -> HeartRows]
  <2>1. \A c \in Cards : hearts'[c] \in HeartRows
    BY <1>3, <1>4, OffIsHeart
  <2>2. QED
    BY <1>1, <2>1
<1>6. HeartTypes'
  BY <1>2, <1>5 DEF HeartTypes
<1>7. SureHearts'
  <2> SUFFICES ASSUME u # Nobody, NEW c \in cards, c \notin unsure' PROVE Sure(c)'
    BY DEF SureHearts
  <2>1. UnderWay(c)' = {} /\ c \notin lost' /\ asked'[known'].of = u
    BY <1>1 DEF Doubtful, UnderWay
  <2>2. ~Served(c)'
    BY <2>1 DEF Served
  <2>3. asked'[known'].stage \in {"served", "answered"} =>
            (c \in asked'[known'].ids <=> Favourite(c)')
    BY <1>2, <1>3, <2>1, <2>2 DEF KnownIsTrue, Favourite
  <2>4. asked'[known'].stage \in {"sent", "served", "answered"}
    BY <1>3 DEF Promises
  <2>5. CASE asked'[known'].stage = "answered"
    BY <1>3, <2>1, <2>3, <2>5 DEF Sure
  <2>6. CASE asked'[known'].stage # "answered"
    <3>1. hearts'[c].waits = known' /\ known' # NoPromise
      BY <1>3, <2>6, NoPromiseIsNull
    <3>2. QED
      BY <2>1, <2>3, <2>4, <2>6, <3>1 DEF Sure
  <2>7. QED
    BY <2>5, <2>6
<1>8. QED
  BY <1>2, <1>6, <1>7

LEMMA NoHeartsTyped ==
    NoHearts \in [Cards -> HeartRows]
BY OffIsHeart DEF NoHearts

LEMMA GoToKeeps ==
    ASSUME HeartsInv, NEW there, NEW cards \in SUBSET Cards, GoTo(there, cards)
    PROVE  HeartsInv'
<1> USE DEF HeartsInv
<1>1. /\ authDialog = "closed" /\ place'.cards = cards /\ Effects(visitor, cards, NoHearts)
      /\ clicked' = [i \in Clicks |-> IF clicked[i] = Over THEN Over
                                      ELSE [clicked[i] EXCEPT !.own = FALSE]]
      /\ UNCHANGED <<favourites, visitor, authDialog, lost>>
  BY DEF GoTo
<1>2. \A i \in Clicks : /\ clicked'[i] \in Changes
                        /\ clicked'[i] # Over => clicked[i] # Over /\ ~clicked'[i].own
                        /\ clicked[i] # Over => clicked'[i] # Over
                        /\ clicked'[i].stage = clicked[i].stage
                        /\ clicked[i] # Over => clicked'[i].card = clicked[i].card
  <2> TAKE i \in Clicks
  <2>1. clicked[i] \in Changes
    BY DEF HeartTypes
  <2>2. CASE clicked[i] = Over
    BY <1>1, <2>1, <2>2
  <2>3. CASE clicked[i] # Over
    <3>1. clicked'[i] = [clicked[i] EXCEPT !.own = FALSE]
      BY <1>1, <2>3
    <3>2. /\ clicked'[i] \in Changes /\ clicked'[i].own = FALSE
          /\ clicked'[i].stage = clicked[i].stage /\ clicked'[i].stage # "over"
          /\ clicked'[i].card = clicked[i].card
      BY <2>1, <2>3, <3>1 DEF Changes
    <3>3. clicked'[i] # Over
      BY <3>2 DEF Over
    <3>4. QED
      BY <2>3, <3>2, <3>3
  <2>4. QED
    BY <2>2, <2>3
<1>3. clicked' \in [Clicks -> Changes]
  BY <1>1, <1>2
<1>4. \A c \in Cards : Served(c)' <=> Served(c)
  BY <1>2 DEF Served, UnderWay, Ongoing
<1>5. HeartTypes' /\ KnownIsTrue' /\ SureHearts'
  <2>1. visitor \in Visitors \cup {Nobody}
    BY DEF HeartTypes
  <2> HIDE DEF HeartsInv
  <2>2. QED
    BY <1>1, <1>3, <1>4, <2>1, NoHeartsTyped, Drawn
<1>6. DialogInv' /\ OnlyChange'
  BY <1>1, <1>2 DEF DialogInv, OnlyChange
<1>7. QED
  BY <1>5, <1>6

LEMMA SignOutKeeps == ASSUME HeartsInv, SignOut PROVE HeartsInv'
<1> USE DEF HeartsInv
<1>1. /\ visitor # Nobody /\ visitor' = Nobody /\ Effects(Nobody, place.cards, hearts)
      /\ UNCHANGED <<clicked, favourites, place, authDialog, lost>>
  BY DEF SignOut
<1>2. HeartTypes' /\ KnownIsTrue' /\ SureHearts'
  <2>1. /\ clicked' \in [Clicks -> Changes] /\ place.cards \in SUBSET Cards
        /\ hearts \in [Cards -> HeartRows]
    BY <1>1 DEF HeartTypes
  <2>2. \A c \in Cards : Served(c)' <=> Served(c)
    BY <1>1, ChangesStay
  <2> HIDE DEF HeartsInv
  <2>3. QED
    BY <1>1, <2>1, <2>2, Drawn
<1>3. DialogInv' /\ OnlyChange'
  BY <1>1 DEF DialogInv, OnlyChange, Pending, UnderWay, Ongoing
<1>4. QED
  BY <1>2, <1>3

LEMMA SavedDialogSteps ==
    ASSUME HeartsInv, CloseAuth \/ \E c \in Cards : OpenAuth(c) PROVE HeartsInv'
<1> USE DEF HeartsInv
<1>1. UNCHANGED <<favourites, visitor, place, hearts, asked, known, clicked, unsure, lost>>
  BY DEF CloseAuth, OpenAuth
<1>2. HeartTypes' /\ OnlyChange'
  BY <1>1, ChangesStay DEF HeartTypes, OnlyChange
<1>3. KnownIsTrue'
  BY <1>1, ChangesStay DEF KnownIsTrue
<1>4. \A c \in Cards : Sure(c) => Sure(c)'
  BY <1>1, HeartStays, ChangesStay DEF Favourite
<1>5. SureHearts'
  BY <1>1, <1>4 DEF SureHearts, HeartTypes
<1>6. DialogInv'
  BY <1>1, ChangesStay DEF DialogInv, CloseAuth, OpenAuth
<1>7. QED
  BY <1>2, <1>3, <1>5, <1>6

-----------------------------------------------------------------------------
\* A change is sent by a heart that has none under way of its own.
Sends(i, c, u) ==
    /\ i \in Clicks /\ clicked[i] = Over /\ c \in Cards
    /\ \E op \in {"add", "remove"} : clicked' = [clicked EXCEPT ![i] = Request(u, c, op)]

LEMMA SentChange ==
    ASSUME HeartsInv, NEW u \in Visitors, NEW c, NEW i, Sends(i, c, u), ~Pending(c),
           UNCHANGED favourites
    PROVE  /\ clicked' \in [Clicks -> Changes] /\ OnlyChange'
           /\ \A d : Served(d)' <=> Served(d)
           /\ \A j \in Clicks : j # i => clicked'[j] = clicked[j]
           /\ \A d : d # c => UnderWay(d)' = UnderWay(d)
           /\ UnderWay(c)' = UnderWay(c) \cup {i} /\ i \notin UnderWay(c)
           /\ clicked'[i].own /\ clicked'[i].of = u /\ clicked'[i].stage = "sent"
           /\ clicked'[i].alone <=> UnderWay(c) = {}
<1> USE DEF HeartsInv
<1>1. PICK op \in {"add", "remove"} : clicked' = [clicked EXCEPT ![i] = Request(u, c, op)]
  BY DEF Sends
<1>2. PICK new : new = Request(u, c, op)
  OBVIOUS
<1>3. /\ new \in Changes /\ new # Over /\ new.card = c /\ new.of = u /\ new.stage = "sent"
      /\ new.own /\ (new.alone <=> UnderWay(c) = {})
  <2>1. PICK alone \in BOOLEAN : alone <=> UnderWay(c) = {}
    OBVIOUS
  <2>2. new = [card |-> c, of |-> u, op |-> op, stage |-> "sent", own |-> TRUE,
               alone |-> alone]
    BY <1>2, <2>1 DEF Request
  <2>3. new \in Changes
    BY <2>2 DEF Sends, Changes
  <2>4. new.card = c /\ new.of = u /\ new.stage = "sent" /\ new.own = TRUE /\ new.alone = alone
    BY <2>2
  <2>5. new # Over
    BY <2>4 DEF Over
  <2>6. QED
    BY <2>1, <2>3, <2>4, <2>5
<1>4. /\ clicked' \in [Clicks -> Changes] /\ clicked'[i] = new /\ i \in Clicks
      /\ \A j \in Clicks : j # i => clicked'[j] = clicked[j]
  BY <1>1, <1>2, <1>3 DEF Sends, HeartTypes
<1>5. /\ \A d : d # c => UnderWay(d)' = UnderWay(d)
      /\ UnderWay(c)' = UnderWay(c) \cup {i} /\ i \notin UnderWay(c)
  BY <1>3, <1>4 DEF UnderWay, Ongoing, Sends
<1>6. \A d : Served(d)' <=> Served(d)
  <2>1. \A d : \A j \in UnderWay(d) : clicked'[j] = clicked[j]
    BY <1>4 DEF UnderWay, Ongoing, Sends
  <2>2. QED
    BY <1>3, <1>4, <1>5, <2>1 DEF Served
<1>7. OnlyChange'
  <2> SUFFICES ASSUME NEW j \in Clicks, clicked'[j] # Over, clicked'[j].own, clicked'[j].alone
               PROVE  LET key == <<clicked'[j].of, clicked'[j].card>> IN
                      /\ UnderWay(clicked[j].card)' = {j}
                      /\ clicked'[j].stage = "served" =>
                             (key \in favourites' <=> clicked'[j].op = "add" /\ key \notin Hosted)
    BY DEF OnlyChange
  <2>1. CASE j = i
    BY <1>3, <1>4, <1>5, <2>1 DEF UnderWay
  <2>2. CASE j # i
    <3>1. clicked'[j] = clicked[j] /\ clicked[j].card # c
      BY <1>4, <2>2 DEF Pending, UnderWay, Ongoing
    <3>2. PICK d : d = clicked[j].card
      OBVIOUS
    <3>3. UnderWay(d) = {j}
      BY <3>1, <3>2 DEF OnlyChange
    <3>4. UnderWay(d)' = {j}
      BY <1>5, <3>1, <3>2, <3>3
    <3>5. UnderWay(clicked[j].card)' = {j}
      BY <3>1, <3>2, <3>4 DEF UnderWay
    <3>6. QED
      BY <3>1, <3>5 DEF OnlyChange
  <2>3. QED
    BY <2>1, <2>2
<1>8. QED
  BY <1>3, <1>4, <1>5, <1>6, <1>7

LEMMA ServedKnown ==
    ASSUME KnownIsTrue, UNCHANGED <<known, asked, lost, favourites>>,
           \A d : Served(d)' <=> Served(d)
    PROVE  KnownIsTrue'
BY DEF KnownIsTrue

LEMMA SignInKeeps ==
    ASSUME HeartsInv, NEW u \in Visitors, SignIn(u) PROVE HeartsInv'
<1> USE DEF HeartsInv
<1>1. /\ visitor' = u /\ authDialog' = "closed" /\ Effects(u, place.cards, hearts)
      /\ UNCHANGED <<favourites, place, lost>>
  BY DEF SignIn
<1>2. /\ clicked' \in [Clicks -> Changes] /\ OnlyChange'
      /\ \A d : Served(d)' <=> Served(d)
  <2>1. CASE authDialog = "closed"
    BY <1>1, <2>1, ChangesStay DEF SignIn, HeartTypes, OnlyChange
  <2>2. CASE authDialog # "closed"
    <3>1. PICK i : Sends(i, authDialog, u)
      BY <2>2 DEF SignIn, SendChange, Sends, DialogInv
    <3>2. ~Pending(authDialog)
      BY <2>2 DEF DialogInv
    <3>3. QED
      BY <1>1, <3>1, <3>2, SentChange
  <2>3. QED
    BY <2>1, <2>2
<1>3. HeartTypes' /\ KnownIsTrue' /\ SureHearts'
  <2>1. place.cards \in SUBSET Cards /\ hearts \in [Cards -> HeartRows] /\ place' = place
    BY <1>1 DEF HeartTypes
  <2> HIDE DEF HeartsInv
  <2>2. QED
    BY <1>1, <1>2, <2>1, Drawn
<1>4. DialogInv'
  BY <1>1 DEF DialogInv
<1>5. QED
  BY <1>2, <1>3, <1>4

LEMMA ToggleKeeps ==
    ASSUME HeartsInv, NEW c \in Cards, ToggleFavourite(c) PROVE HeartsInv'
<1> USE DEF HeartsInv
<1>1. /\ visitor # Nobody /\ visitor \in Visitors /\ ~Pending(c)
      /\ unsure' = IF hearts[c].waits # NoPromise THEN unsure \cup {c} ELSE unsure
      /\ UNCHANGED <<favourites, visitor, place, hearts, asked, known, authDialog, lost>>
  BY DEF ToggleFavourite, HeartTypes
<1>2. PICK i : Sends(i, c, visitor)
  BY DEF ToggleFavourite, SendChange, Sends
<1>3. /\ clicked' \in [Clicks -> Changes] /\ OnlyChange'
      /\ \A d : Served(d)' <=> Served(d)
      /\ \A j \in Clicks : j # i => clicked'[j] = clicked[j]
      /\ \A d : d # c => UnderWay(d)' = UnderWay(d)
      /\ UnderWay(c)' = UnderWay(c) \cup {i} /\ i \notin UnderWay(c)
      /\ clicked'[i].own /\ clicked'[i].of = visitor /\ clicked'[i].stage = "sent"
      /\ clicked'[i].alone <=> UnderWay(c) = {}
  BY <1>1, <1>2, SentChange
<1>4. HeartTypes' /\ KnownIsTrue'
  BY <1>1, <1>3, ServedKnown DEF HeartTypes
<1>5. DialogInv'
  BY <1>1 DEF DialogInv
<1>6. SureHearts'
  <2> SUFFICES ASSUME NEW d \in place.cards \ unsure' PROVE Sure(d)'
    BY <1>1 DEF SureHearts
  <2>1. Sure(d) /\ d \in Cards
    BY <1>1 DEF SureHearts, HeartTypes
  <2>2. CASE d # c
    <3>1. UnderWay(d)' = UnderWay(d) /\ i \notin UnderWay(d)
      BY <1>2, <1>3, <2>2 DEF Sends, UnderWay, Ongoing
    <3>2. UnderWay(d) \subseteq Clicks
      BY DEF UnderWay, Ongoing
    <3>3. QED
      BY <1>1, <1>3, <2>1, <3>1, <3>2, HeartStays DEF Favourite
  <2>3. CASE d = c
    <3>1. hearts[c].waits = NoPromise
      BY <1>1, <2>3
    <3>2. UnderWay(c) = {}
      BY <1>1, <2>1, <2>3 DEF Sure, Pending
    <3>3. QED
      BY <1>1, <1>3, <2>1, <2>3, <3>1, <3>2 DEF Sure, Favourite
  <2>4. QED
    BY <2>2, <2>3
<1>7. QED
  BY <1>3, <1>4, <1>5, <1>6

-----------------------------------------------------------------------------
\* A change that is over.
LEMMA EndedChange ==
    ASSUME HeartsInv, NEW i \in Clicks, clicked[i] # Over,
           clicked' = [clicked EXCEPT ![i] = Over], UNCHANGED favourites
    PROVE  /\ clicked' \in [Clicks -> Changes] /\ OnlyChange'
           /\ \A d : UnderWay(d)' = UnderWay(d) \ {i}
           /\ \A j \in Clicks : j # i => clicked'[j] = clicked[j]
           /\ \A d : d # clicked[i].card => i \notin UnderWay(d)
           /\ i \in UnderWay(clicked[i].card)
<1> USE DEF HeartsInv
<1>1. /\ clicked' \in [Clicks -> Changes] /\ clicked'[i] = Over
      /\ \A j \in Clicks : j # i => clicked'[j] = clicked[j]
  BY DEF HeartTypes, Changes
<1>2. /\ \A d : UnderWay(d)' = UnderWay(d) \ {i}
      /\ \A d : d # clicked[i].card => i \notin UnderWay(d)
      /\ i \in UnderWay(clicked[i].card)
  BY <1>1 DEF UnderWay, Ongoing
<1>3. OnlyChange'
  <2> SUFFICES ASSUME NEW j \in Clicks, clicked'[j] # Over, clicked'[j].own, clicked'[j].alone
               PROVE  LET key == <<clicked'[j].of, clicked'[j].card>> IN
                      /\ UnderWay(clicked[j].card)' = {j}
                      /\ clicked'[j].stage = "served" =>
                             (key \in favourites' <=> clicked'[j].op = "add" /\ key \notin Hosted)
    BY DEF OnlyChange
  <2>1. j # i /\ clicked'[j] = clicked[j]
    BY <1>1
  <2>2. PICK d : d = clicked[j].card
    OBVIOUS
  <2>3. UnderWay(d) = {j}
    BY <2>1, <2>2 DEF OnlyChange
  <2>4. UnderWay(d)' = {j}
    BY <1>2, <2>1, <2>3
  <2>5. UnderWay(clicked[j].card)' = {j}
    BY <2>1, <2>2, <2>4 DEF UnderWay
  <2>6. QED
    BY <2>1, <2>5 DEF OnlyChange
<1>4. QED
  BY <1>1, <1>2, <1>3

LEMMA ServeChangeKeeps ==
    ASSUME HeartsInv, NEW i \in Clicks, ServeChange(i) PROVE HeartsInv'
<1> USE DEF HeartsInv
<1>1. PICK old, key : old = clicked[i] /\ key = <<old.of, old.card>>
  OBVIOUS
<1>2. /\ old.stage = "sent" /\ clicked' = [clicked EXCEPT ![i].stage = "served"]
      /\ favourites' = IF old.op = "remove" \/ key \in Hosted THEN favourites \ {key}
                                                             ELSE favourites \cup {key}
      /\ UNCHANGED <<visitor, place, hearts, asked, known, authDialog, unsure, lost>>
  BY <1>1 DEF ServeChange
<1>3. old \in Changes \ {Over} /\ i \in UnderWay(old.card)
  BY <1>1, <1>2 DEF HeartTypes, Over, UnderWay, Ongoing
<1>4. PICK new : new = [old EXCEPT !.stage = "served"]
  OBVIOUS
<1>5. /\ new.stage = "served" /\ new.of = old.of /\ new.card = old.card /\ new.op = old.op
      /\ new.own = old.own /\ new.alone = old.alone /\ new \in Changes
  BY <1>3, <1>4 DEF Changes, Over
<1>6. new # Over
  BY <1>5 DEF Over
<1>7. /\ clicked' \in [Clicks -> Changes] /\ clicked'[i] = new
      /\ \A j \in Clicks : j # i => clicked'[j] = clicked[j]
  BY <1>1, <1>2, <1>4, <1>5 DEF HeartTypes
<1>8. \A d : UnderWay(d)' = UnderWay(d)
  BY <1>1, <1>3, <1>5, <1>6, <1>7 DEF UnderWay, Ongoing
<1>9. /\ Served(old.card)'
      /\ \A d : d # old.card => (Served(d)' <=> Served(d))
  BY <1>1, <1>3, <1>5, <1>7, <1>8 DEF Served, UnderWay, Ongoing
<1>10. \A u, d : d # old.card => (<<u, d>> \in favourites' <=> <<u, d>> \in favourites)
  BY <1>1, <1>2
<1>11. key \in favourites' <=> old.op = "add" /\ key \notin Hosted
  BY <1>2, <1>3 DEF Changes, Over
<1>12. HeartTypes'
  BY <1>2, <1>7 DEF HeartTypes
<1>13. DialogInv'
  BY <1>1, <1>2, <1>5, <1>7, <1>8 DEF DialogInv, Pending, UnderWay, Ongoing
<1>14. OnlyChange'
  <2> SUFFICES ASSUME NEW j \in Clicks, clicked'[j] # Over, clicked'[j].own, clicked'[j].alone
               PROVE  LET k == <<clicked'[j].of, clicked'[j].card>> IN
                      /\ UnderWay(clicked[j].card)' = {j}
                      /\ clicked'[j].stage = "served" =>
                             (k \in favourites' <=> clicked'[j].op = "add" /\ k \notin Hosted)
    BY DEF OnlyChange
  <2>1. PICK d : d = clicked[j].card
    OBVIOUS
  <2>2. /\ clicked[j] # Over /\ clicked[j].own /\ clicked[j].alone /\ clicked'[j].card = d
    BY <1>1, <1>3, <1>5, <1>7, <2>1
  <2>3. UnderWay(d) = {j}
    BY <2>1, <2>2 DEF OnlyChange
  <2>4. UnderWay(clicked[j].card)' = {j}
    BY <1>8, <2>2, <2>3 DEF UnderWay
  <2>5. CASE j = i
    BY <1>1, <1>5, <1>7, <1>11, <2>4, <2>5
  <2>6. CASE j # i
    <3>1. clicked'[j] = clicked[j] /\ d # old.card
      BY <1>3, <1>7, <2>3, <2>6
    <3>2. QED
      BY <1>10, <2>1, <2>2, <2>4, <3>1 DEF OnlyChange
  <2>7. QED
    BY <2>5, <2>6
<1>15. KnownIsTrue'
  BY <1>2, <1>9, <1>10 DEF KnownIsTrue
<1>16. SureHearts'
  <2> SUFFICES ASSUME visitor # Nobody, NEW d \in place.cards \ unsure PROVE Sure(d)'
    BY <1>2 DEF SureHearts
  <2>1. Sure(d)
    BY DEF SureHearts
  <2>2. CASE d # old.card
    <3>1. i \notin UnderWay(d)
      BY <1>1, <2>2 DEF UnderWay, Ongoing
    <3>2. \A j \in UnderWay(d) : clicked'[j] = clicked[j]
      BY <1>7, <3>1 DEF UnderWay, Ongoing
    <3>3. Favourite(d)' = Favourite(d)
      BY <1>2, <1>10, <2>2 DEF Favourite
    <3>4. QED
      BY <1>2, <1>8, <2>1, <3>2, <3>3, HeartStays
  <2>3. CASE d = old.card
    <3>1. \A j \in UnderWay(d) : /\ clicked'[j].own /\ clicked'[j].alone
                                 /\ clicked'[j].of = visitor /\ hearts[d].waits = NoPromise
      BY <1>1, <1>5, <1>7, <2>1 DEF Sure, UnderWay, Ongoing
    <3>2. hearts[d].waits = NoPromise /\ Served(d)'
      BY <1>3, <1>9, <2>3, <3>1
    <3>3. QED
      BY <1>2, <1>8, <3>1, <3>2 DEF Sure
  <2>4. QED
    BY <2>2, <2>3
<1>17. QED
  BY <1>12, <1>13, <1>14, <1>15, <1>16

LEMMA ChangeFailsKeeps ==
    ASSUME HeartsInv, NEW i \in Clicks, ChangeFails(i) PROVE HeartsInv'
<1> USE DEF HeartsInv
<1>1. PICK old : old = clicked[i]
  OBVIOUS
<1>2. /\ old.stage \in {"sent", "served"} /\ clicked' = [clicked EXCEPT ![i] = Over]
      /\ IF old.stage = "sent" THEN UNCHANGED <<unsure, lost>>
         ELSE /\ unsure' = unsure \cup {old.card}
              /\ lost' = IF known = NoPromise THEN lost ELSE lost \cup {old.card}
      /\ UNCHANGED <<favourites, visitor, place, hearts, asked, known, authDialog>>
  BY <1>1 DEF ChangeFails
<1>3. clicked[i] # Over
  BY <1>1, <1>2 DEF Over
<1>4. /\ clicked' \in [Clicks -> Changes] /\ OnlyChange'
      /\ \A d : UnderWay(d)' = UnderWay(d) \ {i}
      /\ \A j \in Clicks : j # i => clicked'[j] = clicked[j]
      /\ \A d : d # old.card => i \notin UnderWay(d)
      /\ i \in UnderWay(old.card)
  BY <1>1, <1>2, <1>3, EndedChange
<1>5. /\ \A d : d # old.card => UnderWay(d)' = UnderWay(d)
      /\ \A d : \A j \in UnderWay(d)' : j \in Clicks /\ clicked'[j] = clicked[j]
      /\ \A d : UnderWay(d) \subseteq Clicks
  BY <1>4 DEF UnderWay, Ongoing
<1>6. /\ \A d : d # old.card => (Served(d)' <=> Served(d))
      /\ old.stage = "sent" => \A d : Served(d)' <=> Served(d)
  BY <1>1, <1>4, <1>5 DEF Served
<1>7. HeartTypes'
  BY <1>2, <1>4 DEF HeartTypes
<1>8. DialogInv'
  BY <1>2, <1>4, <1>5 DEF DialogInv, Pending
<1>9. KnownIsTrue'
  <2>1. \A d : d \notin lost' /\ ~Served(d)' /\ known # NoPromise =>
            d \notin lost /\ ~Served(d)
    BY <1>2, <1>6
  <2>2. QED
    BY <1>2, <2>1 DEF KnownIsTrue
<1>10. SureHearts'
  <2> SUFFICES ASSUME visitor # Nobody, NEW d \in place.cards \ unsure'
               PROVE  Sure(d)'
    BY <1>2 DEF SureHearts
  <2>1. Sure(d) /\ d \notin unsure
    BY <1>2 DEF SureHearts
  <2>2. CASE d # old.card
    BY <1>2, <1>4, <1>5, <2>1, <2>2, HeartStays DEF Favourite
  <2>3. CASE d = old.card
    <3>1. old.stage = "sent"
      BY <1>2, <2>3
    <3>2. /\ hearts[d].waits = NoPromise
          /\ UnderWay(d) = {i}
      BY <1>1, <1>3, <1>4, <1>5, <2>1, <2>3 DEF Sure, OnlyChange
    <3>3. UnderWay(d)' = {} /\ ~Served(d)
      BY <1>1, <1>4, <3>1, <3>2 DEF Served
    <3>4. QED
      BY <1>2, <2>1, <3>2, <3>3 DEF Sure, Favourite
  <2>4. QED
    BY <2>2, <2>3
<1>11. QED
  BY <1>4, <1>7, <1>8, <1>9, <1>10

LEMMA AnswerChangeKeeps ==
    ASSUME HeartsInv, NEW i \in Clicks, AnswerChange(i) PROVE HeartsInv'
<1> USE DEF HeartsInv
<1>1. PICK old, c, key : old = clicked[i] /\ c = old.card /\ key = <<old.of, c>>
  OBVIOUS
<1>2. PICK on \in BOOLEAN, goes \in BOOLEAN :
          /\ on <=> old.op = "add" /\ key \notin Hosted
          /\ old.stage = "served" /\ clicked' = [clicked EXCEPT ![i] = Over]
          /\ known' = NoPromise /\ asked' = Kept(asked, NoPromise)
          /\ hearts' = IF old.own THEN [hearts EXCEPT ![c] = IF goes THEN Off
                                                           ELSE [@ EXCEPT !.on = on]]
                       ELSE hearts
          /\ place' = IF goes THEN [place EXCEPT !.cards = @ \ {c}] ELSE place
          /\ unsure' = IF /\ old.own /\ old.of = visitor
                          /\ hearts[c].waits = NoPromise /\ old.alone
                       THEN unsure \ {c} ELSE unsure
          /\ UNCHANGED <<favourites, visitor, authDialog>>
  <2>1. PICK on \in BOOLEAN : on = (old.op = "add" /\ key \notin Hosted)
    BY Zenon
  <2>2. PICK goes \in BOOLEAN : goes = (~on /\ old.own /\ place.page = "favourites")
    BY Zenon
  <2>3. QED
    BY <1>1, <2>1, <2>2 DEF AnswerChange, Forgotten
<1>3. clicked[i] # Over /\ old \in Changes \ {Over}
  BY <1>1, <1>2 DEF Over, HeartTypes
<1>4. /\ clicked' \in [Clicks -> Changes] /\ OnlyChange'
      /\ \A d : UnderWay(d)' = UnderWay(d) \ {i}
      /\ \A j \in Clicks : j # i => clicked'[j] = clicked[j]
      /\ \A d : d # c => i \notin UnderWay(d)
      /\ i \in UnderWay(c)
  BY <1>1, <1>2, <1>3, EndedChange
<1>5. /\ \A d : d # c => UnderWay(d)' = UnderWay(d)
      /\ \A d : \A j \in UnderWay(d)' : j \in Clicks /\ clicked'[j] = clicked[j]
      /\ \A d : UnderWay(d) \subseteq Clicks
  BY <1>4 DEF UnderWay, Ongoing
<1>6. /\ hearts' \in [Cards -> HeartRows] /\ place'.cards \subseteq place.cards
      /\ \A d \in Cards : d # c => hearts'[d] = hearts[d]
      /\ goes => c \notin place'.cards
  <2>1. Off \in HeartRows
    BY OffIsHeart
  <2>2. c \in Cards /\ hearts[c] \in HeartRows
    BY <1>1, <1>3 DEF Changes, HeartTypes
  <2>3. [hearts[c] EXCEPT !.on = on] \in HeartRows
    BY <2>2 DEF HeartRows
  <2>4. QED
    BY <1>2, <2>1, <2>2, <2>3 DEF HeartTypes
<1>7. asked' \in [IdsRequests -> Promises]
      /\ \A p \in IdsRequests : asked[p].stage # "answered" => asked'[p] = asked[p]
  <2>1. asked \in [IdsRequests -> Promises]
    BY DEF HeartTypes
  <2> HIDE DEF HeartsInv
  <2>2. \A p \in IdsRequests : asked[p].stage # "answered" => asked'[p] = asked[p]
    BY <1>2, <2>1, KeptStay
  <2>3. asked' \in [IdsRequests -> Promises]
    BY <1>2, <2>1 DEF Kept, Promises
  <2>4. QED
    BY <2>2, <2>3
<1>8. HeartTypes'
  BY <1>2, <1>4, <1>6, <1>7 DEF HeartTypes
<1>9. DialogInv'
  BY <1>2, <1>4, <1>5 DEF DialogInv, Pending
<1>10. KnownIsTrue'
  BY <1>2 DEF KnownIsTrue
<1>11. SureHearts'
  <2> SUFFICES ASSUME visitor # Nobody, NEW d \in place'.cards \ unsure' PROVE Sure(d)'
    BY <1>2 DEF SureHearts
  <2>1. d \in place.cards /\ d \in Cards
    BY <1>6 DEF HeartTypes
  <2>2. CASE d # c
    <3>1. Sure(d)
      BY <1>2, <2>1, <2>2 DEF SureHearts
    <3>2. hearts[d].waits # NoPromise => asked'[hearts[d].waits] = asked[hearts[d].waits]
      BY <1>7, <2>1, <3>1 DEF Sure, HeartTypes, HeartRows
    <3>3. hearts'[d] = hearts[d] /\ UnderWay(d)' = UnderWay(d) /\ (Favourite(d)' <=> Favourite(d))
      BY <1>2, <1>5, <1>6, <2>1, <2>2 DEF Favourite
    <3>4. \A j \in UnderWay(d) : clicked'[j] = clicked[j]
      BY <1>5, <3>3
    <3>5. Served(d)' <=> Served(d)
      BY <3>3, <3>4 DEF Served
    <3>6. QED
      BY <1>2, <3>1, <3>2, <3>3, <3>4, <3>5 DEF Sure
  <2>3. CASE d = c
    <3>1. /\ old.own /\ old.alone /\ old.of = visitor /\ hearts[c].waits = NoPromise
      <4>1. CASE c \in unsure
        BY <1>2, <2>3, <4>1
      <4>2. CASE c \notin unsure
        BY <1>1, <1>4, <2>1, <2>3, <4>2 DEF SureHearts, Sure
      <4>3. QED
        BY <4>1, <4>2
    <3>2. UnderWay(c) = {i} /\ (key \in favourites <=> on)
      BY <1>1, <1>2, <1>3, <3>1 DEF OnlyChange
    <3>3. UnderWay(c)' = {}
      BY <1>4, <3>2
    <3>4. hearts'[c] = [hearts[c] EXCEPT !.on = on]
      BY <1>2, <1>6, <2>1, <2>3, <3>1 DEF HeartTypes
    <3>5. hearts'[c].on = on /\ hearts'[c].waits = NoPromise
      BY <2>1, <2>3, <3>1, <3>4 DEF HeartTypes, HeartRows
    <3>6. Favourite(c)' <=> on
      BY <1>1, <1>2, <3>1, <3>2 DEF Favourite
    <3>7. QED
      BY <2>3, <3>3, <3>5, <3>6 DEF Sure
  <2>4. QED
    BY <2>2, <2>3
<1>12. QED
  BY <1>4, <1>8, <1>9, <1>10, <1>11

LEMMA HeartsNext == HeartsInv /\ [FavouritesNext]_favouritesVars => HeartsInv'
<1> SUFFICES ASSUME HeartsInv, [FavouritesNext]_favouritesVars PROVE HeartsInv'
  OBVIOUS
<1>1. CASE UNCHANGED favouritesVars
  <2>1. UNCHANGED <<favourites, visitor, place, hearts, asked, known, clicked, authDialog,
                    unsure, lost>>
    BY <1>1 DEF favouritesVars
  <2>2. HeartTypes' /\ OnlyChange' /\ DialogInv'
    BY <2>1, ChangesStay DEF HeartsInv, HeartTypes, OnlyChange, DialogInv
  <2>3. KnownIsTrue'
    BY <2>1, ChangesStay DEF HeartsInv, KnownIsTrue
  <2>4. \A c \in Cards : Sure(c) => Sure(c)'
    BY <2>1, HeartStays, ChangesStay DEF Favourite
  <2>5. SureHearts'
    BY <2>1, <2>4 DEF HeartsInv, SureHearts, HeartTypes
  <2>6. QED
    BY <2>2, <2>3, <2>5 DEF HeartsInv
<1>2. CASE Browse \/ LeaveHearts \/ ShowFavourites
  <2>1. \E there : \E cards \in SUBSET Cards : GoTo(there, cards)
    BY <1>2 DEF Browse, LeaveHearts, ShowFavourites, IdsOf
  <2>2. QED
    BY <2>1, GoToKeeps
<1>3. QED
  BY <1>1, <1>2, ServeIdsKeeps, AnswerIdsKeeps, IdsFailKeeps, SignOutKeeps, SavedDialogSteps,
     SignInKeeps, ToggleKeeps, ServeChangeKeeps, AnswerChangeKeeps, ChangeFailsKeeps
     DEF FavouritesNext

\* A heart that awaits nothing is full exactly where the home is a favourite of
\* who is signed in, for any users, homes, promises and changes under way, but
\* where it was set while the page could not know.
THEOREM HeartsTellTheRows == FavouritesSpec => []HeartIsTrue
BY HeartsInit, HeartsAreTrue, HeartsNext, PTL DEF FavouritesSpec

\* The rows, the page and the histories.
FavouriteTypes ==
    /\ favourites \subseteq Visitors \X Cards
    /\ place \in [page: {"catalogue", "favourites", "elsewhere"}, cards: SUBSET Cards]
    /\ unsure \cup lost \subseteq Cards

LEMMA DrawnTypes ==
    ASSUME NEW u, NEW cards \in SUBSET Cards, NEW now, Effects(u, cards, now)
    PROVE  unsure' \subseteq Cards
BY DEF Effects, Doubtful

LEMMA FavouriteTypesNext ==
    HeartsInv /\ FavouriteTypes /\ [FavouritesNext]_favouritesVars => FavouriteTypes'
<1> SUFFICES ASSUME HeartsInv, FavouriteTypes, [FavouritesNext]_favouritesVars
             PROVE  FavouriteTypes'
  OBVIOUS
<1>1. place.cards \subseteq Cards
  BY DEF HeartsInv, HeartTypes
<1>2. ASSUME NEW i \in IdsRequests, ServeIds(i) \/ AnswerIds(i) \/ IdsFail(i)
      PROVE  FavouriteTypes'
  BY <1>2 DEF ServeIds, AnswerIds, IdsFail, FavouriteTypes
<1>3. CASE Browse \/ LeaveHearts \/ ShowFavourites
  <2>1. \E there \in {"catalogue", "favourites", "elsewhere"} : \E cards \in SUBSET Cards :
            GoTo(there, cards)
    BY <1>3 DEF Browse, LeaveHearts, ShowFavourites, IdsOf
  <2>2. QED
    BY <2>1, DrawnTypes DEF GoTo, FavouriteTypes
<1>4. ASSUME SignOut \/ \E u \in Visitors : SignIn(u) PROVE FavouriteTypes'
  BY <1>1, <1>4, DrawnTypes DEF SignOut, SignIn, FavouriteTypes
<1>5. ASSUME CloseAuth \/ \E c \in Cards : OpenAuth(c) \/ ToggleFavourite(c)
      PROVE  FavouriteTypes'
  BY <1>5 DEF CloseAuth, OpenAuth, ToggleFavourite, FavouriteTypes
<1>6. ASSUME NEW i \in Clicks, ServeChange(i) \/ AnswerChange(i) \/ ChangeFails(i)
      PROVE  FavouriteTypes'
  <2>1. clicked[i] # Over /\ clicked[i] \in Changes \ {Over}
    BY <1>6, StagesOfChanges DEF ServeChange, AnswerChange, ChangeFails, HeartsInv, HeartTypes
  <2>2. clicked[i].of \in Visitors /\ clicked[i].card \in Cards
    BY <2>1 DEF Changes
  <2>3. favourites' \subseteq Visitors \X Cards
    BY <1>6, <2>2 DEF ServeChange, AnswerChange, ChangeFails, FavouriteTypes
  <2>4. place' \in [page: {"catalogue", "favourites", "elsewhere"}, cards: SUBSET Cards]
    BY <1>6 DEF ServeChange, AnswerChange, ChangeFails, FavouriteTypes
  <2>5. unsure' \cup lost' \subseteq Cards
    BY <1>6, <2>2 DEF ServeChange, AnswerChange, ChangeFails, FavouriteTypes
  <2>6. QED
    BY <2>3, <2>4, <2>5 DEF FavouriteTypes
<1>7. CASE UNCHANGED favouritesVars
  BY <1>7 DEF favouritesVars, FavouriteTypes
<1>8. QED
  BY <1>2, <1>3, <1>4, <1>5, <1>6, <1>7 DEF FavouritesNext

\* Rows, hearts, promises and the page keep their types, for answers in any order.
THEOREM FavouritesTypesHold == FavouritesSpec => []FavouritesTypeOK
<1>1. FavouritesInit => FavouriteTypes
  BY DEF FavouritesInit, FavouriteTypes
<1>2. HeartsInv /\ FavouriteTypes => FavouritesTypeOK
  BY NoPromiseIsNull
     DEF HeartsInv, HeartTypes, HeartRows, DialogInv, FavouriteTypes, FavouritesTypeOK
<1>3. QED
  BY <1>1, <1>2, HeartsInit, HeartsNext, FavouriteTypesNext, PTL DEF FavouritesSpec

-----------------------------------------------------------------------------
(* The calendar.  Every write checks its data against the other rows, but a *)
(* partial update writes fields over a row that may have changed meanwhile. *)


IsTable == period = [p \in Periods |-> period[p]]

\* What a partial update is about to write, if the row is as it was, is valid.
PatchIsValid == patching # NoPatch => validate(patching.next)

CalendarInv == IsTable /\ PatchIsValid /\ PeriodsApart

LEMMA OverlapsBothWays == ASSUME NEW a, NEW b PROVE Overlap(a, b) <=> Overlap(b, a)
BY DEF Overlap

LEMMA CalendarInvInit == CalendarInit => CalendarInv
BY DEF CalendarInit, CalendarInv, IsTable, PatchIsValid, PeriodsApart, Live, NoPatch

\* A row may be written if its data are valid and apart from the other rows.
LEMMA PeriodWritten ==
    ASSUME CalendarInv, NEW p \in Periods, NEW data,
           validate(data), assertNoOverlap(data, p),
           period' = [period EXCEPT ![p] = data], torn \ {p} \subseteq torn'
    PROVE  IsTable' /\ PeriodsApart'
<1> USE DEF CalendarInv
<1>1. /\ IsTable' /\ period'[p] = data
      /\ \A q \in Periods \ {p} : period'[q] = period[q]
  BY DEF IsTable
<1>2. Live' \ {p} = Live \ {p} /\ Live' \subseteq Periods
  BY <1>1 DEF Live
<1>3. \A q \in Live' \ {p} : ~Overlap(period'[q], data) /\ ~Overlap(data, period'[q])
  BY <1>1, <1>2, OverlapsBothWays DEF assertNoOverlap
<1>4. ASSUME NEW q \in Live' \ torn'
      PROVE  /\ validate(period'[q])
             /\ \A r \in Live' \ (torn' \cup {q}) : ~Overlap(period'[q], period'[r])
  <2>1. CASE q = p
    BY <1>1, <1>3, <2>1
  <2>2. CASE q # p
    <3>1. q \in Live \ torn /\ period'[q] = period[q]
      BY <1>1, <1>2, <2>2
    <3>2. \A r \in Live' \ (torn' \cup {q}) : r # p => r \in Live \ (torn \cup {q})
      BY <1>2
    <3>3. QED
      BY <1>1, <1>2, <1>3, <3>1, <3>2 DEF PeriodsApart
  <2>3. QED
    BY <2>1, <2>2
<1>5. PeriodsApart'
  BY <1>4 DEF PeriodsApart, validate, Overlap
<1>6. QED
  BY <1>1, <1>5

LEMMA PeriodRemoved ==
    ASSUME CalendarInv, NEW p \in Periods, Removed(p), torn \ {p} \subseteq torn'
    PROVE  IsTable' /\ PeriodsApart'
<1>1. /\ IsTable' /\ period'[p] = NoPeriod
      /\ \A q \in Periods \ {p} : period'[q] = period[q]
  BY DEF Removed, CalendarInv, IsTable
<1>2. Live' = Live \ {p}
  BY <1>1 DEF Live
<1>3. QED
  BY <1>1, <1>2 DEF CalendarInv, PeriodsApart, validate, Overlap, Live

LEMMA CreatedApart ==
    ASSUME CalendarInv, NEW data, Created(data), UNCHANGED torn
    PROVE  IsTable' /\ PeriodsApart'
<1>1. PICK p \in Periods \ Live : period' = [period EXCEPT ![p] = data]
  BY DEF Created
<1>2. assertNoOverlap(data, p)
  BY <1>1, CalendarAssumption DEF Created, assertNoOverlap, Live
<1>3. QED
  BY <1>1, <1>2, PeriodWritten DEF Created

\* The partial update writes what it checked, or is listed as torn.
LEMMA PatchSteps ==
    ASSUME CalendarInv, PatchCommit
    PROVE  CalendarInv'
<1> DEFINE p == patching.of
           written == [f \in DOMAIN period[p] |->
               IF f \in DOMAIN patching.patch THEN patching.patch[f] ELSE period[p][f]]
<1>1. PatchIsValid'
  BY DEF PatchCommit, PatchIsValid
<1>2. CASE UNCHANGED <<period, torn>>
  BY <1>1, <1>2 DEF CalendarInv, IsTable, PeriodsApart, Live, validate, Overlap
<1>3. CASE /\ p \in Live /\ assertNoOverlap(patching.next, p)
           /\ period' = [period EXCEPT ![p] = written]
           /\ torn' = IF written # patching.next THEN torn \cup {p} ELSE torn \ {p}
  <2>1. p \in Periods
    BY <1>3 DEF Live
  <2>2. CASE written = patching.next
    BY <1>1, <1>3, <2>1, <2>2, PeriodWritten DEF PatchCommit, CalendarInv, PatchIsValid
  <2>3. CASE written # patching.next
    <3>1. /\ IsTable' /\ \A q \in Periods \ {p} : period'[q] = period[q]
          /\ torn' = torn \cup {p}
      BY <1>3, <2>1, <2>3 DEF CalendarInv, IsTable
    <3>2. Live' \ torn' \subseteq Live \ torn /\ p \notin Live' \ torn'
      BY <3>1 DEF Live
    <3>3. \A q \in Live' \ torn' : period'[q] = period[q]
      BY <3>1, <3>2 DEF Live
    <3>4. PeriodsApart'
      BY <3>2, <3>3 DEF CalendarInv, PeriodsApart, validate, Overlap
    <3>5. QED
      BY <1>1, <3>1, <3>4 DEF CalendarInv
  <2>4. QED
    BY <2>2, <2>3
<1>4. QED
  BY <1>2, <1>3 DEF PatchCommit

LEMMA CalendarInvNext == CalendarInv /\ [CalendarNext]_calendarVars => CalendarInv'
<1> SUFFICES ASSUME CalendarInv, [CalendarNext]_calendarVars PROVE CalendarInv'
  OBVIOUS
<1>1. CASE UNCHANGED <<period, torn, patching>>
  BY <1>1 DEF CalendarInv, IsTable, PatchIsValid, PeriodsApart, Live, validate, Overlap
<1>2. ASSUME NEW q \in Periods, NEW patch \in Patches, PatchRead(q, patch)
      PROVE  CalendarInv'
  <2>1. PatchIsValid' /\ UNCHANGED <<period, torn>>
    BY <1>2 DEF PatchRead, PatchIsValid, validate
  <2>2. QED
    BY <2>1 DEF CalendarInv, IsTable, PeriodsApart, Live, validate, Overlap
<1>3. ASSUME UNCHANGED patching, IsTable', PeriodsApart' PROVE CalendarInv'
  BY <1>3 DEF CalendarInv, PatchIsValid, validate
<1>4. CASE Elsewhere
  <2>1. ASSUME NEW data \in Inputs, Created(data), UNCHANGED torn PROVE CalendarInv'
    BY <1>3, <1>4, <2>1, CreatedApart DEF Elsewhere
  <2>2. ASSUME NEW p \in Periods, torn' = torn \ {p}, Removed(p) PROVE CalendarInv'
    BY <1>3, <1>4, <2>2, PeriodRemoved DEF Elsewhere
  <2>3. ASSUME NEW p \in Periods, NEW data \in Inputs, torn' = torn \ {p}, Updated(p, data)
        PROVE  CalendarInv'
    BY <1>3, <1>4, <2>3, PeriodWritten DEF Elsewhere, Updated
  <2>4. QED
    BY <1>4, <2>1, <2>2, <2>3 DEF Elsewhere
<1>5. CASE Saved
  <2>1. CASE Created(page.asks.data) /\ UNCHANGED torn
    BY <1>3, <1>5, <2>1, CreatedApart DEF Saved
  <2>2. CASE Updated(page.edits, page.asks.data) /\ torn' = torn \ {page.edits}
    <3>1. page.edits \in Periods
      BY <2>2 DEF Updated, Live
    <3>2. QED
      BY <1>3, <1>5, <2>2, <3>1, PeriodWritten DEF Saved, Updated
  <2>3. QED
    BY <1>5, <2>1, <2>2 DEF Saved
<1>6. CASE RemovedByPage
  <2>1. page.asks.of \in Periods
    BY <1>6 DEF RemovedByPage, Removed, Live
  <2>2. QED
    BY <1>3, <1>6, <2>1, PeriodRemoved DEF RemovedByPage
<1>7. QED
  BY <1>1, <1>2, <1>4, <1>5, <1>6, PatchSteps
     DEF calendarVars, CalendarNext, Submit, Edit, AskDelete, CancelEdit, KeepPeriod,
         ConfirmDelete, Failed, Reloaded, ReloadFailed, Book, Unbook, Still

\* Periods of a home do not overlap and end no sooner than they start, whoever
\* changes them at once, except one an update of some fields left with other
\* dates than it had checked (property-availability.service.ts create, update).
THEOREM PeriodsStayApart == CalendarSpec => []PeriodsApart
<1>1. CalendarInv => PeriodsApart
  BY DEF CalendarInv
<1>2. QED
  BY <1>1, CalendarInvInit, CalendarInvNext, PTL DEF CalendarSpec
-----------------------------------------------------------------------------
\* What the steps leave of the rows, of the page and of an update under way.
PeriodRows == PeriodFields \cup {NoPeriod}
Requested == {AsksNothing} \cup [step: {"save"}, data: Inputs]
             \cup [step: {"remove"}, of: Periods] \cup [step: {"reload"}]
Pages == [list: [Periods -> PeriodRows], edits: Periods \cup {NoPeriod},
          deletes: Periods \cup {NoPeriod}, asks: Requested]
RowsTyped == period \in [Periods -> PeriodRows] /\ torn \subseteq Live
PatchTyped == patching # NoPatch => patching.of \in Periods /\ patching.patch \in Patches
CalendarTypes == RowsTyped /\ PatchTyped /\ booked \subseteq Trips /\ page \in Pages

LEMMA FieldsAreNoPeriod == NoPeriod \notin PeriodFields
BY DEF NoPeriod, PeriodFields

LEMMA RowWritten ==
    ASSUME RowsTyped, NEW p \in Periods, NEW row \in PeriodFields,
           period' = [period EXCEPT ![p] = row], torn' \subseteq torn \cup {p}
    PROVE  RowsTyped'
<1>1. period' \in [Periods -> PeriodRows]
  BY DEF RowsTyped, PeriodRows
<1>2. period'[p] # NoPeriod /\ \A q \in Periods \ {p} : period'[q] = period[q]
  BY FieldsAreNoPeriod DEF RowsTyped
<1>3. torn' \subseteq Live'
  BY <1>2 DEF RowsTyped, Live
<1>4. QED
  BY <1>1, <1>3 DEF RowsTyped

LEMMA RowRemoved ==
    ASSUME RowsTyped, NEW p \in Periods, Removed(p), torn' = torn \ {p}
    PROVE  RowsTyped'
<1>1. period' \in [Periods -> PeriodRows]
  BY DEF RowsTyped, PeriodRows, Removed
<1>2. \A q \in Periods \ {p} : period'[q] = period[q]
  BY DEF RowsTyped, Removed
<1>3. torn' \subseteq Live'
  BY <1>2 DEF RowsTyped, Live
<1>4. QED
  BY <1>1, <1>3 DEF RowsTyped

LEMMA InputWritten ==
    ASSUME RowsTyped, NEW data \in Inputs,
           \/ Created(data) /\ UNCHANGED torn
           \/ \E p \in Periods : Updated(p, data) /\ torn' = torn \ {p}
    PROVE  RowsTyped'
<1>1. data \in PeriodFields
  BY CalendarAssumption
<1>2. CASE Created(data) /\ UNCHANGED torn
  <2>1. PICK p \in Periods : period' = [period EXCEPT ![p] = data]
    BY <1>2 DEF Created
  <2>2. QED
    BY <1>1, <1>2, <2>1, RowWritten
<1>3. ASSUME NEW p \in Periods, Updated(p, data), torn' = torn \ {p} PROVE RowsTyped'
  BY <1>1, <1>3, RowWritten DEF Updated
<1>4. QED
  BY <1>2, <1>3

\* Some of the fields over a row make a row.
LEMMA PatchMakesRow ==
    ASSUME NEW row \in PeriodFields, NEW patch \in Patches
    PROVE  [f \in DOMAIN row |-> IF f \in DOMAIN patch THEN patch[f] ELSE row[f]] \in PeriodFields
<1> DEFINE new == [f \in DOMAIN row |-> IF f \in DOMAIN patch THEN patch[f] ELSE row[f]]
           fields == {"from", "to", "type", "min", "max", "guests"}
<1>1. DOMAIN row = fields /\ DOMAIN FieldValues = fields
  BY DEF PeriodFields, FieldValues
<1>2. /\ row.from \in Days /\ row.to \in Days /\ row.type \in Types
      /\ row.min \in Days /\ row.max \in Days \cup {0} /\ row.guests \in Nat
  BY DEF PeriodFields
<1>3. /\ "from" \in DOMAIN patch => patch.from \in Days
      /\ "to" \in DOMAIN patch => patch.to \in Days
      /\ "type" \in DOMAIN patch => patch.type \in Types
  BY <1>1, CalendarAssumption DEF FieldValues
<1>4. /\ "min" \in DOMAIN patch => patch.min \in Days
      /\ "max" \in DOMAIN patch => patch.max \in Days \cup {0}
      /\ "guests" \in DOMAIN patch => patch.guests \in Nat
  BY <1>1, CalendarAssumption DEF FieldValues
<1>5. /\ new.from \in Days /\ new.to \in Days /\ new.type \in Types
      /\ new.min \in Days /\ new.max \in Days \cup {0} /\ new.guests \in Nat
  BY <1>1, <1>2, <1>3, <1>4
<1>6. new = [from |-> new.from, to |-> new.to, type |-> new.type, min |-> new.min,
             max |-> new.max, guests |-> new.guests]
  BY <1>1
<1>7. QED
  BY <1>5, <1>6 DEF PeriodFields

LEMMA PatchKeepsTypes ==
    ASSUME CalendarTypes, PatchCommit
    PROVE  CalendarTypes'
<1> DEFINE p == patching.of
           written == [f \in DOMAIN period[p] |->
               IF f \in DOMAIN patching.patch THEN patching.patch[f] ELSE period[p][f]]
<1>1. PatchTyped' /\ UNCHANGED <<booked, page>>
  BY DEF PatchCommit, PatchTyped
<1>2. CASE UNCHANGED <<period, torn>>
  BY <1>1, <1>2 DEF CalendarTypes, RowsTyped, Live
<1>3. CASE /\ p \in Live /\ period' = [period EXCEPT ![p] = written]
           /\ torn' = IF written # patching.next THEN torn \cup {p} ELSE torn \ {p}
  <2>1. p \in Periods /\ period[p] \in PeriodFields /\ patching.patch \in Patches
    BY <1>3 DEF Live, CalendarTypes, RowsTyped, PeriodRows, PatchTyped, PatchCommit
  <2>2. written \in PeriodFields
    BY <2>1, PatchMakesRow
  <2>3. torn' \subseteq torn \cup {p}
    BY <1>3
  <2>4. RowsTyped'
    <3> HIDE DEF written, p
    <3>1. QED
      BY <1>3, <2>1, <2>2, <2>3, RowWritten DEF CalendarTypes
  <2>5. QED
    BY <1>1, <2>4 DEF CalendarTypes
<1>4. QED
  BY <1>2, <1>3 DEF PatchCommit

LEMMA CalendarTypesKept == CalendarTypes /\ [CalendarNext]_calendarVars => CalendarTypes'
<1> SUFFICES ASSUME CalendarTypes, [CalendarNext]_calendarVars PROVE CalendarTypes'
  OBVIOUS
<1>1. CASE UNCHANGED calendarVars
  BY <1>1 DEF calendarVars, CalendarTypes, RowsTyped, PatchTyped, Live
<1>2. ASSUME RowsTyped', UNCHANGED <<patching, booked>>, page' \in Pages PROVE CalendarTypes'
  BY <1>2 DEF CalendarTypes, PatchTyped
<1>3. UNCHANGED <<period, torn>> => RowsTyped'
  BY DEF CalendarTypes, RowsTyped, Live
<1>4. CASE Elsewhere
  BY <1>2, <1>4, InputWritten, RowRemoved DEF Elsewhere, CalendarTypes
<1>5. ASSUME NEW p \in Periods, NEW patch \in Patches, PatchRead(p, patch) PROVE CalendarTypes'
  <2>1. PatchTyped' /\ UNCHANGED <<period, torn, booked, page>>
    BY <1>5 DEF PatchRead, PatchTyped
  <2>2. QED
    BY <1>3, <2>1 DEF CalendarTypes
<1>6. /\ page = [list |-> page.list, edits |-> page.edits, deletes |-> page.deletes,
                 asks |-> page.asks]
      /\ page.list \in [Periods -> PeriodRows] /\ page.asks \in Requested
      /\ page.edits \in Periods \cup {NoPeriod} /\ page.deletes \in Periods \cup {NoPeriod}
  BY DEF CalendarTypes, Pages
<1>7. ASSUME Still, page' \in Pages PROVE CalendarTypes'
  BY <1>2, <1>3, <1>7 DEF Still
<1>8. ASSUME NEW data \in Inputs, Submit(data) PROVE CalendarTypes'
  <2>1. [step |-> "save", data |-> data] \in Requested
    BY DEF Requested
  <2>2. page' \in Pages
    BY <1>6, <1>8, <2>1 DEF Submit, Ask, Pages
  <2>3. QED
    BY <1>7, <1>8, <2>2 DEF Submit
<1>9. ASSUME NEW p \in Periods, Edit(p) \/ AskDelete(p) PROVE CalendarTypes'
  <2>1. page' \in Pages
    BY <1>6, <1>9 DEF Edit, AskDelete, Pages
  <2>2. QED
    BY <1>7, <1>9, <2>1 DEF Edit, AskDelete
<1>10. CASE CancelEdit \/ KeepPeriod
  <2>1. page' \in Pages
    BY <1>6, <1>10 DEF CancelEdit, KeepPeriod, Pages
  <2>2. QED
    BY <1>7, <1>10, <2>1 DEF CancelEdit, KeepPeriod
<1>11. CASE ConfirmDelete
  <2>1. [step |-> "remove", of |-> page.deletes] \in Requested
    BY <1>6, <1>11 DEF Requested, ConfirmDelete
  <2>2. page' \in Pages
    BY <1>6, <1>11, <2>1 DEF ConfirmDelete, Ask, Pages
  <2>3. QED
    BY <1>7, <1>11, <2>2 DEF ConfirmDelete
<1>12. [step |-> "reload"] \in Requested /\ AsksNothing \in Requested
  BY DEF Requested
<1>13. CASE Saved
  <2>1. page.asks.data \in Inputs
    BY <1>6, <1>13 DEF Saved, Requested, AsksNothing
  <2>2. page.edits # NoPeriod => page.edits \in Periods
    BY <1>6
  <2>3. RowsTyped'
    BY <1>13, <2>1, <2>2, InputWritten DEF Saved, CalendarTypes
  <2>4. page' \in Pages
    BY <1>6, <1>12, <1>13 DEF Saved, Pages
  <2>5. QED
    BY <1>2, <1>13, <2>3, <2>4 DEF Saved
<1>14. CASE RemovedByPage
  <2>1. page.asks.of \in Periods
    BY <1>6, <1>14 DEF RemovedByPage, Requested, AsksNothing
  <2>2. RowsTyped'
    BY <1>14, <2>1, RowRemoved DEF RemovedByPage, CalendarTypes
  <2>3. page' \in Pages
    BY <1>6, <1>12, <1>14 DEF RemovedByPage, Pages
  <2>4. QED
    BY <1>2, <1>14, <2>2, <2>3 DEF RemovedByPage
<1>15. CASE Failed \/ ReloadFailed
  <2>1. page' \in Pages /\ UNCHANGED <<period, patching, booked, torn>>
    BY <1>6, <1>12, <1>15 DEF Failed, ReloadFailed, Ask, Pages, Still
  <2>2. QED
    BY <1>2, <1>3, <2>1
<1>16. CASE Reloaded
  <2>1. page' \in Pages
    BY <1>6, <1>12, <1>16 DEF Reloaded, Pages, CalendarTypes, RowsTyped
  <2>2. QED
    BY <1>2, <1>3, <1>16, <2>1 DEF Reloaded
<1>17. ASSUME NEW t \in Trips, Book(t) \/ Unbook(t) PROVE CalendarTypes'
  BY <1>3, <1>17 DEF Book, Unbook, CalendarTypes, PatchTyped
<1>18. QED
  BY <1>1, <1>4, <1>5, <1>8, <1>9, <1>10, <1>11, <1>13, <1>14, <1>15, <1>16, <1>17,
     PatchKeepsTypes DEF CalendarNext

\* The rows of a calendar keep their types, and the page edits and deletes
\* periods, for any inputs and patches: also where two clients change one row.
THEOREM CalendarTypesHold == CalendarSpec => []CalendarTypeOK
<1>1. CalendarInit => CalendarTypes
  BY DEF CalendarInit, CalendarTypes, RowsTyped, PatchTyped, PeriodRows, Pages, Requested
<1>2. CalendarTypes => CalendarTypeOK
  BY DEF CalendarTypes, RowsTyped, PeriodRows, Pages, CalendarTypeOK, Live
<1>3. QED
  BY <1>1, <1>2, CalendarTypesKept, PTL DEF CalendarSpec

\* Whoever finds the home in the catalogue by dates, kind and guests meets no
\* refusal of create: listPublic and create of exchanges.service ask the same of
\* the home, its periods and its confirmed exchanges.
THEOREM FoundMayBeAskedFor == CalendarSpec => []FoundIsRequestable
<1>1. FoundIsRequestable
  BY DEF FoundIsRequestable, Found, Requestable, Fits
<1>2. QED
  BY <1>1, PTL

-----------------------------------------------------------------------------
(* The occupancy of a period.  The booked ranges are a recursion over a     *)
(* finite set, so that it has a value, and what the value is, goes by       *)
(* induction on how many ranges there are: the numbers for which a          *)
(* statement holds are a set that holds 0 and the next number with each.    *)

\* What holds of 0, and of the next number with each, holds of every number.
LEMMA CountsUp ==
    ASSUME NEW S \in SUBSET Nat, 0 \in S, \A n \in S : n + 1 \in S
    PROVE  S = Nat
<1>1. SUFFICES ASSUME Nat \ S # {} PROVE FALSE
  OBVIOUS
<1> DEFINE R == {ss \in Nat \X Nat : ss[1] < ss[2]}
<1>2. IsWellFoundedOn(R, Nat)
  BY NatLessThanWellFounded DEF OpToRel
<1>3. PICK x \in Nat \ S : \A y \in Nat \ S : <<y, x>> \notin R
  <2> HIDE DEF R
  <2> QED BY <1>1, <1>2, WFMin, Zenon
<1>4. \A y \in Nat \ S : ~(y < x)
  BY <1>3
<1>5. x # 0
  OBVIOUS
<1>6. x - 1 \in Nat /\ x - 1 < x /\ (x - 1) + 1 = x
  BY <1>5
<1>7. x - 1 \in S
  BY <1>4, <1>6
<1>8. QED
  BY <1>6, <1>7

\* The days of a trip are numbers, up to the last day there is.
LEMMA TripDays ==
    ASSUME NEW r \in Trips
    PROVE  r.from \in Nat /\ r.to \in Nat /\ r.from < r.to /\ r.from <= Lasts /\ Lasts \in Nat
BY CalendarAssumption DEF Trips, Days

\* LatestRange finds a range that starts no sooner than any other.
LEMMA LatestIsOne ==
    ASSUME NEW s \in SUBSET Trips, s # {}
    PROVE  LatestRange(s) \in s /\ \A q \in s : q.from <= LatestRange(s).from
<1> DEFINE starts == {q.from : q \in s}
           top == Lasts
<1>1. starts \in SUBSET Nat /\ starts # {}
  BY TripDays
<1>2. top \in Nat /\ \A n \in starts : n <= top
  BY CalendarAssumption, TripDays
<1> HIDE DEF top
<1> DEFINE below == {d \in Nat : d <= top /\ top - d \in starts}
           R == {ss \in Nat \X Nat : ss[1] < ss[2]}
<1>3. below # {} /\ below \subseteq Nat
  <2>1. PICK n \in starts : TRUE
    BY <1>1
  <2>2. n \in Nat /\ n <= top
    BY <1>1, <1>2, <2>1
  <2>3. top - n \in Nat /\ top - n <= top /\ top - (top - n) = n
    BY <2>2, <1>2
  <2>4. QED
    BY <2>1, <2>3
<1>4. IsWellFoundedOn(R, Nat)
  BY NatLessThanWellFounded DEF OpToRel
<1>5. PICK d \in below : \A e \in below : <<e, d>> \notin R
  <2> HIDE DEF R, below
  <2> QED BY <1>3, <1>4, WFMin, Zenon
<1>6. PICK r \in s : r.from = top - d
  BY <1>5
<1>7. ASSUME NEW q \in s PROVE q.from <= r.from
  <2>1. q.from \in Nat /\ q.from \in starts /\ q.from <= top /\ d \in Nat
    BY <1>2, <1>5, TripDays
  <2>2. top - q.from \in Nat /\ top - q.from <= top /\ top - (top - q.from) = q.from
    BY <2>1, <1>2
  <2>3. top - q.from \in below
    BY <2>1, <2>2
  <2>4. ~(top - q.from < d)
    BY <1>5, <2>3, <2>2, <2>1
  <2>5. QED
    BY <1>6, <2>1, <2>4, <1>2
<1> DEFINE IsLatest(r1) == r1 \in s /\ \A q \in s : q.from <= r1.from
<1>8. \E r1 : IsLatest(r1)
  BY <1>7
<1>9. LatestRange(s) = CHOOSE r1 : IsLatest(r1)
  BY Zenon DEF LatestRange
<1>10. IsLatest(CHOOSE r1 : IsLatest(r1))
  <2> HIDE DEF IsLatest
  <2> QED BY <1>8, Zenon
<1>11. QED
  BY <1>9, <1>10

\* What joining makes of some ranges: stretches apart of each other, in order, each
\* from the start of a range to the end of one, of the same nights.
Merges(m, s) ==
    /\ m \in Seq(Trips)
    /\ \A i, j \in 1..Len(m) : i < j => m[i].to < m[j].from
    /\ \A i \in 1..Len(m) : \E r \in s : m[i].from = r.from
    /\ \A i \in 1..Len(m) : \E r \in s : m[i].to = r.to
    /\ \A n \in Nat : (\E r \in s : r.from <= n /\ n < r.to)
                      <=> (\E i \in 1..Len(m) : m[i].from <= n /\ n < m[i].to)

\* The reduce starts right ...
LEMMA NothingMerged == Merges(<<>>, {})
BY DEF Merges

\* ... and each of its steps keeps right, taken on ranges in the order of their starts.
LEMMA JoinMerges ==
    ASSUME NEW s \in SUBSET Trips, NEW L \in s, \A q \in s : q.from <= L.from,
           NEW m, Merges(m, s \ {L})
    PROVE  Merges(Join(m, L), s)
<1> DEFINE k == Len(m)
<1>0. /\ m \in Seq(Trips) /\ k \in Nat
      /\ L \in Trips /\ L.from \in Nat /\ L.to \in Nat /\ L.from < L.to
      /\ \A i \in 1..k : /\ m[i] \in Trips /\ m[i].from \in Nat /\ m[i].to \in Nat
                         /\ m[i].from < m[i].to
  BY TripDays DEF Merges
<1>1. \A i \in 1..k : m[i].from <= L.from
  BY DEF Merges
<1>2. CASE m = <<>> \/ L.from > Last(m).to
  <2> DEFINE a == Append(m, L)
  <2>1. Join(m, L) = a
    BY <1>2 DEF Join
  <2>2. /\ a \in Seq(Trips) /\ Len(a) = k + 1 /\ a[k + 1] = L
        /\ \A i \in 1..k : a[i] = m[i]
    BY <1>0
  <2>3. \A i \in 1..k : m[i].to < L.from
    <3> SUFFICES ASSUME NEW i \in 1..k PROVE m[i].to < L.from
      OBVIOUS
    <3>1. m # <<>> /\ k > 0 /\ k \in 1..k
      BY <1>0
    <3>2. Last(m) = m[k]
      BY DEF Last
    <3>3. m[k].to < L.from
      BY <1>2, <3>1, <3>2, <1>0
    <3>4. i < k => m[i].to < m[k].from
      BY <3>1 DEF Merges
    <3>5. QED
      BY <3>1, <3>3, <3>4, <1>0
  <2>4. \A i, j \in 1..Len(a) : i < j => a[i].to < a[j].from
    <3> SUFFICES ASSUME NEW i \in 1..(k + 1), NEW j \in 1..(k + 1), i < j
                 PROVE  a[i].to < a[j].from
      BY <2>2
    <3>1. i \in 1..k
      BY <1>0
    <3>2. CASE j = k + 1
      BY <2>2, <2>3, <3>1, <3>2
    <3>3. CASE j \in 1..k
      BY <2>2, <3>1, <3>3 DEF Merges
    <3>4. j = k + 1 \/ j \in 1..k
      <4>1. \A l \in Nat : \A h \in 1..(l + 1) : h = l + 1 \/ h \in 1..l
        OBVIOUS
      <4>2. QED
        BY <1>0, <4>1, Zenon
    <3>5. QED
      BY <3>2, <3>3, <3>4
  <2>5. \A i \in 1..Len(a) : i = k + 1 \/ i \in 1..k
    BY <2>2, <1>0
  <2>6. /\ \A i \in 1..Len(a) : \E r \in s : a[i].from = r.from
        /\ \A i \in 1..Len(a) : \E r \in s : a[i].to = r.to
    BY <2>2, <2>5 DEF Merges
  <2>7. ASSUME NEW n \in Nat
        PROVE  (\E r \in s : r.from <= n /\ n < r.to)
               <=> (\E i \in 1..Len(a) : a[i].from <= n /\ n < a[i].to)
    <3>1. (\E r \in s : r.from <= n /\ n < r.to)
          <=> (L.from <= n /\ n < L.to) \/ (\E r \in s \ {L} : r.from <= n /\ n < r.to)
      OBVIOUS
    <3>2. (\E i \in 1..Len(a) : a[i].from <= n /\ n < a[i].to)
          <=> (L.from <= n /\ n < L.to) \/ (\E i \in 1..k : m[i].from <= n /\ n < m[i].to)
      <4>1. k + 1 \in 1..Len(a) /\ 1..k \subseteq 1..Len(a)
        BY <2>2, <1>0
      <4>2. QED
        BY <2>2, <2>5, <4>1
    <3>3. (\E r \in s \ {L} : r.from <= n /\ n < r.to)
          <=> (\E i \in 1..k : m[i].from <= n /\ n < m[i].to)
      BY DEF Merges
    <3>4. QED
      BY <3>1, <3>2, <3>3
  <2>8. Merges(a, s)
    <3> HIDE DEF a
    <3> QED BY <2>2, <2>4, <2>6, <2>7 DEF Merges
  <2>9. QED
    BY <2>1, <2>8
<1>3. CASE ~(m = <<>> \/ L.from > Last(m).to)
  <2> DEFINE x == [m[k] EXCEPT !.to = Most(@, L.to)]
             a == [m EXCEPT ![k] = x]
  <2>1. k \in 1..k /\ Last(m) = m[k]
    BY <1>0, <1>3 DEF Last
  <2>2. Join(m, L) = a
    BY <1>3 DEF Join
  <2>3. L.from <= m[k].to /\ m[k].from <= L.from
    BY <1>0, <1>1, <1>3, <2>1
  <2>4. x \in Trips /\ x.from = m[k].from /\ x.to = Most(m[k].to, L.to)
    <3>1. Most(m[k].to, L.to) \in Days /\ Most(m[k].to, L.to) >= m[k].to
      BY <1>0, <2>1 DEF Most, Trips
    <3>2. m[k] \in [from: Days, to: Days] /\ m[k].from < m[k].to
      BY <1>0, <2>1 DEF Trips
    <3>3. x \in [from: Days, to: Days] /\ x.from = m[k].from /\ x.to = Most(m[k].to, L.to)
      BY <3>1, <3>2
    <3>4. x.from < x.to
      BY <1>0, <2>1, <3>1, <3>2, <3>3 DEF Days
    <3>5. QED
      BY <3>3, <3>4 DEF Trips
  <2> HIDE DEF x
  <2>5. /\ a \in Seq(Trips) /\ Len(a) = k /\ a[k] = x
        /\ \A i \in 1..k : i # k => a[i] = m[i]
    BY <1>0, <2>1, <2>4
  <2> HIDE DEF a
  <2>6. \A i, j \in 1..Len(a) : i < j => a[i].to < a[j].from
    <3> SUFFICES ASSUME NEW i \in 1..k, NEW j \in 1..k, i < j
                 PROVE  a[i].to < a[j].from
      BY <2>5
    <3>1. i # k /\ a[i] = m[i]
      BY <2>5, <1>0
    <3>2. m[i].to < m[j].from
      BY DEF Merges
    <3>3. a[j].from = m[j].from
      BY <2>5, <2>4
    <3>4. QED
      BY <3>1, <3>2, <3>3
  <2>7. \A i \in 1..Len(a) : \E r \in s : a[i].from = r.from
    BY <2>4, <2>5 DEF Merges
  <2>8. \A i \in 1..Len(a) : \E r \in s : a[i].to = r.to
    BY <2>4, <2>5 DEF Merges, Most
  <2>9. ASSUME NEW n \in Nat
        PROVE  (\E r \in s : r.from <= n /\ n < r.to)
               <=> (\E i \in 1..Len(a) : a[i].from <= n /\ n < a[i].to)
    <3>1. (\E r \in s : r.from <= n /\ n < r.to)
          <=> (L.from <= n /\ n < L.to) \/ (\E r \in s \ {L} : r.from <= n /\ n < r.to)
      OBVIOUS
    <3>2. (\E i \in 1..Len(a) : a[i].from <= n /\ n < a[i].to)
          <=> (x.from <= n /\ n < x.to)
              \/ (\E i \in 1..k : i # k /\ m[i].from <= n /\ n < m[i].to)
      BY <2>1, <2>5
    <3>3. (x.from <= n /\ n < x.to)
          <=> (L.from <= n /\ n < L.to) \/ (m[k].from <= n /\ n < m[k].to)
      BY <2>1, <2>3, <2>4, <1>0 DEF Most
    <3>4. (\E r \in s \ {L} : r.from <= n /\ n < r.to)
          <=> (\E i \in 1..k : m[i].from <= n /\ n < m[i].to)
      BY DEF Merges
    <3>5. QED
      BY <2>1, <3>1, <3>2, <3>3, <3>4
  <2>10. Merges(a, s)
    BY <2>5, <2>6, <2>7, <2>8, <2>9 DEF Merges
  <2>11. QED
    BY <2>2, <2>10
<1>4. QED
  BY <1>2, <1>3

\* One pass over the sets of ranges: what each merges to, by what g says of the
\* set without its last range.
JoinedBy(g, sets) ==
    [ranges \in sets |->
        IF ranges = {} THEN <<>> ELSE Join(g[ranges \ {LatestRange(ranges)}], LatestRange(ranges))]

\* The sets of at most n ranges.
Upto(C, n) == {s \in SUBSET C : Cardinality(s) <= n}

\* Taking the last range away leaves fewer.
LEMMA WithoutLatest ==
    ASSUME NEW C \in SUBSET Trips, IsFiniteSet(C), NEW s \in SUBSET C, s # {}
    PROVE  /\ s \ {LatestRange(s)} \in SUBSET C
           /\ Cardinality(s \ {LatestRange(s)}) = Cardinality(s) - 1
           /\ Cardinality(s) \in Nat /\ Cardinality(s) > 0
<1>1. LatestRange(s) \in s
  BY LatestIsOne
<1>2. IsFiniteSet(s)
  BY FS_Subset
<1>3. Cardinality(s) \in Nat /\ Cardinality(s) # 0
  BY <1>2, FS_CardinalityType, FS_EmptySet
<1>4. Cardinality(s \ {LatestRange(s)}) = Cardinality(s) - 1
  BY <1>1, <1>2, FS_RemoveElement
<1>5. QED
  BY <1>3, <1>4

\* The only set of no ranges is the empty one.
LEMMA NoneOfThem ==
    ASSUME NEW C \in SUBSET Trips, IsFiniteSet(C), NEW s \in Upto(C, 0)
    PROVE  s = {}
<1>1. s \in SUBSET C /\ Cardinality(s) <= 0
  BY DEF Upto
<1>2. s # {} => Cardinality(s) \in Nat /\ Cardinality(s) > 0
  BY <1>1, WithoutLatest
<1>3. QED
  BY <1>1, <1>2

\* The recursion is well founded: some function is what it says.
LEMMA JoinExists ==
    ASSUME NEW C \in SUBSET Trips, IsFiniteSet(C)
    PROVE  \E g : g = JoinedBy(g, SUBSET C)
<1> DEFINE S == {n \in Nat : \E g : g = JoinedBy(g, Upto(C, n))}
<1>1. 0 \in S
  <2> DEFINE g == [s \in Upto(C, 0) |-> <<>>]
  <2>1. \A s \in Upto(C, 0) : s = {}
    BY NoneOfThem
  <2>2. g = JoinedBy(g, Upto(C, 0))
    <3> DEFINE U == Upto(C, 0)
    <3> HIDE DEF U
    <3>1. JoinedBy(g, U) = [s \in U |-> <<>>]
      BY <2>1 DEF JoinedBy, U
    <3>2. QED
      BY <3>1 DEF U
  <2> HIDE DEF g
  <2>3. QED
    BY <2>2
<1>2. ASSUME NEW n \in S PROVE n + 1 \in S
  <2>1. PICK g : g = JoinedBy(g, Upto(C, n))
    OBVIOUS
  <2> DEFINE h == JoinedBy(g, Upto(C, n + 1))
  <2>2. \A s \in Upto(C, n) : s \in Upto(C, n + 1)
    <3> SUFFICES ASSUME NEW s \in Upto(C, n) PROVE Cardinality(s) <= n + 1
      BY DEF Upto
    <3>1. IsFiniteSet(s) /\ Cardinality(s) <= n
      BY FS_Subset DEF Upto
    <3>2. QED
      BY <3>1, FS_CardinalityType
  <2>3. \A s \in Upto(C, n) : h[s] = g[s]
    <3>1. \A s \in Upto(C, n) : g[s] = JoinedBy(g, Upto(C, n))[s]
      BY <2>1
    <3>2. QED
      BY <2>2, <3>1 DEF JoinedBy
  <2>4. \A s \in Upto(C, n + 1) : s # {} => s \ {LatestRange(s)} \in Upto(C, n)
    <3> SUFFICES ASSUME NEW s \in SUBSET C, Cardinality(s) <= n + 1, s # {}
                 PROVE  s \ {LatestRange(s)} \in Upto(C, n)
      BY DEF Upto
    <3> QED
      BY WithoutLatest DEF Upto
  <2>5. h = JoinedBy(h, Upto(C, n + 1))
    <3> DEFINE U == Upto(C, n + 1)
    <3>1. \A s \in U : s # {} => h[s \ {LatestRange(s)}] = g[s \ {LatestRange(s)}]
      BY <2>3, <2>4
    <3> HIDE DEF h
    <3>2. JoinedBy(g, U) = JoinedBy(h, U)
      BY <3>1 DEF JoinedBy
    <3>3. QED
      BY <3>2 DEF h
  <2> HIDE DEF h
  <2>6. QED
    BY <2>5
<1>3. S = Nat
  <2> HIDE DEF S
  <2>1. S \in SUBSET Nat
    BY DEF S
  <2>2. QED
    BY <1>1, <1>2, <2>1, CountsUp
<1>4. Upto(C, Cardinality(C)) = SUBSET C
  <2> SUFFICES ASSUME NEW s \in SUBSET C PROVE Cardinality(s) <= Cardinality(C)
    BY DEF Upto
  <2> QED
    BY FS_Subset
<1>5. Cardinality(C) \in S
  BY <1>3, FS_CardinalityType
<1>6. QED
  BY <1>4, <1>5

\* What BookedRanges takes of it is one such function at the whole set.
LEMMA RangesJoined ==
    ASSUME NEW row, Clipped(row) \in SUBSET Trips, IsFiniteSet(Clipped(row))
    PROVE  \E g : /\ g = JoinedBy(g, SUBSET Clipped(row))
                  /\ BookedRanges(row) = g[Clipped(row)]
<1> DEFINE C == Clipped(row)
           G(g) == g = JoinedBy(g, SUBSET C)
           g == CHOOSE h : G(h)
<1>1. \E h : G(h)
  <2> HIDE DEF C
  <2> QED BY JoinExists DEF C
<1>2. G(g)
  <2> HIDE DEF G
  <2> QED BY <1>1, Zenon
<1>3. BookedRanges(row) = g[C]
  BY Zenon DEF BookedRanges, JoinedBy
<1>4. QED
  BY <1>2, <1>3, Zenon

\* What the page of the home makes of the bookings in a period.
LEMMA BookedRangesMerge ==
    ASSUME NEW row, Clipped(row) \in SUBSET Trips, IsFiniteSet(Clipped(row))
    PROVE  Merges(BookedRanges(row), Clipped(row))
<1> DEFINE C == Clipped(row)
<1>1. PICK g : g = JoinedBy(g, SUBSET C) /\ BookedRanges(row) = g[C]
  BY RangesJoined, Zenon
<1> HIDE DEF C
<1>0. C \in SUBSET Trips /\ IsFiniteSet(C)
  BY DEF C
<1> DEFINE S == {n \in Nat : \A s \in Upto(C, n) : Merges(g[s], s)}
<1>2. \A s \in SUBSET C :
         g[s] = IF s = {} THEN <<>> ELSE Join(g[s \ {LatestRange(s)}], LatestRange(s))
  BY <1>1 DEF JoinedBy
<1>3. Merges(g[{}], {})
  BY <1>2, NothingMerged
<1>4. 0 \in S
  BY <1>0, <1>3, NoneOfThem
<1>5. ASSUME NEW n \in S PROVE n + 1 \in S
  <2> SUFFICES ASSUME NEW s \in Upto(C, n + 1) PROVE Merges(g[s], s)
    OBVIOUS
  <2> SUFFICES ASSUME s # {} PROVE Merges(g[s], s)
    BY <1>3
  <2>0. s \in SUBSET C /\ Cardinality(s) <= n + 1
    BY DEF Upto
  <2>1. s \ {LatestRange(s)} \in Upto(C, n)
    BY <1>0, <2>0, WithoutLatest DEF Upto
  <2>2. Merges(g[s \ {LatestRange(s)}], s \ {LatestRange(s)})
    BY <2>1
  <2>3. s \in SUBSET Trips /\ LatestRange(s) \in s /\ \A q \in s : q.from <= LatestRange(s).from
    BY <1>0, <2>0, LatestIsOne
  <2>4. Merges(Join(g[s \ {LatestRange(s)}], LatestRange(s)), s)
    BY <2>2, <2>3, JoinMerges
  <2>5. QED
    BY <1>2, <2>0, <2>4
<1>6. S = Nat
  <2> HIDE DEF S
  <2>1. S \in SUBSET Nat
    BY DEF S
  <2>2. QED
    BY <1>4, <1>5, <2>1, CountsUp
<1>7. Cardinality(C) \in S /\ C \in Upto(C, Cardinality(C))
  BY <1>0, <1>6, FS_CardinalityType DEF Upto
<1>8. QED
  BY <1>1, <1>7 DEF C

-----------------------------------------------------------------------------
\* What is left of the bookings in a period are trips within it, of the nights taken.
LEMMA ClippedIs ==
    ASSUME NEW row \in PeriodFields, booked \subseteq Trips, IsFiniteSet(booked)
    PROVE  /\ Clipped(row) \in SUBSET Trips /\ IsFiniteSet(Clipped(row))
           /\ \A r \in Clipped(row) : row.from <= r.from /\ r.to <= row.to
           /\ \A n \in row.from..(row.to - 1) :
                  n \in BookedNights(row) <=> \E r \in Clipped(row) : r.from <= n /\ n < r.to
<1> DEFINE clip(b) == [from |-> Most(b.from, row.from), to |-> Least(b.to, row.to)]
           clips == {clip(b) : b \in booked}
           F == [b \in booked |-> clip(b)]
<1>1. /\ row.from \in Nat /\ row.from \in Days /\ row.to \in Nat /\ row.to \in Days
      /\ Days \subseteq Nat
  BY CalendarAssumption DEF PeriodFields, Days
<1>2. IsFiniteSet(clips)
  <2>1. F \in Surjection(booked, clips)
    BY DEF Surjection
  <2>2. QED
    BY <2>1, FS_Surjection
<1>3. Clipped(row) = {r \in clips : r.from < r.to}
  BY DEF Clipped
<1>4. IsFiniteSet(Clipped(row))
  <2>1. Clipped(row) \in SUBSET clips
    BY <1>3
  <2>2. QED
    BY <1>2, <2>1, FS_Subset
<1>5. ASSUME NEW b \in booked
      PROVE  /\ clip(b).from = Most(b.from, row.from) /\ clip(b).to = Least(b.to, row.to)
             /\ clip(b) \in [from: Days, to: Days]
             /\ row.from <= clip(b).from /\ clip(b).to <= row.to
             /\ b.from \in Nat /\ b.to \in Nat
  <2>1. b.from \in Days /\ b.to \in Days
    BY DEF Trips
  <2>2. b.from \in Nat /\ b.to \in Nat
    BY <1>1, <2>1
  <2>3. /\ Most(b.from, row.from) \in Days /\ row.from <= Most(b.from, row.from)
        /\ Least(b.to, row.to) \in Days /\ Least(b.to, row.to) <= row.to
    BY <1>1, <2>1, <2>2 DEF Most, Least
  <2>4. QED
    BY <2>2, <2>3
<1>6. ASSUME NEW r \in Clipped(row)
      PROVE  r \in Trips /\ row.from <= r.from /\ r.to <= row.to
  <2>1. PICK b \in booked : r = clip(b) /\ r.from < r.to
    BY <1>3
  <2>2. QED
    BY <1>5, <2>1 DEF Trips
<1>7. ASSUME NEW n \in row.from..(row.to - 1)
      PROVE  n \in BookedNights(row) <=> \E r \in Clipped(row) : r.from <= n /\ n < r.to
  <2>1. n \in Nat /\ row.from <= n /\ n < row.to
    BY <1>1
  <2>2. ASSUME NEW b \in booked, b.from <= n, n < b.to
        PROVE  \E r \in Clipped(row) : r.from <= n /\ n < r.to
    <3>1. clip(b).from <= n /\ n < clip(b).to
      BY <1>1, <1>5, <2>1, <2>2 DEF Most, Least
    <3>2. clip(b).from \in Nat /\ clip(b).to \in Nat
      BY <1>1, <1>5 
    <3>3. clip(b).from < clip(b).to
      BY <2>1, <3>1, <3>2
    <3>4. clip(b) \in Clipped(row)
      BY <1>3, <3>3
    <3>5. QED
      BY <3>1, <3>4
  <2>3. ASSUME NEW r \in Clipped(row), r.from <= n, n < r.to
        PROVE  \E b \in booked : b.from <= n /\ n < b.to
    <3>1. PICK b \in booked : r = clip(b)
      BY <1>3
    <3>2. QED
      BY <1>1, <1>5, <2>1, <2>3, <3>1 DEF Most, Least
  <2>4. QED
    BY <2>2, <2>3 DEF BookedNights
<1>8. QED
  BY <1>4, <1>6, <1>7

\* With stretches apart of each other, one that fills the period is the only one.
LEMMA OccupancyIsExact ==
    ASSUME NEW row \in PeriodFields, booked \subseteq Trips, IsFiniteSet(booked)
    PROVE  /\ Occupancy(row) = "BOOKED" <=>
                  /\ BookedNights(row) = row.from..(row.to - 1)
                  /\ row.from..(row.to - 1) # {}
           /\ Occupancy(row) = "AVAILABLE" <=> BookedNights(row) = {}
<1> DEFINE m == BookedRanges(row)
           k == Len(m)
           nights == row.from..(row.to - 1)
           spans(i, n) == m[i].from <= n /\ n < m[i].to
           whole == k = 1 /\ m[1].from <= row.from /\ m[1].to >= row.to
<1>1. Merges(m, Clipped(row))
  BY ClippedIs, BookedRangesMerge
<1>2. row.from \in Nat /\ row.to \in Nat
  BY CalendarAssumption DEF PeriodFields, Days
<1>3. Occupancy(row) = IF whole THEN "BOOKED"
                       ELSE IF m # <<>> THEN "PARTIALLY_BOOKED" ELSE "AVAILABLE"
  BY DEF Occupancy
<1>4. k \in Nat /\ m \in Seq(Trips) /\ (m = <<>> <=> k = 0)
  BY <1>1 DEF Merges
<1>5. \A i \in 1..k :
          /\ m[i].from \in Nat /\ m[i].to \in Nat /\ m[i].from < m[i].to
          /\ row.from <= m[i].from /\ m[i].to <= row.to
          /\ m[i].from < row.to /\ row.from < m[i].to
  <2> SUFFICES ASSUME NEW i \in 1..k
      PROVE  /\ m[i].from \in Nat /\ m[i].to \in Nat /\ m[i].from < m[i].to
             /\ row.from <= m[i].from /\ m[i].to <= row.to
             /\ m[i].from < row.to /\ row.from < m[i].to
    OBVIOUS
  <2>1. m[i] \in Trips
    BY <1>4
  <2>2. m[i].from \in Nat /\ m[i].to \in Nat /\ m[i].from < m[i].to
    BY <2>1, TripDays
  <2>3. PICK r \in Clipped(row) : m[i].from = r.from
    BY <1>1 DEF Merges
  <2>4. PICK q \in Clipped(row) : m[i].to = q.to
    BY <1>1 DEF Merges
  <2>5. row.from <= r.from /\ q.to <= row.to
    BY ClippedIs
  <2>6. QED
    BY <1>2, <2>2, <2>3, <2>4, <2>5
<1>6. \A n \in nights : n \in BookedNights(row) <=> \E i \in 1..k : spans(i, n)
  <2> SUFFICES ASSUME NEW n \in nights
               PROVE  n \in BookedNights(row) <=> \E i \in 1..k : spans(i, n)
    OBVIOUS
  <2>1. n \in Nat
    BY <1>2
  <2>2. n \in BookedNights(row) <=> \E r \in Clipped(row) : r.from <= n /\ n < r.to
    BY ClippedIs
  <2>3. QED
    BY <1>1, <2>1, <2>2 DEF Merges
<1>7. \A i, j \in 1..k : i < j => m[i].to < m[j].from
  BY <1>1 DEF Merges
<1>8. BookedNights(row) \subseteq nights
  BY DEF BookedNights
<1> HIDE DEF m, k
<1>9. whole => BookedNights(row) = nights /\ nights # {}
  <2> SUFFICES ASSUME whole PROVE BookedNights(row) = nights /\ nights # {}
    OBVIOUS
  <2>1. 1 \in 1..k
    OBVIOUS
  <2>2. \A n \in nights : spans(1, n)
    BY <1>2, <1>5, <2>1
  <2>3. row.from \in nights
    BY <1>2, <1>5, <2>1
  <2>4. QED
    BY <1>6, <1>8, <2>1, <2>2, <2>3
<1>10. BookedNights(row) = nights /\ nights # {} => whole
  <2> SUFFICES ASSUME BookedNights(row) = nights, nights # {} PROVE whole
    OBVIOUS
  <2>1. row.from \in nights
    BY <1>2
  <2>2. PICK i \in 1..k : spans(i, row.from)
    BY <1>6, <2>1
  <2>3. \A j \in 1..k : j < i => FALSE
    <3> SUFFICES ASSUME NEW j \in 1..k, j < i PROVE FALSE
      OBVIOUS
    <3>1. m[j].to < m[i].from
      BY <1>7
    <3>2. QED
      BY <1>2, <1>5, <2>2, <3>1
  <2>4. m[i].to >= row.to
    <3> SUFFICES ASSUME m[i].to < row.to PROVE FALSE
      BY <1>2, <1>5
    <3>1. m[i].to \in nights
      BY <1>2, <1>5
    <3>2. PICK j \in 1..k : spans(j, m[i].to)
      BY <1>6, <3>1
    <3>3. i # j /\ ~(j < i)
      BY <1>5, <2>3, <3>2
    <3>4. m[i].to < m[j].from
      BY <1>4, <1>7, <3>3
    <3>5. QED
      BY <1>5, <3>2, <3>4
  <2>5. \A j \in 1..k : i < j => FALSE
    <3> SUFFICES ASSUME NEW j \in 1..k, i < j PROVE FALSE
      OBVIOUS
    <3>1. m[i].to < m[j].from
      BY <1>7
    <3>2. QED
      BY <1>2, <1>5, <2>4, <3>1
  <2>6. k = 1 /\ i = 1
    <3>1. 1 \in 1..k /\ k \in 1..k /\ i \in Nat
      BY <1>4
    <3>2. ~(1 < i) /\ ~(i < k)
      BY <2>3, <2>5, <3>1
    <3>3. QED
      BY <1>4, <3>1, <3>2
  <2>7. QED
    BY <1>2, <2>2, <2>4, <2>6
<1>11. m = <<>> <=> BookedNights(row) = {}
  <2>1. m = <<>> => BookedNights(row) = {}
    <3>1. m = <<>> => \A i \in 1..k : FALSE
      BY <1>4
    <3>2. QED
      BY <1>6, <1>8, <3>1
  <2>2. m # <<>> => BookedNights(row) # {}
    <3> SUFFICES ASSUME m # <<>> PROVE BookedNights(row) # {}
      OBVIOUS
    <3>1. 1 \in 1..k
      BY <1>4
    <3>2. m[1].from \in nights /\ spans(1, m[1].from)
      BY <1>2, <1>5, <3>1
    <3>3. QED
      BY <1>6, <3>1, <3>2
  <2>3. QED
    BY <2>1, <2>2
<1>12. whole => m # <<>>
  BY <1>4
<1>13. QED
  BY <1>3, <1>9, <1>10, <1>11, <1>12

\* There are finitely many trips, and so finitely many bookings.
LEMMA TripsFinite == IsFiniteSet(Trips)
<1> DEFINE pairs == Days \X Days
           trip == [d \in pairs |-> [from |-> d[1], to |-> d[2]]]
           trips == {trip[d] : d \in pairs}
<1>1. IsFiniteSet(Days)
  BY CalendarAssumption, FS_Interval DEF Days
<1>2. IsFiniteSet(pairs)
  BY <1>1, FS_Product
<1>3. trip \in Surjection(pairs, trips)
  <2> HIDE DEF pairs
  <2> QED BY DEF Surjection
<1>4. IsFiniteSet(trips)
  <2> HIDE DEF pairs, trip, trips
  <2> QED BY <1>2, <1>3, FS_Surjection
<1>5. Trips \in SUBSET trips
  <2> SUFFICES ASSUME NEW t \in Trips PROVE t \in trips
    OBVIOUS
  <2>1. t.from \in Days /\ t.to \in Days /\ t = [from |-> t.from, to |-> t.to]
    BY DEF Trips
  <2>2. <<t.from, t.to>> \in pairs /\ trip[<<t.from, t.to>>] = t
    BY <2>1
  <2>3. QED
    BY <2>2
<1>6. QED
  BY <1>4, <1>5, FS_Subset

\* The page of a home calls a period booked exactly when every night of it is
\* taken by a confirmed exchange, and free exactly when none is: clipping, sorting
\* and joining the bookings (getAvailabilityOccupancy) loses no night and makes
\* none, whichever bookings overlap, touch or repeat.
THEOREM OccupancyTells == CalendarSpec => []OccupancyExact
<1>1. CalendarTypeOK => OccupancyExact
  <2> SUFFICES ASSUME CalendarTypeOK, NEW p \in Live
      PROVE  LET row == period[p]  nights == row.from..(row.to - 1) IN
             /\ (Occupancy(row) = "BOOKED" <=> BookedNights(row) = nights /\ nights # {})
             /\ (Occupancy(row) = "AVAILABLE" <=> BookedNights(row) = {})
    BY Zenon DEF OccupancyExact
  <2>1. period[p] \in PeriodFields /\ booked \subseteq Trips /\ IsFiniteSet(booked)
    BY TripsFinite, FS_Subset DEF CalendarTypeOK
  <2>2. QED
    BY <2>1, OccupancyIsExact, Zenon
<1>2. QED
  BY <1>1, CalendarTypesHold, PTL

-----------------------------------------------------------------------------
(* The wizard.  What a request or a page names exists: a home once it has a *)
(* row keeps it.                                                           *)

HomeRows == [status: Statuses, text: Texts]

\* A request as the server and the page find it.
RequestFits(w) ==
    /\ w.text <= texts
    /\ IF w.op = "create" /\ w.pc # "answered" THEN w.id = 0 ELSE w.id \in Rows
    /\ w.pc = "read" => w.op # "create" /\ w.saw \in Takes(w.op)
    /\ w.pc = "answered" /\ w.ok => w.saw \in Statuses

RequestsFit == \A s \in Saves : saving[s] # Free => RequestFits(saving[s])

\* The requests the page listens to are its own, and of its home.
PageFits ==
    editor.open =>
        /\ editor.form <= texts /\ editor.base <= texts
        /\ editor.id \in Rows \cup {0}
        /\ editor.id = 0 => editor.new /\ editor.at = "form"
        /\ editor.after \in {"stay", "submit"} => editor.at = "after"
        /\ editor.auto # None =>
               saving[editor.auto].op = "update" /\ saving[editor.auto].id = editor.id
        /\ Waiting => /\ saving[editor.wait] # Free /\ editor.wait # editor.auto
                      /\ IF saving[editor.wait].op = "create" THEN editor.id = 0
                         ELSE saving[editor.wait].id = editor.id
        /\ ~editor.shown => Waiting /\ editor.auto = None

\* A list of the queue that is up to date says of a home what its row says.
ListTells ==
    queue # NoList =>
        /\ queue.id \in Rows
        /\ queue.fresh => /\ stored[queue.id].status = "PENDING_MODERATION"
                          /\ stored[queue.id].text = queue.text

StoredTyped ==
    /\ stored \in Seq(HomeRows) /\ Len(stored) <= MaxHomes
    /\ \A id \in Rows : stored[id].text <= texts

RequestsTyped == saving \in [Saves -> Working \cup {Free}] /\ RequestsFit

PageTyped ==
    /\ editor \in Editors \cup {Closed} /\ PageFits
    /\ editor.open => (editor.wait = None <=> editor.after = None)

QueueTyped == queue \in [id: Ids, text: Texts, fresh: BOOLEAN] \cup {NoList} /\ ListTells

CountsTyped ==
    /\ local \in Texts /\ local <= texts /\ texts \in Texts
    /\ trouble \in 0..MaxTrouble /\ risk \in BOOLEAN

WizardTyped == StoredTyped /\ RequestsTyped /\ PageTyped /\ QueueTyped /\ CountsTyped

\* Request s is an update of home id that the server has not done yet.
Writes(s, id) ==
    saving[s].op = "update" /\ saving[s].id = id /\ saving[s].pc # "answered"

\* Home id has text t, whatever the server does next.
Holds(id, t) ==
    stored[id].text = t /\ \A s \in Saves : Writes(s, id) => saving[s].text = t

OneWrites == \A id \in Rows : \A s, r \in Saves : Writes(s, id) /\ Writes(r, id) => s = r

\* What the page takes to be saved is: in localStorage before the home has a
\* row, in the row afterwards.
CleanIsKept ==
    ~Dirty => IF editor.id = 0 THEN local = editor.form ELSE Holds(editor.id, editor.form)

\* An autosave that was answered has stored its text, and nothing was sent since.
AutosaveStored ==
    LET w == saving[editor.auto] IN
    editor.auto # None /\ w.pc = "answered" /\ w.ok =>
        stored[editor.id].text = w.text /\ \A s \in Saves : ~Writes(s, editor.id)

\* What the page waits for carries what the form holds, and has stored it when
\* it was answered.
WaitStores ==
    LET w == saving[editor.wait] IN
    Waiting =>
        /\ w.text = editor.form
        /\ w.op # "submit" /\ w.pc = "answered" /\ w.ok => Holds(w.id, w.text)

\* If the newest text is stored or about to be, the page of its home has it.
FormIsNewest ==
    editor.id # 0 =>
        /\ stored[editor.id].text = texts => editor.form = texts
        /\ \A s \in Saves : Writes(s, editor.id) /\ saving[s].text = texts
                                => editor.form = texts

\* localStorage has nothing newer than the page of a new home.
LocalIsOld == editor.new => local = editor.form \/ local < texts \/ local = 0

\* A page is left only with its text kept.
LeftClean == ~editor.shown => ~Dirty \/ local = editor.form

PageKeeps == /\ CleanIsKept /\ AutosaveStored /\ WaitStores /\ FormIsNewest
             /\ LocalIsOld /\ LeftClean

NewestHeld ==
    \/ texts \in {0, local}
    \/ editor.open /\ editor.form = texts
    \/ \E id \in Rows : Holds(id, texts)

TextsKept == OneWrites /\ NewestHeld /\ (editor.open => PageKeeps)

WizardInv == WizardTyped /\ (~risk => TextsKept)

-----------------------------------------------------------------------------
LEMMA StoredRow == ASSUME StoredTyped, NEW id \in Rows PROVE stored[id] \in HomeRows
BY ElementOfSeq DEF StoredTyped, Rows

LEMMA RowIds == ASSUME StoredTyped PROVE Rows \subseteq Nat \ {0} /\ Rows \subseteq Ids
BY LenProperties, WizardAssumption DEF StoredTyped, Rows, Ids

LEMMA TypesOfWizard == WizardTyped => WizardTypeOK
BY StoredRow DEF WizardTyped, WizardTypeOK, StoredTyped, RequestsTyped, PageTyped, QueueTyped,
   CountsTyped, HomeRows

LEMMA WizardTypedInit == WizardInit => WizardTyped
<1> SUFFICES ASSUME WizardInit PROVE WizardTyped
  OBVIOUS
<1> USE WizardAssumption DEF WizardInit
<1>1. StoredTyped
  BY EmptySeq DEF StoredTyped, Rows
<1>2. RequestsTyped
  BY DEF RequestsTyped, RequestsFit
<1>3. PageTyped
  BY DEF PageTyped, PageFits, Closed
<1>4. QueueTyped /\ CountsTyped
  <2>1. 0 \in Nat /\ 0 <= MaxTexts /\ 0 <= MaxTrouble
    OBVIOUS
  <2>2. QueueTyped
    BY DEF QueueTyped, ListTells
  <2>3. local \in Texts /\ local <= texts /\ texts \in Texts /\ trouble \in 0..MaxTrouble
    BY <2>1, SMT DEF Texts
  <2>4. risk \in BOOLEAN
    BY Zenon
  <2>5. QED
    BY <2>2, <2>3, <2>4 DEF CountsTyped
<1>5. QED
  BY <1>1, <1>2, <1>3, <1>4 DEF WizardTyped

LEMMA StoredStays ==
    ASSUME StoredTyped, CountsTyped, stored' = stored, texts' \in Texts, texts <= texts'
    PROVE  StoredTyped'
<1>1. \A id \in Rows : stored[id].text \in Nat
  BY StoredRow DEF HomeRows, Texts
<1>2. \A id \in Rows : stored[id].text <= texts'
  BY <1>1, WizardAssumption DEF StoredTyped, CountsTyped, Texts
<1>3. QED
  BY <1>2 DEF StoredTyped, Rows

LEMMA RowStored ==
    ASSUME StoredTyped, CountsTyped, NEW id \in Rows, NEW row \in HomeRows, row.text <= texts,
           stored' = [stored EXCEPT ![id] = row], texts' = texts
    PROVE  /\ StoredTyped' /\ Rows' = Rows
           /\ \A i \in Rows : stored'[i] = IF i = id THEN row ELSE stored[i]
<1>1. id \in 1..Len(stored) /\ stored \in Seq(HomeRows)
  BY DEF StoredTyped, Rows
<1>2. /\ stored' \in Seq(HomeRows) /\ Len(stored') = Len(stored)
      /\ \A i \in 1..Len(stored) : stored'[i] = IF i = id THEN row ELSE stored[i]
  BY <1>1, ExceptSeq
<1>3. QED
  BY <1>1, <1>2 DEF StoredTyped, Rows

LEMMA RowAppended ==
    ASSUME StoredTyped, CountsTyped, NEW row \in HomeRows, row.text <= texts,
           Len(stored) < MaxHomes, stored' = Append(stored, row), texts' = texts
    PROVE  /\ StoredTyped' /\ Len(stored') = Len(stored) + 1 /\ Rows \subseteq Rows'
           /\ Rows' = Rows \cup {Len(stored')} /\ Len(stored') \notin Rows
           /\ \A i \in Rows : stored'[i] = stored[i]
           /\ stored'[Len(stored')] = row
<1>1. stored \in Seq(HomeRows) /\ Len(stored) \in Nat
  BY LenProperties DEF StoredTyped
<1>2. /\ stored' \in Seq(HomeRows) /\ Len(stored') = Len(stored) + 1
      /\ \A i \in 1..Len(stored) : stored'[i] = stored[i]
      /\ stored'[Len(stored) + 1] = row
  BY <1>1, AppendProperties
<1>3. QED
  BY <1>1, <1>2, WizardAssumption DEF StoredTyped, Rows

-----------------------------------------------------------------------------
(* What is there stays.                                                    *)

\* RequestFits after a step.
RequestFitsNow(w) ==
    /\ w.text <= texts'
    /\ IF w.op = "create" /\ w.pc # "answered" THEN w.id = 0 ELSE w.id \in Rows'
    /\ w.pc = "read" => w.op # "create" /\ w.saw \in Takes(w.op)
    /\ w.pc = "answered" /\ w.ok => w.saw \in Statuses

\* Homes and texts are never fewer than they were.
Grows == Rows \subseteq Rows' /\ texts \in Texts /\ texts' \in Texts /\ texts <= texts'

LEMMA TextsAreNaturals == Texts \subseteq Nat
BY DEF Texts

LEMMA FreeIsNoRequest == Free \notin Working
<1> SUFFICES ASSUME Free \in Working PROVE FALSE
  OBVIOUS
<1>1. Free.op \in {"create", "update", "submit"}
  BY DEF Working
<1>2. QED
  BY <1>1 DEF Free

LEMMA RequestRow ==
    ASSUME RequestsTyped, NEW s \in Saves, saving[s].op \in {"create", "update", "submit"}
    PROVE  saving[s] # Free /\ saving[s] \in Working /\ RequestFits(saving[s])
<1>1. saving[s] # Free
  BY DEF Free
<1>2. QED
  BY <1>1 DEF RequestsTyped, RequestsFit

LEMMA AskedRow ==
    ASSUME RequestsTyped, NEW s \in Saves, saving[s] # Free
    PROVE  /\ saving[s] \in Working /\ RequestFits(saving[s])
           /\ saving[s].op \in {"create", "update", "submit"}
BY DEF RequestsTyped, RequestsFit, Working

LEMMA FitsOn ==
    ASSUME RequestsTyped, NEW s \in Saves, saving[s] # Free, Grows
    PROVE  RequestFitsNow(saving[s])
<1>1. saving[s] \in Working /\ RequestFits(saving[s])
  BY AskedRow
<1>2. saving[s].text \in Nat /\ texts \in Nat /\ texts' \in Nat
  BY <1>1, TextsAreNaturals DEF Working, Grows
<1>3. saving[s].text <= texts'
  BY <1>1, <1>2 DEF RequestFits, Grows
<1>4. QED
  BY <1>1, <1>3 DEF RequestFits, RequestFitsNow, Grows

LEMMA RequestsStay ==
    ASSUME RequestsTyped, saving' = saving, Grows
    PROVE  RequestsTyped'
<1>1. \A s \in Saves : saving[s] # Free => RequestFitsNow(saving[s])
  BY FitsOn
<1>2. QED
  BY <1>1 DEF RequestsTyped, RequestsFit, RequestFits, RequestFitsNow

LEMMA RequestSet ==
    ASSUME RequestsTyped, NEW s \in Saves, NEW w, w \in Working \cup {Free},
           w # Free => RequestFitsNow(w), saving' = [saving EXCEPT ![s] = w], Grows
    PROVE  /\ RequestsTyped' /\ saving'[s] = w
           /\ \A r \in Saves \ {s} : saving'[r] = saving[r]
<1>1. /\ saving' \in [Saves -> Working \cup {Free}] /\ saving'[s] = w
      /\ \A r \in Saves \ {s} : saving'[r] = saving[r]
  BY DEF RequestsTyped
<1>2. \A r \in Saves : saving'[r] # Free => RequestFitsNow(saving'[r])
  BY <1>1, FitsOn
<1>3. RequestsTyped'
  BY <1>1, <1>2 DEF RequestsTyped, RequestsFit, RequestFits, RequestFitsNow
<1>4. QED
  BY <1>1, <1>3

\* The page stays as long as what it listens to is there.
LEMMA PageStays ==
    ASSUME PageTyped, editor' = editor, Grows,
           \A s \in Saves : Heard(s) =>
               /\ saving'[s] # Free /\ saving'[s].op = saving[s].op
               /\ saving[s].op # "create" => saving'[s].id = saving[s].id
    PROVE  PageTyped'
<1> SUFFICES ASSUME editor.open PROVE PageFits'
  BY DEF PageTyped, PageFits
<1>1. editor \in Editors
  BY DEF PageTyped, Closed
<1>2. /\ editor.auto \in Saves \cup {None} /\ editor.wait \in Saves \cup {None}
      /\ editor.form \in Nat /\ editor.base \in Nat /\ texts \in Nat /\ texts' \in Nat
  BY <1>1, TextsAreNaturals DEF Editors, Grows
<1>3. editor.form <= texts' /\ editor.base <= texts'
  BY <1>2 DEF PageTyped, PageFits, Grows
<1>4. editor.auto # None =>
        saving'[editor.auto].op = "update" /\ saving'[editor.auto].id = editor.id
  BY <1>2 DEF PageTyped, PageFits, Heard
<1>5. Waiting => /\ saving'[editor.wait] # Free
                 /\ IF saving'[editor.wait].op = "create" THEN editor.id = 0
                    ELSE saving'[editor.wait].id = editor.id
  BY <1>2 DEF PageTyped, PageFits, Heard, Waiting
<1>6. QED
  BY <1>3, <1>4, <1>5 DEF PageTyped, PageFits, Waiting, Grows

LEMMA QueueStays ==
    ASSUME QueueTyped, queue' = queue, Rows \subseteq Rows',
           \A id \in Rows : stored'[id] = stored[id]
    PROVE  QueueTyped'
BY DEF QueueTyped, ListTells

LEMMA NothingGrows ==
    ASSUME CountsTyped, stored' = stored, texts' = texts
    PROVE  Grows /\ Rows' = Rows
<1>1. texts \in Nat
  BY TextsAreNaturals DEF CountsTyped
<1>2. Rows' = Rows
  BY DEF Rows
<1>3. QED
  BY <1>1, <1>2 DEF CountsTyped, Grows

-----------------------------------------------------------------------------
(* The server's steps.                                                     *)

\* What an answer leaves of a request.
Reply(w, ok, status) == [w EXCEPT !.pc = "answered", !.ok = ok, !.saw = status]

LEMMA ReplyRow ==
    ASSUME NEW w \in Working, NEW ok \in BOOLEAN, NEW status \in Statuses \cup {None}
    PROVE  LET reply == Reply(w, ok, status) IN
           /\ reply \in Working /\ reply # Free
           /\ reply.op = w.op /\ reply.id = w.id /\ reply.text = w.text
           /\ reply.pc = "answered" /\ reply.saw = status /\ reply.ok = ok
<1>1. Reply(w, ok, status) \in Working
  BY DEF Working, Reply
<1>2. QED
  BY <1>1, FreeIsNoRequest DEF Reply, Working

\* An answer: whoever listens finds it, else the request is over.
RequestAnswered(s, ok, status) ==
    IF Heard(s) THEN saving'[s] = Reply(saving[s], ok, status) ELSE saving'[s] = Free

LEMMA AnswerStep ==
    ASSUME WizardTyped, NEW s \in Saves, saving[s].op \in {"update", "submit"},
           NEW ok \in BOOLEAN, NEW status \in Statuses \cup {None}, ok => status \in Statuses,
           Answer(s, ok, status), editor' = editor, Grows
    PROVE  /\ RequestsTyped' /\ PageTyped' /\ RequestAnswered(s, ok, status)
           /\ \A r \in Saves \ {s} : saving'[r] = saving[r]
<1>1. saving[s] \in Working /\ saving[s] # Free /\ RequestFits(saving[s]) /\ RequestFitsNow(saving[s])
  BY RequestRow, FitsOn DEF WizardTyped
<1> DEFINE w == IF Heard(s) THEN Reply(saving[s], ok, status) ELSE Free
<1>2. saving' = [saving EXCEPT ![s] = w]
  BY Zenon DEF Answer, Reply
<1>3. w \in Working \cup {Free}
  BY <1>1, ReplyRow
<1>4. w # Free => RequestFitsNow(w)
  BY <1>1, ReplyRow DEF RequestFitsNow
<1>5. /\ RequestsTyped' /\ saving'[s] = w /\ \A r \in Saves \ {s} : saving'[r] = saving[r]
  <2> HIDE DEF w
  <2> QED
    BY <1>2, <1>3, <1>4, RequestSet DEF WizardTyped
<1>6. RequestAnswered(s, ok, status)
  BY <1>5 DEF RequestAnswered
<1>7. PageTyped'
  <2>1. \A r \in Saves : Heard(r) => saving[r] # Free
    BY NoneIsNoSave DEF WizardTyped, PageTyped, PageFits, Heard, Waiting, Free
  <2>2. \A r \in Saves : Heard(r) =>
          /\ saving'[r] # Free /\ saving'[r].op = saving[r].op
          /\ saving[r].op # "create" => saving'[r].id = saving[r].id
    BY <1>1, <1>5, <1>6, <2>1, ReplyRow DEF RequestAnswered
  <2>3. QED
    BY <2>2, PageStays DEF WizardTyped
<1>8. QED
  BY <1>5, <1>6, <1>7

\* A row is written, and the list of the queue with it.
LEMMA StoresStep ==
    ASSUME WizardTyped, NEW id \in Rows, NEW row, row \in HomeRows, row.text <= texts,
           row.status = "PENDING_MODERATION" => row.text = stored[id].text,
           Stores(id, row), texts' = texts
    PROVE  /\ StoredTyped' /\ QueueTyped' /\ Rows' = Rows /\ Grows
           /\ \A i \in Rows : stored'[i] = IF i = id THEN row ELSE stored[i]
<1>1. stored' = [stored EXCEPT ![id] = row]
  BY DEF Stores
<1>2. /\ StoredTyped' /\ Rows' = Rows
      /\ \A i \in Rows : stored'[i] = IF i = id THEN row ELSE stored[i]
  BY <1>1, RowStored DEF WizardTyped
<1>3. Grows
  BY <1>2, TextsAreNaturals DEF Grows, WizardTyped, CountsTyped
<1>4. QueueTyped'
  <2>1. QueueTyped
    BY DEF WizardTyped
  <2>2. CASE queue.fresh /\ queue.id = id /\ row.status # "PENDING_MODERATION"
    <3>1. queue' = [queue EXCEPT !.fresh = FALSE]
      BY <2>2 DEF Stores
    <3>2. queue # NoList
      BY <2>2 DEF NoList
    <3>3. queue \in [id: Ids, text: Texts, fresh: BOOLEAN]
      BY <2>1, <3>2 DEF QueueTyped
    <3>4. queue' \in [id: Ids, text: Texts, fresh: BOOLEAN] /\ ~queue'.fresh /\ queue'.id = id
      BY <2>2, <3>1, <3>3
    <3>5. QED
      BY <1>2, <3>4 DEF QueueTyped, ListTells
  <2>3. CASE ~(queue.fresh /\ queue.id = id /\ row.status # "PENDING_MODERATION")
    <3>1. queue' = queue
      BY <2>3 DEF Stores
    <3>2. queue # NoList => queue.id \in Rows'
      BY <1>2, <2>1 DEF QueueTyped, ListTells
    <3>3. queue # NoList /\ queue.fresh =>
              /\ stored'[queue.id].status = "PENDING_MODERATION"
              /\ stored'[queue.id].text = queue.text
      BY <1>2, <2>1, <2>3 DEF QueueTyped, ListTells
    <3>4. QED
      BY <2>1, <3>1, <3>2, <3>3 DEF QueueTyped, ListTells
  <2>4. QED
    BY <2>2, <2>3
<1>5. QED
  BY <1>2, <1>3, <1>4

\* A request that reaches the server for a home names a row.
LEMMA AsksForRow ==
    ASSUME WizardTyped, NEW s \in Saves, saving[s].op \in {"update", "submit"}
    PROVE  /\ saving[s] \in Working /\ saving[s] # Free /\ RequestFits(saving[s])
           /\ saving[s].id \in Rows /\ stored[saving[s].id] \in HomeRows
<1>1. saving[s] \in Working /\ saving[s] # Free /\ RequestFits(saving[s])
  BY RequestRow DEF WizardTyped
<1>2. saving[s].id \in Rows
  BY <1>1 DEF RequestFits
<1>3. QED
  BY <1>1, <1>2, StoredRow DEF WizardTyped

LEMMA CreateTyped ==
    ASSUME WizardTyped, NEW s \in Saves, Create(s)
    PROVE  /\ WizardTyped' /\ Rows \subseteq Rows' /\ Len(stored') \notin Rows
           /\ \A i \in Rows : stored'[i] = stored[i]
           /\ stored'[Len(stored')].text = saving[s].text
           /\ \A r \in Saves \ {s} : saving'[r] = saving[r]
           /\ IF Heard(s) THEN /\ saving'[s].op = "create" /\ saving'[s].pc = "answered"
                               /\ saving'[s].id = Len(stored') /\ Len(stored') \in Rows'
                               /\ saving'[s].text = saving[s].text
              ELSE saving'[s] = Free
<1>1. saving[s] \in Working /\ saving[s] # Free /\ RequestFits(saving[s])
  BY RequestRow DEF WizardTyped, Create
<1> DEFINE row == [status |-> "DRAFT", text |-> saving[s].text]
<1>2. row \in HomeRows /\ row.text <= texts
  BY <1>1 DEF HomeRows, Statuses, Working, RequestFits
<1>3. stored' = Append(stored, row) /\ Len(stored) < MaxHomes /\ texts' = texts
      /\ local' = local /\ editor' = editor /\ queue' = queue
      /\ trouble' = trouble /\ risk' = risk
  BY DEF Create
<1>4. /\ StoredTyped' /\ Len(stored') = Len(stored) + 1 /\ Rows \subseteq Rows'
      /\ Rows' = Rows \cup {Len(stored')} /\ Len(stored') \notin Rows
      /\ \A i \in Rows : stored'[i] = stored[i]
      /\ stored'[Len(stored')] = row
  <2> HIDE DEF row
  <2> QED
    BY <1>2, <1>3, RowAppended DEF WizardTyped
<1>5. Grows
  BY <1>3, <1>4, TextsAreNaturals DEF Grows, WizardTyped, CountsTyped
<1>6. Len(stored') \in Rows' /\ Len(stored') \in Ids /\ Len(stored') # 0
  <2>1. Len(stored) \in Nat
    BY LenProperties DEF WizardTyped, StoredTyped
  <2>2. Len(stored') <= MaxHomes
    BY <1>4 DEF StoredTyped
  <2>3. QED
    BY <1>4, <2>1, <2>2, WizardAssumption DEF Ids
<1> DEFINE reply == [saving[s] EXCEPT !.pc = "answered", !.ok = TRUE, !.saw = "DRAFT",
                                      !.id = Len(stored')]
           w == IF Heard(s) THEN reply ELSE Free
<1>7. saving' = [saving EXCEPT ![s] = w]
  BY Zenon DEF Create
<1>8. /\ reply \in Working /\ reply.op = "create" /\ reply.pc = "answered" /\ reply.saw = "DRAFT"
      /\ reply.id = Len(stored') /\ reply.text = saving[s].text
  BY <1>1, <1>6 DEF Working, Create, Statuses
<1>9. reply # Free /\ RequestFitsNow(reply)
  BY <1>1, <1>3, <1>6, <1>8, FreeIsNoRequest DEF RequestFitsNow, RequestFits, Statuses
<1>10. w \in Working \cup {Free} /\ (w # Free => RequestFitsNow(w))
  BY <1>8, <1>9
<1>11. RequestsTyped' /\ saving'[s] = w /\ \A r \in Saves \ {s} : saving'[r] = saving[r]
  <2> HIDE DEF w
  <2> QED
    BY <1>5, <1>7, <1>10, RequestSet DEF WizardTyped
<1>12. PageTyped'
  <2>1. \A r \in Saves : Heard(r) => saving[r] # Free
    BY NoneIsNoSave DEF WizardTyped, PageTyped, PageFits, Heard, Waiting, Free
  <2>2. \A r \in Saves : Heard(r) =>
          /\ saving'[r] # Free /\ saving'[r].op = saving[r].op
          /\ saving[r].op # "create" => saving'[r].id = saving[r].id
    <3> HIDE DEF reply
    <3> QED
      BY <1>8, <1>9, <1>11, <2>1 DEF Create
  <2>3. QED
    BY <1>3, <1>5, <2>2, PageStays DEF WizardTyped
<1>13. QueueTyped' /\ CountsTyped'
  BY <1>3, <1>4, QueueStays DEF WizardTyped, CountsTyped
<1>14. WizardTyped'
  BY <1>4, <1>11, <1>12, <1>13 DEF WizardTyped
<1>15. QED
  <2> HIDE DEF reply
  <2> QED
    BY <1>4, <1>6, <1>8, <1>11, <1>14

\* Reading a row changes nothing but the request.
LEMMA ReadTyped ==
    ASSUME WizardTyped, NEW s \in Saves, ReadRow(s)
    PROVE  /\ WizardTyped'
           /\ \A r \in Saves \ {s} : saving'[r] = saving[r]
           /\ \/ RequestAnswered(s, FALSE, None)
              \/ /\ saving'[s].op = saving[s].op /\ saving'[s].id = saving[s].id
                 /\ saving'[s].text = saving[s].text /\ saving'[s].pc = "read"
<1>1. /\ saving[s] \in Working /\ saving[s] # Free /\ RequestFits(saving[s])
      /\ saving[s].id \in Rows /\ stored[saving[s].id] \in HomeRows
  BY AsksForRow DEF ReadRow
<1>2. Grows /\ Rows' = Rows
  BY NothingGrows DEF WizardTyped, ReadRow
<1>3. StoredTyped' /\ QueueTyped' /\ CountsTyped'
  BY <1>2, StoredStays, QueueStays DEF WizardTyped, ReadRow, Grows, CountsTyped
<1> DEFINE status == stored[saving[s].id].status
<1>4. CASE /\ status \in Takes(saving[s].op)
           /\ saving' = [saving EXCEPT ![s].pc = "read", ![s].saw = status]
  <2> DEFINE w == [saving[s] EXCEPT !.pc = "read", !.saw = status]
  <2>1. saving' = [saving EXCEPT ![s] = w]
    BY <1>1, <1>4 DEF WizardTyped, RequestsTyped
  <2>2. /\ w \in Working /\ w.op = saving[s].op /\ w.id = saving[s].id
        /\ w.text = saving[s].text /\ w.pc = "read" /\ w.saw = status
    BY <1>1 DEF Working, HomeRows
  <2>3. w # Free /\ RequestFitsNow(w)
    <3>1. RequestFitsNow(saving[s])
      BY <1>1, <1>2, FitsOn DEF WizardTyped
    <3>2. w # Free
      BY <2>2, FreeIsNoRequest
    <3>3. QED
      BY <1>1, <1>4, <2>2, <3>1, <3>2 DEF RequestFitsNow, ReadRow
  <2>4. RequestsTyped' /\ saving'[s] = w /\ \A r \in Saves \ {s} : saving'[r] = saving[r]
    <3> HIDE DEF w
    <3> QED
      BY <1>2, <2>1, <2>2, <2>3, RequestSet DEF WizardTyped
  <2>5. PageTyped'
    <3>1. \A r \in Saves : Heard(r) => saving[r] # Free
      BY NoneIsNoSave DEF WizardTyped, PageTyped, PageFits, Heard, Waiting, Free
    <3>2. \A r \in Saves : Heard(r) =>
          /\ saving'[r] # Free /\ saving'[r].op = saving[r].op
          /\ saving[r].op # "create" => saving'[r].id = saving[r].id
      <4> HIDE DEF w
      <4> QED
        BY <2>2, <2>3, <2>4, <3>1
    <3>3. QED
      BY <1>2, <3>2, PageStays DEF WizardTyped, ReadRow
  <2>6. QED
    <3> HIDE DEF w
    <3> QED
      BY <1>3, <2>2, <2>4, <2>5 DEF WizardTyped
<1>5. CASE Answer(s, FALSE, None)
  <2>1. /\ RequestsTyped' /\ PageTyped' /\ RequestAnswered(s, FALSE, None)
        /\ \A r \in Saves \ {s} : saving'[r] = saving[r]
    BY <1>2, <1>5, AnswerStep DEF ReadRow
  <2>2. QED
    BY <1>3, <2>1 DEF WizardTyped
<1>6. QED
  BY <1>4, <1>5 DEF ReadRow

\* What an update writes is never for moderators to see nor public.
LEMMA StatusWritten ==
    ASSUME WizardTyped, NEW s \in Saves, saving[s].op = "update", saving[s].pc = "read"
    PROVE  StatusAfter(s) \in {"DRAFT", "REJECTED"}
<1>1. RequestFits(saving[s])
  BY AsksForRow
<1>2. saving[s].saw \in Statuses \ {"PENDING_MODERATION"}
  BY <1>1 DEF RequestFits, Takes
<1>3. QED
  BY <1>2 DEF StatusAfter, Statuses

LEMMA WriteTyped ==
    ASSUME WizardTyped, NEW s \in Saves, WriteRow(s)
    PROVE  /\ WizardTyped' /\ Rows' = Rows
           /\ \A i \in Rows : stored'[i].text =
                  IF i = saving[s].id THEN saving[s].text ELSE stored[i].text
           /\ \A i \in Rows : stored'[i].status = "PUBLISHED" => stored[i].status = "PUBLISHED"
           /\ RequestAnswered(s, TRUE, StatusAfter(s))
           /\ \A r \in Saves \ {s} : saving'[r] = saving[r]
<1>1. /\ saving[s] \in Working /\ saving[s] # Free /\ RequestFits(saving[s])
      /\ saving[s].id \in Rows /\ stored[saving[s].id] \in HomeRows
  BY AsksForRow DEF WriteRow
<1>2. StatusAfter(s) \in {"DRAFT", "REJECTED"}
  BY StatusWritten DEF WriteRow
<1> DEFINE row == [status |-> StatusAfter(s), text |-> saving[s].text]
<1>3. /\ row \in HomeRows /\ row.text = saving[s].text /\ row.text <= texts
      /\ row.status \in {"DRAFT", "REJECTED"}
  BY <1>1, <1>2 DEF HomeRows, Statuses, Working, RequestFits
<1>4. Stores(saving[s].id, row) /\ Answer(s, TRUE, StatusAfter(s))
  BY DEF WriteRow
<1>5. local' = local /\ editor' = editor /\ texts' = texts /\ trouble' = trouble /\ risk' = risk
  BY DEF WriteRow
<1>6. /\ StoredTyped' /\ QueueTyped' /\ Rows' = Rows /\ Grows
      /\ \A i \in Rows : stored'[i] = IF i = saving[s].id THEN row ELSE stored[i]
  <2> HIDE DEF row
  <2> QED
    BY <1>1, <1>3, <1>4, <1>5, StoresStep
<1>7. /\ RequestsTyped' /\ PageTyped' /\ RequestAnswered(s, TRUE, StatusAfter(s))
      /\ \A r \in Saves \ {s} : saving'[r] = saving[r]
  BY <1>2, <1>4, <1>5, <1>6, AnswerStep DEF WriteRow, Statuses
<1>8. CountsTyped'
  BY <1>5 DEF WizardTyped, CountsTyped
<1>9. WizardTyped'
  BY <1>6, <1>7, <1>8 DEF WizardTyped
<1>10. QED
  <2> HIDE DEF row
  <2> QED
    BY <1>3, <1>6, <1>7, <1>9

LEMMA SubmitTyped ==
    ASSUME WizardTyped, NEW s \in Saves, SubmitRow(s)
    PROVE  /\ WizardTyped' /\ Rows' = Rows
           /\ \A i \in Rows : stored'[i].text = stored[i].text
           /\ \A i \in Rows : stored'[i].status = "PUBLISHED" => stored[i].status = "PUBLISHED"
           /\ \E ok \in BOOLEAN, status \in Statuses \cup {None} : RequestAnswered(s, ok, status)
           /\ \A r \in Saves \ {s} : saving'[r] = saving[r]
<1>1. /\ saving[s] \in Working /\ saving[s] # Free /\ RequestFits(saving[s])
      /\ saving[s].id \in Rows /\ stored[saving[s].id] \in HomeRows
  BY AsksForRow DEF SubmitRow
<1>2. local' = local /\ editor' = editor /\ texts' = texts /\ trouble' = trouble /\ risk' = risk
  BY DEF SubmitRow
<1>3. CountsTyped'
  BY <1>2 DEF WizardTyped, CountsTyped
<1> DEFINE old == stored[saving[s].id]
           row == [old EXCEPT !.status = "PENDING_MODERATION"]
<1>4. CASE old.status = saving[s].saw
  <2>1. /\ row \in HomeRows /\ row.text = old.text /\ row.text <= texts
        /\ row.status = "PENDING_MODERATION"
    BY <1>1 DEF HomeRows, Statuses, WizardTyped, StoredTyped
  <2>2. Stores(saving[s].id, row) /\ Answer(s, TRUE, "PENDING_MODERATION")
    BY <1>4 DEF SubmitRow
  <2>3. /\ StoredTyped' /\ QueueTyped' /\ Rows' = Rows /\ Grows
        /\ \A i \in Rows : stored'[i] = IF i = saving[s].id THEN row ELSE stored[i]
    <3> HIDE DEF row
    <3> QED
      BY <1>1, <1>2, <2>1, <2>2, StoresStep
  <2>4. "PENDING_MODERATION" \in Statuses
    BY DEF Statuses
  <2>5. /\ RequestsTyped' /\ PageTyped' /\ RequestAnswered(s, TRUE, "PENDING_MODERATION")
        /\ \A r \in Saves \ {s} : saving'[r] = saving[r]
    BY <1>2, <2>2, <2>3, <2>4, AnswerStep DEF SubmitRow
  <2>6. WizardTyped'
    BY <1>3, <2>3, <2>5 DEF WizardTyped
  <2>7. QED
    <3> HIDE DEF row
    <3> QED
      BY <2>1, <2>3, <2>4, <2>5, <2>6
<1>5. CASE old.status # saving[s].saw
  <2>1. Answer(s, FALSE, None) /\ stored' = stored /\ queue' = queue
    BY <1>5 DEF SubmitRow
  <2>2. Grows /\ Rows' = Rows
    BY <1>2, <2>1, NothingGrows DEF WizardTyped
  <2>3. StoredTyped' /\ QueueTyped'
    BY <1>2, <2>1, <2>2, StoredStays, QueueStays DEF WizardTyped, Grows
  <2>4. /\ RequestsTyped' /\ PageTyped' /\ RequestAnswered(s, FALSE, None)
        /\ \A r \in Saves \ {s} : saving'[r] = saving[r]
    BY <1>2, <2>1, <2>2, AnswerStep DEF SubmitRow
  <2>5. QED
    BY <1>3, <2>1, <2>2, <2>3, <2>4 DEF WizardTyped
<1>6. QED
  BY <1>4, <1>5

-----------------------------------------------------------------------------
(* Another tab and a moderator.                                            *)

LEMMA ActionTyped ==
    ASSUME WizardTyped, NEW id \in Rows, NEW m \in Moves, RunAction(id, m)
    PROVE  /\ WizardTyped' /\ Rows' = Rows
           /\ \A i \in Rows : stored'[i].text = stored[i].text
           /\ \A i \in Rows : stored'[i].status = "PUBLISHED"
                                  => stored[i].status \in {"PUBLISHED", "HIDDEN"}
<1> DEFINE row == [stored[id] EXCEPT !.status = m[2]]
<1>1. m[2] \in {"DRAFT", "HIDDEN", "PUBLISHED"} /\ (m[2] = "PUBLISHED" => m[1] = "HIDDEN")
  BY DEF Moves
<1>2. stored[id] \in HomeRows /\ stored[id].text <= texts
  BY StoredRow DEF WizardTyped, StoredTyped
<1>3. /\ row \in HomeRows /\ row.text = stored[id].text /\ row.status = m[2]
  BY <1>1, <1>2 DEF HomeRows, Statuses
<1>4. /\ StoredTyped' /\ QueueTyped' /\ Rows' = Rows /\ Grows
      /\ \A i \in Rows : stored'[i] = IF i = id THEN row ELSE stored[i]
  <2>1. Stores(id, row) /\ texts' = texts
    BY DEF RunAction
  <2> HIDE DEF row
  <2>2. QED
    BY <1>1, <1>2, <1>3, <2>1, StoresStep
<1>5. RequestsTyped' /\ PageTyped'
  <2>1. \A r \in Saves : Heard(r) => saving[r] # Free
    BY NoneIsNoSave DEF WizardTyped, PageTyped, PageFits, Heard, Waiting, Free
  <2>2. QED
    BY <1>4, <2>1, RequestsStay, PageStays DEF WizardTyped, RunAction
<1>6. CountsTyped'
  BY WizardAssumption DEF WizardTyped, CountsTyped, RunAction
<1>7. QED
  <2>1. WizardTyped'
    BY <1>4, <1>5, <1>6 DEF WizardTyped
  <2>2. stored[id].status = m[1]
    BY DEF RunAction
  <2> HIDE DEF row
  <2>3. QED
    BY <1>1, <1>3, <1>4, <2>1, <2>2

\* The rest of a step that leaves the rows, the requests and the page alone.
LEMMA AllElseStays ==
    ASSUME WizardTyped, UNCHANGED <<editor, saving>>, Grows, Rows' = Rows
    PROVE  RequestsTyped' /\ PageTyped'
<1>1. \A r \in Saves : Heard(r) => saving[r] # Free
  BY NoneIsNoSave DEF WizardTyped, PageTyped, PageFits, Heard, Waiting, Free
<1>2. QED
  BY <1>1, RequestsStay, PageStays DEF WizardTyped

LEMMA QueueLoaded ==
    ASSUME WizardTyped, NEW id \in Rows, LoadQueue(id)
    PROVE  WizardTyped'
<1>1. Grows /\ Rows' = Rows
  BY NothingGrows DEF WizardTyped, LoadQueue
<1>2. RequestsTyped' /\ PageTyped'
  BY <1>1, AllElseStays DEF LoadQueue
<1>3. StoredTyped' /\ CountsTyped'
  BY <1>1, StoredStays DEF WizardTyped, LoadQueue, CountsTyped, Grows
<1>4. QueueTyped'
  <2>1. stored[id] \in HomeRows /\ id \in Ids
    BY StoredRow, RowIds DEF WizardTyped
  <2>2. queue' \in [id: Ids, text: Texts, fresh: BOOLEAN]
    BY <2>1 DEF LoadQueue, HomeRows
  <2>3. /\ queue'.id = id /\ queue'.text = stored[id].text
        /\ stored[id].status = "PENDING_MODERATION" /\ stored' = stored
    BY DEF LoadQueue
  <2>4. QED
    BY <1>1, <2>2, <2>3 DEF QueueTyped, ListTells
<1>5. QED
  BY <1>2, <1>3, <1>4 DEF WizardTyped

LEMMA JudgeTyped ==
    ASSUME WizardTyped, NEW verdict \in {"PUBLISHED", "REJECTED"}, Judge(verdict)
    PROVE  /\ WizardTyped' /\ Rows' = Rows /\ queue.id \in Rows
           /\ \A i \in Rows : stored'[i].text = stored[i].text
           /\ \A i \in Rows \ {queue.id} : stored'[i] = stored[i]
<1>1. queue.id \in Rows
  BY DEF WizardTyped, QueueTyped, ListTells, Judge
<1> DEFINE row == [stored[queue.id] EXCEPT !.status = verdict]
<1>2. /\ stored[queue.id] \in HomeRows /\ stored[queue.id].text <= texts
      /\ stored \in Seq(HomeRows)
  BY <1>1, StoredRow DEF WizardTyped, StoredTyped
<1>3. row \in HomeRows /\ row.text = stored[queue.id].text
  BY <1>2 DEF HomeRows, Statuses
<1>4. stored' = [stored EXCEPT ![queue.id] = row]
  BY DEF Judge
<1>5. /\ StoredTyped' /\ Rows' = Rows
      /\ \A i \in Rows : stored'[i] = IF i = queue.id THEN row ELSE stored[i]
  <2>1. texts' = texts
    BY DEF Judge
  <2> HIDE DEF row
  <2>2. QED
    BY <1>1, <1>2, <1>3, <1>4, <2>1, RowStored DEF WizardTyped
<1>6. Grows
  BY <1>5, TextsAreNaturals DEF Judge, Grows, WizardTyped, CountsTyped
<1>7. RequestsTyped' /\ PageTyped'
  BY <1>5, <1>6, AllElseStays DEF Judge
<1>8. QueueTyped' /\ CountsTyped'
  BY DEF QueueTyped, ListTells, Judge, CountsTyped, WizardTyped
<1>9. WizardTyped'
  BY <1>5, <1>7, <1>8 DEF WizardTyped
<1>10. QED
  <2> HIDE DEF row
  <2> QED
    BY <1>1, <1>3, <1>5, <1>9

-----------------------------------------------------------------------------
(* The page's steps.                                                       *)

LEMMA PageRow ==
    ASSUME WizardTyped, editor.open
    PROVE  /\ editor \in Editors /\ PageFits
           /\ editor.auto \in Saves \cup {None} /\ editor.wait \in Saves \cup {None}
           /\ editor.form \in Texts /\ editor.base \in Texts
           /\ Waiting <=> editor.after # None
<1>1. editor \in Editors
  BY DEF WizardTyped, PageTyped, Closed
<1>2. QED
  BY <1>1 DEF WizardTyped, PageTyped, Editors, Waiting

\* A step of the page that leaves the rows and the list of the queue alone.
LEMMA PageStep ==
    ASSUME WizardTyped, UNCHANGED <<stored, queue>>, Grows,
           local' \in Texts, local' <= texts', trouble' \in 0..MaxTrouble, risk' \in BOOLEAN,
           RequestsTyped', PageTyped'
    PROVE  WizardTyped'
<1>1. Rows' = Rows
  BY DEF Rows
<1>2. StoredTyped' /\ QueueTyped'
  BY <1>1, StoredStays, QueueStays DEF WizardTyped, Grows
<1>3. CountsTyped'
  BY DEF CountsTyped, Grows
<1>4. QED
  BY <1>2, <1>3 DEF WizardTyped

LEMMA ClosedTyped == ASSUME editor' = Closed PROVE PageTyped'
BY DEF PageTyped, PageFits, Closed

\* A page that waits for nothing listens to its autosave at most.
LEMMA IdlePage ==
    ASSUME WizardTyped, Grows, NEW e, e \in Editors, editor' = e, e.shown,
           e.form <= texts', e.base <= texts', e.id \in Rows' \cup {0},
           e.id = 0 => e.new /\ e.at = "form",
           e.wait = None, e.after = None,
           e.auto # None => saving'[e.auto].op = "update" /\ saving'[e.auto].id = e.id
    PROVE  PageTyped'
<1>1. e.after \notin {"stay", "submit"}
  BY DEF None
<1>2. PageFits'
  BY <1>1 DEF PageFits, Waiting
<1>3. QED
  BY <1>2 DEF PageTyped

LEMMA OpenedRow ==
    ASSUME NEW id \in Ids, NEW text \in Texts, NEW status \in Statuses \cup {None},
           NEW at \in {"form", "after"}
    PROVE  LET e == Opened(id, text, status, at) IN
           /\ e \in Editors /\ e.open /\ e.shown /\ e.id = id /\ (e.new <=> id = 0) /\ e.at = at
           /\ e.form = text /\ e.base = text /\ e.auto = None /\ e.wait = None /\ e.after = None
<1>1. PICK new \in BOOLEAN : new <=> id = 0
  OBVIOUS
<1>2. Opened(id, text, status, at) =
        [open |-> TRUE, shown |-> TRUE, new |-> new, id |-> id, told |-> status,
         at |-> at, form |-> text, base |-> text, auto |-> None, wait |-> None, after |-> None]
  BY <1>1 DEF Opened
<1>3. QED
  BY <1>1, <1>2 DEF Editors

LEMMA OpenTyped == ASSUME WizardTyped, OpenWizard PROVE WizardTyped'
<1>1. Grows /\ Rows' = Rows
  BY NothingGrows DEF WizardTyped, OpenWizard
<1>2. RequestsTyped'
  BY <1>1, RequestsStay DEF WizardTyped, OpenWizard
<1>3. risk' \in BOOLEAN
  BY Zenon DEF WizardTyped, CountsTyped, OpenWizard
<1>4. PageTyped'
  <2>1. CASE editor' = Opened(0, local, None, "form")
    <3>1. 0 \in Ids /\ local \in Texts /\ local <= texts /\ texts' = texts
      BY WizardAssumption DEF Ids, WizardTyped, CountsTyped, OpenWizard
    <3> DEFINE e == Opened(0, local, None, "form")
    <3>2. /\ e \in Editors /\ e.shown /\ e.id = 0 /\ e.new /\ e.at = "form" /\ e.form = local
          /\ e.base = local /\ e.auto = None /\ e.wait = None /\ e.after = None
      BY <3>1, OpenedRow
    <3> HIDE DEF e
    <3>3. QED
      BY <1>1, <2>1, <3>1, <3>2, IdlePage DEF e
  <2>2. CASE \E id \in Rows, at \in {"form", "after"} :
                editor' = Opened(id, stored[id].text, stored[id].status, at)
    <3>1. PICK id \in Rows, at \in {"form", "after"} :
                editor' = Opened(id, stored[id].text, stored[id].status, at)
      BY <2>2
    <3>2. /\ id \in Ids /\ id # 0 /\ stored[id].text \in Texts /\ stored[id].status \in Statuses
          /\ stored[id].text <= texts /\ texts' = texts
      BY StoredRow, RowIds DEF WizardTyped, StoredTyped, HomeRows, OpenWizard
    <3> DEFINE e == Opened(id, stored[id].text, stored[id].status, at)
    <3>3. /\ e \in Editors /\ e.shown /\ e.id = id /\ e.form = stored[id].text
          /\ e.base = stored[id].text /\ e.auto = None /\ e.wait = None /\ e.after = None
      BY <3>2, OpenedRow
    <3> HIDE DEF e
    <3>4. QED
      BY <1>1, <3>1, <3>2, <3>3, IdlePage DEF e
  <2>3. QED
    BY <2>1, <2>2 DEF OpenWizard
<1>5. QED
  BY <1>1, <1>2, <1>3, <1>4, PageStep DEF OpenWizard, WizardTyped, CountsTyped

LEMMA TypeTyped == ASSUME WizardTyped, Type PROVE WizardTyped' /\ Grows
<1>1. /\ editor.open /\ texts < MaxTexts /\ texts' = texts + 1 /\ stored' = stored
      /\ editor' = [editor EXCEPT !.form = texts']
      /\ saving' = saving /\ local' = local /\ queue' = queue /\ trouble' = trouble
  BY DEF Type, FormShown
<1>2. editor \in Editors /\ PageFits
  BY <1>1, PageRow
<1>3. texts \in Nat /\ texts' \in Texts /\ texts <= texts'
  BY <1>1, WizardAssumption DEF WizardTyped, CountsTyped, Texts
<1>4. Rows' = Rows /\ Grows
  BY <1>1, <1>3 DEF Rows, Grows, WizardTyped, CountsTyped
<1>5. RequestsTyped'
  BY <1>1, <1>4, RequestsStay DEF WizardTyped
<1>6. risk' \in BOOLEAN
  BY Zenon DEF WizardTyped, CountsTyped, Type
<1>7. /\ editor' \in Editors /\ editor'.form = texts' /\ editor'.base = editor.base
      /\ editor'.id = editor.id /\ editor'.new = editor.new /\ editor'.at = editor.at
      /\ editor'.after = editor.after /\ editor'.wait = editor.wait
      /\ editor'.auto = editor.auto /\ editor'.shown = editor.shown /\ editor'.open
  BY <1>1, <1>2, <1>3 DEF Editors
<1>8. PageTyped'
  <2>1. editor'.form <= texts' /\ editor'.base <= texts'
    BY <1>1, <1>2, <1>3, <1>7, PageRow, TextsAreNaturals DEF PageFits
  <2>2. PageFits'
    BY <1>1, <1>2, <1>4, <1>7, <2>1 DEF PageFits, Waiting
  <2>3. QED
    BY <1>1, <1>7, <2>2 DEF PageTyped, WizardTyped
<1>9. local' \in Texts /\ local' <= texts'
  BY <1>1, <1>3, TextsAreNaturals DEF WizardTyped, CountsTyped
<1>10. QED
  BY <1>1, <1>4, <1>5, <1>6, <1>8, <1>9, PageStep DEF WizardTyped, CountsTyped

LEMMA BackTyped == ASSUME WizardTyped, Back PROVE WizardTyped'
<1>1. Grows /\ Rows' = Rows
  BY NothingGrows DEF WizardTyped, Back
<1>2. RequestsTyped'
  BY <1>1, RequestsStay DEF WizardTyped, Back
<1>3. /\ editor \in Editors /\ editor.open /\ editor.shown /\ ~Waiting /\ PageFits
      /\ editor.after = None
  BY PageRow DEF Back, FormShown
<1>4. editor' = [editor EXCEPT !.at = "form"] /\ saving' = saving /\ texts' = texts
  BY DEF Back
<1>5. /\ editor' \in Editors /\ editor'.form = editor.form /\ editor'.base = editor.base
      /\ editor'.id = editor.id /\ editor'.new = editor.new /\ editor'.at = "form"
      /\ editor'.after = editor.after /\ editor'.wait = editor.wait
      /\ editor'.auto = editor.auto /\ editor'.shown
  BY <1>3, <1>4 DEF Editors
<1>6. PageTyped'
  BY <1>1, <1>3, <1>4, <1>5, IdlePage DEF PageFits, Waiting
<1>7. QED
  BY <1>1, <1>2, <1>6, PageStep DEF WizardTyped, CountsTyped, Back

LEMMA SaveLocalTyped == ASSUME WizardTyped, SaveLocal PROVE WizardTyped'
<1>1. Grows /\ Rows' = Rows
  BY NothingGrows DEF WizardTyped, SaveLocal
<1>2. RequestsTyped' /\ PageTyped'
  BY <1>1, AllElseStays DEF SaveLocal
<1>3. editor.form \in Texts /\ editor.form <= texts
  BY PageRow DEF SaveLocal, FormShown, PageFits
<1>4. QED
  BY <1>1, <1>2, <1>3, PageStep DEF WizardTyped, CountsTyped, SaveLocal

LEMMA LeaveTyped ==
    ASSUME WizardTyped, NEW unload \in BOOLEAN, Leave(unload) PROVE WizardTyped'
<1>1. Grows /\ Rows' = Rows
  BY NothingGrows DEF WizardTyped, Leave
<1>2. RequestsTyped'
  BY <1>1, RequestsStay DEF WizardTyped, Leave
<1>3. risk' \in BOOLEAN
  BY Zenon DEF WizardTyped, CountsTyped, Leave
<1>4. PageTyped'
  <2>1. CASE unload \/ ~Waiting
    BY <2>1, ClosedTyped DEF Leave
  <2>2. CASE ~(unload \/ ~Waiting)
    <3>1. editor' = [editor EXCEPT !.shown = FALSE, !.auto = None] /\ Waiting
      BY <2>2 DEF Leave
    <3>2. editor \in Editors /\ editor.open /\ PageFits /\ saving' = saving /\ texts' = texts
      BY PageRow DEF Leave
    <3>3. /\ editor' \in Editors /\ editor'.form = editor.form /\ editor'.base = editor.base
          /\ editor'.id = editor.id /\ editor'.new = editor.new /\ editor'.at = editor.at
          /\ editor'.after = editor.after /\ editor'.wait = editor.wait
          /\ editor'.auto = None /\ ~editor'.shown /\ editor'.open
      BY <3>1, <3>2 DEF Editors
    <3>4. PageFits'
      BY <1>1, <3>1, <3>2, <3>3, NoneIsNoSave DEF PageFits, Waiting
    <3>5. QED
      BY <3>2, <3>3, <3>4 DEF PageTyped, WizardTyped
  <2>3. QED
    BY <2>1, <2>2
<1>5. QED
  BY <1>1, <1>2, <1>3, <1>4, PageStep DEF WizardTyped, CountsTyped, Leave

-----------------------------------------------------------------------------
(* The page's requests.                                                    *)

LEMMA AsksRow ==
    ASSUME NEW op \in {"create", "update", "submit"}, NEW id \in Ids, NEW text \in Texts
    PROVE  LET w == Asks(op, id, text) IN
           /\ w \in Working /\ w # Free /\ w.op = op /\ w.id = id /\ w.text = text
           /\ w.pc = "sent"
<1>1. Asks(op, id, text) \in Working
  BY DEF Asks, Working
<1>2. QED
  BY <1>1, FreeIsNoRequest DEF Asks

\* Sending: a new request of the page's text for its home, or for a new one.
LEMMA SendStep ==
    ASSUME WizardTyped, editor.open, NEW s \in Saves, NEW op, op \in {"create", "update"},
           op = "create" <=> editor.id = 0, Send(s, op), UNCHANGED <<stored, texts>>
    PROVE  /\ RequestsTyped' /\ Grows /\ Rows' = Rows
           /\ \A r \in Saves \ {s} : saving'[r] = saving[r]
           /\ saving[s] = Free /\ saving'[s] # Free /\ saving'[s].op = op
           /\ saving'[s].id = editor.id /\ saving'[s].text = editor.form
           /\ saving'[s].pc = "sent"
<1>1. Grows /\ Rows' = Rows
  BY NothingGrows DEF WizardTyped
<1>2. /\ editor.id \in Ids /\ editor.id \in Rows \cup {0} /\ editor.form \in Texts
      /\ editor.form <= texts
  BY PageRow DEF PageFits, Editors
<1> DEFINE w == Asks(op, editor.id, editor.form)
<1>3. /\ w \in Working /\ w # Free /\ w.op = op /\ w.id = editor.id
      /\ w.text = editor.form /\ w.pc = "sent"
  BY <1>2, AsksRow
<1>4. RequestFitsNow(w)
  <2> HIDE DEF w
  <2> QED
    BY <1>1, <1>2, <1>3 DEF RequestFitsNow
<1>5. saving[s] = Free /\ saving' = [saving EXCEPT ![s] = w]
  BY DEF Send
<1>6. QED
  <2> HIDE DEF w
  <2> QED
    BY <1>1, <1>3, <1>4, <1>5, RequestSet DEF WizardTyped

LEMMA RiskTyped ==
    ASSUME WizardTyped, NEW s, NEW op, Send(s, op) PROVE risk' \in BOOLEAN
BY Zenon DEF WizardTyped, CountsTyped, Send

\* Who is listened to is under way.
LEMMA HeardAreAsked ==
    ASSUME WizardTyped, NEW r \in Saves, Heard(r) PROVE saving[r] # Free
BY NoneIsNoSave DEF WizardTyped, PageTyped, PageFits, Heard, Waiting, Free

LEMMA AutosaveTyped ==
    ASSUME WizardTyped, NEW s \in Saves, Autosave(s)
    PROVE  /\ WizardTyped' /\ Rows' = Rows /\ saving[s] = Free
           /\ \A r \in Saves \ {s} : saving'[r] = saving[r]
           /\ saving'[s].op = "update" /\ saving'[s].id = editor.id
           /\ saving'[s].text = editor.form /\ saving'[s].pc = "sent"
<1>1. /\ editor.open /\ editor.shown /\ editor.id # 0 /\ Send(s, "update")
      /\ editor' = [editor EXCEPT !.auto = s]
      /\ UNCHANGED <<stored, texts, local, queue, trouble>>
  BY DEF Autosave, FormShown
<1>2. /\ RequestsTyped' /\ Grows /\ Rows' = Rows
      /\ \A r \in Saves \ {s} : saving'[r] = saving[r]
      /\ saving[s] = Free /\ saving'[s] # Free /\ saving'[s].op = "update"
      /\ saving'[s].id = editor.id /\ saving'[s].text = editor.form
      /\ saving'[s].pc = "sent"
  BY <1>1, SendStep
<1>3. editor \in Editors /\ PageFits /\ editor.wait \in Saves \cup {None}
  BY <1>1, PageRow
<1>4. /\ editor' \in Editors /\ editor'.form = editor.form /\ editor'.base = editor.base
      /\ editor'.id = editor.id /\ editor'.new = editor.new /\ editor'.at = editor.at
      /\ editor'.after = editor.after /\ editor'.wait = editor.wait
      /\ editor'.auto = s /\ editor'.shown /\ editor'.open
  BY <1>1, <1>3 DEF Editors
<1>5. Waiting => saving[editor.wait] # Free /\ editor.wait # s
  BY <1>1, <1>2, <1>3 DEF PageFits
<1>6. PageFits'
  BY <1>1, <1>2, <1>3, <1>4, <1>5 DEF PageFits, Waiting
<1>7. PageTyped'
  BY <1>1, <1>4, <1>6 DEF PageTyped, WizardTyped
<1>8. WizardTyped'
  BY <1>1, <1>2, <1>7, RiskTyped, PageStep DEF WizardTyped, CountsTyped
<1>9. QED
  BY <1>2, <1>8

LEMMA PersistTyped ==
    ASSUME WizardTyped, NEW s \in Saves, NEW after \in {"photos", "stay", "submit"},
           Persist(s, after)
    PROVE  /\ WizardTyped' /\ Rows' = Rows /\ saving[s] = Free
           /\ \A r \in Saves \ {s} : saving'[r] = saving[r]
           /\ saving'[s].op = IF editor.id = 0 THEN "create" ELSE "update"
           /\ saving'[s].id = editor.id
           /\ saving'[s].text = editor.form /\ saving'[s].pc = "sent"
<1> DEFINE op == IF editor.id = 0 THEN "create" ELSE "update"
<1>1. /\ editor.open /\ editor.shown /\ Send(s, op) /\ ~Waiting
      /\ editor.at = IF after = "photos" THEN "form" ELSE "after"
      /\ editor' = [editor EXCEPT !.auto = None, !.wait = s, !.after = after]
      /\ UNCHANGED <<stored, texts, local, queue, trouble>>
  BY DEF Persist, FormShown
<1>2. /\ RequestsTyped' /\ Grows /\ Rows' = Rows
      /\ \A r \in Saves \ {s} : saving'[r] = saving[r]
      /\ saving[s] = Free /\ saving'[s] # Free /\ saving'[s].op = op
      /\ saving'[s].id = editor.id /\ saving'[s].text = editor.form
      /\ saving'[s].pc = "sent"
  BY <1>1, SendStep
<1>3. editor \in Editors /\ PageFits
  BY <1>1, PageRow
<1>4. /\ editor' \in Editors /\ editor'.form = editor.form /\ editor'.base = editor.base
      /\ editor'.id = editor.id /\ editor'.new = editor.new /\ editor'.at = editor.at
      /\ editor'.after = after /\ editor'.wait = s
      /\ editor'.auto = None /\ editor'.shown /\ editor'.open
  BY <1>1, <1>3 DEF Editors
<1>5. after # None /\ s # None
  BY NoneIsNoSave DEF None
<1>6. PageFits'
  <2>1. after \in {"stay", "submit"} => editor'.at = "after"
    BY <1>1, <1>4
  <2>2. IF saving'[s].op = "create" THEN editor'.id = 0 ELSE saving'[s].id = editor'.id
    BY <1>2, <1>4
  <2>3. QED
    BY <1>1, <1>2, <1>3, <1>4, <1>5, <2>1, <2>2 DEF PageFits, Waiting
<1>7. PageTyped'
  BY <1>1, <1>4, <1>5, <1>6 DEF PageTyped, WizardTyped
<1>8. WizardTyped'
  <2> HIDE DEF op
  <2> QED
    BY <1>1, <1>2, <1>7, RiskTyped, PageStep DEF WizardTyped, CountsTyped
<1>9. QED
  BY <1>2, <1>8

\* A request that is over.
LEMMA ReleaseStep ==
    ASSUME WizardTyped, NEW s \in Saves, Release(s), Grows
    PROVE  /\ RequestsTyped' /\ saving'[s] = Free
           /\ \A r \in Saves \ {s} : saving'[r] = saving[r]
BY RequestSet DEF Release, WizardTyped

\* A page that has stopped waiting stays, or is gone if it had been left.
LEMMA WaitOver ==
    ASSUME WizardTyped, editor.open, Waiting, Grows, NEW e, e \in Editors, editor' = Left(e),
           e.shown = editor.shown, e.auto = editor.auto, e.wait = None, e.after = None,
           e.form <= texts', e.base <= texts', e.id \in Rows' \cup {0},
           e.id = 0 => e.new /\ e.at = "form", editor.id # 0 => e.id = editor.id,
           \A r \in Saves \ {editor.wait} : saving'[r] = saving[r]
    PROVE  PageTyped'
<1>1. /\ editor.auto \in Saves \cup {None} /\ editor.auto # editor.wait
      /\ editor.auto # None => /\ saving[editor.auto].op = "update"
                               /\ saving[editor.auto].id = editor.id
  BY PageRow DEF PageFits
<1>2. CASE e.shown
  <2>1. editor' = e
    BY <1>2 DEF Left
  <2>2. e.auto # None => editor.id # 0
    <3> SUFFICES ASSUME e.auto # None PROVE editor.id # 0
      OBVIOUS
    <3>1. saving[editor.auto].id \in Rows
      BY <1>1, AsksForRow
    <3>2. QED
      BY <1>1, <3>1, RowIds DEF WizardTyped
  <2>3. e.auto # None => saving'[e.auto].op = "update" /\ saving'[e.auto].id = e.id
    BY <1>1, <2>2
  <2>4. QED
    BY <1>2, <2>1, <2>3, IdlePage
<1>3. CASE ~e.shown
  BY <1>3, ClosedTyped DEF Left
<1>4. QED
  BY <1>2, <1>3

LEMMA SettledRow ==
    ASSUME WizardTyped, editor.open
    PROVE  /\ Settled \in Editors /\ Settled.shown = editor.shown /\ Settled.auto = editor.auto
           /\ Settled.wait = None /\ Settled.after = None /\ Settled.form = editor.form
           /\ Settled.base = editor.base /\ Settled.id = editor.id /\ Settled.new = editor.new
           /\ Settled.at = editor.at
BY PageRow DEF Editors, Settled

LEMMA RefusedTyped ==
    ASSUME WizardTyped, editor.open, Waiting, Refused, UNCHANGED <<stored, texts>>,
           \A r \in Saves \ {editor.wait} : saving'[r] = saving[r]
    PROVE  PageTyped'
<1>1. Grows /\ Rows' = Rows
  BY NothingGrows DEF WizardTyped
<1>2. PageFits
  BY PageRow
<1> DEFINE e == Settled
<1>3. editor' = Left(e)
  BY DEF Refused
<1>4. /\ e \in Editors /\ e.shown = editor.shown /\ e.auto = editor.auto
      /\ e.wait = None /\ e.after = None /\ e.form = editor.form
      /\ e.base = editor.base /\ e.id = editor.id /\ e.new = editor.new /\ e.at = editor.at
  BY SettledRow
<1>5. /\ e.form <= texts' /\ e.base <= texts' /\ e.id \in Rows' \cup {0}
      /\ e.id = 0 => e.new /\ e.at = "form"
  <2> HIDE DEF e
  <2> QED
    BY <1>1, <1>2, <1>4 DEF PageFits
<1>6. QED
  <2> HIDE DEF e
  <2> QED
    BY <1>1, <1>3, <1>4, <1>5, WaitOver

LEMMA ChainRefusedTyped ==
    ASSUME WizardTyped, NEW s \in Saves, ChainRefused(s)
    PROVE  /\ WizardTyped' /\ saving'[s] = Free /\ Rows' = Rows
           /\ \A r \in Saves \ {s} : saving'[r] = saving[r]
<1>1. Grows /\ Rows' = Rows
  BY NothingGrows DEF WizardTyped, ChainRefused
<1>2. /\ RequestsTyped' /\ saving'[s] = Free /\ \A r \in Saves \ {s} : saving'[r] = saving[r]
  BY <1>1, ReleaseStep DEF ChainRefused
<1>3. Waiting
  BY NoneIsNoSave DEF ChainRefused, Waiting
<1>4. PageTyped'
  BY <1>2, <1>3, RefusedTyped DEF ChainRefused
<1>5. QED
  BY <1>1, <1>2, <1>4, PageStep DEF WizardTyped, CountsTyped, ChainRefused

\* The page does not listen to its autosave any more.
LEMMA AutoOver ==
    ASSUME WizardTyped, editor.open, editor.auto # None, Grows, Rows' = Rows, texts' = texts,
           NEW e, e \in Editors, editor' = e,
           e.shown = editor.shown, e.auto = None, e.wait = editor.wait, e.after = editor.after,
           e.form = editor.form, e.base \in {editor.base, editor.form}, e.id = editor.id,
           e.new = editor.new, e.at = editor.at,
           \A r \in Saves \ {editor.auto} : saving'[r] = saving[r]
    PROVE  PageTyped'
<1>1. /\ editor.wait \in Saves \cup {None} /\ PageFits
      /\ editor.wait = None <=> editor.after = None
  BY PageRow DEF WizardTyped, PageTyped
<1>2. Waiting => saving'[editor.wait] = saving[editor.wait]
  BY <1>1 DEF PageFits, Waiting
<1>3. PageFits'
  BY <1>1, <1>2, NoneIsNoSave DEF PageFits, Waiting
<1>4. QED
  BY <1>1, <1>3 DEF PageTyped

LEMMA AutosaveAnsweredTyped ==
    ASSUME WizardTyped, NEW s \in Saves, AutosaveAnswered(s)
    PROVE  /\ WizardTyped' /\ saving'[s] = Free /\ Rows' = Rows
           /\ \A r \in Saves \ {s} : saving'[r] = saving[r]
           /\ editor'.open /\ editor'.auto = None /\ editor'.wait = editor.wait
           /\ editor'.form = editor.form /\ editor'.id = editor.id /\ editor'.new = editor.new
           /\ editor'.shown = editor.shown
           /\ editor'.base = IF saving[s].ok /\ editor.form = saving[s].text
                             THEN editor.form ELSE editor.base
<1>1. Grows /\ Rows' = Rows
  BY NothingGrows DEF WizardTyped, AutosaveAnswered
<1>2. /\ RequestsTyped' /\ saving'[s] = Free /\ \A r \in Saves \ {s} : saving'[r] = saving[r]
  BY <1>1, ReleaseStep DEF AutosaveAnswered
<1>3. editor.open /\ editor.auto = s /\ s # None /\ saving[s].pc = "answered"
  BY NoneIsNoSave DEF AutosaveAnswered
<1>4. editor \in Editors /\ PageFits
  BY <1>3, PageRow
<1>5. saving[s] \in Working /\ RequestFits(saving[s])
  BY <1>3, <1>4, RequestRow DEF PageFits, WizardTyped
<1>6. PICK base \in {editor.base, editor.form} :
          base = IF saving[s].ok /\ editor.form = saving[s].text THEN editor.form ELSE editor.base
  OBVIOUS
<1>7. /\ editor' \in Editors /\ editor'.open /\ editor'.auto = None
      /\ editor'.wait = editor.wait /\ editor'.after = editor.after
      /\ editor'.form = editor.form /\ editor'.id = editor.id /\ editor'.new = editor.new
      /\ editor'.shown = editor.shown /\ editor'.at = editor.at
      /\ editor'.base = base
  <2>1. CASE saving[s].ok
    <3>1. editor' = [editor EXCEPT !.auto = None, !.told = saving[s].saw,
                                   !.base = IF editor.form = saving[s].text
                                            THEN saving[s].text ELSE @]
      BY <2>1 DEF AutosaveAnswered, Autosaved
    <3>2. editor' = [editor EXCEPT !.auto = None, !.told = saving[s].saw, !.base = base]
      BY <1>4, <1>6, <2>1, <3>1
    <3>3. saving[s].saw \in Statuses \cup {None} /\ base \in Texts
      BY <1>3, <1>5, <1>6, PageRow DEF Working
    <3>4. QED
      BY <1>4, <3>2, <3>3 DEF Editors
  <2>2. CASE ~saving[s].ok
    <3>1. editor' = [editor EXCEPT !.auto = None] /\ base = editor.base
      BY <1>6, <2>2 DEF AutosaveAnswered
    <3>2. QED
      BY <1>4, <3>1 DEF Editors
  <2>3. QED
    BY <2>1, <2>2
<1>8. PageTyped'
  BY <1>1, <1>2, <1>3, <1>6, <1>7, AutoOver DEF AutosaveAnswered
<1>9. WizardTyped'
  BY <1>1, <1>2, <1>8, PageStep DEF WizardTyped, CountsTyped, AutosaveAnswered
<1>10. QED
  BY <1>1, <1>2, <1>6, <1>7, <1>9

LEMMA PersistAnsweredTyped ==
    ASSUME WizardTyped, NEW s \in Saves, PersistAnswered(s)
    PROVE  /\ WizardTyped' /\ Rows' = Rows /\ saving[s].id \in Rows /\ saving[s].id # 0
           /\ saving'[s].op # "update"
           /\ \A r \in Saves \ {s} : saving'[r] = saving[r]
           /\ \/ editor' = Closed
              \/ /\ editor'.open /\ editor'.auto = editor.auto /\ editor'.new = editor.new
                 /\ editor'.form = saving[s].text /\ editor'.base = saving[s].text
                 /\ editor'.id = saving[s].id /\ editor'.wait \in {None, s}
                 /\ editor'.wait = s => saving'[s].op = "submit" /\ saving'[s].text = saving[s].text
<1>1. Grows /\ Rows' = Rows
  BY NothingGrows DEF WizardTyped, PersistAnswered
<1>2. /\ editor.open /\ editor.wait = s /\ s # None /\ Waiting /\ saving[s].pc = "answered"
      /\ saving[s].op # "submit" /\ texts' = texts /\ stored' = stored
  BY NoneIsNoSave DEF PersistAnswered, Waiting
<1>3. editor \in Editors /\ PageFits /\ editor.auto \in Saves \cup {None}
  BY <1>2, PageRow
<1>4. saving[s] \in Working /\ RequestFits(saving[s]) /\ saving[s].op \in {"create", "update"}
  BY <1>2, <1>3, AskedRow DEF PageFits, WizardTyped
<1>5. /\ saving[s].id \in Rows /\ saving[s].id # 0 /\ saving[s].id \in Ids
      /\ saving[s].text <= texts /\ saving[s].text \in Texts
      /\ saving[s].saw \in Statuses \cup {None}
  BY <1>2, <1>4, RowIds DEF RequestFits, Working, WizardTyped
<1>6. editor.id # 0 => saving[s].id = editor.id
  BY <1>2, <1>3 DEF PageFits
<1> DEFINE kept == [editor EXCEPT !.id = saving[s].id, !.told = saving[s].saw,
                                  !.form = saving[s].text, !.base = saving[s].text]
           e == [kept EXCEPT !.wait = None, !.after = None, !.at = "after"]
<1>7. /\ kept \in Editors /\ kept.open /\ kept.id = saving[s].id /\ kept.form = saving[s].text
      /\ kept.base = saving[s].text /\ kept.auto = editor.auto /\ kept.wait = s
      /\ kept.after = editor.after /\ kept.new = editor.new /\ kept.shown = editor.shown
      /\ kept.at = editor.at
  BY <1>2, <1>3, <1>5 DEF Editors
<1>8. /\ e \in Editors /\ e.open /\ e.id = saving[s].id /\ e.form = saving[s].text
      /\ e.base = saving[s].text /\ e.auto = editor.auto /\ e.wait = None
      /\ e.after = None /\ e.new = editor.new /\ e.shown = editor.shown /\ e.at = "after"
  <2> HIDE DEF kept
  <2> QED
    BY <1>7 DEF Editors
<1>9. CASE editor.after = "submit"
  <2>1. editor.id # 0 /\ editor.id \in Rows /\ editor.id \in Ids
    BY <1>2, <1>3, <1>9, RowIds DEF PageFits, WizardTyped
  <2> DEFINE w == Asks("submit", editor.id, saving[s].text)
  <2>2. editor' = kept /\ saving' = [saving EXCEPT ![s] = w]
    BY <1>9 DEF PersistAnswered
  <2>3. /\ w \in Working /\ w # Free /\ w.op = "submit" /\ w.id = editor.id
        /\ w.text = saving[s].text /\ w.pc = "sent"
    BY <1>5, <2>1, AsksRow
  <2>4. RequestFitsNow(w)
    <3> HIDE DEF w
    <3> QED
      BY <1>1, <1>2, <1>5, <2>1, <2>3 DEF RequestFitsNow
  <2>5. /\ RequestsTyped' /\ saving'[s] = w /\ \A r \in Saves \ {s} : saving'[r] = saving[r]
    <3> HIDE DEF w
    <3> QED
      BY <1>1, <2>2, <2>3, <2>4, RequestSet DEF WizardTyped
  <2>6. PageFits'
    <3>1. editor.auto # None =>
              /\ saving'[editor.auto] = saving[editor.auto]
              /\ saving[editor.auto].op = "update" /\ saving[editor.auto].id = editor.id
      BY <1>2, <1>3, <2>5 DEF PageFits
    <3> HIDE DEF w, kept
    <3>2. QED
      BY <1>1, <1>2, <1>3, <1>5, <1>6, <1>7, <2>1, <2>2, <2>3, <2>5, <3>1
      DEF PageFits, Waiting
  <2>7. PageTyped'
    <3> HIDE DEF kept
    <3> QED
      BY <1>2, <1>7, <1>9, <2>2, <2>6 DEF PageTyped, None
  <2>8. QED
    <3>1. RequestsTyped' /\ PageTyped'
      BY <2>5, <2>7
    <3>2. WizardTyped'
      <4>1. risk' \in BOOLEAN
        BY Zenon DEF WizardTyped, CountsTyped, PersistAnswered
      <4>2. local' \in Texts /\ local' <= texts'
        BY <1>2, TextsAreNaturals, WizardAssumption
        DEF PersistAnswered, WizardTyped, CountsTyped, Texts
      <4>3. QED
        BY <1>1, <1>2, <3>1, <4>1, <4>2, PageStep
        DEF WizardTyped, CountsTyped, PersistAnswered
    <3> HIDE DEF w, kept
    <3>3. QED
      BY <1>1, <1>5, <1>7, <2>2, <2>3, <2>5, <3>2
<1>10. CASE editor.after # "submit"
  <2>1. editor' = Left(e) /\ Release(s)
    BY <1>10 DEF PersistAnswered
  <2>2. /\ RequestsTyped' /\ saving'[s] = Free /\ \A r \in Saves \ {s} : saving'[r] = saving[r]
    BY <1>1, <2>1, ReleaseStep
  <2> HIDE DEF e
  <2>3. PageTyped'
    BY <1>1, <1>2, <1>5, <1>6, <1>8, <2>1, <2>2, WaitOver
  <2>4. WizardTyped'
    <3>1. risk' \in BOOLEAN
      BY Zenon DEF WizardTyped, CountsTyped, PersistAnswered
    <3>2. local' \in Texts /\ local' <= texts'
      BY <1>2, TextsAreNaturals, WizardAssumption
      DEF PersistAnswered, WizardTyped, CountsTyped, Texts
    <3>3. QED
      BY <1>1, <1>2, <2>2, <2>3, <3>1, <3>2, PageStep
      DEF WizardTyped, CountsTyped, PersistAnswered
  <2>5. editor' = Closed \/ editor' = e
    BY <2>1 DEF Left
  <2>6. saving'[s].op # "update"
    BY <2>2 DEF Free
  <2>7. QED
    BY <1>1, <1>2, <1>5, <1>8, <2>2, <2>4, <2>5, <2>6
<1>11. QED
  BY <1>9, <1>10

LEMMA SubmitAnsweredTyped ==
    ASSUME WizardTyped, NEW s \in Saves, SubmitAnswered(s)
    PROVE  /\ WizardTyped' /\ Rows' = Rows /\ saving'[s] = Free
           /\ \A r \in Saves \ {s} : saving'[r] = saving[r]
           /\ \/ editor' = Closed /\ ~editor.shown
              \/ /\ editor'.open /\ editor'.auto = editor.auto /\ editor'.wait = None
                 /\ editor'.form = editor.form /\ editor'.base = editor.base
                 /\ editor'.id = editor.id /\ editor'.new = editor.new
                 /\ editor'.shown = editor.shown
<1>1. Grows /\ Rows' = Rows
  BY NothingGrows DEF WizardTyped, SubmitAnswered
<1>2. /\ RequestsTyped' /\ saving'[s] = Free /\ \A r \in Saves \ {s} : saving'[r] = saving[r]
  BY <1>1, ReleaseStep DEF SubmitAnswered
<1>3. editor.open /\ editor.wait = s /\ Waiting /\ texts' = texts
  BY NoneIsNoSave DEF SubmitAnswered, Waiting
<1>4. PageFits
  BY <1>3, PageRow
<1>5. saving[s].saw \in Statuses \cup {None}
  BY RequestRow DEF SubmitAnswered, WizardTyped, Working
<1> DEFINE e == [Settled EXCEPT !.told = saving[s].saw]
<1>6. /\ e \in Editors /\ e.shown = editor.shown /\ e.auto = editor.auto /\ e.open
      /\ e.wait = None /\ e.after = None /\ e.form = editor.form
      /\ e.base = editor.base /\ e.id = editor.id /\ e.new = editor.new /\ e.at = editor.at
  BY <1>3, <1>5, SettledRow DEF Editors
<1>7. editor' = Left(e)
  BY DEF SubmitAnswered
<1> HIDE DEF e
<1>8. /\ e.form <= texts' /\ e.base <= texts' /\ e.id \in Rows' \cup {0}
      /\ e.id = 0 => e.new /\ e.at = "form"
  BY <1>1, <1>3, <1>4, <1>6 DEF PageFits
<1>9. PageTyped'
  BY <1>1, <1>2, <1>3, <1>6, <1>7, <1>8, WaitOver
<1>10. WizardTyped'
  BY <1>1, <1>2, <1>9, PageStep DEF WizardTyped, CountsTyped, SubmitAnswered
<1>11. QED
  BY <1>1, <1>2, <1>6, <1>7, <1>10 DEF Left

\* What a refusal makes of the page.
LEMMA RefusedPage ==
    ASSUME WizardTyped, editor.open, Refused
    PROVE  \/ editor' = Closed /\ ~editor.shown
           \/ /\ editor'.open /\ editor'.auto = editor.auto /\ editor'.wait = None
              /\ editor'.form = editor.form /\ editor'.base = editor.base
              /\ editor'.id = editor.id /\ editor'.new = editor.new
              /\ editor'.shown = editor.shown
<1>1. editor' = Left(Settled)
  BY DEF Refused
<1>2. editor \in Editors
  BY PageRow
<1>3. Settled.open
  BY <1>2 DEF Settled, Editors
<1>4. QED
  BY <1>1, <1>3, SettledRow DEF Left

LEMMA FailsTyped ==
    ASSUME WizardTyped, NEW s \in Saves, Fails(s)
    PROVE  /\ WizardTyped' /\ Rows' = Rows
           /\ saving'[s] \in {saving[s], Free}
           /\ \A r \in Saves \ {s} : saving'[r] = saving[r]
           /\ \/ editor' = Closed /\ ~editor.shown
              \/ /\ editor'.open
                 /\ \/ editor'.auto = editor.auto /\ editor'.wait = None /\ editor.wait = s
                    \/ editor'.auto = None /\ editor'.wait = editor.wait /\ editor.auto = s
                 /\ editor'.form = editor.form /\ editor'.base = editor.base
                 /\ editor'.id = editor.id /\ editor'.new = editor.new
                 /\ editor'.shown = editor.shown
<1>1. Grows /\ Rows' = Rows
  BY NothingGrows DEF WizardTyped, Fails
<1>2. /\ RequestsTyped' /\ saving'[s] \in {saving[s], Free}
      /\ \A r \in Saves \ {s} : saving'[r] = saving[r]
  BY <1>1, ReleaseStep, RequestsStay DEF Fails, WizardTyped
<1>3. editor.open /\ texts' = texts /\ stored' = stored /\ s # None
  BY NoneIsNoSave DEF Fails
<1>4. PageTyped'
      /\ \/ editor' = Closed /\ ~editor.shown
         \/ /\ editor'.open
            /\ \/ editor'.auto = editor.auto /\ editor'.wait = None /\ editor.wait = s
               \/ editor'.auto = None /\ editor'.wait = editor.wait /\ editor.auto = s
            /\ editor'.form = editor.form /\ editor'.base = editor.base
            /\ editor'.id = editor.id /\ editor'.new = editor.new
            /\ editor'.shown = editor.shown
  <2>1. CASE editor.wait = s /\ Refused
    <3>1. Waiting
      BY <1>3, <2>1 DEF Waiting
    <3>2. PageTyped'
      BY <1>2, <1>3, <2>1, <3>1, RefusedTyped
    <3>3. QED
      BY <1>3, <2>1, <3>2, RefusedPage
  <2>2. CASE editor.auto = s /\ editor' = [editor EXCEPT !.auto = None]
    <3>1. editor \in Editors
      BY <1>3, PageRow
    <3>2. /\ editor' \in Editors /\ editor'.open /\ editor'.auto = None
          /\ editor'.wait = editor.wait /\ editor'.after = editor.after
          /\ editor'.form = editor.form /\ editor'.id = editor.id /\ editor'.new = editor.new
          /\ editor'.shown = editor.shown /\ editor'.at = editor.at
          /\ editor'.base = editor.base
      BY <2>2, <3>1 DEF Editors
    <3>3. PageTyped'
      BY <1>1, <1>2, <1>3, <2>2, <3>2, AutoOver
    <3>4. QED
      BY <2>2, <3>2, <3>3
  <2>3. QED
    BY <2>1, <2>2 DEF Fails
<1>5. trouble' \in 0..MaxTrouble
  BY WizardAssumption DEF Fails, WizardTyped, CountsTyped
<1>6. WizardTyped'
  BY <1>1, <1>2, <1>4, <1>5, PageStep DEF WizardTyped, CountsTyped, Fails
<1>7. QED
  BY <1>1, <1>2, <1>4, <1>6

LEMMA UnheardTyped ==
    ASSUME WizardTyped, NEW s \in Saves, Unheard(s)
    PROVE  /\ WizardTyped' /\ Rows' = Rows /\ saving'[s] = Free
           /\ \A r \in Saves \ {s} : saving'[r] = saving[r]
<1>1. Grows /\ Rows' = Rows
  BY NothingGrows DEF WizardTyped, Unheard
<1>2. /\ RequestsTyped' /\ saving'[s] = Free /\ \A r \in Saves \ {s} : saving'[r] = saving[r]
  BY <1>1, ReleaseStep DEF Unheard
<1>3. \A r \in Saves : Heard(r) => r # s /\ saving[r] # Free
  BY HeardAreAsked DEF Unheard
<1>4. PageTyped'
  BY <1>1, <1>2, <1>3, PageStays DEF Unheard, WizardTyped
<1>5. QED
  BY <1>1, <1>2, <1>4, PageStep DEF WizardTyped, CountsTyped, Unheard

LEMMA WizardTypedNext == WizardTyped /\ [WizardNext]_wizardVars => WizardTyped'
<1> SUFFICES ASSUME WizardTyped, [WizardNext]_wizardVars PROVE WizardTyped'
  OBVIOUS
<1>1. ASSUME OpenWizard \/ Type \/ Back \/ SaveLocal \/ \E unload \in BOOLEAN : Leave(unload)
      PROVE  WizardTyped'
  BY <1>1, OpenTyped, TypeTyped, BackTyped, SaveLocalTyped, LeaveTyped
<1>2. ASSUME NEW s \in Saves,
             \/ Autosave(s)
             \/ \E after \in {"photos", "stay", "submit"} : Persist(s, after)
             \/ AutosaveAnswered(s) \/ PersistAnswered(s) \/ SubmitAnswered(s)
             \/ ChainRefused(s) \/ Fails(s) \/ Unheard(s)
      PROVE  WizardTyped'
  BY <1>2, AutosaveTyped, PersistTyped, AutosaveAnsweredTyped, PersistAnsweredTyped,
     SubmitAnsweredTyped, ChainRefusedTyped, FailsTyped, UnheardTyped
<1>3. ASSUME NEW s \in Saves, Create(s) \/ ReadRow(s) \/ WriteRow(s) \/ SubmitRow(s)
      PROVE  WizardTyped'
  BY <1>3, CreateTyped, ReadTyped, WriteTyped, SubmitTyped
<1>4. ASSUME NEW id \in Rows, LoadQueue(id) \/ \E m \in Moves : RunAction(id, m)
      PROVE  WizardTyped'
  BY <1>4, QueueLoaded, ActionTyped
<1>5. ASSUME NEW verdict \in {"PUBLISHED", "REJECTED"}, Judge(verdict) PROVE WizardTyped'
  BY <1>5, JudgeTyped
<1>6. ASSUME UNCHANGED wizardVars PROVE WizardTyped'
  <2>1. Grows /\ Rows' = Rows
    BY <1>6, NothingGrows DEF WizardTyped, wizardVars
  <2>2. RequestsTyped' /\ PageTyped'
    BY <1>6, <2>1, AllElseStays DEF wizardVars
  <2>3. QED
    BY <1>6, <2>1, <2>2, PageStep DEF WizardTyped, CountsTyped, wizardVars
<1>7. QED
  BY <1>1, <1>2, <1>3, <1>4, <1>5, <1>6 DEF WizardNext

LEMMA WizardStaysTyped == WizardSpec => []WizardTyped
BY WizardTypedInit, WizardTypedNext, PTL DEF WizardSpec

\* The rows, the page and its requests keep their types, and every request names
\* a home that is there, whatever overtakes what.
THEOREM WizardTypesHold == WizardSpec => []WizardTypeOK
BY WizardStaysTyped, TypesOfWizard, PTL

-----------------------------------------------------------------------------
(* What a moderator's page shows is what is published.                     *)

LEMMA PublishedAsSeen ==
    ASSUME WizardTyped, [WizardNext]_wizardVars, NEW id \in Rows,
           stored[id].status = "PENDING_MODERATION", stored'[id].status = "PUBLISHED",
           queue.fresh
    PROVE  queue.text = stored[id].text
<1>1. queue # NoList => stored[queue.id].text = queue.text
  BY DEF WizardTyped, QueueTyped, ListTells
<1>2. CASE \E verdict \in {"PUBLISHED", "REJECTED"} : Judge(verdict)
  <2>1. id = queue.id /\ queue # NoList
    BY <1>2, JudgeTyped DEF Judge
  <2>2. QED
    BY <1>1, <2>1
<1>3. stored' # stored
  BY DEF wizardVars
<1>4. CASE \E s \in Saves : Create(s) \/ WriteRow(s) \/ SubmitRow(s)
  BY <1>4, CreateTyped, WriteTyped, SubmitTyped
<1>5. CASE \E i \in Rows, m \in Moves : RunAction(i, m)
  BY <1>5, ActionTyped
<1>6. ASSUME OpenWizard \/ Type \/ Back \/ SaveLocal \/ \E unload \in BOOLEAN : Leave(unload)
      PROVE  FALSE
  BY <1>3, <1>6 DEF OpenWizard, Type, Back, SaveLocal, Leave
<1>7. ASSUME NEW s \in Saves,
             \/ Autosave(s)
             \/ \E after \in {"photos", "stay", "submit"} : Persist(s, after)
             \/ AutosaveAnswered(s) \/ PersistAnswered(s) \/ SubmitAnswered(s)
             \/ ChainRefused(s) \/ Fails(s) \/ Unheard(s) \/ ReadRow(s)
      PROVE  FALSE
  BY <1>3, <1>7 DEF Autosave, Persist, AutosaveAnswered, PersistAnswered, SubmitAnswered,
     ChainRefused, Fails, Unheard, ReadRow
<1>8. ASSUME \E i \in Rows : LoadQueue(i) PROVE FALSE
  BY <1>3, <1>8 DEF LoadQueue
<1>9. QED
  BY <1>2, <1>3, <1>4, <1>5, <1>6, <1>7, <1>8 DEF WizardNext, wizardVars

\* A moderator who has the list since the home was last submitted publishes the
\* text on the screen.
THEOREM SeenIsPublished == WizardSpec => UnseenNeverPublished
<1>1. WizardTyped /\ [WizardNext]_wizardVars =>
          [\A id \in Rows :
               /\ stored[id].status = "PENDING_MODERATION" /\ stored'[id].status = "PUBLISHED"
               /\ queue.fresh
               => queue.text = stored[id].text]_wizardVars
  BY PublishedAsSeen
<1>2. QED
  BY <1>1, WizardStaysTyped, PTL DEF WizardSpec, UnseenNeverPublished

-----------------------------------------------------------------------------
(* No text is lost.  A text the page takes to be saved is in its row and is *)
(* not about to be overwritten, unless two updates of a home were under way *)
(* at once, which the page never does without taking a risk.               *)

WritesNow(s, id) ==
    saving'[s].op = "update" /\ saving'[s].id = id /\ saving'[s].pc # "answered"
HoldsNow(id, t) ==
    stored'[id].text = t /\ \A s \in Saves : WritesNow(s, id) => saving'[s].text = t

\* No update was sent.
FewerWrites ==
    \A s \in Saves : \A id : WritesNow(s, id) => Writes(s, id) /\ saving'[s].text = saving[s].text

\* What is written into a row is what an update carried.
RowsAsWritten ==
    \A id \in Rows : \/ stored'[id].text = stored[id].text
                     \/ \E s \in Saves : Writes(s, id) /\ stored'[id].text = saving[s].text

LEMMA WritesNamesRow ==
    ASSUME WizardTyped, NEW s \in Saves, NEW id, Writes(s, id)
    PROVE  id \in Rows /\ saving[s] # Free /\ saving[s] \in Working
BY AsksForRow DEF Writes

LEMMA KeepsNow ==
    ASSUME editor'.form = editor'.base =>
               IF editor'.id = 0 THEN local' = editor'.form ELSE HoldsNow(editor'.id, editor'.form),
           editor'.auto # None /\ saving'[editor'.auto].pc = "answered" /\ saving'[editor'.auto].ok =>
               /\ stored'[editor'.id].text = saving'[editor'.auto].text
               /\ \A s \in Saves : ~WritesNow(s, editor'.id),
           editor'.wait # None =>
               /\ saving'[editor'.wait].text = editor'.form
               /\ saving'[editor'.wait].op # "submit" /\ saving'[editor'.wait].pc = "answered"
                  /\ saving'[editor'.wait].ok
                      => HoldsNow(saving'[editor'.wait].id, saving'[editor'.wait].text),
           editor'.id # 0 =>
               /\ stored'[editor'.id].text = texts' => editor'.form = texts'
               /\ \A s \in Saves : WritesNow(s, editor'.id) /\ saving'[s].text = texts'
                                       => editor'.form = texts',
           editor'.new => local' = editor'.form \/ local' < texts' \/ local' = 0,
           ~editor'.shown => editor'.form = editor'.base \/ local' = editor'.form
    PROVE  PageKeeps'
<1>1. CleanIsKept'
  BY DEF CleanIsKept, Dirty, Holds, HoldsNow, Writes, WritesNow
<1>2. AutosaveStored'
  BY DEF AutosaveStored, Writes, WritesNow
<1>3. WaitStores'
  BY DEF WaitStores, Waiting, Holds, HoldsNow, Writes, WritesNow
<1>4. FormIsNewest'
  BY DEF FormIsNewest, Writes, WritesNow
<1>5. LocalIsOld' /\ LeftClean'
  BY DEF LocalIsOld, LeftClean, Dirty
<1>6. QED
  BY <1>1, <1>2, <1>3, <1>4, <1>5 DEF PageKeeps

LEMMA NewestNow ==
    ASSUME \/ texts' \in {0, local'}
           \/ editor'.open /\ editor'.form = texts'
           \/ \E id \in Rows' : HoldsNow(id, texts')
    PROVE  NewestHeld'
BY DEF NewestHeld, Holds, HoldsNow, Writes, WritesNow

LEMMA HeldOn ==
    ASSUME FewerWrites, RowsAsWritten, NEW id \in Rows, NEW t, Holds(id, t)
    PROVE  HoldsNow(id, t)
BY DEF FewerWrites, RowsAsWritten, Holds, HoldsNow

LEMMA OneStillWrites ==
    ASSUME WizardTyped, FewerWrites, OneWrites PROVE OneWrites'
<1>1. \A s \in Saves : \A id : WritesNow(s, id) => Writes(s, id) /\ id \in Rows
  BY WritesNamesRow DEF FewerWrites
<1>2. QED
  BY <1>1 DEF OneWrites, Writes, WritesNow

LEMMA RowsUnwritten == ASSUME stored' = stored PROVE RowsAsWritten /\ Rows' = Rows
BY DEF RowsAsWritten, Rows

\* The page as it was.
LEMMA PageHas ==
    ASSUME WizardTyped, TextsKept, editor.open
    PROVE  /\ editor.form = editor.base =>
               IF editor.id = 0 THEN local = editor.form ELSE Holds(editor.id, editor.form)
           /\ editor.auto # None /\ saving[editor.auto].pc = "answered" /\ saving[editor.auto].ok =>
                  /\ stored[editor.id].text = saving[editor.auto].text
                  /\ \A s \in Saves : ~Writes(s, editor.id)
           /\ editor.wait # None =>
                  /\ saving[editor.wait].text = editor.form
                  /\ saving[editor.wait].op # "submit" /\ saving[editor.wait].pc = "answered"
                     /\ saving[editor.wait].ok
                         => Holds(saving[editor.wait].id, saving[editor.wait].text)
           /\ editor.id # 0 =>
                  /\ stored[editor.id].text = texts => editor.form = texts
                  /\ \A s \in Saves : Writes(s, editor.id) /\ saving[s].text = texts
                                          => editor.form = texts
           /\ editor.new => local = editor.form \/ local < texts \/ local = 0
           /\ ~editor.shown => editor.form = editor.base \/ local = editor.form
BY DEF TextsKept, PageKeeps, CleanIsKept, AutosaveStored, WaitStores, FormIsNewest, LocalIsOld,
   LeftClean, Dirty, Waiting

-----------------------------------------------------------------------------
(* What the server does keeps the texts.                                   *)

LEMMA ServerKeeps ==
    ASSUME WizardTyped, TextsKept, UNCHANGED <<editor, local, texts>>, Rows \subseteq Rows',
           FewerWrites, RowsAsWritten,
           \A s \in Saves : Heard(s) =>
               saving'[s].op = saving[s].op /\ saving'[s].text = saving[s].text,
           \A s \in Saves : /\ Heard(s) /\ saving'[s] # saving[s] /\ saving'[s].op # "submit"
                            /\ saving'[s].pc = "answered" /\ saving'[s].ok
               => /\ stored'[saving'[s].id].text = saving[s].text
                  /\ \/ Writes(s, saving'[s].id)
                     \/ saving'[s].id \notin Rows /\ saving[s].op = "create"
    PROVE  TextsKept'
<1>1. OneWrites'
  BY OneStillWrites DEF TextsKept
<1>2. NewestHeld'
  BY HeldOn, NewestNow DEF TextsKept, NewestHeld
<1>3. ASSUME editor.open PROVE PageKeeps'
  <2>1. /\ editor.auto \in Saves \cup {None} /\ editor.wait \in Saves \cup {None} /\ PageFits
        /\ editor.id \in Rows \cup {0}
    BY <1>3, PageRow DEF PageFits
  <2>2. editor.form = editor.base =>
            IF editor.id = 0 THEN local = editor.form ELSE HoldsNow(editor.id, editor.form)
    BY <1>3, <2>1, PageHas, HeldOn
  <2>3. ASSUME NEW s \in Saves, Heard(s), saving'[s] # saving[s], saving'[s].op # "submit",
               saving'[s].pc = "answered", saving'[s].ok
        PROVE  HoldsNow(saving'[s].id, saving'[s].text)
               /\ \A r \in Saves : ~WritesNow(r, saving'[s].id)
    <3>1. ASSUME NEW r \in Saves, WritesNow(r, saving'[s].id) PROVE FALSE
      <4>1. Writes(r, saving'[s].id) /\ saving'[s].id \in Rows
        BY <3>1, WritesNamesRow DEF FewerWrites
      <4>2. Writes(s, saving'[s].id)
        BY <2>3, <4>1
      <4>3. r = s
        BY <4>1, <4>2 DEF TextsKept, OneWrites
      <4>4. QED
        BY <2>3, <3>1, <4>3 DEF WritesNow
    <3>2. stored'[saving'[s].id].text = saving'[s].text
      BY <2>3
    <3>3. QED
      BY <3>1, <3>2 DEF HoldsNow
  <2>4. ASSUME editor.auto # None, saving'[editor.auto].pc = "answered", saving'[editor.auto].ok
        PROVE  /\ stored'[editor.id].text = saving'[editor.auto].text
               /\ \A s \in Saves : ~WritesNow(s, editor.id)
    <3>1. /\ saving[editor.auto].op = "update" /\ saving[editor.auto].id = editor.id
          /\ Heard(editor.auto) /\ editor.auto \in Saves
      BY <1>3, <2>1, <2>4 DEF PageFits, Heard
    <3>2. editor.id \in Rows
      BY <3>1, AsksForRow
    <3>3. CASE saving'[editor.auto] = saving[editor.auto]
      <4>1. /\ stored[editor.id].text = saving[editor.auto].text
            /\ \A s \in Saves : ~Writes(s, editor.id)
        BY <1>3, <2>4, <3>3, PageHas
      <4>2. QED
        BY <3>2, <3>3, <4>1 DEF FewerWrites, RowsAsWritten
    <3>4. CASE saving'[editor.auto] # saving[editor.auto]
      <4>1. /\ HoldsNow(saving'[editor.auto].id, saving'[editor.auto].text)
            /\ \A r \in Saves : ~WritesNow(r, saving'[editor.auto].id)
        BY <2>3, <2>4, <3>1, <3>4
      <4>2. saving'[editor.auto].id = editor.id
        BY <2>4, <3>1, <3>4 DEF Writes
      <4>3. QED
        BY <4>1, <4>2 DEF HoldsNow
    <3>5. QED
      BY <3>3, <3>4
  <2>5. ASSUME editor.wait # None
        PROVE  /\ saving'[editor.wait].text = editor.form
               /\ saving'[editor.wait].op # "submit" /\ saving'[editor.wait].pc = "answered"
                  /\ saving'[editor.wait].ok
                      => HoldsNow(saving'[editor.wait].id, saving'[editor.wait].text)
    <3>1. editor.wait \in Saves /\ Heard(editor.wait)
      BY <1>3, <2>1, <2>5 DEF Heard
    <3>2. saving'[editor.wait].text = editor.form
      BY <1>3, <2>5, <3>1, PageHas
    <3>3. ASSUME saving'[editor.wait] = saving[editor.wait], saving'[editor.wait].op # "submit",
                 saving'[editor.wait].pc = "answered", saving'[editor.wait].ok
          PROVE  HoldsNow(saving'[editor.wait].id, saving'[editor.wait].text)
      <4>1. Holds(saving[editor.wait].id, saving[editor.wait].text)
        BY <1>3, <2>5, <3>3, PageHas
      <4>2. saving[editor.wait].id \in Rows
        BY <2>1, <1>3, <2>5, <3>1, <3>3, AskedRow DEF PageFits, Waiting, WizardTyped, RequestFits
      <4>3. QED
        BY <3>3, <4>1, <4>2, HeldOn
    <3>4. QED
      BY <2>3, <3>1, <3>2, <3>3
  <2>6. ASSUME editor.id # 0
        PROVE  /\ stored'[editor.id].text = texts => editor.form = texts
               /\ \A s \in Saves : WritesNow(s, editor.id) /\ saving'[s].text = texts
                                       => editor.form = texts
    BY <1>3, <2>1, <2>6, PageHas DEF FewerWrites, RowsAsWritten
  <2>7. /\ editor.new => local = editor.form \/ local < texts \/ local = 0
        /\ ~editor.shown => editor.form = editor.base \/ local = editor.form
    BY <1>3, PageHas
  <2>8. QED
    BY <2>2, <2>4, <2>5, <2>6, <2>7, KeepsNow
<1>4. QED
  BY <1>1, <1>2, <1>3 DEF TextsKept

\* What a step leaves of one request.
LEMMA OneRequestMoves ==
    ASSUME NEW s \in Saves, \A r \in Saves \ {s} : saving'[r] = saving[r],
           \/ saving'[s].op # "update" \/ saving'[s].pc = "answered"
           \/ /\ saving'[s].op = saving[s].op /\ saving'[s].id = saving[s].id
              /\ saving'[s].text = saving[s].text /\ saving[s].pc # "answered"
    PROVE  FewerWrites
BY DEF FewerWrites, Writes, WritesNow

LEMMA AnsweredMoves ==
    ASSUME WizardTyped, NEW s \in Saves, saving[s].op \in {"update", "submit"},
           NEW ok \in BOOLEAN, NEW status \in Statuses \cup {None}, RequestAnswered(s, ok, status)
    PROVE  /\ saving'[s].op # "update" \/ saving'[s].pc = "answered"
           /\ Heard(s) => /\ saving'[s].op = saving[s].op /\ saving'[s].id = saving[s].id
                          /\ saving'[s].text = saving[s].text /\ saving'[s].ok = ok
<1>1. saving[s] \in Working
  BY AsksForRow
<1>2. QED
  BY <1>1, ReplyRow DEF RequestAnswered, Free

LEMMA CreateKeeps ==
    ASSUME WizardTyped, TextsKept, NEW s \in Saves, Create(s) PROVE TextsKept'
<1>1. /\ Rows \subseteq Rows' /\ Len(stored') \notin Rows
      /\ \A i \in Rows : stored'[i] = stored[i]
      /\ stored'[Len(stored')].text = saving[s].text
      /\ \A r \in Saves \ {s} : saving'[r] = saving[r]
      /\ IF Heard(s) THEN /\ saving'[s].op = "create" /\ saving'[s].pc = "answered"
                          /\ saving'[s].id = Len(stored') /\ Len(stored') \in Rows'
                          /\ saving'[s].text = saving[s].text
         ELSE saving'[s] = Free
  BY CreateTyped
<1>2. saving[s].op = "create" /\ UNCHANGED <<editor, local, texts>>
  BY DEF Create
<1>3. FewerWrites /\ RowsAsWritten
  BY <1>1, OneRequestMoves DEF Free, RowsAsWritten
<1>4. QED
  BY <1>1, <1>2, <1>3, ServerKeeps

LEMMA ReadKeeps ==
    ASSUME WizardTyped, TextsKept, NEW s \in Saves, ReadRow(s) PROVE TextsKept'
<1>1. /\ \A r \in Saves \ {s} : saving'[r] = saving[r]
      /\ \/ RequestAnswered(s, FALSE, None)
         \/ /\ saving'[s].op = saving[s].op /\ saving'[s].id = saving[s].id
            /\ saving'[s].text = saving[s].text /\ saving'[s].pc = "read"
  BY ReadTyped
<1>2. /\ saving[s].op \in {"update", "submit"} /\ saving[s].pc = "sent"
      /\ UNCHANGED <<stored, editor, local, texts>>
  BY DEF ReadRow
<1>3. /\ saving'[s].op # "update" \/ saving'[s].pc # "sent"
      /\ Heard(s) => /\ saving'[s].op = saving[s].op /\ saving'[s].text = saving[s].text
                     /\ saving'[s].pc # "answered" \/ saving'[s].ok = FALSE
      /\ FewerWrites
  <2>1. CASE RequestAnswered(s, FALSE, None)
    <3>1. /\ saving'[s].op # "update" \/ saving'[s].pc = "answered"
          /\ Heard(s) => /\ saving'[s].op = saving[s].op /\ saving'[s].id = saving[s].id
                         /\ saving'[s].text = saving[s].text /\ saving'[s].ok = FALSE
      BY <1>2, <2>1, AnsweredMoves
    <3>2. FewerWrites
      BY <1>1, <3>1, OneRequestMoves
    <3>3. QED
      BY <3>1, <3>2
  <2>2. CASE /\ saving'[s].op = saving[s].op /\ saving'[s].id = saving[s].id
             /\ saving'[s].text = saving[s].text /\ saving'[s].pc = "read"
    <3>1. FewerWrites
      BY <1>1, <1>2, <2>2, OneRequestMoves
    <3>2. QED
      BY <2>2, <3>1
  <2>3. QED
    BY <1>1, <2>1, <2>2
<1>4. RowsAsWritten /\ Rows' = Rows
  BY <1>2, RowsUnwritten
<1>5. QED
  BY <1>1, <1>2, <1>3, <1>4, ServerKeeps

LEMMA WriteKeeps ==
    ASSUME WizardTyped, TextsKept, NEW s \in Saves, WriteRow(s) PROVE TextsKept'
<1>1. /\ Rows' = Rows
      /\ \A i \in Rows : stored'[i].text =
             IF i = saving[s].id THEN saving[s].text ELSE stored[i].text
      /\ RequestAnswered(s, TRUE, StatusAfter(s))
      /\ \A r \in Saves \ {s} : saving'[r] = saving[r]
  BY WriteTyped
<1>2. /\ saving[s].op = "update" /\ saving[s].pc = "read" /\ saving[s].id \in Rows
      /\ StatusAfter(s) \in Statuses /\ UNCHANGED <<editor, local, texts>>
  BY AsksForRow, StatusWritten DEF WriteRow, Statuses
<1>3. /\ saving'[s].op # "update" \/ saving'[s].pc = "answered"
      /\ Heard(s) => /\ saving'[s].op = saving[s].op /\ saving'[s].id = saving[s].id
                     /\ saving'[s].text = saving[s].text
  BY <1>1, <1>2, AnsweredMoves
<1>4. Writes(s, saving[s].id)
  BY <1>2 DEF Writes
<1>5. FewerWrites /\ RowsAsWritten
  BY <1>1, <1>3, <1>4, OneRequestMoves DEF RowsAsWritten
<1>6. QED
  BY <1>1, <1>2, <1>3, <1>4, <1>5, ServerKeeps

LEMMA SubmitKeeps ==
    ASSUME WizardTyped, TextsKept, NEW s \in Saves, SubmitRow(s) PROVE TextsKept'
<1>1. /\ Rows' = Rows
      /\ \A i \in Rows : stored'[i].text = stored[i].text
      /\ \A r \in Saves \ {s} : saving'[r] = saving[r]
  BY SubmitTyped
<1>2. PICK ok \in BOOLEAN, status \in Statuses \cup {None} : RequestAnswered(s, ok, status)
  BY SubmitTyped
<1>3. saving[s].op = "submit" /\ UNCHANGED <<editor, local, texts>>
  BY DEF SubmitRow
<1>4. /\ saving'[s].op # "update" \/ saving'[s].pc = "answered"
      /\ Heard(s) => saving'[s].op = saving[s].op /\ saving'[s].text = saving[s].text
  BY <1>2, <1>3, AnsweredMoves
<1>5. FewerWrites /\ RowsAsWritten
  BY <1>1, <1>4, OneRequestMoves DEF RowsAsWritten
<1>6. QED
  BY <1>1, <1>3, <1>4, <1>5, ServerKeeps

\* A step that touches none of the texts.
LEMMA TextsUntouched ==
    ASSUME WizardTyped, TextsKept, UNCHANGED <<editor, saving, local, texts>>, Rows' = Rows,
           \A i \in Rows : stored'[i].text = stored[i].text
    PROVE  TextsKept'
<1>1. FewerWrites /\ RowsAsWritten
  BY DEF FewerWrites, RowsAsWritten, Writes, WritesNow
<1>2. QED
  BY <1>1, ServerKeeps

LEMMA UnheardKeeps ==
    ASSUME WizardTyped, TextsKept, NEW s \in Saves, Unheard(s) PROVE TextsKept'
<1>1. /\ Rows' = Rows /\ saving'[s] = Free /\ ~Heard(s)
      /\ \A r \in Saves \ {s} : saving'[r] = saving[r]
      /\ UNCHANGED <<stored, editor, local, texts>>
  BY UnheardTyped DEF Unheard
<1>2. FewerWrites /\ RowsAsWritten
  BY <1>1, OneRequestMoves, RowsUnwritten DEF Free
<1>3. QED
  BY <1>1, <1>2, ServerKeeps

-----------------------------------------------------------------------------
(* What the page does keeps the texts.                                     *)

\* A page that is gone has left its text behind.
LEMMA GoneKeeps ==
    ASSUME WizardTyped, TextsKept, editor.open, editor' = Closed,
           UNCHANGED <<stored, local, texts>>, FewerWrites,
           editor.form = editor.base \/ local = editor.form
    PROVE  TextsKept'
<1>1. RowsAsWritten /\ Rows' = Rows
  BY RowsUnwritten
<1>2. OneWrites'
  BY OneStillWrites DEF TextsKept
<1>3. NewestHeld'
  <2>1. CASE editor.form = texts
    <3>1. CASE editor.form = editor.base /\ editor.id # 0
      <4>1. editor.id \in Rows
        BY <3>1, PageRow DEF PageFits
      <4>2. Holds(editor.id, texts)
        BY <2>1, <3>1, PageHas
      <4>3. QED
        BY <1>1, <4>1, <4>2, HeldOn, NewestNow
    <3>2. CASE local = editor.form
      BY <2>1, <3>2, NewestNow
    <3>3. QED
      BY <3>1, <3>2, PageHas
  <2>2. CASE editor.form # texts
    BY <1>1, <2>2, HeldOn, NewestNow DEF TextsKept, NewestHeld
  <2>3. QED
    BY <2>1, <2>2
<1>4. ~editor'.open
  BY DEF Closed
<1>5. QED
  BY <1>2, <1>3, <1>4 DEF TextsKept

\* A page that stops listening to a request, or is left, keeps its texts.
LEMMA IdleKeeps ==
    ASSUME WizardTyped, TextsKept, editor.open, editor'.open,
           UNCHANGED <<stored, local, texts>>, FewerWrites,
           editor'.form = editor.form, editor'.base = editor.base, editor'.id = editor.id,
           editor'.new = editor.new,
           ~editor'.shown => editor.form = editor.base \/ local = editor.form,
           editor'.auto \in {editor.auto, None}, editor'.wait \in {editor.wait, None},
           \A r \in {editor'.auto, editor'.wait} \ {None} : saving'[r] = saving[r]
    PROVE  TextsKept'
<1>1. RowsAsWritten /\ Rows' = Rows
  BY RowsUnwritten
<1>2. OneWrites'
  BY OneStillWrites DEF TextsKept
<1>3. NewestHeld'
  BY <1>1, HeldOn, NewestNow DEF TextsKept, NewestHeld
<1>4. editor.id \in Rows \cup {0} /\ PageFits /\ editor.wait \in Saves \cup {None}
  BY PageRow DEF PageFits
<1>5. editor.form = editor.base =>
          IF editor.id = 0 THEN local = editor.form ELSE HoldsNow(editor.id, editor.form)
  BY <1>1, <1>4, PageHas, HeldOn
<1>6. editor'.auto # None /\ saving'[editor'.auto].pc = "answered" /\ saving'[editor'.auto].ok =>
          /\ stored'[editor'.id].text = saving'[editor'.auto].text
          /\ \A s \in Saves : ~WritesNow(s, editor'.id)
  BY PageHas DEF FewerWrites
<1>7. ASSUME editor'.wait # None
      PROVE  /\ saving'[editor'.wait].text = editor'.form
             /\ saving'[editor'.wait].op # "submit" /\ saving'[editor'.wait].pc = "answered"
                /\ saving'[editor'.wait].ok
                    => HoldsNow(saving'[editor'.wait].id, saving'[editor'.wait].text)
  <2>1. editor'.wait = editor.wait /\ saving'[editor.wait] = saving[editor.wait]
    BY <1>7
  <2>2. saving[editor.wait].pc = "answered" => saving[editor.wait].id \in Rows
    BY <1>4, <1>7, <2>1, AskedRow DEF PageFits, Waiting, WizardTyped, RequestFits
  <2>3. QED
    BY <1>1, <1>7, <2>1, <2>2, PageHas, HeldOn
<1>8. editor.id # 0 =>
          /\ stored'[editor.id].text = texts' => editor.form = texts'
          /\ \A s \in Saves : WritesNow(s, editor.id) /\ saving'[s].text = texts'
                                  => editor.form = texts'
  BY PageHas DEF FewerWrites
<1>9. editor.new => local = editor.form \/ local < texts \/ local = 0
  BY PageHas
<1>10. PageKeeps'
  BY <1>5, <1>6, <1>7, <1>8, <1>9, KeepsNow
<1>11. QED
  BY <1>2, <1>3, <1>10 DEF TextsKept

LEMMA FailsKeeps ==
    ASSUME WizardTyped, TextsKept, NEW s \in Saves, Fails(s) PROVE TextsKept'
<1>1. /\ saving'[s] \in {saving[s], Free}
      /\ \A r \in Saves \ {s} : saving'[r] = saving[r]
      /\ \/ editor' = Closed /\ ~editor.shown
         \/ /\ editor'.open
            /\ \/ editor'.auto = editor.auto /\ editor'.wait = None /\ editor.wait = s
               \/ editor'.auto = None /\ editor'.wait = editor.wait /\ editor.auto = s
            /\ editor'.form = editor.form /\ editor'.base = editor.base
            /\ editor'.id = editor.id /\ editor'.new = editor.new
            /\ editor'.shown = editor.shown
  BY FailsTyped
<1>2. editor.open /\ UNCHANGED <<stored, local, texts>> /\ s # None
  BY NoneIsNoSave DEF Fails
<1>3. FewerWrites
  BY <1>1 DEF FewerWrites, Writes, WritesNow, Free
<1>4. /\ editor.auto \in Saves \cup {None} /\ editor.wait \in Saves \cup {None}
      /\ editor.wait # None => editor.wait # editor.auto
      /\ ~editor.shown => editor.form = editor.base \/ local = editor.form
  BY <1>2, PageRow, PageHas DEF PageFits, Waiting
<1>5. CASE editor' = Closed /\ ~editor.shown
  BY <1>2, <1>3, <1>4, <1>5, GoneKeeps
<1>6. CASE editor'.open
  <2>1. \A r \in {editor'.auto, editor'.wait} \ {None} : saving'[r] = saving[r]
    BY <1>1, <1>2, <1>4, <1>6 DEF Closed
  <2>2. QED
    BY <1>1, <1>2, <1>3, <1>4, <1>6, <2>1, IdleKeeps DEF Closed
<1>7. QED
  BY <1>1, <1>5, <1>6

LEMMA ChainRefusedKeeps ==
    ASSUME WizardTyped, TextsKept, NEW s \in Saves, ChainRefused(s) PROVE TextsKept'
<1>1. /\ saving'[s] = Free /\ \A r \in Saves \ {s} : saving'[r] = saving[r]
      /\ editor.open /\ editor.wait = s /\ Refused /\ UNCHANGED <<stored, local, texts>>
      /\ s # None
  BY ChainRefusedTyped, NoneIsNoSave DEF ChainRefused
<1>2. FewerWrites
  BY <1>1 DEF FewerWrites, Writes, WritesNow, Free
<1>3. /\ editor.auto \in Saves \cup {None} /\ editor.wait # editor.auto
      /\ ~editor.shown => editor.form = editor.base \/ local = editor.form
  BY <1>1, PageRow, PageHas DEF PageFits, Waiting
<1>4. \/ editor' = Closed /\ ~editor.shown
      \/ /\ editor'.open /\ editor'.auto = editor.auto /\ editor'.wait = None
         /\ editor'.form = editor.form /\ editor'.base = editor.base
         /\ editor'.id = editor.id /\ editor'.new = editor.new
         /\ editor'.shown = editor.shown
  BY <1>1, RefusedPage
<1>5. CASE editor' = Closed /\ ~editor.shown
  BY <1>1, <1>2, <1>3, <1>5, GoneKeeps
<1>6. CASE editor'.open
  BY <1>1, <1>2, <1>3, <1>4, <1>6, IdleKeeps DEF Closed
<1>7. QED
  BY <1>4, <1>5, <1>6

LEMMA SubmitAnsweredKeeps ==
    ASSUME WizardTyped, TextsKept, NEW s \in Saves, SubmitAnswered(s) PROVE TextsKept'
<1>1. /\ saving'[s] = Free /\ \A r \in Saves \ {s} : saving'[r] = saving[r]
      /\ editor.open /\ editor.wait = s /\ UNCHANGED <<stored, local, texts>>
      /\ s # None
  BY SubmitAnsweredTyped, NoneIsNoSave DEF SubmitAnswered
<1>2. FewerWrites
  BY <1>1 DEF FewerWrites, Writes, WritesNow, Free
<1>3. /\ editor.auto \in Saves \cup {None} /\ editor.wait # editor.auto
      /\ ~editor.shown => editor.form = editor.base \/ local = editor.form
  BY <1>1, PageRow, PageHas DEF PageFits, Waiting
<1>4. \/ editor' = Closed /\ ~editor.shown
      \/ /\ editor'.open /\ editor'.auto = editor.auto /\ editor'.wait = None
         /\ editor'.form = editor.form /\ editor'.base = editor.base
         /\ editor'.id = editor.id /\ editor'.new = editor.new
         /\ editor'.shown = editor.shown
  BY SubmitAnsweredTyped
<1>5. CASE editor' = Closed /\ ~editor.shown
  BY <1>1, <1>2, <1>3, <1>5, GoneKeeps
<1>6. CASE editor'.open
  BY <1>1, <1>2, <1>3, <1>4, <1>6, IdleKeeps DEF Closed
<1>7. QED
  BY <1>4, <1>5, <1>6

LEMMA LeaveKeeps ==
    ASSUME WizardTyped, TextsKept, NEW unload \in BOOLEAN, Leave(unload), ~risk'
    PROVE  TextsKept'
<1>1. editor.open /\ UNCHANGED <<stored, local, texts, saving>>
  BY DEF Leave
<1>2. ~(Dirty /\ local # editor.form)
  BY DEF Leave
<1>3. editor.form = editor.base \/ local = editor.form
  BY <1>2 DEF Dirty
<1>4. FewerWrites
  BY <1>1 DEF FewerWrites, Writes, WritesNow
<1>5. CASE unload \/ ~Waiting
  BY <1>1, <1>3, <1>4, <1>5, GoneKeeps DEF Leave
<1>6. CASE ~(unload \/ ~Waiting)
  <2>1. editor' = [editor EXCEPT !.shown = FALSE, !.auto = None]
    BY <1>6 DEF Leave
  <2>2. editor \in Editors
    BY <1>1, PageRow
  <2>3. /\ editor'.open /\ editor'.form = editor.form /\ editor'.base = editor.base
        /\ editor'.id = editor.id /\ editor'.new = editor.new
        /\ editor'.auto = None /\ editor'.wait = editor.wait
    BY <2>1, <2>2 DEF Editors
  <2>4. QED
    BY <1>1, <1>3, <1>4, <2>3, IdleKeeps
<1>7. QED
  BY <1>5, <1>6

LEMMA BackKeeps == ASSUME WizardTyped, TextsKept, Back PROVE TextsKept'
<1>1. /\ editor.open /\ editor.shown /\ editor' = [editor EXCEPT !.at = "form"]
      /\ UNCHANGED <<stored, local, texts, saving>>
  BY DEF Back, FormShown
<1>2. editor \in Editors
  BY <1>1, PageRow
<1>3. /\ editor'.open /\ editor'.form = editor.form /\ editor'.base = editor.base
      /\ editor'.id = editor.id /\ editor'.new = editor.new /\ editor'.shown
      /\ editor'.auto = editor.auto /\ editor'.wait = editor.wait
  BY <1>1, <1>2 DEF Editors
<1>4. FewerWrites
  BY <1>1 DEF FewerWrites, Writes, WritesNow
<1>5. QED
  BY <1>1, <1>3, <1>4, IdleKeeps

\* A page that opens starts with what is saved, and nothing is under way for it.
LEMMA OpenKeeps == ASSUME WizardTyped, TextsKept, OpenWizard, ~risk' PROVE TextsKept'
<1>1. ~editor.open /\ UNCHANGED <<stored, local, texts, saving>>
  BY DEF OpenWizard
<1>2. FewerWrites /\ RowsAsWritten /\ Rows' = Rows
  BY <1>1, RowsUnwritten DEF FewerWrites, Writes, WritesNow
<1>3. OneWrites' /\ NewestHeld'
  BY <1>1, <1>2, OneStillWrites, HeldOn, NewestNow DEF TextsKept, NewestHeld
<1>4. CASE editor' = Opened(0, local, None, "form")
  <2>1. 0 \in Ids /\ local \in Texts
    BY WizardAssumption DEF Ids, WizardTyped, CountsTyped
  <2>2. /\ editor'.open /\ editor'.id = 0 /\ editor'.form = local /\ editor'.shown
        /\ editor'.base = local /\ editor'.auto = None /\ editor'.wait = None
    BY <1>4, <2>1, OpenedRow
  <2>3. PageKeeps'
    BY <1>1, <2>2, KeepsNow
  <2>4. QED
    BY <1>3, <2>3 DEF TextsKept
<1>5. CASE \E id \in Rows, at \in {"form", "after"} :
              /\ editor' = Opened(id, stored[id].text, stored[id].status, at)
              /\ risk' = (risk \/ Under(id))
  <2>1. PICK id \in Rows, at \in {"form", "after"} :
              /\ editor' = Opened(id, stored[id].text, stored[id].status, at)
              /\ risk' = (risk \/ Under(id))
    BY <1>5
  <2>2. id \in Ids /\ id # 0 /\ stored[id].text \in Texts /\ stored[id].status \in Statuses
    BY StoredRow, RowIds DEF WizardTyped, HomeRows
  <2>3. /\ editor'.open /\ editor'.id = id /\ editor'.form = stored[id].text
        /\ editor'.base = stored[id].text /\ editor'.auto = None /\ editor'.wait = None
        /\ editor'.shown /\ ~editor'.new
    BY <2>1, <2>2, OpenedRow
  <2>4. \A s \in Saves : ~Writes(s, id)
    <3>1. ~Under(id)
      BY <2>1
    <3>2. QED
      BY <2>2, <3>1, WritesNamesRow DEF Under, Writes
  <2>5. \A s \in Saves : ~WritesNow(s, id)
    BY <1>2, <2>4 DEF FewerWrites
  <2>6. HoldsNow(id, stored[id].text)
    BY <1>1, <2>5 DEF HoldsNow
  <2>7. PageKeeps'
    BY <1>1, <2>2, <2>3, <2>5, <2>6, KeepsNow
  <2>8. QED
    BY <1>3, <2>7 DEF TextsKept
<1>6. QED
  BY <1>4, <1>5 DEF OpenWizard

\* A new text is in the form and nowhere else.
LEMMA TypeKeeps == ASSUME WizardTyped, TextsKept, Type, ~risk' PROVE TextsKept'
<1>1. /\ editor.open /\ editor.shown /\ texts' = texts + 1
      /\ editor' = [editor EXCEPT !.form = texts']
      /\ UNCHANGED <<stored, local, saving>>
  BY DEF Type, FormShown
<1>2. ~Waiting
  BY DEF Type
<1>3. /\ editor \in Editors /\ PageFits /\ editor.base \in Nat /\ texts \in Nat /\ local \in Nat
      /\ local <= texts /\ editor.base <= texts /\ editor.id \in Rows \cup {0}
  BY <1>1, PageRow, TextsAreNaturals DEF PageFits, WizardTyped, CountsTyped
<1>4. /\ editor'.open /\ editor'.form = texts' /\ editor'.base = editor.base
      /\ editor'.id = editor.id /\ editor'.new = editor.new /\ editor'.shown
      /\ editor'.auto = editor.auto /\ editor'.wait = None
  BY <1>1, <1>2, <1>3 DEF Editors, Waiting
<1>5. FewerWrites
  BY <1>1 DEF FewerWrites, Writes, WritesNow
<1>6. OneWrites' /\ NewestHeld'
  BY <1>4, <1>5, OneStillWrites, NewestNow DEF TextsKept
<1>7. editor'.form # editor'.base /\ local' < texts'
  BY <1>1, <1>3, <1>4
<1>8. editor'.auto # None /\ saving'[editor'.auto].pc = "answered" /\ saving'[editor'.auto].ok =>
          /\ stored'[editor'.id].text = saving'[editor'.auto].text
          /\ \A s \in Saves : ~WritesNow(s, editor'.id)
  BY <1>1, <1>4, <1>5, PageHas DEF FewerWrites
<1>9. PageKeeps'
  BY <1>4, <1>7, <1>8, KeepsNow
<1>10. QED
  BY <1>6, <1>9 DEF TextsKept

LEMMA SaveLocalKeeps == ASSUME WizardTyped, TextsKept, SaveLocal PROVE TextsKept'
<1>1. /\ editor.open /\ editor.id = 0 /\ local' = editor.form
      /\ UNCHANGED <<stored, editor, saving, texts>>
  BY DEF SaveLocal, FormShown
<1>2. FewerWrites /\ RowsAsWritten /\ Rows' = Rows
  BY <1>1, RowsUnwritten DEF FewerWrites, Writes, WritesNow
<1>3. editor.new /\ editor.wait \in Saves \cup {None} /\ PageFits
  BY <1>1, PageRow DEF PageFits
<1>4. NewestHeld'
  <2>1. local = texts => texts = 0 \/ editor.form = texts
    <3>1. local \in Nat /\ texts \in Nat
      BY TextsAreNaturals DEF WizardTyped, CountsTyped
    <3>2. QED
      BY <1>1, <1>3, <3>1, PageHas
  <2>2. QED
    BY <1>1, <1>2, <2>1, HeldOn, NewestNow DEF TextsKept, NewestHeld
<1>5. OneWrites'
  BY <1>2, OneStillWrites DEF TextsKept
<1>6. editor.wait # None =>
          /\ saving'[editor.wait].text = editor.form
          /\ saving'[editor.wait].op # "submit" /\ saving'[editor.wait].pc = "answered"
             /\ saving'[editor.wait].ok
                  => HoldsNow(saving'[editor.wait].id, saving'[editor.wait].text)
  <2>1. ASSUME editor.wait # None, saving[editor.wait].pc = "answered"
        PROVE  saving[editor.wait].id \in Rows
    BY <1>1, <1>3, <2>1, AskedRow DEF PageFits, Waiting, WizardTyped, RequestFits
  <2>2. QED
    BY <1>1, <1>2, <2>1, PageHas, HeldOn
<1>7. editor.auto # None /\ saving'[editor.auto].pc = "answered" /\ saving'[editor.auto].ok =>
          /\ stored'[editor.id].text = saving'[editor.auto].text
          /\ \A s \in Saves : ~WritesNow(s, editor.id)
  BY <1>1, <1>2, PageHas DEF FewerWrites
<1>8. PageKeeps'
  BY <1>1, <1>6, <1>7, KeepsNow
<1>9. QED
  BY <1>4, <1>5, <1>8 DEF TextsKept

\* The form becomes clean when it still holds what was stored.
LEMMA AutosaveAnsweredKeeps ==
    ASSUME WizardTyped, TextsKept, NEW s \in Saves, AutosaveAnswered(s) PROVE TextsKept'
<1>1. /\ saving'[s] = Free /\ Rows' = Rows
      /\ \A r \in Saves \ {s} : saving'[r] = saving[r]
      /\ editor'.open /\ editor'.auto = None /\ editor'.wait = editor.wait
      /\ editor'.form = editor.form /\ editor'.id = editor.id /\ editor'.new = editor.new
      /\ editor'.shown = editor.shown
      /\ editor'.base = IF saving[s].ok /\ editor.form = saving[s].text
                        THEN editor.form ELSE editor.base
  BY AutosaveAnsweredTyped
<1>2. /\ editor.open /\ editor.auto = s /\ saving[s].pc = "answered" /\ s # None
      /\ UNCHANGED <<stored, local, texts>>
  BY NoneIsNoSave DEF AutosaveAnswered
<1>3. /\ FewerWrites /\ RowsAsWritten
  BY <1>1, <1>2, OneRequestMoves, RowsUnwritten DEF Free
<1>4. OneWrites' /\ NewestHeld'
  BY <1>1, <1>2, <1>3, OneStillWrites, HeldOn, NewestNow DEF TextsKept, NewestHeld
<1>5. /\ PageFits /\ editor.wait \in Saves \cup {None} /\ editor.id \in Rows
      /\ editor.id # 0 /\ (editor.wait # None => editor.wait # s) /\ editor.shown
  <2>1. PageFits /\ editor.wait \in Saves \cup {None} /\ saving[s].op = "update"
        /\ saving[s].id = editor.id
    BY <1>2, PageRow DEF PageFits
  <2>2. editor.id \in Rows
    BY <2>1, AsksForRow
  <2>3. QED
    BY <1>2, <2>1, <2>2, RowIds DEF PageFits, Waiting, WizardTyped
<1>6. editor'.form = editor'.base => HoldsNow(editor.id, editor.form)
  <2>1. CASE saving[s].ok /\ editor.form = saving[s].text
    BY <1>2, <1>3, <2>1, PageHas DEF HoldsNow, FewerWrites
  <2>2. CASE ~(saving[s].ok /\ editor.form = saving[s].text)
    BY <1>1, <1>2, <1>3, <1>5, <2>2, PageHas, HeldOn
  <2>3. QED
    BY <2>1, <2>2
<1>7. editor.wait # None =>
          /\ saving'[editor.wait].text = editor.form
          /\ saving'[editor.wait].op # "submit" /\ saving'[editor.wait].pc = "answered"
             /\ saving'[editor.wait].ok
                  => HoldsNow(saving'[editor.wait].id, saving'[editor.wait].text)
  <2>1. editor.wait # None => saving'[editor.wait] = saving[editor.wait]
    BY <1>1, <1>5
  <2>2. ASSUME editor.wait # None, saving[editor.wait].pc = "answered"
        PROVE  saving[editor.wait].id \in Rows
    BY <1>2, <1>5, <2>2, AskedRow DEF PageFits, Waiting, WizardTyped, RequestFits
  <2>3. QED
    BY <1>2, <1>3, <2>1, <2>2, PageHas, HeldOn
<1>8. /\ stored'[editor.id].text = texts' => editor.form = texts'
      /\ \A r \in Saves : WritesNow(r, editor.id) /\ saving'[r].text = texts'
                               => editor.form = texts'
  BY <1>2, <1>3, <1>5, PageHas DEF FewerWrites
<1>9. editor.new => local = editor.form \/ local < texts \/ local = 0
  BY <1>2, PageHas
<1>10. PageKeeps'
  BY <1>1, <1>2, <1>5, <1>6, <1>7, <1>8, <1>9, KeepsNow
<1>11. QED
  BY <1>4, <1>10 DEF TextsKept

\* localStorage is cleared when the text it was typed for is stored.
LEMMA PersistAnsweredKeeps ==
    ASSUME WizardTyped, TextsKept, NEW s \in Saves, PersistAnswered(s), ~risk'
    PROVE  TextsKept'
<1>1. /\ Rows' = Rows /\ saving[s].id \in Rows /\ saving[s].id # 0
      /\ saving'[s].op # "update"
      /\ \A r \in Saves \ {s} : saving'[r] = saving[r]
      /\ \/ editor' = Closed
         \/ /\ editor'.open /\ editor'.auto = editor.auto /\ editor'.new = editor.new
            /\ editor'.form = saving[s].text /\ editor'.base = saving[s].text
            /\ editor'.id = saving[s].id /\ editor'.wait \in {None, s}
            /\ editor'.wait = s => saving'[s].op = "submit" /\ saving'[s].text = saving[s].text
  BY PersistAnsweredTyped
<1>2. /\ editor.open /\ editor.wait = s /\ saving[s].pc = "answered" /\ s # None
      /\ saving[s].op # "submit" /\ saving[s].ok
      /\ UNCHANGED <<stored, texts>> /\ local' = 0
  BY NoneIsNoSave DEF PersistAnswered
<1>3. FewerWrites /\ RowsAsWritten
  BY <1>1, <1>2, OneRequestMoves, RowsUnwritten
<1>4. Holds(saving[s].id, saving[s].text) /\ saving[s].text = editor.form
  BY <1>2, PageHas
<1>5. HoldsNow(saving[s].id, saving[s].text)
  BY <1>1, <1>3, <1>4, HeldOn
<1>6. OneWrites'
  BY <1>3, OneStillWrites DEF TextsKept
<1>7. NewestHeld'
  <2>1. local = 0 \/ editor.new
    BY DEF PersistAnswered
  <2>2. local = texts => texts = 0 \/ editor.form = texts
    <3>1. local \in Nat /\ texts \in Nat
      BY TextsAreNaturals DEF WizardTyped, CountsTyped
    <3>2. QED
      BY <1>2, <2>1, <3>1, PageHas
  <2>3. editor.form = texts => HoldsNow(saving[s].id, texts')
    BY <1>2, <1>4, <1>5
  <2>4. QED
    BY <1>1, <1>2, <1>3, <2>2, <2>3, HeldOn, NewestNow DEF TextsKept, NewestHeld
<1>8. ASSUME editor'.open PROVE PageKeeps'
  <2>1. /\ editor'.auto = editor.auto /\ editor'.new = editor.new
        /\ editor'.form = saving[s].text /\ editor'.base = saving[s].text
        /\ editor'.id = saving[s].id /\ editor'.wait \in {None, s}
        /\ editor'.wait = s => saving'[s].op = "submit" /\ saving'[s].text = saving[s].text
    BY <1>1, <1>8 DEF Closed
  <2>2. editor'.auto # None =>
            /\ saving'[editor'.auto] = saving[editor.auto] /\ editor'.id = editor.id
    <3> SUFFICES ASSUME editor.auto # None
                 PROVE  saving'[editor.auto] = saving[editor.auto] /\ saving[s].id = editor.id
      BY <2>1
    <3>1. /\ editor.auto \in Saves /\ editor.auto # s /\ saving[editor.auto].op = "update"
          /\ saving[editor.auto].id = editor.id
          /\ saving[s].op = "create" => editor.id = 0
          /\ saving[s].op # "create" => saving[s].id = editor.id
      BY <1>2, PageRow DEF PageFits, Waiting
    <3>2. editor.id \in Rows /\ editor.id # 0
      BY <3>1, AsksForRow, RowIds DEF WizardTyped
    <3>3. QED
      BY <1>1, <3>1, <3>2
  <2>3. editor'.auto # None /\ saving'[editor'.auto].pc = "answered" /\ saving'[editor'.auto].ok =>
            /\ stored'[editor'.id].text = saving'[editor'.auto].text
            /\ \A r \in Saves : ~WritesNow(r, editor'.id)
    BY <1>2, <1>3, <2>1, <2>2, PageHas DEF FewerWrites
  <2>4. /\ stored'[editor'.id].text = texts' => editor'.form = texts'
        /\ \A r \in Saves : WritesNow(r, editor'.id) /\ saving'[r].text = texts'
                                 => editor'.form = texts'
    BY <1>5, <2>1 DEF HoldsNow
  <2>5. QED
    BY <1>1, <1>2, <1>5, <2>1, <2>3, <2>4, KeepsNow
<1>9. QED
  BY <1>6, <1>7, <1>8 DEF TextsKept

\* A request is sent with what the form holds, and no other writes that row.
LEMMA SentKeeps ==
    ASSUME WizardTyped, TextsKept, editor.open, editor.shown, NEW s \in Saves,
           saving[s] = Free, \A r \in Saves \ {s} : saving'[r] = saving[r],
           saving'[s].id = editor.id, saving'[s].text = editor.form, saving'[s].pc = "sent",
           editor.id # 0 => \A r \in Saves : ~Writes(r, editor.id),
           saving'[s].op = "update" => editor.id # 0,
           UNCHANGED <<stored, local, texts>>,
           editor'.open, editor'.form = editor.form, editor'.base = editor.base,
           editor'.id = editor.id, editor'.new = editor.new, editor'.shown,
           \/ editor'.auto = s /\ editor'.wait = editor.wait
           \/ editor'.auto = None /\ editor'.wait = s
    PROVE  TextsKept'
<1>1. \A r \in Saves : \A id : WritesNow(r, id) =>
          \/ Writes(r, id) /\ saving'[r].text = saving[r].text /\ r # s
          \/ r = s /\ id = editor.id /\ saving'[r].text = editor.form /\ id # 0
  BY DEF Writes, WritesNow
<1>2. \A id \in Rows : \A t : Holds(id, t) /\ (id = editor.id => t = editor.form)
                                  => HoldsNow(id, t)
  BY <1>1 DEF Holds, HoldsNow
<1>3. Rows' = Rows
  BY DEF Rows
<1>4. /\ PageFits /\ editor.id \in Rows \cup {0} /\ editor.auto \in Saves \cup {None}
      /\ editor.wait \in Saves \cup {None}
  BY PageRow DEF PageFits
<1>5. OneWrites'
  <2> SUFFICES ASSUME NEW id \in Rows, NEW q \in Saves, NEW r \in Saves,
                      WritesNow(q, id), WritesNow(r, id)
               PROVE  q = r
    BY <1>3 DEF OneWrites, Writes, WritesNow
  <2>1. CASE q # s /\ r # s
    BY <1>1, <2>1 DEF TextsKept, OneWrites
  <2>2. CASE q = s \/ r = s
    BY <1>1, <2>2
  <2>3. QED
    BY <2>1, <2>2
<1>6. NewestHeld'
  <2>1. ASSUME NEW id \in Rows, Holds(id, texts) PROVE HoldsNow(id, texts) \/ editor.form = texts
    <3>1. id \in Nat \ {0} /\ stored[id].text = texts
      BY <2>1, RowIds DEF WizardTyped, Holds
    <3>2. id = editor.id => editor.form = texts
      BY <3>1, PageHas
    <3>3. QED
      BY <1>2, <2>1, <3>2
  <2>2. QED
    BY <1>3, <2>1, NewestNow DEF TextsKept, NewestHeld
<1>7. editor.form = editor.base =>
          IF editor.id = 0 THEN local = editor.form ELSE HoldsNow(editor.id, editor.form)
  BY <1>2, <1>4, PageHas
<1>8. editor'.auto # None => saving'[editor'.auto].pc # "answered"
  OBVIOUS
<1>9. ASSUME editor'.wait # None
      PROVE  /\ saving'[editor'.wait].text = editor.form
             /\ saving'[editor'.wait].op # "submit" /\ saving'[editor'.wait].pc = "answered"
                /\ saving'[editor'.wait].ok
                     => HoldsNow(saving'[editor'.wait].id, saving'[editor'.wait].text)
  <2>1. CASE editor'.wait = s
    BY <2>1
  <2>2. CASE editor'.wait = editor.wait /\ editor.wait # s
    <3>1. editor.wait \in Saves /\ saving'[editor.wait] = saving[editor.wait]
      BY <1>4, <1>9, <2>2
    <3>2. saving[editor.wait].pc = "answered" => saving[editor.wait].id \in Rows
      BY <1>4, <1>9, <2>2, <3>1, AskedRow DEF PageFits, Waiting, WizardTyped, RequestFits
    <3>3. QED
      BY <1>2, <1>9, <2>2, <3>1, <3>2, PageHas
  <2>3. QED
    BY <2>1, <2>2
<1>10. editor.id # 0 =>
           /\ stored'[editor.id].text = texts => editor.form = texts
           /\ \A r \in Saves : WritesNow(r, editor.id) /\ saving'[r].text = texts
                                   => editor.form = texts
  BY <1>1, PageHas
<1>11. editor.new => local = editor.form \/ local < texts \/ local = 0
  BY PageHas
<1>12. PageKeeps'
  BY <1>7, <1>8, <1>9, <1>10, <1>11, KeepsNow
<1>13. QED
  BY <1>5, <1>6, <1>12 DEF TextsKept

\* Without a risk taken nothing else writes the home of the page.
LEMMA NoneWrites ==
    ASSUME WizardTyped, NEW s \in Saves, NEW op, Send(s, op), ~risk', editor.id # 0
    PROVE  \A r \in Saves : ~Writes(r, editor.id)
<1>1. ~Under(editor.id)
  BY DEF Send
<1>2. QED
  BY <1>1, WritesNamesRow DEF Under, Writes

LEMMA AutosaveKeeps ==
    ASSUME WizardTyped, TextsKept, NEW s \in Saves, Autosave(s), ~risk' PROVE TextsKept'
<1>1. /\ saving[s] = Free /\ \A r \in Saves \ {s} : saving'[r] = saving[r]
      /\ saving'[s].op = "update" /\ saving'[s].id = editor.id
      /\ saving'[s].text = editor.form /\ saving'[s].pc = "sent"
  BY AutosaveTyped
<1>2. /\ editor.open /\ editor.shown /\ editor.id # 0 /\ Send(s, "update")
      /\ editor' = [editor EXCEPT !.auto = s] /\ UNCHANGED <<stored, texts, local>>
  BY DEF Autosave, FormShown
<1>3. editor \in Editors
  BY <1>2, PageRow
<1>4. /\ editor'.form = editor.form /\ editor'.base = editor.base
      /\ editor'.id = editor.id /\ editor'.new = editor.new
      /\ editor'.wait = editor.wait /\ editor'.auto = s /\ editor'.shown /\ editor'.open
  BY <1>2, <1>3 DEF Editors
<1>5. \A r \in Saves : ~Writes(r, editor.id)
  BY <1>2, NoneWrites
<1>6. QED
  BY <1>1, <1>2, <1>4, <1>5, SentKeeps

LEMMA PersistKeeps ==
    ASSUME WizardTyped, TextsKept, NEW s \in Saves, NEW after \in {"photos", "stay", "submit"},
           Persist(s, after), ~risk'
    PROVE  TextsKept'
<1>1. /\ saving[s] = Free /\ \A r \in Saves \ {s} : saving'[r] = saving[r]
      /\ saving'[s].op = IF editor.id = 0 THEN "create" ELSE "update"
      /\ saving'[s].id = editor.id
      /\ saving'[s].text = editor.form /\ saving'[s].pc = "sent"
  BY PersistTyped
<1>2. /\ editor.open /\ editor.shown
      /\ Send(s, IF editor.id = 0 THEN "create" ELSE "update")
      /\ editor' = [editor EXCEPT !.auto = None, !.wait = s, !.after = after]
      /\ UNCHANGED <<stored, texts, local>>
  BY DEF Persist, FormShown
<1>3. editor \in Editors
  BY <1>2, PageRow
<1>4. /\ editor'.form = editor.form /\ editor'.base = editor.base
      /\ editor'.id = editor.id /\ editor'.new = editor.new
      /\ editor'.wait = s /\ editor'.auto = None /\ editor'.shown /\ editor'.open
  BY <1>2, <1>3 DEF Editors
<1>5. editor.id # 0 => \A r \in Saves : ~Writes(r, editor.id)
  BY <1>2, NoneWrites
<1>6. QED
  BY <1>1, <1>2, <1>4, <1>5, SentKeeps

-----------------------------------------------------------------------------
\* A risk taken stays taken.
LEMMA RiskStays == WizardTyped /\ [WizardNext]_wizardVars /\ risk => risk'
<1> SUFFICES ASSUME WizardTyped, [WizardNext]_wizardVars, risk PROVE risk'
  OBVIOUS
<1>1. risk = TRUE
  BY Zenon DEF WizardTyped, CountsTyped
<1>2. ASSUME OpenWizard \/ Type \/ Back \/ SaveLocal \/ \E unload \in BOOLEAN : Leave(unload)
      PROVE  risk'
  BY <1>1, <1>2, Zenon DEF OpenWizard, Type, Back, SaveLocal, Leave
<1>3. ASSUME NEW s \in Saves,
             \/ Autosave(s) \/ \E after \in {"photos", "stay", "submit"} : Persist(s, after)
      PROVE  risk'
  BY <1>1, <1>3, Zenon DEF Autosave, Persist, Send
<1>4. ASSUME NEW s \in Saves,
             \/ AutosaveAnswered(s) \/ PersistAnswered(s) \/ SubmitAnswered(s)
             \/ ChainRefused(s) \/ Fails(s) \/ Unheard(s)
      PROVE  risk'
  BY <1>1, <1>4, Zenon DEF AutosaveAnswered, PersistAnswered, SubmitAnswered, ChainRefused,
     Fails, Unheard
<1>5. ASSUME NEW s \in Saves, Create(s) \/ ReadRow(s) \/ WriteRow(s) \/ SubmitRow(s)
      PROVE  risk'
  BY <1>1, <1>5, Zenon DEF Create, ReadRow, WriteRow, SubmitRow
<1>6. ASSUME NEW id \in Rows, LoadQueue(id) \/ \E m \in Moves : RunAction(id, m)
      PROVE  risk'
  BY <1>1, <1>6, Zenon DEF LoadQueue, RunAction
<1>7. ASSUME NEW verdict \in {"PUBLISHED", "REJECTED"}, Judge(verdict) PROVE risk'
  BY <1>1, <1>7, Zenon DEF Judge
<1>8. ASSUME UNCHANGED wizardVars PROVE risk'
  BY <1>1, <1>8, Zenon DEF wizardVars
<1>9. QED
  BY <1>2, <1>3, <1>4, <1>5, <1>6, <1>7, <1>8 DEF WizardNext

LEMMA WizardInvInit == WizardInit => WizardInv
<1> SUFFICES ASSUME WizardInit PROVE TextsKept
  BY WizardTypedInit DEF WizardInv
<1>1. texts = 0 /\ ~editor.open /\ Rows = {}
  BY DEF WizardInit, Closed, Rows
<1>2. QED
  BY <1>1 DEF TextsKept, OneWrites, NewestHeld

LEMMA WizardInvNext == WizardInv /\ [WizardNext]_wizardVars => WizardInv'
<1> SUFFICES ASSUME WizardInv, [WizardNext]_wizardVars, ~risk' PROVE TextsKept'
  BY WizardTypedNext DEF WizardInv
<1>1. WizardTyped /\ TextsKept
  BY RiskStays DEF WizardInv
<1>2. ASSUME OpenWizard \/ Type \/ Back \/ SaveLocal \/ \E unload \in BOOLEAN : Leave(unload)
      PROVE  TextsKept'
  BY <1>1, <1>2, OpenKeeps, TypeKeeps, BackKeeps, SaveLocalKeeps, LeaveKeeps
<1>3. ASSUME NEW s \in Saves,
             \/ Autosave(s)
             \/ \E after \in {"photos", "stay", "submit"} : Persist(s, after)
             \/ AutosaveAnswered(s) \/ PersistAnswered(s) \/ SubmitAnswered(s)
             \/ ChainRefused(s) \/ Fails(s) \/ Unheard(s)
      PROVE  TextsKept'
  BY <1>1, <1>3, AutosaveKeeps, PersistKeeps, AutosaveAnsweredKeeps, PersistAnsweredKeeps,
     SubmitAnsweredKeeps, ChainRefusedKeeps, FailsKeeps, UnheardKeeps
<1>4. ASSUME NEW s \in Saves, Create(s) \/ ReadRow(s) \/ WriteRow(s) \/ SubmitRow(s)
      PROVE  TextsKept'
  BY <1>1, <1>4, CreateKeeps, ReadKeeps, WriteKeeps, SubmitKeeps
<1>5. ASSUME NEW id \in Rows, LoadQueue(id) PROVE TextsKept'
  BY <1>1, <1>5, TextsUntouched DEF LoadQueue, Rows
<1>6. ASSUME NEW id \in Rows, NEW m \in Moves, RunAction(id, m) PROVE TextsKept'
  <2>1. Rows' = Rows /\ \A i \in Rows : stored'[i].text = stored[i].text
    BY <1>1, <1>6, ActionTyped
  <2>2. QED
    BY <1>1, <1>6, <2>1, TextsUntouched DEF RunAction
<1>7. ASSUME NEW verdict \in {"PUBLISHED", "REJECTED"}, Judge(verdict) PROVE TextsKept'
  <2>1. Rows' = Rows /\ \A i \in Rows : stored'[i].text = stored[i].text
    BY <1>1, <1>7, JudgeTyped
  <2>2. QED
    BY <1>1, <1>7, <2>1, TextsUntouched DEF Judge
<1>8. ASSUME UNCHANGED wizardVars PROVE TextsKept'
  BY <1>1, <1>8, TextsUntouched DEF wizardVars, Rows
<1>9. QED
  BY <1>2, <1>3, <1>4, <1>5, <1>6, <1>7, <1>8 DEF WizardNext

LEMMA WizardInvariant == WizardSpec => []WizardInv
BY WizardInvInit, WizardInvNext, PTL DEF WizardSpec

\* What the owner typed last is on the screen, in localStorage or on the server,
\* whatever fails and in whatever order answers come, unless a risk was taken.
THEOREM NewestStays == WizardSpec => []NewestIsKept
<1>1. WizardInv => NewestIsKept
  BY DEF WizardInv, TextsKept, NewestHeld, NewestIsKept, Holds
<1>2. QED
  BY <1>1, WizardInvariant, PTL

\* A form that is shown as unchanged is the one on the server, unless a risk was
\* taken.
THEOREM CleanIsStored == WizardSpec => []SavedIsStored
<1>1. WizardInv => SavedIsStored
  BY DEF WizardInv, TextsKept, PageKeeps, CleanIsKept, SavedIsStored, Holds
<1>2. QED
  BY <1>1, WizardInvariant, PTL

==============================================================================
