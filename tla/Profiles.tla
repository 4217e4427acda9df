------------------------------ MODULE Profiles ------------------------------
(***************************************************************************)
(* A user's profile and avatar (server/src/profiles and the page           *)
(* client/src/features/profile/ProfileSettings.tsx).                       *)
(*                                                                         *)
(* An uploaded picture is converted, put into the public bucket under a    *)
(* key of its own and written into the row; the picture before it is       *)
(* deleted last.  The row is saved from forms that hold what their page    *)
(* has loaded, and the user may be deleted meanwhile.                      *)
(***************************************************************************)
EXTENDS Naturals

CONSTANTS
    Tabs,           \* pages of the user's settings
    Pictures,       \* uploads; each names the key of what it becomes
    Links,          \* addresses typed in instead of an upload
    NoAvatar,       \* SQL NULL
    MaxSaves        \* bound: saves and loads of the pages

ASSUME ProfilesAssumption ==
    /\ MaxSaves \in Nat /\ NoAvatar \notin Pictures \cup Links \cup {"own"}
    /\ {"deleted", "loading", "as it is"} \cap (Links \cup {"own", NoAvatar}) = {}

VARIABLES
    profile,        \* the row: avatarKey, avatarUrl ("own": /profile-avatars/<user>)
    public,         \* keys in the public bucket
    uploads,        \* uploads in the private bucket
    avatarWork,     \* per upload: complete between two of its awaits
    settings,       \* per page: the row its form holds, the request it awaits
    saves,          \* counts what MaxSaves bounds
    overwritten     \* history: a page that knew of no upload has saved its own link

profilesVars == <<profile, public, uploads, avatarWork, settings, saves, overwritten>>

NoRow == [key |-> NoAvatar, url |-> "deleted"]
NotLoaded == [key |-> NoAvatar, url |-> "loading"]
NotAsking == [asks |-> "nothing"]
Unused == [pc |-> "unused"]

ProfilesInit ==
    /\ profile = [key |-> NoAvatar, url |-> NoAvatar]
    /\ public = {} /\ uploads = {} /\ saves = 0 /\ overwritten = FALSE
    /\ avatarWork = [f \in Pictures |-> Unused]
    /\ settings = [t \in Tabs |-> [form |-> NotLoaded, wait |-> NotAsking]]

Registered == profile # NoRow
Idle(t) == settings[t].wait = NotAsking
Loaded(t) == settings[t].form # NotLoaded
Awaits(t, request) == settings' = [settings EXCEPT ![t].wait = request]
Shows(t, row) == settings' = [settings EXCEPT ![t] = [form |-> row, wait |-> NotAsking]]
Save == saves < MaxSaves /\ saves' = saves + 1

-----------------------------------------------------------------------------
(* The form.                                                               *)

LoadProfile(t) ==
    /\ Idle(t) /\ Registered /\ Save
    /\ Shows(t, profile)
    /\ UNCHANGED <<profile, public, uploads, avatarWork, overwritten>>

\* The field is disabled where an upload is known of.
TypeLink(t, link) ==
    /\ Idle(t) /\ Loaded(t) /\ settings[t].form.key = NoAvatar
    /\ settings' = [settings EXCEPT ![t].form.url = link]
    /\ UNCHANGED <<profile, public, uploads, avatarWork, saves, overwritten>>

\* Faulty variant: the link is sent whether or not there is an upload.
SentWithLink(form) == [url |-> NoAvatar]

\* save: the link is sent only where the form knows of no upload.
SentFields(form) == IF form.key = NoAvatar THEN [url |-> form.url] ELSE [url |-> "as it is"]

SaveProfile(t) ==
    /\ Idle(t) /\ Loaded(t) /\ Save
    /\ Awaits(t, [asks |-> "save", patch |-> SentFields(settings[t].form),
                  knew |-> settings[t].form.key])
    /\ UNCHANGED <<profile, public, uploads, avatarWork, overwritten>>

\* update writes the fields sent; the answer holds the row, or is lost.
SavedRow(patch) == IF patch.url = "as it is" THEN profile ELSE [profile EXCEPT !.url = patch.url]

ServeSave(t) ==
    /\ settings[t].wait.asks = "save" /\ Registered
    /\ LET row == SavedRow(settings[t].wait.patch) IN
       /\ profile' = row
       /\ overwritten' = (overwritten \/ (profile.key # settings[t].wait.knew /\ row.url # "own"))
       /\ Shows(t, row) \/ Awaits(t, NotAsking)
    /\ UNCHANGED <<public, uploads, avatarWork, saves>>

\* The form stays as it is, under an error.
SaveFails(t) ==
    /\ settings[t].wait.asks = "save" /\ Awaits(t, NotAsking)
    /\ UNCHANGED <<profile, public, uploads, avatarWork, saves, overwritten>>

-----------------------------------------------------------------------------
(* The avatar.                                                             *)

\* createUpload, the upload itself, and the call of complete.
UploadAvatar(t, f) ==
    /\ Idle(t) /\ Loaded(t) /\ Registered /\ avatarWork[f] = Unused
    /\ uploads' = uploads \cup {f}
    /\ avatarWork' = [avatarWork EXCEPT ![f] = [pc |-> "convert"]]
    /\ Awaits(t, [asks |-> "upload", of |-> f])
    /\ UNCHANGED <<profile, public, saves, overwritten>>

Now(f, work) == avatarWork' = [avatarWork EXCEPT ![f] = work]
OnlyWork == UNCHANGED <<profile, uploads, settings, saves, overwritten>>

\* head, read and the conversion; the put; each may fail, and so does complete.
AvatarPut(f) ==
    /\ avatarWork[f].pc = "convert" /\ f \in uploads
    /\ public' = public \cup {f} /\ Now(f, [pc |-> "read"]) /\ OnlyWork

AvatarFails(f) ==
    /\ avatarWork[f].pc \in {"convert", "read", "write"}
    /\ Now(f, [pc |-> "failed"]) /\ UNCHANGED public /\ OnlyWork

AvatarRead(f) ==
    /\ avatarWork[f].pc = "read" /\ Registered
    /\ Now(f, [pc |-> "write", old |-> profile.key]) /\ UNCHANGED public /\ OnlyWork

AvatarWrite(f) ==
    /\ avatarWork[f].pc = "write" /\ Registered
    /\ profile' = [key |-> f, url |-> "own"]
    /\ Now(f, [pc |-> "delete", old |-> avatarWork[f].old, row |-> profile'])
    /\ UNCHANGED <<public, uploads, settings, saves, overwritten>>

\* Faulty variant: the row is asked which picture was there before.
ReplacedByNow(f) == {profile.key}

\* The picture that was in the row when complete looked.
Replaced(f) == {avatarWork[f].old}

\* allSettled: each deletion may fail, and complete goes on.
AvatarCleanUp(f) ==
    /\ avatarWork[f].pc = "delete"
    /\ \E kept \in SUBSET Replaced(f) : public' = public \ (Replaced(f) \ kept)
    /\ uploads' \in {uploads, uploads \ {f}}
    /\ Now(f, [pc |-> "done", row |-> avatarWork[f].row])
    /\ UNCHANGED <<profile, settings, saves, overwritten>>

\* The page shows the row of the answer, also over what was typed since.
AvatarAnswered(t) ==
    /\ settings[t].wait.asks = "upload"
    /\ LET work == avatarWork[settings[t].wait.of] IN
       \/ work.pc = "done" /\ Shows(t, work.row)
       \/ Awaits(t, NotAsking)
    /\ UNCHANGED <<profile, public, uploads, avatarWork, saves, overwritten>>

-----------------------------------------------------------------------------
\* deleteUser: the row, and the picture it names; that may fail.
DeleteProfile ==
    /\ Registered /\ profile' = NoRow
    /\ public' \in {public, public \ {profile.key}}
    /\ UNCHANGED <<uploads, avatarWork, settings, saves, overwritten>>

ProfilesNext ==
    \/ \E t \in Tabs :
         \/ LoadProfile(t) \/ SaveProfile(t) \/ ServeSave(t) \/ SaveFails(t)
         \/ AvatarAnswered(t)
         \/ \E link \in Links \cup {NoAvatar} : TypeLink(t, link)
         \/ \E f \in Pictures : UploadAvatar(t, f)
    \/ \E f \in Pictures :
         \/ AvatarPut(f) \/ AvatarFails(f) \/ AvatarRead(f) \/ AvatarWrite(f)
         \/ AvatarCleanUp(f)
    \/ DeleteProfile

ProfilesSpec == ProfilesInit /\ [][ProfilesNext]_profilesVars

-----------------------------------------------------------------------------
(* Properties.                                                             *)

ProfileRows == {NoRow, NotLoaded} \cup
    [key: Pictures \cup {NoAvatar}, url: Links \cup {"own", NoAvatar}]

ProfilesTypeOK ==
    /\ profile \in ProfileRows \ {NotLoaded}
    /\ public \subseteq Pictures /\ uploads \subseteq Pictures /\ saves \in 0..MaxSaves
    /\ \A t \in Tabs : settings[t].form \in ProfileRows
    /\ \A f \in Pictures : avatarWork[f].pc \in
           {"unused", "convert", "read", "write", "delete", "done", "failed"}

\* A profile with an uploaded avatar shows it: its picture is in the public
\* bucket, however uploads and their deletions of older pictures interleave,
\* and the link leads to it, unless a page that had not seen the upload saved
\* its own link afterwards.
AvatarShown ==
    Registered /\ profile.key # NoAvatar =>
        profile.key \in public /\ (profile.url = "own" \/ overwritten)

\* The avatar uploaded is shown by the link of the profile (PROF-02,
\* docs/local-manual-testing-plan.md:193).
AvatarLinked == profile.key # NoAvatar => profile.url = "own"
=============================================================================
