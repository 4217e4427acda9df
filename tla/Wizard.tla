------------------------------- MODULE Wizard -------------------------------
(***************************************************************************)
(* How an owner edits a home: the pages /account/homes/new and .../edit    *)
(* (PropertyWizard.tsx), the requests they make, what update, submit and   *)
(* decide do with the row, and a moderator's page (ModerationQueue.tsx).   *)
(*                                                                         *)
(* All the fields of the form are one text: 0 is the empty form, n the     *)
(* n-th text the owner types.  The debounce timers hold no state: watch()  *)
(* gives a new object at every render, so a timer is armed whenever its    *)
(* effect's conditions hold.  AbortController stops the page from          *)
(* listening, not the server from serving.                                 *)
(***************************************************************************)
EXTENDS Naturals, Sequences

CONSTANTS
    Saves,          \* requests that may be under way
    MaxHomes,       \* bound: homes the owner creates
    MaxTexts,       \* bound: texts the owner types
    MaxTrouble      \* bound: network failures and actions in another tab

ASSUME WizardAssumption == {MaxHomes, MaxTexts, MaxTrouble} \subseteq Nat

VARIABLES
    stored,     \* the owner's Property rows, oldest first: status and text
    local,      \* localStorage propertyWizardDraft, 0 when there is none
    editor,     \* the wizard
    saving,     \* per request: what it asks and how far it is
    queue,      \* ModerationQueue: one of the rows as loaded
    texts,      \* how many texts have been typed: the newest one
    trouble,    \* counts what MaxTrouble bounds
    risk        \* history: something happened that is known to lose texts

wizardVars == <<stored, local, editor, saving, queue, texts, trouble, risk>>

Texts == 0..MaxTexts
Statuses == {"DRAFT", "PENDING_MODERATION", "PUBLISHED", "REJECTED", "HIDDEN"}
None == "none"

\* null is told from every request.
ASSUME NoneIsNoSave == None \notin Saves

Ids == 0..MaxHomes
Closed == [open |-> FALSE]
\* id: draftId, 0 while there is none. told: loadedStatus. base: the form's defaultValues;
\* isDirty is form # base. auto: the autosave the page listens to. wait: the
\* request of persist or submit it awaits; after: what comes then.
\* at: the steps with inputs (0-6), or those after them (7-9), where there are none.
\* shown: the page has not been left while it waited.
Editors == [open: {TRUE}, shown: BOOLEAN, new: BOOLEAN, id: Ids,
            told: Statuses \cup {None}, at: {"form", "after"}, form: Texts, base: Texts,
            auto: Saves \cup {None}, wait: Saves \cup {None},
            after: {"photos", "stay", "submit", None}]

Free == [op |-> "free"]
Working == [op: {"create", "update", "submit"}, id: Ids, text: Texts,
            pc: {"sent", "read", "answered"}, saw: Statuses \cup {None},
            ok: BOOLEAN]
Asks(op, id, text) ==
    [op |-> op, id |-> id, text |-> text, pc |-> "sent", saw |-> None, ok |-> FALSE]

NoList == [fresh |-> FALSE]

Dirty == editor.form # editor.base
Waiting == editor.wait # None
Heard(s) == editor.open /\ s \in {editor.auto, editor.wait}
Rows == 1..Len(stored)

\* The server has not done yet what it was asked to do with a home.
Under(id) == id # 0 /\ \E s \in Saves : /\ saving[s] # Free /\ saving[s].id = id
                                       /\ saving[s].pc # "answered"

WizardInit == /\ stored = <<>> /\ local = 0 /\ editor = Closed
              /\ saving = [s \in Saves |-> Free] /\ queue = NoList
              /\ texts = 0 /\ trouble = 0 /\ risk = FALSE

-----------------------------------------------------------------------------
(* The page opens, the owner types, walks about and leaves.                *)

Opened(id, text, status, at) ==
    [open |-> TRUE, shown |-> TRUE, new |-> id = 0, id |-> id, told |-> status,
     at |-> at, form |-> text, base |-> text, auto |-> None, wait |-> None,
     after |-> None]

\* A new home starts from what localStorage holds, an old one from the server
\* (getMine), at the step its card in MyProperties names.
OpenWizard ==
    /\ ~editor.open
    /\ \/ editor' = Opened(0, local, None, "form") /\ UNCHANGED risk
       \/ \E id \in Rows, at \in {"form", "after"} :
              /\ editor' = Opened(id, stored[id].text, stored[id].status, at)
              /\ risk' = (risk \/ Under(id))
    /\ UNCHANGED <<stored, local, saving, queue, texts, trouble>>

\* The form is not rendered once the home is known to be with the moderators.
FormShown == editor.open /\ editor.shown /\ editor.told # "PENDING_MODERATION"

\* Inputs stay enabled while Continue awaits its answer.
Type ==
    /\ FormShown /\ editor.at = "form" /\ texts < MaxTexts
    /\ texts' = texts + 1
    /\ editor' = [editor EXCEPT !.form = texts']
    /\ risk' = (risk \/ Waiting)
    /\ UNCHANGED <<stored, local, saving, queue, trouble>>

\* Back is disabled while a request is awaited. Forward one gets with Continue.
Back ==
    /\ FormShown /\ ~Waiting /\ editor.at = "after"
    /\ editor' = [editor EXCEPT !.at = "form"]
    /\ UNCHANGED <<stored, local, saving, queue, texts, trouble, risk>>

\* 400 ms after the last change, until the server knows the home.
SaveLocal ==
    /\ FormShown /\ editor.id = 0 /\ local # editor.form
    /\ local' = editor.form
    /\ UNCHANGED <<stored, editor, saving, queue, texts, trouble, risk>>

\* A link of the application unmounts the page, which goes on waiting for persist
\* and submit; a reload or the tab's end stops that too, after a warning
\* (beforeunload) when the form is dirty.
Leave(unload) ==
    /\ editor.open /\ editor.shown
    /\ editor' = IF unload \/ ~Waiting THEN Closed
                 ELSE [editor EXCEPT !.shown = FALSE, !.auto = None]
    /\ risk' = (risk \/ (Dirty /\ local # editor.form))
    /\ UNCHANGED <<stored, local, saving, queue, texts, trouble>>

-----------------------------------------------------------------------------
(* The page's requests.                                                    *)

\* A save that is sent before the server has done with the last one may be
\* overtaken by it.
Send(s, op) ==
    /\ saving[s] = Free
    /\ saving' = [saving EXCEPT ![s] = Asks(op, editor.id, editor.form)]
    /\ risk' = (risk \/ Under(editor.id))

\* 1200 ms after the last render of a dirty form; an autosave that has not
\* answered by then is aborted.
Autosave(s) ==
    /\ FormShown /\ editor.id # 0 /\ Dirty
    /\ Send(s, "update")
    /\ editor' = [editor EXCEPT !.auto = s]
    /\ UNCHANGED <<stored, local, queue, texts, trouble>>

\* persist: from Continue on the last fields, from Save and from Submit.
Persist(s, after) ==
    /\ FormShown /\ ~Waiting
    /\ editor.at = IF after = "photos" THEN "form" ELSE "after"
    /\ editor.form # 0 /\ (editor.id = 0 => Len(stored) < MaxHomes)
    /\ Send(s, IF editor.id = 0 THEN "create" ELSE "update")
    /\ editor' = [editor EXCEPT !.auto = None, !.wait = s, !.after = after]
    /\ UNCHANGED <<stored, local, queue, texts, trouble>>

Settled == [editor EXCEPT !.wait = None, !.after = None]
\* A page that was left is gone when nothing is awaited any more.
Left(e) == IF ~e.shown /\ e.wait = None THEN Closed ELSE e

Release(s) == saving' = [saving EXCEPT ![s] = Free]

\* Faulty variant: the form is reset whatever it holds by now.
AutosavedReset(s) ==
    /\ editor' = [editor EXCEPT !.auto = None, !.told = saving[s].saw,
                                !.form = saving[s].text, !.base = saving[s].text]

\* The form is clean if it still holds what was sent.
Autosaved(s) ==
    /\ editor' = [editor EXCEPT !.auto = None, !.told = saving[s].saw,
                                !.base = IF editor.form = saving[s].text
                                         THEN saving[s].text ELSE @]

AutosaveAnswered(s) ==
    /\ editor.open /\ editor.auto = s /\ saving[s].pc = "answered"
    /\ IF saving[s].ok THEN Autosaved(s)
       ELSE editor' = [editor EXCEPT !.auto = None]
    /\ Release(s)
    /\ UNCHANGED <<stored, local, queue, texts, trouble, risk>>

\* persist's answer: the form is what was sent, localStorage is cleared, also
\* when it holds the draft of another home.
PersistAnswered(s) ==
    /\ editor.open /\ editor.wait = s /\ saving[s].op # "submit"
    /\ saving[s].pc = "answered" /\ saving[s].ok
    /\ LET text == saving[s].text
           kept == [editor EXCEPT !.id = saving[s].id, !.told = saving[s].saw,
                                  !.form = text, !.base = text]
       IN IF editor.after = "submit"
          THEN /\ editor' = kept
               /\ saving' = [saving EXCEPT ![s] = Asks("submit", editor.id, text)]
          ELSE /\ editor' = Left([kept EXCEPT !.wait = None, !.after = None,
                                            !.at = "after"])
               /\ Release(s)
    /\ local' = 0
    /\ risk' = (risk \/ (local # 0 /\ ~editor.new))
    /\ UNCHANGED <<stored, queue, texts, trouble>>

SubmitAnswered(s) ==
    /\ editor.open /\ editor.wait = s /\ saving[s].op = "submit"
    /\ saving[s].pc = "answered" /\ saving[s].ok
    /\ editor' = Left([Settled EXCEPT !.told = saving[s].saw])
    /\ Release(s)
    /\ UNCHANGED <<stored, local, queue, texts, trouble, risk>>

\* Faulty variant: the form is clean after a failure, too.
RefusedClean == editor' = Left([Settled EXCEPT !.base = editor.form])

Refused == editor' = Left(Settled)

ChainRefused(s) ==
    /\ editor.open /\ editor.wait = s
    /\ saving[s].pc = "answered" /\ ~saving[s].ok
    /\ Refused
    /\ Release(s)
    /\ UNCHANGED <<stored, local, queue, texts, trouble, risk>>

\* The network fails: before the server has the request, before it has read the
\* row, or on the way back.
Fails(s) ==
    /\ trouble < MaxTrouble /\ trouble' = trouble + 1
    /\ editor.open
    /\ \/ editor.wait = s /\ Refused
       \/ editor.auto = s
          /\ editor' = [editor EXCEPT !.auto = None]
    /\ Release(s) \/ (saving[s].pc # "answered" /\ UNCHANGED saving)
    /\ UNCHANGED <<stored, local, queue, texts, risk>>

\* Nobody listens: the answer is dropped, or the request never got through.
Unheard(s) ==
    /\ saving[s] # Free /\ saving[s].pc # "read"
    /\ ~Heard(s)
    /\ Release(s)
    /\ UNCHANGED <<stored, local, editor, queue, texts, trouble, risk>>

-----------------------------------------------------------------------------
(* The server.                                                             *)

\* An answer nobody waits for is dropped.
Answer(s, ok, status) ==
    saving' = [saving EXCEPT ![s] =
        IF Heard(s) THEN [@ EXCEPT !.pc = "answered", !.ok = ok, !.saw = status] ELSE Free]

\* A list that shows a row as PENDING is outdated when it has left the queue.
Stores(id, row) ==
    /\ stored' = [stored EXCEPT ![id] = row]
    /\ queue' = IF queue.fresh /\ queue.id = id /\ row.status # "PENDING_MODERATION"
                THEN [queue EXCEPT !.fresh = FALSE] ELSE queue

\* createDraft.
Create(s) ==
    /\ saving[s].op = "create" /\ saving[s].pc = "sent"
    /\ Len(stored) < MaxHomes
    /\ stored' = Append(stored, [status |-> "DRAFT", text |-> saving[s].text])
    /\ saving' = [saving EXCEPT ![s] =
           IF Heard(s) THEN [@ EXCEPT !.pc = "answered", !.ok = TRUE, !.saw = "DRAFT",
                                      !.id = Len(stored')] ELSE Free]
    /\ UNCHANGED <<local, editor, queue, texts, trouble, risk>>

Takes(op) == IF op = "update" THEN Statuses \ {"PENDING_MODERATION"}
                              ELSE {"DRAFT", "REJECTED"}

\* prepareContentEdit and submit read the row; submit also refuses a home that
\* has no photo or no period by now.
ReadRow(s) ==
    /\ saving[s].op \in {"update", "submit"} /\ saving[s].pc = "sent"
    /\ LET status == stored[saving[s].id].status IN
       \/ /\ status \in Takes(saving[s].op)
          /\ saving' = [saving EXCEPT ![s].pc = "read", ![s].saw = status]
       \/ /\ status \notin Takes(saving[s].op) \/ saving[s].op = "submit"
          /\ Answer(s, FALSE, None)
    /\ UNCHANGED <<stored, local, editor, queue, texts, trouble, risk>>

\* Faulty variant: the status is not written with the content.
KeepsStatus(s) == stored[saving[s].id].status

\* statusAfterContentEdit, of the status read.
StatusAfter(s) ==
    IF saving[s].saw \in {"PUBLISHED", "HIDDEN"} THEN "DRAFT" ELSE saving[s].saw

\* update writes content and status, unconditionally.
WriteRow(s) ==
    /\ saving[s].op = "update" /\ saving[s].pc = "read"
    /\ LET status == StatusAfter(s) IN
       /\ Stores(saving[s].id, [status |-> status, text |-> saving[s].text])
       /\ Answer(s, TRUE, status)
    /\ UNCHANGED <<local, editor, texts, trouble, risk>>

\* submit writes the status if it is still the one read.
SubmitRow(s) ==
    /\ saving[s].op = "submit" /\ saving[s].pc = "read"
    /\ LET row == stored[saving[s].id] IN
       IF row.status = saving[s].saw
       THEN /\ Stores(saving[s].id, [row EXCEPT !.status = "PENDING_MODERATION"])
            /\ Answer(s, TRUE, "PENDING_MODERATION")
       ELSE Answer(s, FALSE, None) /\ UNCHANGED <<stored, queue>>
    /\ UNCHANGED <<local, editor, texts, trouble, risk>>

Moves == {<<"PENDING_MODERATION", "DRAFT">>, <<"PUBLISHED", "HIDDEN">>,
          <<"HIDDEN", "PUBLISHED">>}

\* MyProperties in another tab: cancelSubmission, hide or restore, refused when
\* its list is outdated.
RunAction(id, m) ==
    /\ stored[id].status = m[1]
    /\ Stores(id, [stored[id] EXCEPT !.status = m[2]])
    /\ trouble < MaxTrouble /\ trouble' = trouble + 1
    /\ UNCHANGED <<local, editor, saving, texts, risk>>

-----------------------------------------------------------------------------
(* A moderator.                                                            *)

LoadQueue(id) ==
    /\ stored[id].status = "PENDING_MODERATION"
    /\ queue' = [id |-> id, text |-> stored[id].text, fresh |-> TRUE]
    /\ queue' # queue
    /\ UNCHANGED <<stored, local, editor, saving, texts, trouble, risk>>

\* decide takes a home in the queue, whatever the moderator has seen of it; the
\* page drops the row then.
Judge(verdict) ==
    /\ queue # NoList /\ stored[queue.id].status = "PENDING_MODERATION"
    /\ stored' = [stored EXCEPT ![queue.id].status = verdict]
    /\ queue' = NoList
    /\ UNCHANGED <<local, editor, saving, texts, trouble, risk>>

-----------------------------------------------------------------------------
WizardNext ==
    \/ OpenWizard \/ Type \/ Back \/ SaveLocal
    \/ \E unload \in BOOLEAN : Leave(unload)
    \/ \E s \in Saves :
           \/ Autosave(s)
           \/ \E after \in {"photos", "stay", "submit"} : Persist(s, after)
           \/ AutosaveAnswered(s) \/ PersistAnswered(s) \/ SubmitAnswered(s)
           \/ ChainRefused(s) \/ Fails(s) \/ Unheard(s)
           \/ Create(s) \/ ReadRow(s) \/ WriteRow(s) \/ SubmitRow(s)
    \/ \E id \in Rows : LoadQueue(id) \/ \E m \in Moves : RunAction(id, m)
    \/ \E verdict \in {"PUBLISHED", "REJECTED"} : Judge(verdict)

WizardSpec == WizardInit /\ [][WizardNext]_wizardVars

-----------------------------------------------------------------------------
(* Properties.                                                             *)

WizardTypeOK ==
    /\ Len(stored) <= MaxHomes
    /\ \A id \in Rows : stored[id] \in [status: Statuses, text: Texts]
    /\ local \in Texts
    /\ editor \in Editors \cup {Closed}
    /\ editor.open => (editor.wait = None <=> editor.after = None)
    /\ saving \in [Saves -> Working \cup {Free}]
    /\ queue \in [id: Ids, text: Texts, fresh: BOOLEAN] \cup {NoList}
    /\ texts \in Texts /\ trouble \in 0..MaxTrouble /\ risk \in BOOLEAN

\* What the owner typed last is on the screen, in localStorage, on the server or
\* on its way there, whatever fails and in whatever order answers come, unless the
\* owner left before a save was due, typed while Continue was waiting, had another
\* home's draft cleared, or two saves were served at once (PropertyWizard.tsx).
NewestIsKept ==
    risk \/ texts \in {local} \cup {saving[s].text : s \in {x \in Saves : saving[x] # Free}}
                     \cup (IF editor.open THEN {editor.form} ELSE {})
                     \cup {0} \cup {stored[id].text : id \in Rows}

\* A form that a page with a draft shows as unchanged is the one on the server,
\* once nothing is under way, with the same exceptions.
SavedIsStored ==
    risk \/ ~editor.open \/ editor.id = 0 \/ Waiting \/ Under(editor.id)
         \/ Dirty \/ editor.form = stored[editor.id].text

\* A moderator who loaded the queue after the home was last submitted publishes
\* the text on the screen: no update that was under way can change it without
\* taking the home out of the queue (moderation.service.ts, decide).
UnseenNeverPublished ==
    [][\A id \in Rows :
           /\ stored[id].status = "PENDING_MODERATION" /\ stored'[id].status = "PUBLISHED"
           /\ queue.fresh
           => queue.text = stored[id].text]_wizardVars

\* What localStorage holds is cleared only when the server has it
\* (docs/local-manual-testing-plan.md, HOME-01).
UnsentIsKept ==
    [][local # None /\ local' = 0
       => \E id \in Rows : stored[id].text >= local]_wizardVars
=============================================================================
