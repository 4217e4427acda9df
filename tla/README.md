# Formal model of the home-exchange service

The repository is a platform on which people lend each other their homes. A
guest asks the owner of a home for a stay, either for points (*DomPoints*) or
in return for the guest's own home. The server (`server/src`, NestJS over
PostgreSQL, Redis and an S3 store) keeps all the state; the client
(`client/src`, Next.js) is a set of pages over its REST interface and one
socket for live events. This directory holds TLA+ modules that model the
server's logic, the TLC configurations that check them on small instances and
TLAPS proofs of what holds for every instance.

## The system

| component | state | operations | talks to |
|---|---|---|---|
| Exchange requests (`exchanges.service.ts`) | `ExchangeRequest` rows | create, preapprove, reject, cancel, confirm, cancelConfirmed, complete | ledger, listings, notifications |
| DomPoints ledger (`points.service.ts` and the transactions of others) | `PointAccount`, `PointTransaction` | welcome and e-mail bonus, adjust, reserve, release, debit, credit | written inside the transactions of requests, auth, administration |
| Listings (`properties.service.ts`) and moderation (`moderation.service.ts`) | `Property.status`, `deletedAt`, content, decisions | createDraft, update, submit, cancelSubmission, archive, hide, restore, decide | requests (archive asks for active ones), photos, notifications |
| Availability (`property-availability.service.ts`, `availability-occupancy.ts`) | `AvailabilityPeriod` rows | create, update, remove; occupied days of a calendar | read by create |
| Photos (`property-photos.service.ts`, `files.service.ts`) | `PropertyPhoto` rows, a private and a public bucket | createUpload, complete, reorder, setPrimary, remove | listings (status after an edit) |
| Sessions (`auth.service.ts`, `jwt-access.strategy.ts`) | `User`, `UserSession`, `ContactVerification` | register, login, refresh, logout, logoutAll, verifyEmail, password reset | ledger (bonuses), sockets |
| Administration (`admin.service.ts`) | users, amenities | createUser, updateUser, deleteUser | everything a user owns |
| Chat (`exchange-messages.service.ts`, `exchange-realtime.gateway.ts`) | `ExchangeMessage` rows, socket rooms | join, leave, visibility, send, markRead | notifications, requests |
| Notifications (`notifications.service.ts`, `realtime.service.ts`) | `Notification` rows, `user:` rooms | create, read, readAll, refresh events | client feed |
| Reviews (`exchange-reviews.service.ts`) | `ExchangeReview`, ratings | create | requests |
| Rate limiter (`rate-limit.service.ts`) | Redis counters, an availability flag | consume | auth controllers |
| Client session (`auth-api.ts`, `authorized-request.ts`, `realtime-client.ts`) | access token, refresh in flight, socket | single-flight refresh, retry after a 401, reconnect | sessions, sockets |
| Favourites, saved searches, profiles, catalogue pages | rows of one user, queries | add, remove, list | - |

What is hard here is not any handler by itself but what runs between its
awaits. Node interleaves handlers at every `await`; several instances of the
server may run over one database. `confirm`, `cancelConfirmed`, `complete`,
`decide`, availability changes, review creation and `deleteUser` use
SERIALIZABLE transactions, which PostgreSQL either commits as if they had run
alone or aborts (`P2034`, turned into a 409): one step each in the models.
Everything else is a chain of statements: a step per statement. The properties
that make each component correct, and the line at which each hazard bites, are
the `hazards` of `PROJECT.json`.

## Modules

| module | what it is |
|---|---|
| `Exchanges` | requests and the ledger, with the users, the clock, the published homes and their prices as the environment |
| `Escrow` | what that service promises, without statuses, reserved balances, dates or handlers |
| `ExchangesEscrow` | the refinement mapping from `Exchanges` to `Escrow` |
| `Listings` | the life cycle of a home, with requests, photos and the deletion of the owner as the environment |
| `PropertyPhotos` | extends `Listings` with the photo handlers and the two buckets |
| `ListingExchange` | `Exchanges` and `Listings` over one database, each the other's environment |
| `Wizard` | the pages an owner edits a home with: autosave, drafts in localStorage, submission, other tabs; and a moderator's page |
| `Calendar` | the availability of a home with the owner's page, the catalogue's search by dates, the occupancy shown and the check a request meets |
| `Sessions` | sessions, refresh rotation, logout everywhere, password reset, restrictions and sockets on the server |
| `ClientSession` | extends `Sessions` with the tabs of browsers: one refresh at a time, retry after a 401, sign-in state over tabs, the socket |
| `Accounts` | registration, e-mail codes and their bonus, administrators who edit and delete accounts |
| `Live` | the chat dialog and the bell over a socket that is cut, with the messages and notifications of the server |
| `Profiles` | the profile form and the avatar: upload, conversion, publication, deletion of the one before |
| `Reviews` | reviews of completed exchanges, the ratings made of them, the dialog that sends them |
| `Favourites` | the hearts of a tab over the rows of the server |
| `Sums`, `SumsTheorems` | sums over finite sets as cardinalities, and their laws |
| `ExchangesProofs`, `ListingsProofs`, `SessionsProofs`, `AccountsProofs`, `LiveProofs` | theorems about the module they are named after (`ListingsProofs` also `PropertyPhotos`, `SessionsProofs` also `ClientSession`) |
| `PagesProofs` | theorems about `Profiles`, `Reviews`, `Favourites`, `Calendar` and `Wizard` |
| `ListingExchangeProofs` | theorems about the two services over one database, and its two refinements |
| `MCExchanges`, `MCListings`, `MCHomes`, `MCPhotos`, `MCListingExchange`, `MCClientSession`, `MCPages` | small instances for TLC |

`MCHomes` and `MCPages` check modules that share no state with one another: a
variable `about` names the one a behaviour is about, the others stay in their
initial state. The state space is the sum of the parts', not the product.

Definitions named *Faulty variant* in a comment are plausible bugs; no action
uses them. Each is what one property is tried against: with the definition it
stands beside replaced by it, TLC finds the property violated.

### How state and actions correspond to the code

**One step per await.** A handler that is not a transaction keeps its local
variables in a record of its own (`draft` and `move` in `Exchanges`, `work` in
`Listings`, `jobs` in `PropertyPhotos`), whose `pc` names the statement it is
about to run. `create` is seven steps (`CreateReadTarget` ... `CreateNotify`),
`preapprove`, `reject` and `cancel` are three, `update` and `submit` two,
`archive` three, `complete` of a photo up to a dozen. A record exists only
while its handler runs; an error response resets it. `cancelSubmission`,
`hide` and `restore` also read before they write, but what they read is fixed
by the condition of their `updateMany`, so a step that reads and writes at
once gives the same results.

**One step per serializable transaction.** `confirm`, `cancelConfirmed`,
`complete`, `decide` and `deleteUser` ask for SERIALIZABLE. PostgreSQL commits
such transactions only if some serial order explains them, and fails one that
would write a row another transaction, at any level, changed after its
snapshot; the services turn that failure (`P2034`) into a 409, which here is
the step that does not happen. What a serializable transaction merely reads
may be changed by a plain update at the same time; the result is that of the
transaction first and the update second.

**`Exchanges`.** `request[id]` is a row of `ExchangeRequest` (or no row yet, or
a deleted one), `available`, `reserved`, `completed` the columns of the user's
account and profile, `journal` the rows of `PointTransaction` with their
unique `key`. `Post` refuses a key that exists, which rolls the transaction
back: this is all that protects the e-mail bonus from being paid twice.
`published` is the set of homes `create` can find. `ConfirmedIn` is
`hasConfirmedConflict`.

**`Listings`.** `home[h]` is the status, `deletedAt` and the text of a row,
where one number stands for all the fields an update writes. `submitted`,
`reviewed`, `submissions` and `decisions` record what moderators were asked and
what they said; no action reads them. `UpdateWrite` writes the status computed
from what `UpdateRead` saw, as the code does.

**`PropertyPhotos`.** `photo[f]` is the row, `uploads` and `images` the private
and the public bucket. All handlers share `Start` (`prepareContentEdit`),
`Read`, `MarkRead` and `MarkWrite` (`markContentChanged`); every S3 call may
fail. The handlers of `Listings` run in between.

**`ListingExchange`.** `published` and `engaged` are no variables here but
computed from `home` and `request`; `DeleteOwner` is the deletion of a user in
both modules at once.

**`Wizard`.** `stored` are the rows of the owner, `local` is the draft in
localStorage, `editor` the open form with the answers it still listens to, and
`saving[s]` a request on its way, which others may overtake. AbortController
stops the page from listening, not the server from serving. `risk` is set in
exactly the windows known to lose texts, each listed at `NewestIsKept`.

**`Calendar`.** A creation, a removal and an update of all fields, which is what
the page sends, are a serializable transaction each, and one step. An update of
some fields is two: the row is read and the merge validated, then the
transaction looks for overlaps of the merge and writes the fields sent. `torn`
is the history of rows left with other dates than were checked. `Found`,
`Requestable` and `Occupancy` are three readings of the same rows: the
catalogue's, that of `create` of a request, and that of the page of the home.

**`Sessions`, `ClientSession`.** A request is one record of `call` from the tab
that sends it to the answer that tab gets; `pc` names the statement of the
server it is at. `session[s]` is a row, numbered in the order of creation, as
are the passwords, so that *older than the reset* is a comparison. The refresh
token is in the cookie of the browser, the access token in each tab.

**`Live`.** The socket is a queue each way, HTTP answers come in any order, and
the socket may be cut and join again. `looks` says whether a behaviour follows
the dialog or the bell. `gap`, `left` and `stale` are histories of what the
properties exempt, and of nothing else.

**`Accounts`.** `codes[u]` are the rows of `ContactVerification`. An update by
an administrator is two steps (the row is read before the transaction), and so
is a verification (the code likewise). `keys` are the journal keys of the
bonuses.

**`Profiles`, `Reviews`, `Favourites`.** The picture of an avatar goes from
upload to conversion, publication, row and deletion of its predecessor, a step
each. A review is one transaction; its answer may be lost and retried. The
hearts share one promise of ids (`known`), which outlives pages and sign-ins.

### What is abstracted

- Texts, names, links and the wording of errors; the kinds of notifications
  are kept where a property is about them.
- The `bonus`, `pending`, `frozen` and `version` columns of accounts: only
  written, never read by a decision.
- Guests, nights and the periods of a home are small sets; in `Exchanges` the
  price of a home is one rate for all its periods. `Calendar` has no today:
  only searches for days to come are compared.
- In `Exchanges`, `deleteUser` may hit any user at any time; who asks for it
  and the rule of the last administrator are in `Accounts`, which leaves out
  the role MODERATOR, which no rule distinguishes from USER there.
- `submit` takes the fields it checks to be filled in and the e-mail verified,
  except for the READY photo. Its notification to the moderators is inside its
  transaction and left out.
- The order of photos: `remove` promotes any READY one.
- `Wizard`: all fields of the form are one text; the timers of the debounce
  hold no state; CHANGES_REQUESTED is merged with REJECTED, the archive is left
  out; the next page is opened when the requests of the page left are over.
- `Sessions`: a private request is served and answered in one step, the mail
  with the reset link is one step, and logging out everywhere is asked for on
  another device. `Block` is `updateUser` with a status other than ACTIVE.
- `Live`: typing, presence, the peer's read receipts and the REST fallback.
- `Profiles`: of the fields of the form only the link of the avatar; the
  picture of a deleted user goes with the row. `Reviews`: the other two marks
  and the comment, of which no rating is made.
- `Favourites`: one tab; the list of favourites is asked for and answered at
  once; other devices and the deletion of homes are left out.

## Runs

| run | instance | what it shows |
|---|---|---|
| `points` | two guests, a host with one home, two requests, a DomPoints price, one adjustment, one user confirming an e-mail, one non-transactional handler in flight | reserves are the prices of confirmed stays, the journal gives both balances, no step creates or destroys points; the service implements `Escrow` |
| `swap` | two owners, two homes, two requests for one or two nights, for points or as a swap, until the first night is over | no night of a home is confirmed twice, whether the home is asked for or offered, and a night of a completed stay only once that stay is over |
| `handlers` | one guest, one host, one request, two handlers at once, fairness | statuses follow the life cycle; whoever did not make a change and has not been told has a handler about to tell it, and is told in the end |
| `listings` | one home, one photo, three handlers at once, two texts, two submissions; apart from it the wizard with two requests in flight, three texts and one trouble (a failure, or another tab that acts) | one decision per submission; the newest text is kept somewhere, what a page calls saved is stored, and what no moderator saw is not published, outside the windows listed below |
| `photos_settle` | one photo, two handlers at once, failures of S3, fairness | READY always has its image; PROCESSING always has a handler that is to end it, and always ends |
| `photos_texts` | two photos, one photo handler and one owner handler | the late status writes of photo handlers and of owners do not make an unsubmitted text public; one primary photo per home, and one there is while photos are READY, as long as photo handlers come one after the other |
| `composed` | two owners, two homes with a photo each, one request, one handler of each service | each module is a correct environment for the other; no request for a home that is gone |
| `sessions` | one tab, one private request and the socket at a time, three sessions, one lost or failed answer | one live session per login, old passwords and sessions are good for nothing after a reset, its sockets close; nobody waits for an answer that cannot come; no page signs itself out while its session lives |
| `pages` | two users with two requests of administrators; two periods of a home; two messages; two pages of a profile and two pictures; two stays of three members; two users over one heart | one bonus per verified account, no more guesses of a code than the limit and the requests under way, one way only to lose the last administrator; periods stay apart, what is found can be requested, the occupancy shown is exact; an open dialog has every message and one that is not shown is announced, but for the gap of a join and a reader who leaves at that moment; what the dialog has shown is read on the server; the bell agrees with the rows; the avatar leads to its picture; ratings are the means of the reviews; hearts are true |
| `archive_lost` | expected violation | an update that read a home before it was archived brings back its status but not `deletedAt`: nobody finds the home again |
| `photos_unreviewed` | expected violation | a photo becomes READY in a home that was approved without it |
| `logout_all` | expected violation | a socket authenticated before a logout everywhere goes on receiving |

The three violations are disagreements with the manual test plan
(`docs/local-manual-testing-plan.md`), quoted in `findings`.

### Disagreements without a run

These properties are stated in the modules, and the code breaks them; each was
seen in a counterexample. They have no run of their own because the windows
they need are already in the models, and the checked properties exempt them by
name.

| property | what happens |
|---|---|
| `OneActiveRequest` | two `create` calls of one guest both pass the duplicate check (`exchanges.service.ts:73`) |
| `NoActiveRequestInArchive` | a request is inserted for a home that is archived at the same moment (`properties.service.ts:199`) |
| `ReadyStaysReady` | a repeated completion finds the upload gone and marks a READY photo FAILED (`property-photos.service.ts:119`) |
| `ClosedChatAnnounces` | a message to a reader who closes the chat meanwhile makes no notification (CHAT-02) |
| `AdminRemains` | an update that read an account before it became an administrator demotes the last one without counting (`admin.service.ts:117`) |
| `RightCodeVerifies` | an address an administrator gave to an account that had verified another one cannot be verified: the key of the bonus exists and undoes the transaction (AUTH-03) |
| `RefusedOnlyIfTaken` | an address somebody once registered with and left for another is refused as taken: the key of its welcome bonus remains (`auth.service.ts:73`) |
| `PeriodsValid` | an update of some fields, checked with what the row was before another update, leaves a period that ends before it starts or overlaps its neighbour |
| `AnyKindIsRequestable` | the search without a kind finds homes whose only open period is ON_REQUEST, for which no request can be made |
| `UnsentIsKept` | editing a home removes the unsent draft of another, new one from localStorage (HOME-01) |
| `AvatarLinked` | a page that loaded the profile before an upload sends its own link and hides the avatar; the field is disabled from then on (PROF-02) |
| `HeartsInStep` | the promise of ids outlives a sign-out, so the next user sees the hearts of the one before; ids asked for before a change and answered after it overwrite the heart (FAV-01) |

Found while translating, and left out of the properties because they follow
from what is above or concern what is not modelled: `deleteUser` removes
reviews without recomputing the ratings; the answer of a saved profile
overwrites what was typed meanwhile; text typed while *Continue* waits is reset;
leaving the wizard by a link within the debounce loses the last text; an
aborted autosave may overwrite a newer one; a lost answer to the creation of a
draft and its retry make two; two photo uploads at once exceed the limit; the
limit of saved searches is counted before the insert; a late list of requests
of the other direction is shown under the present tab; a refresh in flight
while a logout is answered brings back a live cookie; a lost answer to a
refresh signs the browser out; a failed evaluation turns the rate limiter off
until Redis is ready again.

### Bounds

`LastDay`, `MaxAdjust`, `Verifiers`, `MaxEdits`, `MaxSubmissions`, `MaxHomes`,
`MaxTexts`, `MaxTrouble`, `MaxSessions`, `MaxCodes`, `MaxMade`, `MaxChanges`,
`MaxMessages`, `MaxMoves`, `MaxSaves`, `IdsRequests` and `Clicks` are bounds,
as are the numbers of requests, photos and concurrent handlers. Every conflict
in this code is between two of something: two requests for a home, two handlers
on a row, two sides of a request, two periods, two pages of one form. So two
requests are enough to double-book a home, two handlers to overwrite each
other's status, and in `listings`, where an update, a submit and an archive
meet, three. One adjustment makes the balance too small between a check and a
reserve; a second text and a second submission make a decision or a text that
belongs to the first distinguishable; a third text distinguishes an autosave
that was overtaken from the one before it. `AttemptLimit` is 1 instead of the
code's five: the race is between the comparison and the counter, whatever its
value. `MaxMessages` equals `ListLimit`, so what CHAT-04 says of older pages of
a history is out of sight. `complete` compares only with the last day of
a stay: in `swap` the first of the two trips can be completed while the other,
longer one still waits to be confirmed, and days beyond add nothing.

`sessions` has one tab and one call at a time: two tabs exceed what TLC
finishes in minutes. What needs two, refreshes that race with one token and
with a reset, and tabs that share a cookie, is what `OneLive`, `OldOnesEnd`,
`WaitersAreServed` and `NoSelfSignOut` prove for any number of tabs and calls.
But for `MaxMessages <= ListLimit`, no theorem below depends on these numbers.

`CHECK_DEADLOCK FALSE` everywhere: once all requests are closed, all users
deleted and all bounds reached there is nothing left to do. Where waiting
forever would be wrong, a property says so (`StatusIsTold`, `PhotoSettles`,
`NobodyWaitsForNothing`).

### Fairness

`FairSpec` and `FairPhotosSpec` assume weak fairness of the continuation of
every handler, and of nothing else: once a statement or an S3 call has
returned or failed, the event loop resumes the handler. Starting a handler,
an upload by the client, a moderator's decision and the clock are never fair:
nobody has to act. A crash of the process between two steps is outside this
assumption; after one, a notification can be missing and a photo can stay
PROCESSING. The client modules assume no fairness: an answer may be lost, and a
page may be closed.

## Theorems

All are proved for every value of the constants the assumptions allow: any
users, homes, requests, prices, tabs, and any number of handlers in flight. What
is assumed of constants is that the sets sums and counts run over are finite,
that bounds and rates are naturals, the types of the tables and of the fields a
patch may send, that owners are users, and that what stands for NULL is told
from rows and ids; TLC evaluates each assumption on the instances.

| theorem | says | argument |
|---|---|---|
| `TypeCorrect` | `Spec => []TypeOK`; no balance is negative | `Adjust` and `Reserve` write only under the condition that the balance suffices |
| `NeverDoubleBooked` | `Spec => []NoDoubleBooking` | `Confirm` adds a stay only where `ConfirmedIn` is empty, and no other step makes a stay CONFIRMED: `UpdateStatus` writes only the three statuses of a move, which is the type invariant's part |
| `CompletedStaysAreOver`, `NightsAreSoldOnce` | `Spec => []CompletedIsOver`, `Spec => []NightsSoldOnce` | `Complete` checks the day and the clock only goes forward, so a completed stay is over for good. Two stays that share a night of a home are therefore not both confirmed, by `NeverDoubleBooked`, and the completed one of them is past |
| `ReserveMatchesStays` | `Spec => []ReservedIsHeld` | by the laws of sums: `Confirm` adds one stay and its price, `CancelConfirmed` and `Complete` take one away, `DeleteUser` takes a set of them from several accounts at once; no move of a handler starts from CONFIRMED |
| `JournalTellsBalances` | `Spec => []JournalGivesBalances` | with `JournalInv`: the parties of a request have rows and who has none has no points, so that `Register` may set a balance instead of adding to it. A step posts entries under fresh keys, hence entries the journal has not, and the sums of both go up by what they say; a deletion posts finitely many for several accounts and then takes the entries of its own |
| `NoPointsFromNowhere` | `Spec => PointsConserved` | from the same invariant: a settlement changes one balance of each kind by opposite amounts, a deletion moves the sum of a function over all users from reserved to available |
| `StatusNeverLeavesLifecycle` | `Spec => StatusFollowsLifecycle` | the conditional update writes only where the status is the one read, and the type invariant limits which moves a handler can hold |
| `UntoldIsTold` | `Spec => []UntoldIsBeingTold` | with `JournalInv`, `ToldInv`: a handler at its notification still knows whom to tell (`Tellers`: the home of the row it inserted, or the side that made the change), since ids are never used again and the parties of a row never change. A transaction tells within itself; the chains of `create` and `transition` write the status and go to their notification in one step |
| `RequestsAreBookings` | `Spec => ImplementsEscrow` | by the invariant `Sound` (what `create` checked of the dates, the price, the parties and the home offered still holds when the row is used) and `NoDoubleBooking`, by which the calendar of the mapping names at most one stay a night. `Confirm` is a booking, the two closings pay one side, `DeleteUser` is a leaving, since a home offered is the guest's own; all else is a stutter |
| `TextIsSubmitted`, `DecidedOnce`, `DeletedNeverPublic` | invariants of `Listings` | one inductive invariant, `ListingInv`: besides the properties it needs `SeenWhenRead`, that an update in flight never read PENDING_MODERATION, so that its unconditional write always leaves the queue, the catalogue and the hidden homes |
| `PhotoTypes`, `ReadyPhotosHaveImages`, `PhotosKeepTexts` | `PhotosSpec => []PhotosTypeOK`, `[]ReadyHasImage`, `[]TextAsSubmitted` | `PhotosInv`: with `ListingInv`, which the handlers of photos preserve as well, a completion that is about to count or to set READY has put the image (`ImageFirst`), unless the row was removed; a removal reaches the objects only when the row is gone; a deleted home has no photos and never will (`GoneHasNone`), and a new row is of one handler only (`NewIsNew`) |
| `OnePrimaryPhoto` | `PhotosSpec => []OnePrimary`; for one photo handler at a time | `Fine(w, p)`: at most one row of a home is flagged, one of the READY ones is, or the handler `w` is at the tail of a removal that promotes the next. What the handler has counted or found before its await is still so when it writes, since the handlers of `Listings` leave the flags alone |
| `SecondByPromotion` | `PhotosSpec => SecondIsPromoted`; for any number of handlers | from the types in `PhotosInv`: `complete` and `setPrimary` clear the other flags in the transaction that sets one, and a completion that has counted a primary photo sets none. Only `remove`, which deletes the row and promotes another in statements apart, can flag a photo beside one that has become primary meanwhile. It is in no run |
| `ProcessingHasHandler` | `PhotosSpec => []ProcessingIsHandled` | inductive as it stands with the types: every path of `complete` from the mark to its end writes READY or FAILED, and where another handler of the same photo does so first, the row is PROCESSING no more |
| `RequestsHaveHomes` | `Spec => []NoRequestWithoutHome` of `ListingExchange` | `create` finds its homes long before it inserts. `TogetherInv` says of each draft that the homes it names are still there or their owner is gone: a home goes only with its owner, and the insertion fails when a user it refers to is gone. Who offers a home owns it, so this covers both homes |
| `ExchangesImplemented`, `ListingsImplemented` | `Spec => ImplementsExchanges`, `Spec => ImplementsListings` | step by step: each step of the one part is a step of its module or a stutter, each step of the other is one its environment may take or a stutter; the deletion of an owner is a step of both. So every theorem on a part holds of the two together |
| `QueuedOnlyFromDraft` | `ListingSpec => QueuedFromDraft` | from `ListingInv`: `submit` is the only step into the queue and writes only where the status is the one it read |
| `OneLive`, `OldOnesEnd` | `Spec => []OneLivePerLogin`, `Spec => []OldSessionsEnd` | rotation revokes before it creates. The invariant counts the live session of a login together with the refresh about to create its next: of all these a login has at most one. A session that outlives a reset must come from a request past its check, which `late` records |
| `SessionTypes` | `Spec => []TypeOK` of `ClientSession` | with the invariant of the two above: a session made is numbered next, and a tab's call is its own |
| `ClosedSocketsGone` | `Spec => []OldSocketsClose` | `SocketsInv`: either a request that closes the room is in flight, or whoever is inside was authenticated after the last closing; `missed` records who joined the room late |
| `WaitersAreServed` | `Spec => []NobodyWaitsForNothing` | `WaitsInv`: each page has one slot for its refresh, and whoever waits on the page waits for the refresh in that slot, whose answer or loss takes all of them along |
| `NoSelfSignOut` | `Spec => []NoPageSignsItselfOut` | `HoldersInv`: a session has one holder, the cookie of one browser or one answer on its way; a refresh answered without a session carried one that is over; who rotated a session waits for the next one, or no cookie and no refresh of its own has the old one any more |
| `PeriodsStayApart` | `CalendarSpec => []PeriodsApart` | what a request has checked is valid and apart from the rows at its transaction; an update writes either just that or a row it has not checked, which is then torn |
| `CalendarTypesHold` | `CalendarSpec => []CalendarTypeOK` | a patch writes values of the fields' types, checked or not |
| `FoundMayBeAskedFor` | `CalendarSpec => []FoundIsRequestable` | needs no invariant: for any rows the catalogue's query implies the check of `create`. It compares two readings of the code, written apart in two services |
| `OccupancyTells` | `CalendarSpec => []OccupancyExact` | what the merge of some ranges must be, `Merges(m, s)`: stretches in order and apart of each other, which start and end where ranges do and cover the same nights. One step of the reduce keeps it (`JoinMerges`), so it holds of any finite set of bookings. A period is then booked just when one stretch covers it |
| `OneEmailBonus` | `AccountsSpec => []EmailBonusOnce` | whoever got the bonus has its journal key, until the account is deleted, after which it gets nothing |
| `GuessesAreBounded` | `AccountsSpec => []GuessesBounded` | `CodesInv`: of each code that is still open, the comparisons made are at most the wrong ones counted and those in flight that are about to be counted |
| `AccountsStayTyped` | `AccountsSpec => []AccountsTypeOK` | from the invariants of the bonus and the codes, and that a journal key has an owner |
| `LastAdminTheorem` | `AccountsSpec => LastAdminFalls` | a step takes away one administrator at most; deletion and a well-informed update count the others first |
| `AvatarAlwaysShown` | `ProfilesSpec => []AvatarShown` | keys are never used twice, and what an upload found in the row was written by another that is done: what it deletes the row names no more |
| `RatingsAreMeans` | `ReviewsSpec => []RatingIsMean` | a review writes the average over all rows of its subject and role in the transaction that adds it, and who reviews whom is fixed by the stay; rounding to a tenth is off by half of one at most |
| `ProfilesTypesHold`, `ReviewsTypesHold`, `FavouritesTypesHold` | `[]ProfilesTypeOK`, `[]ReviewsTypeOK`, `[]FavouritesTypeOK` | each from the invariant of its module's other theorem, and of what that leaves out |
| `HeartsTellTheRows` | `FavouritesSpec => []HeartIsTrue` | `HeartsInv`: the promise of ids, where it is settled, says what the rows say but for cards that are `unsure` (`KnownIsTrue`); a card has one change in flight at a time (`OnlyChange`), made for the user who is signed in; so each sure heart is its row, before, during and after its change (`SureHearts`) |
| `NewestStays`, `CleanIsStored` | `WizardSpec => []NewestIsKept`, `[]SavedIsStored` | one inductive invariant, `WizardInv`, for as long as no `risk` was met: two updates of one home are never under way together; a home *holds* a text if it has it and whatever is about to write the row writes it again; what the page takes to be saved is held, what it waits for carries the text of the form, and the newest text is in the form, in localStorage or held |
| `SeenIsPublished`, `WizardTypesHold` | `WizardSpec => UnseenNeverPublished`, `[]WizardTypeOK` | `WizardTyped`: every request and page names a home that is there, and a list called fresh shows what the rows have |
| `LiveTypesHold` | `LiveSpec => []LiveTypeOK` | queues carry messages of their kinds, numbered like the rows |
| `DialogShows`, `NothingGoesUnnoticed` | `LiveSpec => []ShownUnlessInGap`, `[]AnnouncedOrShown`, both while `MaxMessages <= ListLimit` | after a cut or an opening the join is sent, taken or answered, and a message not shown is then in the list asked for, in the queue of the socket, or in `gap`. Beyond the limit the list is only the newest page, so the statements would be false of what is older: the code shows that on request |
| `LookingReads` | `LiveSpec => []LookedAtIsRead` | `ReadInv`: while a page looks at the dialog its join is under way, or a mark as read is due or on its way, or all that was not sent after it is read |
| `BellIsTrue` | `LiveSpec => []BellFollows` | what the items and the count will be once all that is under way has arrived is what the server has, but for lists that crossed events, which are `stale` |

`SumsTheorems` proves the laws of sums that the theorems on points and
`RatingsAreMeans` rest on. A sum is the cardinality of a set of pairs rather
than a recursion: the library's induction takes an operator as a parameter,
which the provers here cannot instantiate. `OccupancyTells` needs an induction
all the same, over the number of bookings. It is made with sets: a set of
naturals with zero and the successor of each of its members is all of them,
since otherwise it would leave out a least one (`WFMin`). `BookedRanges` takes the
ranges from a set, the one that starts last first. Which of two ranges of one
start comes first makes no difference to what they merge to.

Only model-checked: `StatusIsTold` and `PhotoSettles`. Liveness, like everything
about ENABLED, is out of the prover's reach. What they need of safety is proved:
by `UntoldIsTold` and `ProcessingHasHandler` there is a handler in flight for
each, and the fairness assumed is that it goes on.

Proved and in no run: the type invariants of the modules that share `MCHomes`,
`MCPages` and `MCPhotos`, and `NeverDoubleBooked`, which `NightsSoldOnce` implies.

## Plan

Done: everything in the module table. What would add most next:

1. `Sessions` with two tabs on a machine that has hours for it.
2. The rate limiter: the window counter in Redis, and the flag that turns it
   off.

## Not modelled

The rate limiter (a counter per key in Redis; what a refusal protects is not
in the models, and `Accounts` takes every guess to be let through, the worst
case), saved searches, the amenity dictionary and the point rules (rows of
their own, written by a statement each), the catalogue's other filters and the
pages that only show what they were sent (among them the list of notifications,
which has the handlers of the bell without its socket), rendering, e-mail
delivery, image conversion, translations, deployment. Their entries under
`components` in `PROJECT.json` say why.
