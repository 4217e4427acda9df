-------------------------------- MODULE Live --------------------------------
(***************************************************************************)
(* What a participant of an exchange sees of it live: the chat of          *)
(* exchange-messages.service and exchange-realtime.gateway in its dialog   *)
(* (ExchangeChatDialog), and the notifications of notifications.service    *)
(* under the bell (NotificationsButton), both over one socket.             *)
(*                                                                         *)
(* One page of the reader, and the peer who writes to the same chat.  The  *)
(* socket keeps the order of what it carries; answers to HTTP requests     *)
(* come when they come.  The dialog and the bell share no state of the     *)
(* page, so a behaviour looks at one of them: `looks'.                     *)
(***************************************************************************)
EXTENDS Naturals, Sequences, FiniteSets

CONSTANTS
    Calls,          \* messages being stored
    MaxMessages,    \* bound: messages
    ListLimit,      \* how many messages, the oldest, list returns
    MaxMoves        \* bound: how often the dialog is opened, closed, hidden and
                    \* shown, the socket cut and a request lost, together

ASSUME LiveBounds ==
    {MaxMessages, ListLimit, MaxMoves} \subseteq Nat /\ IsFiniteSet(Calls)

VARIABLES
    looks,      \* what the behaviour looks at: "dialog" or "bell"
    message,    \* the rows of ExchangeMessage, oldest first: sender and readAt
    notice,     \* per message: the reader's Notification about it
    post,       \* ExchangeMessagesService.create in flight
    room,       \* the rooms of the reader's socket: "exchange", "active"
    joining,    \* joinExchange in flight
    outbox,     \* sent by the page over the socket
    inbox,      \* sent to the page over the socket
    online,     \* the socket is connected, and in the room of the user
    dialog,     \* the chat: when it was opened (0: it is not), and the page visible
    shown,      \* the messages the dialog has
    fetch,      \* its HTTP request for the messages
    items,      \* the bell's notifications
    unread,     \* and their number
    list,       \* its HTTP request for them
    clicks,     \* HTTP requests to mark one, or all (0), as read
    moves,      \* counts what MaxMoves bounds
    gap,        \* history: messages sent between join's list and its rooms
    left,       \* history: messages under way while the reader looked away
    stale       \* history: the bell's list crossed events on their way, or an
                \* event told of a notification already read

chatVars == <<message, post, room, joining, dialog, shown, fetch, gap, left>>
feedVars == <<items, unread, list, clicks, stale>>
lineVars == <<outbox, inbox, online, moves>>
liveVars == <<chatVars, notice, looks, feedVars, lineVars>>

Messages == 1..MaxMessages
NoWork == [pc |-> "none"]
Stored == 1..Len(message)
Listed == 1..(IF Len(message) < ListLimit THEN Len(message) ELSE ListLimit)

Posts == [by: {"peer", "reader"}, pc: {"store", "emit"}, viewing: BOOLEAN,
          away: BOOLEAN, id: 0..MaxMessages]
Joins == [pc: {"room"}, active: BOOLEAN, opened: 1..MaxMoves, list: SUBSET Messages]
Sent == [type: {"join", "visibility"}, active: BOOLEAN, opened: 0..MaxMoves]
        \cup [type: {"leave", "read"}]
Received == [type: {"message", "notice", "noticeRead"}, id: Messages, late: BOOLEAN]
            \cup [type: {"readAll", "refresh"}]
            \cup [type: {"joined"}, opened: 1..MaxMoves, list: SUBSET Messages]

Notices == [Messages -> {"none", "unread", "read"}]
NoNotice == [m \in Messages |-> "none"]
Unread(n) == {m \in Messages : n[m] = "unread"}
AsRead(n, ids) == [m \in Messages |-> IF m \in ids /\ n[m] = "unread" THEN "read" ELSE n[m]]

LiveInit ==
    /\ looks \in {"dialog", "bell"}
    /\ message = <<>> /\ notice = NoNotice /\ post = [c \in Calls |-> NoWork]
    /\ room = {} /\ joining = NoWork /\ outbox = <<>> /\ inbox = <<>> /\ online = TRUE
    /\ dialog = [opened |-> 0, visible |-> TRUE]
    /\ shown = {} /\ fetch = NoWork
    /\ items = NoNotice /\ unread = 0 /\ clicks = {} /\ list = NoWork /\ moves = 0
    /\ gap = {} /\ left = {} /\ stale = FALSE

-----------------------------------------------------------------------------
(* The line.  What is emitted to a socket that is cut is gone.             *)

Emit(events) == inbox' = IF online THEN inbox \o events ELSE inbox
Feed(events) == IF looks = "bell" THEN events ELSE <<>>
Push(events) == outbox' = IF online THEN outbox \o events ELSE outbox
DialogOpen == dialog.opened # 0
Looking == online /\ DialogOpen /\ dialog.visible
Move == moves < MaxMoves /\ moves' = moves + 1

\* The reader looks away, or the connection is cut, with messages not shown.
LooksAway(cut) ==
    /\ left' = left \cup {m \in Stored \ shown : message[m].by = "peer" /\ notice[m] = "none"}
    /\ post' = [c \in Calls |-> IF post[c] # NoWork /\ (post[c].viewing \/ cut)
                                THEN [post[c] EXCEPT !.away = TRUE] ELSE post[c]]

-----------------------------------------------------------------------------
(* create.                                                                 *)

\* isUserViewingExchange(recipient), before the transaction.
Post(c, by) ==
    /\ post[c] = NoWork
    /\ Len(message) + Cardinality({d \in Calls : post[d] # NoWork /\ post[d].id = 0})
           < MaxMessages
    /\ by = "reader" => DialogOpen /\ online
    /\ LET viewing == by = "peer" /\ "active" \in room IN
       post' = [post EXCEPT ![c] = [by |-> by, pc |-> "store", viewing |-> viewing,
                                    away |-> viewing /\ ~Looking, id |-> 0]]
    /\ UNCHANGED <<message, room, joining, dialog, shown, fetch, gap, left,
                   notice, looks, feedVars, lineVars>>

\* Faulty variant: the sender is notified, not the other side.
StoreForSender(c) ==
    /\ post[c] # NoWork /\ post[c].pc = "store"
    /\ LET m == Len(message) + 1 IN
       /\ message' = Append(message, [by |-> post[c].by, read |-> FALSE])
       /\ notice' = IF post[c].by = "reader" /\ ~post[c].viewing
                    THEN [notice EXCEPT ![m] = "unread"] ELSE notice
       /\ post' = [post EXCEPT ![c].pc = "emit", ![c].id = m]
    /\ UNCHANGED <<room, joining, dialog, shown, fetch, gap, left, looks, feedVars, lineVars>>

\* The transaction: the message, and the notification of who is not looking.
Store(c) ==
    /\ post[c] # NoWork /\ post[c].pc = "store"
    /\ LET m == Len(message) + 1 IN
       /\ message' = Append(message, [by |-> post[c].by, read |-> FALSE])
       /\ notice' = IF post[c].by = "peer" /\ ~post[c].viewing
                    THEN [notice EXCEPT ![m] = "unread"] ELSE notice
       /\ post' = [post EXCEPT ![c].pc = "emit", ![c].id = m]
    /\ UNCHANGED <<room, joining, dialog, shown, fetch, gap, left, looks, feedVars, lineVars>>

Event(type, m) == <<[type |-> type, id |-> m, late |-> type = "notice" /\ notice[m] = "read"]>>

\* The events, and for the reader's own message the answer.
EmitAll(c) ==
    /\ post[c] # NoWork /\ post[c].pc = "emit"
    /\ LET m == post[c].id
           between == joining # NoWork /\ m \notin joining.list IN
       /\ Emit((IF "exchange" \in room THEN Event("message", m) ELSE <<>>)
               \o (IF notice[m] # "none" THEN Feed(Event("notice", m)) ELSE <<>>))
       /\ shown' = IF post[c].by = "reader" /\ ~post[c].away THEN shown \cup {m} ELSE shown
       /\ gap' = IF between THEN gap \cup {m} ELSE gap
       /\ left' = IF post[c].viewing /\ post[c].away THEN left \cup {m} ELSE left
       /\ post' = [post EXCEPT ![c] = NoWork]
    /\ UNCHANGED <<message, room, joining, dialog, fetch, notice, looks, feedVars,
                   outbox, online, moves>>

-----------------------------------------------------------------------------
(* The gateway takes what the page sent, in order.                         *)

Waits(type) == outbox # <<>> /\ Head(outbox).type = type
Take == outbox' = Tail(outbox) /\ UNCHANGED <<online, moves>>

\* joinExchange: the list, then the rooms.
TakeJoin ==
    /\ Waits("join") /\ joining = NoWork
    /\ joining' = [pc |-> "room", active |-> Head(outbox).active,
                   opened |-> Head(outbox).opened, list |-> Listed]
    /\ Take
    /\ UNCHANGED <<message, post, room, dialog, shown, fetch, gap, left, notice,
                   looks, feedVars, inbox>>

JoinRoom ==
    /\ joining # NoWork
    /\ room' = {"exchange"} \cup (IF joining.active THEN {"active"} ELSE {})
    /\ Emit(<<[type |-> "joined", opened |-> joining.opened, list |-> joining.list]>>)
    /\ joining' = NoWork
    /\ UNCHANGED <<message, post, dialog, shown, fetch, gap, left, notice, looks, feedVars,
                   outbox, online, moves>>

\* leaveExchange does not wait for a join under way.
TakeLeave ==
    /\ Waits("leave") /\ room' = {} /\ Take
    /\ UNCHANGED <<message, post, joining, dialog, shown, fetch, gap, left, notice,
                   looks, feedVars, inbox>>

\* exchangeVisibility asks for a join first.
TakeVisibility ==
    /\ Waits("visibility")
    /\ room' = IF room = {} THEN {}
               ELSE IF Head(outbox).active THEN room \cup {"active"} ELSE room \ {"active"}
    /\ Take
    /\ UNCHANGED <<message, post, joining, dialog, shown, fetch, gap, left, notice,
                   looks, feedVars, inbox>>

\* markRead: every message of the other side, and its notifications.
ReadAll ==
    /\ message' = [m \in Stored |-> [message[m] EXCEPT !.read = @ \/ message[m].by = "peer"]]
    /\ notice' = AsRead(notice, Messages)
    /\ Emit(IF Unread(notice) # {} THEN Feed(<<[type |-> "refresh"]>>) ELSE <<>>)

\* It asks for a join first.
TakeRead ==
    /\ Waits("read")
    /\ IF room = {} THEN UNCHANGED <<message, notice, inbox>> ELSE ReadAll
    /\ Take
    /\ UNCHANGED <<post, room, joining, dialog, shown, fetch, gap, left, looks, feedVars>>

\* Another page of the reader has the chat open.
ReadElsewhere ==
    /\ looks = "bell" /\ Move /\ ReadAll
    /\ UNCHANGED <<post, room, joining, dialog, shown, fetch, gap, left, looks, feedVars,
                   outbox, online>>

-----------------------------------------------------------------------------
(* The dialog.                                                             *)

JoinEvent(d) == <<[type |-> "join", active |-> d.visible, opened |-> d.opened]>>

Open ==
    /\ looks = "dialog" /\ ~DialogOpen /\ Move
    /\ dialog' = [dialog EXCEPT !.opened = moves']
    /\ fetch' = [pc |-> "sent", list |-> {}]
    /\ Push(JoinEvent(dialog'))
    /\ UNCHANGED <<message, post, room, joining, shown, gap, left, notice, looks, feedVars,
                   inbox, online>>

\* The cleanup of the effect: what is on its way is not for it any more.
Close ==
    /\ DialogOpen /\ Move
    /\ dialog' = [dialog EXCEPT !.opened = 0]
    /\ fetch' = NoWork /\ LooksAway(FALSE)
    /\ Push(<<[type |-> "leave"]>>)
    /\ UNCHANGED <<message, room, joining, shown, gap, notice, looks, feedVars, inbox, online>>

\* syncVisibility.
Toggle ==
    /\ DialogOpen /\ Move
    /\ dialog' = [dialog EXCEPT !.visible = ~@]
    /\ Push(<<[type |-> "visibility", active |-> dialog'.visible, opened |-> 0]>>
            \o (IF dialog'.visible THEN <<[type |-> "read"]>> ELSE <<>>))
    /\ IF dialog.visible THEN LooksAway(FALSE) ELSE UNCHANGED <<left, post>>
    /\ UNCHANGED <<message, room, joining, shown, fetch, gap, notice, looks, feedVars,
                   inbox, online>>

FetchServed ==
    /\ fetch # NoWork /\ fetch.pc = "sent"
    /\ fetch' = [pc |-> "answered", list |-> Listed]
    /\ UNCHANGED <<message, post, room, joining, dialog, shown, gap, left, notice,
                   looks, feedVars, lineVars>>

\* mergeMessages.
FetchAnswered ==
    /\ fetch # NoWork /\ fetch.pc = "answered"
    /\ shown' = shown \cup fetch.list /\ fetch' = NoWork
    /\ UNCHANGED <<message, post, room, joining, dialog, gap, left, notice,
                   looks, feedVars, lineVars>>

\* The socket is cut: its rooms, and what was under way in it, are gone.
Drop ==
    /\ online /\ Move /\ online' = FALSE
    /\ room' = {} /\ joining' = NoWork /\ inbox' = <<>> /\ outbox' = <<>>
    /\ LooksAway(TRUE)
    /\ UNCHANGED <<message, dialog, shown, fetch, gap, notice, looks, feedVars>>

Asked == [pc |-> "sent", of |-> NoNotice, overtaken |-> FALSE]

\* Faulty variant: only the bell listens to `connect'.
ConnectBell ==
    /\ ~online /\ list = NoWork
    /\ online' = TRUE
    /\ list' = IF looks = "bell" THEN Asked ELSE NoWork
    /\ UNCHANGED <<chatVars, notice, looks, items, unread, clicks, stale, inbox, outbox, moves>>

\* `connect': the dialog joins again, the bell lists again.
Connect ==
    /\ ~online /\ list = NoWork
    /\ online' = TRUE
    /\ outbox' = IF DialogOpen THEN JoinEvent(dialog) ELSE <<>>
    /\ list' = IF looks = "bell" THEN Asked ELSE NoWork
    /\ UNCHANGED <<chatVars, notice, looks, items, unread, clicks, stale, inbox, moves>>

-----------------------------------------------------------------------------
(* The bell.                                                               *)

\* A list in flight does not know of what the page learns meanwhile.
Overtake == list' = IF list = NoWork THEN NoWork ELSE [list EXCEPT !.overtaken = TRUE]

ListServed ==
    /\ list # NoWork /\ list.pc = "sent"
    /\ list' = [pc |-> "answered", of |-> notice, overtaken |-> FALSE]
    /\ UNCHANGED <<chatVars, notice, looks, items, unread, clicks, stale, lineVars>>

\* Faulty variant: the number is kept where the list comes without it.
ListKeepsNumber ==
    /\ list # NoWork /\ list.pc = "answered"
    /\ items' = list.of /\ stale' = (list.overtaken \/ inbox # <<>>) /\ list' = NoWork
    /\ UNCHANGED <<chatVars, notice, looks, unread, clicks, lineVars>>

\* refresh replaces the items and their number.
ListAnswered ==
    /\ list # NoWork /\ list.pc = "answered"
    /\ items' = list.of /\ unread' = Cardinality(Unread(list.of))
    /\ stale' = (list.overtaken \/ inbox # <<>>) /\ list' = NoWork
    /\ UNCHANGED <<chatVars, notice, looks, clicks, lineVars>>

Less(n) == IF n = 0 THEN 0 ELSE n - 1

\* read: shown as read at once, asked for afterwards.
Click(m) ==
    /\ items[m] = "unread"
    /\ items' = AsRead(items, {m}) /\ unread' = Less(unread)
    /\ clicks' = clicks \cup {m} /\ Overtake
    /\ UNCHANGED <<chatVars, notice, looks, stale, lineVars>>

ClickAll ==
    /\ Unread(items) # {}
    /\ items' = AsRead(items, Messages) /\ unread' = 0
    /\ clicks' = clicks \cup {0} /\ Overtake
    /\ UNCHANGED <<chatVars, notice, looks, stale, lineVars>>

\* read and readAll on the server tell every page of the user.
ClickServed(m) ==
    /\ m \in clicks /\ clicks' = clicks \ {m}
    /\ notice' = AsRead(notice, IF m = 0 THEN Messages ELSE {m})
    /\ Emit(IF m = 0 THEN <<[type |-> "readAll"]>>
            ELSE IF notice[m] = "unread" THEN Event("noticeRead", m) ELSE <<>>)
    /\ UNCHANGED <<chatVars, looks, items, unread, list, stale, outbox, online, moves>>

\* The request fails: the bell lists again.
ClickFailed(m) ==
    /\ m \in clicks /\ clicks' = clicks \ {m} /\ Move
    /\ list = NoWork /\ list' = Asked
    /\ UNCHANGED <<chatVars, notice, looks, items, unread, stale, outbox, inbox, online>>

-----------------------------------------------------------------------------
(* The page takes what the server sent, in order.                          *)

Arrived(type) == inbox # <<>> /\ Head(inbox).type = type
Arrive == inbox' = Tail(inbox) /\ UNCHANGED <<online, moves>>

\* Faulty variant: shown, and left unread.
MessageArrivesOnly ==
    /\ Arrived("message") /\ Arrive
    /\ shown' = IF DialogOpen THEN shown \cup {Head(inbox).id} ELSE shown
    /\ UNCHANGED outbox
    /\ UNCHANGED <<message, post, room, joining, dialog, fetch, gap, left, notice, looks, feedVars>>

\* receive: shown, and read if the reader looks.
MessageArrives ==
    /\ Arrived("message") /\ Arrive
    /\ LET m == Head(inbox).id IN
       IF DialogOpen
       THEN /\ shown' = shown \cup {m}
            /\ IF message[m].by = "peer" /\ dialog.visible
               THEN Push(<<[type |-> "read"]>>) ELSE UNCHANGED outbox
       ELSE UNCHANGED <<shown, outbox>>
    /\ UNCHANGED <<message, post, room, joining, dialog, fetch, gap, left, notice, looks, feedVars>>

\* The answer of the join, if the dialog that asked is still open.
JoinedArrives ==
    /\ Arrived("joined") /\ Arrive
    /\ IF Head(inbox).opened = dialog.opened
       THEN /\ shown' = shown \cup Head(inbox).list
            /\ IF dialog.visible THEN Push(<<[type |-> "read"]>>) ELSE UNCHANGED outbox
       ELSE UNCHANGED <<shown, outbox>>
    /\ UNCHANGED <<message, post, room, joining, dialog, fetch, gap, left, notice, looks, feedVars>>

\* add.
NoticeArrives ==
    /\ Arrived("notice") /\ Arrive
    /\ LET m == Head(inbox).id IN
       IF items[m] = "none"
       THEN /\ items' = [items EXCEPT ![m] = "unread"] /\ unread' = unread + 1
            /\ stale' = (stale \/ Head(inbox).late)
       ELSE UNCHANGED <<items, unread, stale>>
    /\ Overtake
    /\ UNCHANGED <<chatVars, notice, looks, clicks, outbox>>

\* markRead and markAllRead of the bell.
ReadArrives ==
    /\ Arrived("noticeRead") /\ Arrive
    /\ LET m == Head(inbox).id IN
       /\ unread' = IF items[m] = "read" THEN unread ELSE Less(unread)
       /\ items' = AsRead(items, {m})
    /\ Overtake
    /\ UNCHANGED <<chatVars, notice, looks, clicks, stale, outbox>>

ReadAllArrives ==
    /\ Arrived("readAll") /\ Arrive
    /\ items' = AsRead(items, Messages) /\ unread' = 0
    /\ Overtake
    /\ UNCHANGED <<chatVars, notice, looks, clicks, stale, outbox>>

RefreshArrives ==
    /\ Arrived("refresh") /\ Arrive
    /\ list = NoWork /\ list' = Asked
    /\ UNCHANGED <<chatVars, notice, looks, items, unread, clicks, stale, outbox>>

Server ==
    \/ \E c \in Calls : Store(c) \/ EmitAll(c)
    \/ TakeJoin \/ JoinRoom \/ TakeLeave \/ TakeVisibility \/ TakeRead
    \/ FetchServed \/ ListServed \/ \E m \in {0} \cup Messages : ClickServed(m)
Page ==
    \/ MessageArrives \/ JoinedArrives \/ NoticeArrives \/ ReadArrives
    \/ ReadAllArrives \/ RefreshArrives \/ FetchAnswered \/ ListAnswered \/ Connect
Participants ==
    \/ \E c \in Calls, by \in {"peer", "reader"} : Post(c, by)
    \/ Open \/ Close \/ Toggle \/ ReadElsewhere \/ \E m \in Messages : Click(m)
    \/ ClickAll

LiveNext == Server \/ Page \/ Participants \/ Drop \/ \E m \in {0} \cup Messages : ClickFailed(m)
LiveSpec == LiveInit /\ [][LiveNext]_liveVars

-----------------------------------------------------------------------------
(* Properties.                                                             *)

LiveTypeOK ==
    /\ looks \in {"dialog", "bell"}
    /\ Len(message) <= MaxMessages
    /\ \A m \in Stored : message[m] \in [by: {"peer", "reader"}, read: BOOLEAN]
    /\ notice \in Notices /\ items \in Notices /\ unread \in 0..MaxMessages
    /\ post \in [Calls -> Posts \cup {NoWork}] /\ room \subseteq {"exchange", "active"}
    /\ joining \in Joins \cup {NoWork}
    /\ \A i \in DOMAIN outbox : outbox[i] \in Sent
    /\ \A i \in DOMAIN inbox : inbox[i] \in Received
    /\ shown \cup gap \cup left \subseteq Messages /\ clicks \subseteq {0} \cup Messages

\* Nothing is on its way, in either direction or on the server.
Quiet ==
    /\ online /\ outbox = <<>> /\ inbox = <<>> /\ joining = NoWork /\ fetch = NoWork
    /\ post = [c \in Calls |-> NoWork] /\ list = NoWork /\ clicks = {}

\* An open dialog has every message, through closing, hiding and lost
\* connections, except one sent between join's list and its rooms.
ShownUnlessInGap == Quiet /\ DialogOpen => Stored \subseteq shown \cup gap

\* A message is neither announced nor shown only if the reader stopped looking
\* while it was under way, or it fell into the same gap.
AnnouncedOrShown ==
    Quiet => \A m \in Stored :
        message[m].by = "peer" /\ notice[m] = "none" => m \in shown \cup gap \cup left

\* What an open dialog on a visible page has shown of the peer is read on the
\* server, so that the peer sees it read, even after lost connections.
LookedAtIsRead ==
    looks = "dialog" /\ Quiet /\ Looking =>
        \A m \in shown : message[m].by = "peer" => message[m].read

\* The bell shows what the server has, unless a list crossed events on their
\* way (it replaces newer ones, and older ones change it), or a notification was
\* read before the page was told of it.
BellFollows == looks = "bell" /\ Quiet /\ ~stale => items = notice /\ unread = Cardinality(Unread(notice))

\* A message to who closed the chat, when nothing is on its way, is announced
\* (docs/local-manual-testing-plan.md, CHAT-02).
ClosedChatAnnounces ==
    [][Quiet /\ ~DialogOpen => \A c \in Calls : post'[c] # NoWork => ~post'[c].viewing]_liveVars
=============================================================================
