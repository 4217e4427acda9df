----------------------------- MODULE LiveProofs ------------------------------
(***************************************************************************)
(* Theorems about Live for any number of messages, calls and moves: an     *)
(* open dialog has every message once nothing is on its way, what the      *)
(* reader has not is announced to him, what he looked at is read, and the  *)
(* bell shows what the server has.                                         *)
(***************************************************************************)
EXTENDS Live, SequenceTheorems, FiniteSetTheorems, TLAPS

-----------------------------------------------------------------------------
(* The chat and the bell.                                                   *)

Rows == [by: {"peer", "reader"}, read: BOOLEAN]
Lists == [pc: {"sent", "answered"}, of: Notices, overtaken: BOOLEAN]
Fetches == [pc: {"sent", "answered"}, list: SUBSET Messages]
Working(c) == post[c] # NoWork
Unstored == {c \in Calls : Working(c) /\ post[c].id = 0}
Unsent(m) == \E c \in Calls : Working(c) /\ post[c].pc = "emit" /\ post[c].id = m

ChatTypes ==
    /\ looks \in {"dialog", "bell"} /\ message \in Seq(Rows)
    /\ post \in [Calls -> Posts \cup {NoWork}] /\ room \subseteq {"exchange", "active"}
    /\ joining \in Joins \cup {NoWork} /\ fetch \in Fetches \cup {NoWork}
    /\ dialog \in [opened: 0..MaxMoves, visible: BOOLEAN] /\ moves \in 0..MaxMoves
    /\ shown \cup gap \cup left \subseteq Messages
Requested == {e \in Sent : e.type = "join" => e.opened \in 1..MaxMoves}
LineTypes == outbox \in Seq(Requested) /\ inbox \in Seq(Received) /\ online \in BOOLEAN

\* The number is never above what it stands for.
BellTypes ==
    /\ notice \in Notices /\ items \in Notices /\ list \in Lists \cup {NoWork}
    /\ clicks \subseteq {0} \cup Messages /\ stale \in BOOLEAN
    /\ unread \in Nat /\ unread <= Cardinality(Unread(items))

\* There is room for what is not stored yet.
RoomLeft ==
    /\ \A c \in Calls : Working(c) => (post[c].id = 0 <=> post[c].pc = "store")
    /\ Len(message) + Cardinality(Unstored) <= MaxMessages

LiveTypes == ChatTypes /\ LineTypes /\ BellTypes /\ RoomLeft

\* Nothing is shown, listed or told of that is not stored, and the bell has
\* only what there are notifications of.
StoredShown ==
    /\ shown \subseteq Stored
    /\ joining # NoWork => joining.list \subseteq Stored
    /\ fetch # NoWork => fetch.list \subseteq Stored
    /\ \A c \in Calls : Working(c) /\ post[c].pc = "emit" => post[c].id \in Stored
Noticed ==
    \A m \in Messages :
        /\ notice[m] # "none" => m \in Stored
        /\ items[m] # "none" => notice[m] # "none"
        /\ list # NoWork /\ list.of[m] # "none" => notice[m] # "none"
        /\ m \in clicks => notice[m] # "none"
OfStored(e) ==
    /\ e.type = "joined" => e.list \subseteq Stored
    /\ e.type \in {"message", "notice", "noticeRead"} => e.id \in Stored
    /\ e.type \in {"notice", "noticeRead"} => notice[e.id] # "none"
StoredCarried == \A i \in DOMAIN inbox : OfStored(inbox[i])

\* Who looks at the bell has no dialog.
BellAlone ==
    looks = "bell" => /\ ~DialogOpen /\ room = {} /\ joining = NoWork
                      /\ outbox = <<>> /\ fetch = NoWork
                      /\ \A i \in DOMAIN inbox : inbox[i].type \notin {"message", "joined"}

-----------------------------------------------------------------------------
\* Where the join of the open dialog is: sent, taken, or answered.
NoneAfter(i) == \A j \in DOMAIN outbox : j > i => outbox[j].type \notin {"join", "leave"}
JoinSent ==
    \E i \in DOMAIN outbox :
        outbox[i].type = "join" /\ outbox[i].opened = dialog.opened /\ NoneAfter(i)
JoinTaken == NoneAfter(0) /\ joining # NoWork /\ joining.opened = dialog.opened
JoinDone == NoneAfter(0) /\ "exchange" \in room

\* A message the dialog will be sent.
Coming(m) ==
    \/ Unsent(m)
    \/ \E i \in DOMAIN inbox : inbox[i].type = "message" /\ inbox[i].id = m
    \/ \E i \in DOMAIN inbox :
           inbox[i].type = "joined" /\ inbox[i].opened = dialog.opened /\ m \in inbox[i].list

ShownInv ==
    online /\ DialogOpen =>
        \/ JoinSent
        \/ JoinTaken /\ \A m \in Stored \ (joining.list \cup gap) : Unsent(m)
        \/ JoinDone /\ \A m \in Stored \ (shown \cup gap) : Coming(m)

\* A page that will ask the server to mark what there is as read.
ReadDue ==
    \/ \E i \in DOMAIN outbox : outbox[i].type = "read"
    \/ \E i \in DOMAIN inbox : inbox[i].type = "message" /\ message[inbox[i].id].by = "peer"
    \/ \E i \in DOMAIN inbox : inbox[i].type = "joined" /\ inbox[i].opened = dialog.opened

ToRead(m) == message[m].by = "peer" /\ ~message[m].read

ReadInv ==
    Looking =>
        \/ JoinSent \/ JoinTaken
        \/ JoinDone /\ (ReadDue \/ \A m \in Stored : ToRead(m) => Unsent(m))

Unannounced(m) == message[m].by = "peer" /\ notice[m] = "none"


-----------------------------------------------------------------------------
LEMMA UnreadBounded ==
    ASSUME NEW x \in Notices
    PROVE  /\ IsFiniteSet(Unread(x)) /\ Cardinality(Unread(x)) \in Nat
           /\ Cardinality(Unread(x)) <= MaxMessages
<1>1. MaxMessages \in Nat
  BY LiveBounds
<1>2. IsFiniteSet(Messages) /\ Cardinality(Messages) = MaxMessages
  BY <1>1, FS_Interval DEF Messages
<1>3. Unread(x) \subseteq Messages
  BY DEF Unread
<1>4. QED
  BY <1>2, <1>3, FS_Subset, FS_CardinalityType

LEMMA AsReadIs ==
    ASSUME NEW x \in Notices, NEW S
    PROVE  /\ AsRead(x, S) \in Notices
           /\ \A m \in Messages : /\ AsRead(x, S)[m] = "none" <=> x[m] = "none"
                                  /\ AsRead(x, S)[m] = IF m \in S /\ x[m] = "unread"
                                                       THEN "read" ELSE x[m]
BY DEF AsRead, Notices

LEMMA AsReadOne ==
    ASSUME NEW x \in Notices, NEW m \in Messages
    PROVE  /\ x[m] = "unread" => Cardinality(Unread(AsRead(x, {m}))) = Cardinality(Unread(x)) - 1
           /\ x[m] # "unread" => AsRead(x, {m}) = x
<1>1. CASE x[m] = "unread"
  <2>1. Unread(AsRead(x, {m})) = Unread(x) \ {m} /\ m \in Unread(x)
    BY <1>1, AsReadIs DEF Unread
  <2>2. QED
    BY <1>1, <2>1, UnreadBounded, FS_RemoveElement
<1>2. CASE x[m] # "unread"
  BY <1>2 DEF AsRead, Notices
<1>3. QED
  BY <1>1, <1>2

LEMMA AsReadAll ==
    ASSUME NEW x \in Notices
    PROVE  Unread(AsRead(x, Messages)) = {} /\ Cardinality({}) = 0
BY AsReadIs, FS_EmptySet DEF Unread

LEMMA OneMoreUnread ==
    ASSUME NEW x \in Notices, NEW m \in Messages, x[m] = "none"
    PROVE  /\ [x EXCEPT ![m] = "unread"] \in Notices
           /\ Cardinality(Unread([x EXCEPT ![m] = "unread"])) = Cardinality(Unread(x)) + 1
<1>1. Unread([x EXCEPT ![m] = "unread"]) = Unread(x) \cup {m} /\ m \notin Unread(x)
  BY DEF Unread, Notices
<1>2. QED
  BY <1>1, UnreadBounded, FS_AddElement DEF Notices

LEMMA NoNoticeTyped == NoNotice \in Notices /\ Unread(NoNotice) = {} /\ Cardinality({}) = 0
BY FS_EmptySet DEF NoNotice, Notices, Unread

LEMMA ConcatEach ==
    ASSUME NEW S, NEW s \in Seq(S), NEW t \in Seq(S)
    PROVE  \A i \in DOMAIN (s \o t) : \/ \E j \in DOMAIN s : (s \o t)[i] = s[j]
                                     \/ \E j \in DOMAIN t : (s \o t)[i] = t[j]
<1>1. /\ s \o t \in Seq(S) /\ Len(s \o t) = Len(s) + Len(t)
      /\ \A i \in 1..Len(s) + Len(t) : (s \o t)[i] = IF i <= Len(s) THEN s[i] ELSE t[i - Len(s)]
      /\ DOMAIN s = 1..Len(s) /\ DOMAIN t = 1..Len(t) /\ DOMAIN (s \o t) = 1..Len(s \o t)
      /\ Len(s) \in Nat /\ Len(t) \in Nat
  BY ConcatProperties, LenProperties
<1>2. ASSUME NEW i \in DOMAIN (s \o t)
      PROVE  \/ i \in DOMAIN s /\ (s \o t)[i] = s[i]
             \/ i - Len(s) \in DOMAIN t /\ (s \o t)[i] = t[i - Len(s)]
  BY <1>1, <1>2
<1>3. QED
  BY <1>2

\* What the line does to what is on it.
LEMMA Emitted ==
    ASSUME LineTypes, NEW events \in Seq(Received), Emit(events)
    PROVE  /\ inbox' \in Seq(Received)
           /\ ~online => inbox' = inbox
           /\ \A i \in DOMAIN inbox : i \in DOMAIN inbox' /\ inbox'[i] = inbox[i]
           /\ online => \A i \in DOMAIN events : \E j \in DOMAIN inbox' :
                  j \notin DOMAIN inbox /\ inbox'[j] = events[i]
           /\ \A j \in DOMAIN inbox' : \/ j \in DOMAIN inbox /\ inbox'[j] = inbox[j]
                                       \/ \E i \in DOMAIN events : inbox'[j] = events[i]
<1>1. CASE online
  <2>1. inbox' = inbox \o events
    BY <1>1 DEF Emit
  <2>2. /\ inbox' \in Seq(Received) /\ Len(inbox') = Len(inbox) + Len(events)
        /\ \A i \in 1..Len(inbox) + Len(events) :
               inbox'[i] = IF i <= Len(inbox) THEN inbox[i] ELSE events[i - Len(inbox)]
    BY <2>1, ConcatProperties DEF LineTypes
  <2>3. /\ DOMAIN inbox = 1..Len(inbox) /\ DOMAIN events = 1..Len(events)
        /\ DOMAIN inbox' = 1..Len(inbox') /\ Len(inbox) \in Nat /\ Len(events) \in Nat
    BY <2>2, LenProperties DEF LineTypes
  <2>4. ASSUME NEW i \in DOMAIN events
        PROVE  \E j \in DOMAIN inbox' : j \notin DOMAIN inbox /\ inbox'[j] = events[i]
    <3>1. Len(inbox) + i \in DOMAIN inbox' /\ Len(inbox) + i \notin DOMAIN inbox
      BY <2>2, <2>3
    <3>2. inbox'[Len(inbox) + i] = events[i]
      BY <2>2, <2>3
    <3>3. QED
      BY <3>1, <3>2
  <2>5. ASSUME NEW j \in DOMAIN inbox', j \notin DOMAIN inbox
        PROVE  \E i \in DOMAIN events : inbox'[j] = events[i]
    <3>1. j - Len(inbox) \in DOMAIN events /\ inbox'[j] = events[j - Len(inbox)]
      BY <2>2, <2>3, <2>5
    <3>2. QED
      BY <3>1
  <2>6. QED
    BY <1>1, <2>2, <2>3, <2>4, <2>5
<1>2. CASE ~online
  BY <1>2 DEF Emit, LineTypes
<1>3. QED
  BY <1>1, <1>2

LEMMA IsThere ==
    ASSUME LineTypes, NEW events \in Seq(Received), Emit(events), online,
           NEW i \in DOMAIN events
    PROVE  \E j \in DOMAIN inbox' : inbox'[j] = events[i]
<1>1. online => \A k \in DOMAIN events : \E j \in DOMAIN inbox' :
                    j \notin DOMAIN inbox /\ inbox'[j] = events[k]
  BY Emitted
<1>2. QED
  BY <1>1

LEMMA NothingEmitted ==
    ASSUME LineTypes, Emit(<<>>)
    PROVE  inbox' = inbox
BY ConcatEmptySeq DEF Emit, LineTypes

LEMMA Pushed ==
    ASSUME LineTypes, NEW events \in Seq(Requested), Push(events)
    PROVE  /\ outbox' \in Seq(Requested)
           /\ ~online => outbox' = outbox
           /\ \A i \in DOMAIN outbox : i \in DOMAIN outbox' /\ outbox'[i] = outbox[i]
           /\ online => /\ Len(outbox') = Len(outbox) + Len(events)
                        /\ \A i \in DOMAIN events : /\ Len(outbox) + i \in DOMAIN outbox'
                                                    /\ outbox'[Len(outbox) + i] = events[i]
           /\ \A j \in DOMAIN outbox' : \/ j \in DOMAIN outbox /\ outbox'[j] = outbox[j]
                                        \/ \E i \in DOMAIN events : outbox'[j] = events[i]
<1>1. CASE online
  <2>1. outbox' = outbox \o events
    BY <1>1 DEF Push
  <2>2. /\ outbox' \in Seq(Requested) /\ Len(outbox') = Len(outbox) + Len(events)
        /\ \A i \in 1..Len(outbox) + Len(events) :
               outbox'[i] = IF i <= Len(outbox) THEN outbox[i] ELSE events[i - Len(outbox)]
    BY <2>1, ConcatProperties DEF LineTypes
  <2>3. /\ DOMAIN outbox = 1..Len(outbox) /\ DOMAIN events = 1..Len(events)
        /\ DOMAIN outbox' = 1..Len(outbox') /\ Len(outbox) \in Nat /\ Len(events) \in Nat
    BY <2>2, LenProperties DEF LineTypes
  <2>4. ASSUME NEW j \in DOMAIN outbox', j \notin DOMAIN outbox
        PROVE  \E i \in DOMAIN events : outbox'[j] = events[i]
    <3>1. j - Len(outbox) \in DOMAIN events /\ outbox'[j] = events[j - Len(outbox)]
      BY <2>2, <2>3, <2>4
    <3>2. QED
      BY <3>1
  <2>5. QED
    BY <1>1, <2>2, <2>3, <2>4
<1>2. CASE ~online
  BY <1>2 DEF Push, LineTypes
<1>3. QED
  BY <1>1, <1>2

LEMMA Arriving ==
    ASSUME LineTypes, inbox # <<>>, inbox' = Tail(inbox)
    PROVE  /\ inbox' \in Seq(Received) /\ Head(inbox) \in Received
           /\ 1 \in DOMAIN inbox /\ Head(inbox) = inbox[1]
           /\ \A i \in DOMAIN inbox' : i + 1 \in DOMAIN inbox /\ inbox'[i] = inbox[i + 1]
           /\ \A i \in DOMAIN inbox : i # 1 => i - 1 \in DOMAIN inbox' /\ inbox'[i - 1] = inbox[i]
BY HeadTailProperties, LenProperties DEF LineTypes

LEMMA Taking ==
    ASSUME LineTypes, outbox # <<>>, outbox' = Tail(outbox)
    PROVE  /\ outbox' \in Seq(Requested) /\ Head(outbox) \in Requested
           /\ 1 \in DOMAIN outbox /\ Head(outbox) = outbox[1]
           /\ \A i \in DOMAIN outbox' : i + 1 \in DOMAIN outbox /\ outbox'[i] = outbox[i + 1]
           /\ \A i \in DOMAIN outbox :
                  i # 1 => i - 1 \in DOMAIN outbox' /\ outbox'[i - 1] = outbox[i]
BY HeadTailProperties, LenProperties DEF LineTypes

\* Looking away marks some calls as away, and changes nothing else of them.
LEMMA WentAway ==
    ASSUME ChatTypes, NEW cut \in BOOLEAN, LooksAway(cut)
    PROVE  /\ post' \in [Calls -> Posts \cup {NoWork}]
           /\ \A c \in Calls : /\ Working(c)' <=> Working(c)
                               /\ Working(c) => /\ post'[c].id = post[c].id
                                                /\ post'[c].pc = post[c].pc
                                                /\ post'[c].by = post[c].by
                                                /\ post'[c].viewing = post[c].viewing
                                                /\ post[c].viewing \/ cut => post'[c].away
           /\ left \subseteq left' /\ left' \subseteq left \cup Stored
<1>1. post' = [c \in Calls |-> IF Working(c) /\ (post[c].viewing \/ cut)
                               THEN [post[c] EXCEPT !.away = TRUE] ELSE post[c]]
  BY DEF LooksAway, Working
<1>2. ASSUME NEW c \in Calls
      PROVE  /\ post'[c] \in Posts \cup {NoWork}
             /\ Working(c)' <=> Working(c)
             /\ Working(c) => /\ post'[c].id = post[c].id
                              /\ post'[c].pc = post[c].pc
                              /\ post'[c].by = post[c].by
                              /\ post'[c].viewing = post[c].viewing
                              /\ post[c].viewing \/ cut => post'[c].away
  <2>1. post[c] \in Posts \cup {NoWork}
    BY DEF ChatTypes
  <2>2. CASE Working(c) /\ (post[c].viewing \/ cut)
    <3>1. post'[c] = [post[c] EXCEPT !.away = TRUE]
      BY <1>1, <2>2
    <3>2. post[c] \in Posts
      BY <2>1, <2>2 DEF Working
    <3>3. QED
      BY <2>2, <3>1, <3>2 DEF Posts, Working, NoWork
  <2>3. CASE ~(Working(c) /\ (post[c].viewing \/ cut))
    BY <1>1, <2>1, <2>3 DEF Working
  <2>4. QED
    BY <2>2, <2>3
<1>3. left \subseteq left' /\ left' \subseteq left \cup Stored
  BY DEF LooksAway
<1>4. QED
  BY <1>1, <1>2, <1>3

LEMMA StoredMessages ==
    ASSUME LiveTypes
    PROVE  /\ Stored \subseteq Messages /\ Len(message) \in Nat /\ Len(message) <= MaxMessages
           /\ DOMAIN message = Stored /\ \A m \in Stored : message[m] \in Rows
           /\ IsFiniteSet(Unstored) /\ Cardinality(Unstored) \in Nat
<1>1. IsFiniteSet(Unstored) /\ Cardinality(Unstored) \in Nat
  BY LiveBounds, FS_Subset, FS_CardinalityType DEF Unstored
<1>2. Len(message) \in Nat /\ DOMAIN message = Stored /\ \A m \in Stored : message[m] \in Rows
  BY LenProperties, ElementOfSeq DEF LiveTypes, ChatTypes, Stored
<1>3. QED
  BY <1>1, <1>2, LiveBounds DEF LiveTypes, RoomLeft, Stored, Messages

LEMMA EventTyped ==
    ASSUME NEW type \in {"message", "notice", "noticeRead"}, NEW m \in Messages
    PROVE  /\ Event(type, m) \in Seq(Received) /\ <<>> \in Seq(Received)
           /\ DOMAIN Event(type, m) = {1} /\ Event(type, m)[1].type = type
           /\ Event(type, m)[1].id = m
           /\ type = "notice" => (Event(type, m)[1].late <=> notice[m] = "read")
<1> DEFINE late == type = "notice" /\ notice[m] = "read"
<1>1. PICK l \in BOOLEAN : l <=> late
  OBVIOUS
<1>2. Event(type, m) = <<[type |-> type, id |-> m, late |-> l]>>
  BY <1>1 DEF Event
<1>3. [type |-> type, id |-> m, late |-> l] \in Received
  BY DEF Received
<1>4. QED
  BY <1>1, <1>2, <1>3

LEMMA JoinTyped ==
    ASSUME NEW d \in [opened: 0..MaxMoves, visible: BOOLEAN], d.opened # 0
    PROVE  /\ JoinEvent(d) \in Seq(Requested) /\ DOMAIN JoinEvent(d) = {1}
           /\ JoinEvent(d)[1].type = "join" /\ JoinEvent(d)[1].opened = d.opened
<1>1. [type |-> "join", active |-> d.visible, opened |-> d.opened] \in Requested
  BY LiveBounds DEF Sent, Requested
<1>2. QED
  BY <1>1 DEF JoinEvent

\* What EmitAll sends: the message to the dialog, the notification to the bell.
ToDialog(m) == IF "exchange" \in room THEN Event("message", m) ELSE <<>>
ToBell(m) == IF notice[m] # "none" THEN Feed(Event("notice", m)) ELSE <<>>

LEMMA EmitsTyped ==
    ASSUME NEW m \in Messages
    PROVE  /\ ToDialog(m) \in Seq(Received) /\ ToBell(m) \in Seq(Received)
           /\ ToDialog(m) \o ToBell(m) \in Seq(Received)
           /\ \A i \in DOMAIN (ToDialog(m) \o ToBell(m)) :
                  LET e == (ToDialog(m) \o ToBell(m))[i] IN
                  \/ e.type = "message" /\ e.id = m /\ "exchange" \in room
                  \/ e.type = "notice" /\ e.id = m /\ notice[m] # "none" /\ looks = "bell"
           /\ "exchange" \in room => \E i \in DOMAIN (ToDialog(m) \o ToBell(m)) :
                  LET e == (ToDialog(m) \o ToBell(m))[i] IN e.type = "message" /\ e.id = m
<1>1. ToDialog(m) \in Seq(Received) /\ ToBell(m) \in Seq(Received)
  BY EventTyped DEF ToDialog, ToBell, Feed
<1>2. \A i \in DOMAIN ToDialog(m) : /\ ToDialog(m)[i].type = "message" /\ ToDialog(m)[i].id = m
                                    /\ "exchange" \in room
  BY EventTyped DEF ToDialog
<1>3. \A i \in DOMAIN ToBell(m) : /\ ToBell(m)[i].type = "notice" /\ ToBell(m)[i].id = m
                                  /\ notice[m] # "none" /\ looks = "bell"
  BY EventTyped DEF ToBell, Feed
<1>4. "exchange" \in room => 1 \in DOMAIN ToDialog(m)
  BY EventTyped DEF ToDialog
<1> DEFINE s == ToDialog(m)
           t == ToBell(m)
<1>5. /\ s \o t \in Seq(Received) /\ Len(s \o t) = Len(s) + Len(t)
      /\ \A i \in 1..Len(s) + Len(t) : (s \o t)[i] = IF i <= Len(s) THEN s[i] ELSE t[i - Len(s)]
      /\ DOMAIN s = 1..Len(s) /\ DOMAIN t = 1..Len(t) /\ DOMAIN (s \o t) = 1..Len(s \o t)
      /\ Len(s) \in Nat /\ Len(t) \in Nat
  BY <1>1, ConcatProperties, LenProperties
<1> HIDE DEF s, t
<1>6. \A i \in DOMAIN (s \o t) : \/ i \in DOMAIN s /\ (s \o t)[i] = s[i]
                                 \/ i - Len(s) \in DOMAIN t /\ (s \o t)[i] = t[i - Len(s)]
  BY <1>5
<1>7. 1 \in DOMAIN s => 1 \in DOMAIN (s \o t) /\ (s \o t)[1] = s[1]
  BY <1>5
<1>8. QED
  BY <1>1, <1>2, <1>3, <1>4, <1>5, <1>6, <1>7 DEF s, t

LEMMA LineInit == LiveInit => LiveTypes
<1> SUFFICES ASSUME LiveInit PROVE LiveTypes
  OBVIOUS
<1>1. ChatTypes
  BY LiveBounds DEF LiveInit, ChatTypes, Rows
<1>2. LineTypes
  BY DEF LiveInit, LineTypes
<1>3. BellTypes
  <2>1. Cardinality(Unread(items)) = 0 /\ items \in Notices /\ notice \in Notices
    BY NoNoticeTyped DEF LiveInit
  <2>2. list = NoWork /\ clicks = {} /\ stale = FALSE /\ unread = 0
    BY DEF LiveInit
  <2>3. unread \in Nat /\ unread <= Cardinality(Unread(items))
    BY <2>1, <2>2
  <2>4. clicks \subseteq {0} \cup Messages /\ list \in Lists \cup {NoWork}
    BY <2>2
  <2>5. stale \in BOOLEAN
    BY <2>2
  <2>6. QED
    BY <2>1, <2>3, <2>4, <2>5 DEF BellTypes
<1>4. Unstored = {} /\ \A c \in Calls : ~Working(c)
  BY DEF Unstored, LiveInit, Working
<1>5. RoomLeft
  BY <1>4, FS_EmptySet, LiveBounds DEF RoomLeft, LiveInit
<1>6. QED
  BY <1>1, <1>2, <1>3, <1>5 DEF LiveTypes

\* The line carries what the server and the page send over it.
LEMMA LineKept ==
    ASSUME LiveTypes, LiveNext
    PROVE  LineTypes'
<1>0. LineTypes
  BY DEF LiveTypes
<1>1. ASSUME NEW events \in Seq(Received), Emit(events) PROVE inbox' \in Seq(Received)
  BY <1>0, <1>1, Emitted
<1>2. ASSUME NEW events \in Seq(Requested), Push(events) PROVE outbox' \in Seq(Requested)
  BY <1>0, <1>2, Pushed
<1>3. outbox # <<>> => Tail(outbox) \in Seq(Requested)
  BY HeadTailProperties DEF LiveTypes, LineTypes
<1>4. inbox # <<>> => Tail(inbox) \in Seq(Received)
  BY HeadTailProperties DEF LiveTypes, LineTypes
<1>5. ASSUME NEW c \in Calls, EmitAll(c) PROVE LineTypes'
  <2>1. post[c].id \in Messages
    BY <1>5, LiveBounds DEF EmitAll, LiveTypes, RoomLeft, ChatTypes, Working, Posts, Messages
  <2>2. Emit(ToDialog(post[c].id) \o ToBell(post[c].id)) /\ UNCHANGED <<outbox, online>>
    BY <1>5 DEF EmitAll, ToDialog, ToBell
  <2>3. ToDialog(post[c].id) \o ToBell(post[c].id) \in Seq(Received)
    BY <2>1, EmitsTyped
  <2>4. QED
    BY <1>0, <1>1, <2>2, <2>3 DEF LineTypes
<1>6. CASE JoinRoom
  <2>1. joining.opened \in 1..MaxMoves /\ joining.list \in SUBSET Messages
    BY <1>6 DEF JoinRoom, LiveTypes, ChatTypes, Joins
  <2>2. <<[type |-> "joined", opened |-> joining.opened, list |-> joining.list]>>
            \in Seq(Received)
    BY <2>1 DEF Received
  <2>3. QED
    BY <1>0, <1>1, <1>6, <2>2 DEF JoinRoom, LineTypes
<1>7. CASE TakeJoin \/ TakeLeave \/ TakeVisibility
  BY <1>0, <1>3, <1>7 DEF TakeJoin, TakeLeave, TakeVisibility, Take, Waits, LineTypes
<1>8. ASSUME ReadAll PROVE inbox' \in Seq(Received)
  <2>1. (IF Unread(notice) # {} THEN Feed(<<[type |-> "refresh"]>>) ELSE <<>>) \in Seq(Received)
    <3>1. <<[type |-> "refresh"]>> \in Seq(Received) /\ <<>> \in Seq(Received)
      BY DEF Received
    <3>2. QED
      BY <3>1 DEF Feed
  <2>2. QED
    BY <1>1, <1>8, <2>1 DEF ReadAll
<1>9. CASE TakeRead \/ ReadElsewhere
  BY <1>0, <1>3, <1>8, <1>9 DEF TakeRead, ReadElsewhere, Take, Waits, LineTypes
<1>10. CASE Open
  <2>1. PICK d : d = dialog'
    OBVIOUS
  <2>2. d \in [opened: 0..MaxMoves, visible: BOOLEAN] /\ d.opened # 0
    BY <1>10, <2>1, LiveBounds DEF Open, Move, LiveTypes, ChatTypes
  <2>3. JoinEvent(dialog') \in Seq(Requested)
    BY <2>1, <2>2, JoinTyped
  <2>4. QED
    BY <1>0, <1>2, <1>10, <2>3 DEF Open, LineTypes
<1>11. CASE Close
  <2>1. <<[type |-> "leave"]>> \in Seq(Requested)
    BY DEF Sent, Requested
  <2>2. QED
    BY <1>0, <1>2, <1>11, <2>1 DEF Close, LineTypes
<1>12. CASE Toggle
  <2>1. dialog'.visible \in BOOLEAN
    BY <1>12 DEF Toggle, LiveTypes, ChatTypes
  <2>2. <<[type |-> "visibility", active |-> dialog'.visible, opened |-> 0]>> \in Seq(Requested)
    BY <2>1, LiveBounds DEF Sent, Requested
  <2>3. (IF dialog'.visible THEN <<[type |-> "read"]>> ELSE <<>>) \in Seq(Requested)
    <3>1. <<[type |-> "read"]>> \in Seq(Requested) /\ <<>> \in Seq(Requested)
      BY DEF Sent, Requested
    <3>2. QED
      BY <3>1
  <2>4. <<[type |-> "visibility", active |-> dialog'.visible, opened |-> 0]>>
            \o (IF dialog'.visible THEN <<[type |-> "read"]>> ELSE <<>>) \in Seq(Requested)
    BY <2>2, <2>3, ConcatProperties
  <2>5. QED
    BY <1>0, <1>2, <1>12, <2>4 DEF Toggle, LineTypes
<1>13. CASE Drop
  <2>1. <<>> \in Seq(Requested) /\ <<>> \in Seq(Received)
    OBVIOUS
  <2>2. QED
    BY <1>13, <2>1 DEF Drop, LineTypes
<1>14. CASE Connect
  <2>1. DialogOpen => JoinEvent(dialog) \in Seq(Requested)
    BY JoinTyped DEF LiveTypes, ChatTypes, DialogOpen
  <2>2. QED
    BY <1>0, <1>14, <2>1 DEF Connect, LineTypes
<1>15. ASSUME NEW m \in {0} \cup Messages, ClickServed(m) PROVE LineTypes'
  <2>1. CASE m = 0
    <3>1. <<[type |-> "readAll"]>> \in Seq(Received)
      BY DEF Received
    <3>2. QED
      BY <1>0, <1>1, <1>15, <2>1, <3>1 DEF ClickServed, LineTypes
  <2>2. CASE m # 0
    BY <1>0, <1>1, <1>15, <2>2, EventTyped DEF ClickServed, LineTypes
  <2>3. QED
    BY <2>1, <2>2
<1>16. CASE MessageArrives \/ JoinedArrives
  <2>1. <<[type |-> "read"]>> \in Seq(Requested)
    BY DEF Sent, Requested
  <2>2. outbox' \in Seq(Requested)
    BY <1>0, <1>2, <1>16, <2>1 DEF MessageArrives, JoinedArrives, LineTypes
  <2>3. QED
    BY <1>0, <1>4, <1>16, <2>2 DEF MessageArrives, JoinedArrives, Arrive, Arrived, LineTypes
<1>17. CASE NoticeArrives \/ ReadArrives \/ ReadAllArrives \/ RefreshArrives
  BY <1>0, <1>4, <1>17
     DEF NoticeArrives, ReadArrives, ReadAllArrives, RefreshArrives, Arrive, Arrived, LineTypes
<1>18. ASSUME UNCHANGED <<inbox, outbox, online>> PROVE LineTypes'
  BY <1>0, <1>18 DEF LineTypes
<1>19. QED
  BY <1>5, <1>6, <1>7, <1>9, <1>10, <1>11, <1>12, <1>13, <1>14, <1>15, <1>16, <1>17, <1>18
     DEF LiveNext, Server, Page, Participants, Post, Store, FetchServed, FetchAnswered,
         ListServed, ListAnswered, Click, ClickAll, ClickFailed, lineVars

\* The calls of create, from one that is begun to one that has emitted.
LEMMA PostStarts ==
    ASSUME ChatTypes, NEW c \in Calls, NEW by \in {"peer", "reader"}, Post(c, by)
    PROVE  \E p \in Posts :
               /\ post' = [post EXCEPT ![c] = p] /\ post[c] = NoWork
               /\ p.pc = "store" /\ p.id = 0
               /\ p.viewing /\ ~p.away => Looking
               /\ UNCHANGED <<message, room, joining, dialog, shown, fetch, gap, left,
                              notice, looks, feedVars, lineVars>>
<1> DEFINE viewing == by = "peer" /\ "active" \in room
           away == viewing /\ ~Looking
<1>1. PICK v \in BOOLEAN : v <=> viewing
  OBVIOUS
<1>2. PICK a \in BOOLEAN : a <=> away
  OBVIOUS
<1> DEFINE p == [by |-> by, pc |-> "store", viewing |-> v, away |-> a, id |-> 0]
<1>3. p \in Posts
  BY LiveBounds DEF Posts
<1>4. post' = [post EXCEPT ![c] = p]
  BY <1>1, <1>2 DEF Post
<1>5. p.viewing /\ ~p.away => Looking
  BY <1>1, <1>2
<1>6. QED
  BY <1>3, <1>4, <1>5 DEF Post

LEMMA ReadAllMarks ==
    ASSUME LiveTypes, ReadAll
    PROVE  /\ message' \in Seq(Rows) /\ Len(message') = Len(message) /\ Stored' = Stored
           /\ \A m \in Stored : /\ message'[m].by = message[m].by
                                /\ ToRead(m)' <=> FALSE
           /\ \A m \in Messages : notice'[m] = "none" <=> notice[m] = "none"
           /\ Unread(notice) = {} => notice' = notice
<1>1. \A m \in Stored : message[m] \in Rows /\ (message[m].by = "peer") \in BOOLEAN
  BY StoredMessages
<1> DEFINE Marked(m) == [message[m] EXCEPT !.read = @ \/ message[m].by = "peer"]
<1>2. \A m \in Stored : /\ Marked(m) \in Rows /\ Marked(m).by = message[m].by
                        /\ message[m].by = "peer" => Marked(m).read
  BY <1>1 DEF Rows
<1>3. message' = [m \in 1..Len(message) |-> Marked(m)]
  BY DEF ReadAll, Stored
<1> HIDE DEF Marked
<1>4. message' \in Seq(Rows) /\ Len(message') = Len(message)
  BY <1>2, <1>3, StoredMessages DEF Stored
<1>5. \A m \in Stored : message'[m] = Marked(m)
  BY <1>3 DEF Stored
<1>6. \A m \in Stored : message'[m].by = message[m].by /\ (ToRead(m)' <=> FALSE)
  BY <1>2, <1>5 DEF ToRead
<1>7. notice \in Notices /\ notice' = AsRead(notice, Messages)
  BY DEF ReadAll, LiveTypes, BellTypes
<1>8. Unread(notice) = {} => notice' = notice
  BY <1>7 DEF Unread, AsRead, Notices
<1>9. \A m \in Messages : notice'[m] = "none" <=> notice[m] = "none"
  BY <1>7, AsReadIs
<1>10. QED
  BY <1>4, <1>6, <1>8, <1>9 DEF Stored

LEMMA ChatKept ==
    ASSUME LiveTypes, LiveNext
    PROVE  ChatTypes'
<1>0. ChatTypes /\ Stored \subseteq Messages /\ Listed \subseteq Messages
  BY StoredMessages, LiveBounds DEF LiveTypes, Listed, Stored, Messages
<1>1. ASSUME NEW c \in Calls, NEW by \in {"peer", "reader"}, Post(c, by) PROVE ChatTypes'
  <2>1. PICK p \in Posts : /\ post' = [post EXCEPT ![c] = p]
                           /\ UNCHANGED <<message, room, joining, dialog, shown, fetch, gap,
                                          left, notice, looks, feedVars, lineVars>>
    BY <1>0, <1>1, PostStarts
  <2>2. QED
    BY <1>0, <2>1 DEF ChatTypes, lineVars
<1>2. ASSUME NEW c \in Calls, Store(c) PROVE ChatTypes'
  <2>1. Len(message) + 1 \in Messages /\ post[c] \in Posts
    <3>1. c \in Unstored /\ post[c] \in Posts
      BY <1>0, <1>2 DEF Store, Unstored, Working, LiveTypes, RoomLeft, ChatTypes
    <3>2. Cardinality(Unstored) # 0
      BY <3>1, StoredMessages, FS_EmptySet
    <3>3. QED
      BY <3>1, <3>2, StoredMessages, LiveBounds DEF LiveTypes, RoomLeft, Messages
  <2>2. message' \in Seq(Rows)
    <3>1. post[c].by \in {"peer", "reader"}
      BY <2>1 DEF Posts
    <3>2. [by |-> post[c].by, read |-> FALSE] \in Rows
      BY <3>1 DEF Rows
    <3>3. QED
      BY <1>0, <1>2, <3>2 DEF Store, ChatTypes
  <2>3. post' \in [Calls -> Posts \cup {NoWork}]
    <3>1. post' = [post EXCEPT ![c] = [post[c] EXCEPT !.pc = "emit", !.id = Len(message) + 1]]
      BY <1>0, <1>2 DEF Store, ChatTypes
    <3>2. Len(message) + 1 \in 0..MaxMessages
      BY <2>1, LiveBounds DEF Messages
    <3>3. [post[c] EXCEPT !.pc = "emit", !.id = Len(message) + 1] \in Posts
      BY <2>1, <3>2 DEF Posts
    <3>4. QED
      BY <1>0, <3>1, <3>3 DEF ChatTypes
  <2>4. QED
    BY <1>0, <1>2, <2>2, <2>3 DEF Store, ChatTypes, lineVars
<1>3. ASSUME NEW c \in Calls, EmitAll(c) PROVE ChatTypes'
  <2>1. post[c].id \in Messages
    BY <1>3, LiveBounds DEF EmitAll, LiveTypes, RoomLeft, ChatTypes, Working, Posts, Messages
  <2>2. QED
    BY <1>0, <1>3, <2>1 DEF EmitAll, ChatTypes
<1>4. CASE TakeJoin
  <2>1. Head(outbox) \in Requested /\ Head(outbox).type = "join"
    BY <1>4, Taking DEF TakeJoin, Waits, Take, LiveTypes
  <2>2. Head(outbox).active \in BOOLEAN /\ Head(outbox).opened \in 1..MaxMoves
    BY <2>1 DEF Sent, Requested
  <2>3. [pc |-> "room", active |-> Head(outbox).active, opened |-> Head(outbox).opened,
         list |-> Listed] \in Joins
    BY <1>0, <2>2 DEF Joins
  <2>4. QED
    BY <1>0, <1>4, <2>3 DEF TakeJoin, Take, ChatTypes, Joins
<1>5. CASE JoinRoom \/ TakeLeave \/ TakeVisibility
  BY <1>0, <1>5 DEF JoinRoom, TakeLeave, TakeVisibility, Take, ChatTypes
<1>6. ReadAll => message' \in Seq(Rows)
  BY ReadAllMarks
<1>13. moves \in 0..MaxMoves /\ (Move => moves' \in 0..MaxMoves)
  BY <1>0, LiveBounds DEF ChatTypes, Move
<1>7. CASE TakeRead \/ ReadElsewhere
  <2>1. message' \in Seq(Rows)
    BY <1>0, <1>6, <1>7 DEF TakeRead, ReadElsewhere, ChatTypes
  <2>2. moves' \in 0..MaxMoves
    BY <1>7, <1>13 DEF TakeRead, ReadElsewhere, Take
  <2>3. QED
    BY <1>0, <1>7, <2>1, <2>2 DEF TakeRead, ReadElsewhere, ChatTypes
<1>8. CASE Open
  BY <1>0, <1>8, LiveBounds DEF Open, Move, ChatTypes, Fetches
<1>9. CASE Close \/ Toggle \/ Drop
  <2>1. post' \in [Calls -> Posts \cup {NoWork}] /\ left' \subseteq left \cup Stored
    <3>1. \/ \E cut \in BOOLEAN : LooksAway(cut)
          \/ UNCHANGED <<left, post>>
      BY <1>9 DEF Close, Toggle, Drop
    <3>2. CASE \E cut \in BOOLEAN : LooksAway(cut)
      BY <1>0, <3>2, WentAway
    <3>3. CASE UNCHANGED <<left, post>>
      BY <1>0, <3>3 DEF ChatTypes
    <3>4. QED
      BY <3>1, <3>2, <3>3
  <2>2. dialog' \in [opened: 0..MaxMoves, visible: BOOLEAN]
    <3>1. CASE Close
      BY <1>0, <3>1, LiveBounds DEF Close, ChatTypes
    <3>2. CASE Toggle
      <4>1. dialog.visible \in BOOLEAN
        BY <1>0 DEF ChatTypes
      <4>2. PICK v \in BOOLEAN : v = ~dialog.visible
        BY <4>1
      <4>3. dialog' = [dialog EXCEPT !.visible = v]
        BY <3>2, <4>2 DEF Toggle
      <4>4. QED
        BY <1>0, <4>3 DEF ChatTypes
    <3>3. CASE Drop
      BY <1>0, <3>3 DEF Drop, ChatTypes
    <3>4. QED
      BY <1>9, <3>1, <3>2, <3>3
  <2>3. moves' \in 0..MaxMoves
    BY <1>9, <1>13 DEF Close, Toggle, Drop
  <2>4. /\ UNCHANGED <<looks, message, shown, gap>> /\ fetch' \in {fetch, NoWork}
        /\ joining' \in {joining, NoWork} /\ room' \in {room, {}}
    BY <1>9 DEF Close, Toggle, Drop
  <2>5. QED
    BY <1>0, <2>1, <2>2, <2>3, <2>4 DEF ChatTypes
<1>10. CASE FetchServed \/ FetchAnswered
  <2>1. fetch' \in Fetches \cup {NoWork}
    BY <1>0, <1>10 DEF FetchServed, FetchAnswered, Fetches
  <2>2. shown' \subseteq Messages
    BY <1>0, <1>10 DEF FetchServed, FetchAnswered, Fetches, ChatTypes
  <2>3. QED
    BY <1>0, <1>10, <2>1, <2>2 DEF FetchServed, FetchAnswered, ChatTypes, lineVars
<1>11. CASE MessageArrives \/ JoinedArrives
  <2>1. inbox # <<>> /\ Head(inbox) = inbox[1] /\ Head(inbox) \in Received
    BY <1>11, Arriving DEF MessageArrives, JoinedArrives, Arrive, Arrived, LiveTypes
  <2>2. /\ Head(inbox).type = "message" => Head(inbox).id \in Messages
        /\ Head(inbox).type = "joined" => Head(inbox).list \subseteq Messages
    BY <2>1 DEF Received
  <2>3. QED
    BY <1>0, <1>11, <2>2 DEF MessageArrives, JoinedArrives, Arrive, Arrived, ChatTypes
<1>12. ASSUME UNCHANGED <<chatVars, looks>>, moves' \in 0..MaxMoves PROVE ChatTypes'
  BY <1>0, <1>12 DEF ChatTypes, chatVars
<1>14. CASE Connect \/ ListServed \/ ListAnswered \/ ClickAll
  BY <1>12, <1>13, <1>14 DEF Connect, ListServed, ListAnswered, ClickAll, lineVars
<1>15. CASE NoticeArrives \/ ReadArrives \/ ReadAllArrives \/ RefreshArrives
  BY <1>12, <1>13, <1>15
     DEF NoticeArrives, ReadArrives, ReadAllArrives, RefreshArrives, Arrive
<1>16. ASSUME NEW m \in {0} \cup Messages, Click(m) \/ ClickServed(m) \/ ClickFailed(m)
       PROVE  ChatTypes'
  BY <1>12, <1>13, <1>16 DEF Click, ClickServed, ClickFailed, lineVars
<1>17. QED
  BY <1>1, <1>2, <1>3, <1>4, <1>5, <1>7, <1>8, <1>9, <1>10, <1>11, <1>14, <1>15, <1>16
     DEF LiveNext, Server, Page, Participants

\* The number goes up with the items, and down at least as far.
LEMMA BellKept ==
    ASSUME LiveTypes, LiveNext
    PROVE  BellTypes'
<1>0. BellTypes /\ Stored \subseteq Messages
  BY StoredMessages DEF LiveTypes
<1> DEFINE BellOf(i, u) == i \in Notices /\ u \in Nat /\ u <= Cardinality(Unread(i))
<1>1. ASSUME NEW S PROVE AsRead(notice, S) \in Notices /\ AsRead(items, S) \in Notices
  BY <1>0, AsReadIs DEF BellTypes
<1>2. (list' = Asked \/ Overtake) => list' \in Lists \cup {NoWork}
  <2>1. Asked \in Lists
    BY NoNoticeTyped DEF Asked, Lists
  <2>2. list \in Lists => [list EXCEPT !.overtaken = TRUE] \in Lists
    BY DEF Lists
  <2>3. QED
    BY <1>0, <2>1, <2>2 DEF BellTypes, Overtake
<1>3. BellOf(items, unread) /\ Less(unread) \in Nat /\ Less(unread) <= unread
  BY <1>0 DEF BellTypes, Less
<1>4. ASSUME NEW m \in Messages
      PROVE  /\ items[m] # "read" => BellOf(AsRead(items, {m}), Less(unread))
             /\ items[m] = "read" => BellOf(AsRead(items, {m}), unread)
  <2>1. /\ items[m] = "unread" =>
               Cardinality(Unread(AsRead(items, {m}))) = Cardinality(Unread(items)) - 1
        /\ items[m] # "unread" => AsRead(items, {m}) = items
    BY <1>0, AsReadOne DEF BellTypes
  <2>2. Cardinality(Unread(items)) \in Nat /\ items[m] \in {"none", "unread", "read"}
    BY <1>0, UnreadBounded DEF BellTypes, Notices
  <2>3. items[m] = "unread" => Cardinality(Unread(AsRead(items, {m}))) \in Nat
    BY <1>1, UnreadBounded
  <2>4. QED
    BY <1>1, <1>3, <2>1, <2>2, <2>3 DEF Less
<1>5. BellOf(AsRead(items, Messages), 0)
  BY <1>0, <1>1, AsReadAll DEF BellTypes
<1>6. ASSUME NEW m \in Messages, items[m] = "none"
      PROVE  BellOf([items EXCEPT ![m] = "unread"], unread + 1)
  BY <1>0, <1>3, <1>6, OneMoreUnread, UnreadBounded DEF BellTypes
<1> HIDE DEF BellOf
<1>7. ASSUME BellOf(items', unread'), notice' \in Notices, list' \in Lists \cup {NoWork},
             clicks' \subseteq {0} \cup Messages, stale' \in BOOLEAN
      PROVE  BellTypes'
  BY <1>7 DEF BellOf, BellTypes
<1>8. ASSUME UNCHANGED <<items, unread, clicks, stale>>, notice' \in Notices,
             list' \in Lists \cup {NoWork}
      PROVE  BellTypes'
  BY <1>0, <1>3, <1>7, <1>8 DEF BellTypes
<1>9. notice \in Notices /\ list \in Lists \cup {NoWork}
  BY <1>0 DEF BellTypes
<1>10. ASSUME NEW c \in Calls, Store(c) PROVE BellTypes'
  <2>1. notice' \in Notices
    BY <1>9, <1>10 DEF Store, Notices
  <2>2. QED
    BY <1>8, <1>9, <1>10, <2>1 DEF Store, feedVars
<1>11. ReadAll => notice' \in Notices
  BY <1>1 DEF ReadAll
<1>12. ASSUME NEW c \in Calls, NEW by \in {"peer", "reader"}, Post(c, by) \/ EmitAll(c)
       PROVE  BellTypes'
  BY <1>8, <1>9, <1>12 DEF Post, EmitAll, feedVars
<1>13. CASE TakeJoin \/ JoinRoom \/ TakeLeave \/ TakeVisibility \/ TakeRead \/ ReadElsewhere
  BY <1>8, <1>9, <1>11, <1>13
     DEF TakeJoin, JoinRoom, TakeLeave, TakeVisibility, TakeRead, ReadElsewhere, feedVars
<1>14. CASE \/ Open \/ Close \/ Toggle \/ Drop \/ FetchServed \/ FetchAnswered
            \/ MessageArrives \/ JoinedArrives
  BY <1>8, <1>9, <1>14 DEF Open, Close, Toggle, Drop, FetchServed, FetchAnswered,
                           MessageArrives, JoinedArrives, feedVars
<1>15. CASE Connect \/ RefreshArrives
  <2>1. list' = NoWork \/ list' = Asked
    BY <1>15 DEF Connect, RefreshArrives
  <2>2. QED
    BY <1>2, <1>8, <1>9, <1>15, <2>1 DEF Connect, RefreshArrives
<1>16. CASE ListServed
  <2>1. [pc |-> "answered", of |-> notice, overtaken |-> FALSE] \in Lists
    BY <1>9 DEF Lists
  <2>2. QED
    BY <1>8, <1>9, <1>16, <2>1 DEF ListServed
<1>17. CASE ListAnswered
  <2>1. list.of \in Notices /\ list.overtaken \in BOOLEAN
    BY <1>9, <1>17 DEF ListAnswered, Lists
  <2>2. BellOf(items', unread')
    BY <1>17, <2>1, UnreadBounded DEF ListAnswered, BellOf
  <2>3. stale' \in BOOLEAN
    <3>1. PICK b \in BOOLEAN : b <=> list.overtaken \/ inbox # <<>>
      OBVIOUS
    <3>2. QED
      BY <1>17, <3>1 DEF ListAnswered
  <2>4. QED
    BY <1>0, <1>7, <1>17, <2>2, <2>3 DEF ListAnswered, BellTypes
<1>18. ASSUME NEW m \in Messages, Click(m) PROVE BellTypes'
  BY <1>0, <1>2, <1>4, <1>7, <1>18 DEF Click, BellTypes
<1>19. CASE ClickAll
  BY <1>0, <1>2, <1>5, <1>7, <1>19 DEF ClickAll, BellTypes
<1>20. ASSUME NEW m \in {0} \cup Messages, ClickServed(m) PROVE BellTypes'
  <2>1. notice' \in Notices
    BY <1>1, <1>20 DEF ClickServed
  <2>2. QED
    BY <1>0, <1>3, <1>7, <1>20, <2>1 DEF ClickServed, BellTypes
<1>21. ASSUME NEW m \in {0} \cup Messages, ClickFailed(m) PROVE BellTypes'
  BY <1>0, <1>2, <1>3, <1>7, <1>21 DEF ClickFailed, BellTypes
<1>22. CASE NoticeArrives \/ ReadArrives
  <2>1. Head(inbox) \in Received /\ Head(inbox).type \in {"notice", "noticeRead"}
    BY <1>22, Arriving DEF NoticeArrives, ReadArrives, Arrived, Arrive, LiveTypes
  <2>2. Head(inbox).id \in Messages /\ Head(inbox).late \in BOOLEAN
    BY <2>1 DEF Received
  <2>3. BellOf(items', unread')
    BY <1>3, <1>4, <1>6, <1>22, <2>2 DEF NoticeArrives, ReadArrives
  <2>4. stale' \in BOOLEAN
    <3>1. (stale \/ Head(inbox).late) \in BOOLEAN
      <4>1. stale \in BOOLEAN
        BY <1>0 DEF BellTypes
      <4>2. QED
        BY <2>2, <4>1
    <3>2. QED
      BY <1>0, <1>22, <3>1 DEF NoticeArrives, ReadArrives, BellTypes
  <2>5. QED
    BY <1>0, <1>2, <1>7, <1>22, <2>3, <2>4 DEF NoticeArrives, ReadArrives, BellTypes
<1>23. CASE ReadAllArrives
  BY <1>0, <1>2, <1>5, <1>7, <1>23 DEF ReadAllArrives, BellTypes
<1>24. QED
  BY <1>10, <1>12, <1>13, <1>14, <1>15, <1>16, <1>17, <1>18, <1>19, <1>20, <1>21, <1>22, <1>23
     DEF LiveNext, Server, Page, Participants

LEMMA RoomKept ==
    ASSUME LiveTypes, LiveNext
    PROVE  RoomLeft'
<1>0. /\ RoomLeft /\ ChatTypes /\ Len(message) \in Nat /\ MaxMessages \in Nat
      /\ IsFiniteSet(Unstored) /\ Cardinality(Unstored) \in Nat
  BY StoredMessages, LiveBounds DEF LiveTypes
<1>1. ASSUME NEW c \in Calls, NEW by \in {"peer", "reader"}, Post(c, by) PROVE RoomLeft'
  <2>1. PICK p \in Posts : /\ post' = [post EXCEPT ![c] = p] /\ post[c] = NoWork
                           /\ p.pc = "store" /\ p.id = 0 /\ UNCHANGED message
    BY <1>0, <1>1, PostStarts
  <2>2. Unstored' = Unstored \cup {c} /\ c \notin Unstored
    BY <1>0, <2>1 DEF Unstored, Working, ChatTypes, Posts, NoWork
  <2>3. Len(message) + Cardinality(Unstored) < MaxMessages
    BY <1>1 DEF Post, Unstored, Working
  <2>4. Cardinality(Unstored') = Cardinality(Unstored) + 1
    BY <1>0, <2>2, FS_AddElement
  <2>5. QED
    BY <1>0, <2>1, <2>3, <2>4 DEF RoomLeft, Working, ChatTypes
<1>2. ASSUME NEW c \in Calls, Store(c) PROVE RoomLeft'
  <2>1. /\ post' = [post EXCEPT ![c] = [post[c] EXCEPT !.pc = "emit", !.id = Len(message) + 1]]
        /\ post[c] \in Posts
    BY <1>0, <1>2 DEF Store, ChatTypes
  <2>2. Unstored' = Unstored \ {c} /\ c \in Unstored
    BY <1>0, <1>2, <2>1 DEF Unstored, Working, ChatTypes, Posts, RoomLeft, Store
  <2>3. Cardinality(Unstored') = Cardinality(Unstored) - 1
    BY <1>0, <2>2, FS_RemoveElement
  <2>4. Len(message') = Len(message) + 1
    BY <1>0, <1>2 DEF Store, ChatTypes
  <2>5. \A d \in Calls : Working(d)' => (post'[d].id = 0 <=> post'[d].pc = "store")
    BY <1>0, <2>1 DEF RoomLeft, Working, ChatTypes, Posts
  <2>6. QED
    BY <1>0, <2>3, <2>4, <2>5 DEF RoomLeft
<1>3. ASSUME NEW c \in Calls, EmitAll(c) PROVE RoomLeft'
  <2>1. post' = [post EXCEPT ![c] = NoWork] /\ UNCHANGED message /\ c \notin Unstored
    BY <1>0, <1>3 DEF EmitAll, Unstored, RoomLeft, Working
  <2>2. Unstored' = Unstored
    BY <1>0, <2>1 DEF Unstored, Working, ChatTypes
  <2>3. QED
    BY <1>0, <2>1, <2>2 DEF RoomLeft, Working, ChatTypes
<1>4. ASSUME NEW cut \in BOOLEAN, LooksAway(cut), UNCHANGED message PROVE RoomLeft'
  <2>1. \A c \in Calls : /\ Working(c)' <=> Working(c)
                         /\ Working(c) => /\ post'[c].id = post[c].id
                                          /\ post'[c].pc = post[c].pc
    BY <1>0, <1>4, WentAway
  <2>2. Unstored' = Unstored
    BY <2>1 DEF Unstored
  <2>3. QED
    BY <1>0, <1>4, <2>1, <2>2 DEF RoomLeft
<1>5. ASSUME UNCHANGED post, Len(message') = Len(message) PROVE RoomLeft'
  BY <1>0, <1>5 DEF RoomLeft, Unstored, Working
<1>6. CASE Close \/ Toggle \/ Drop
  BY <1>4, <1>5, <1>6 DEF Close, Toggle, Drop
<1>7. CASE TakeRead \/ ReadElsewhere
  <2>1. ReadAll => Len(message') = Len(message)
    BY ReadAllMarks
  <2>2. QED
    BY <1>5, <1>7, <2>1 DEF TakeRead, ReadElsewhere
<1>8. CASE TakeJoin \/ JoinRoom \/ TakeLeave \/ TakeVisibility \/ Open
           \/ FetchServed \/ FetchAnswered \/ MessageArrives \/ JoinedArrives
  BY <1>5, <1>8 DEF TakeJoin, JoinRoom, TakeLeave, TakeVisibility, Open, FetchServed,
                    FetchAnswered, MessageArrives, JoinedArrives
<1>9. CASE Connect \/ ListServed \/ ListAnswered \/ ClickAll \/ NoticeArrives \/ ReadArrives
           \/ ReadAllArrives \/ RefreshArrives
  BY <1>5, <1>9 DEF Connect, ListServed, ListAnswered, ClickAll, NoticeArrives, ReadArrives,
                    ReadAllArrives, RefreshArrives, chatVars
<1>10. ASSUME NEW m \in {0} \cup Messages, Click(m) \/ ClickServed(m) \/ ClickFailed(m)
       PROVE  RoomLeft'
  BY <1>5, <1>10 DEF Click, ClickServed, ClickFailed, chatVars
<1>11. QED
  BY <1>1, <1>2, <1>3, <1>6, <1>7, <1>8, <1>9, <1>10 DEF LiveNext, Server, Page, Participants

LEMMA TypesKept == LiveTypes /\ LiveNext => LiveTypes'
BY LineKept, ChatKept, BellKept, RoomKept DEF LiveTypes

LEMMA LiveTyped == LiveTypes => LiveTypeOK
<1> SUFFICES ASSUME LiveTypes PROVE LiveTypeOK
  OBVIOUS
<1>1. Len(message) <= MaxMessages /\ \A m \in Stored : message[m] \in Rows
  BY StoredMessages
<1>2. unread \in 0..MaxMessages
  <2>1. Cardinality(Unread(items)) \in Nat /\ Cardinality(Unread(items)) <= MaxMessages
    BY UnreadBounded DEF LiveTypes, BellTypes
  <2>2. QED
    BY <2>1, LiveBounds DEF LiveTypes, BellTypes
<1>3. /\ \A i \in DOMAIN outbox : outbox[i] \in Sent
      /\ \A i \in DOMAIN inbox : inbox[i] \in Received
  BY LenProperties, ElementOfSeq DEF LiveTypes, LineTypes, Requested
<1>4. QED
  BY <1>1, <1>2, <1>3 DEF LiveTypeOK, LiveTypes, ChatTypes, BellTypes, Rows

-----------------------------------------------------------------------------
LEMMA StoreIs ==
    ASSUME LiveTypes, NEW c \in Calls, Store(c)
    PROVE  \E n \in Messages :
               /\ n = Len(message) + 1 /\ Stored' = Stored \cup {n} /\ n \notin Stored
               /\ \A m \in Stored : message'[m] = message[m]
               /\ message'[n] = [by |-> post[c].by, read |-> FALSE]
               /\ \A m \in Messages \ {n} : notice'[m] = notice[m]
               /\ notice'[n] = IF post[c].by = "peer" /\ ~post[c].viewing
                               THEN "unread" ELSE notice[n]
               /\ post' = [post EXCEPT ![c] = [post[c] EXCEPT !.pc = "emit", !.id = n]]
               /\ post[c] \in Posts /\ Working(c)
               /\ UNCHANGED <<room, joining, dialog, shown, fetch, gap, left, looks, feedVars,
                              lineVars>>
<1> DEFINE n == Len(message) + 1
<1>0. /\ ChatTypes /\ Len(message) \in Nat /\ message \in Seq(Rows) /\ notice \in Notices
      /\ post[c] \in Posts /\ Working(c)
  BY StoredMessages DEF LiveTypes, ChatTypes, BellTypes, Store, Working
<1>1. n \in Messages
  <2>1. c \in Unstored
    BY <1>0 DEF Store, Unstored, Working, LiveTypes, RoomLeft
  <2>2. Cardinality(Unstored) # 0
    BY <2>1, StoredMessages, FS_EmptySet
  <2>3. QED
    BY <2>2, StoredMessages, LiveBounds DEF LiveTypes, RoomLeft, Messages
<1>2. PICK r : r = [by |-> post[c].by, read |-> FALSE]
  OBVIOUS
<1>3. message' = Append(message, r)
  BY <1>2 DEF Store
<1>4. /\ Len(message') = n /\ message'[n] = r
      /\ \A m \in 1..Len(message) : message'[m] = message[m]
  BY <1>0, <1>3
<1>5. post' = [post EXCEPT ![c] = [post[c] EXCEPT !.pc = "emit", !.id = n]]
  BY <1>0 DEF Store, ChatTypes
<1>6. notice' = IF post[c].by = "peer" /\ ~post[c].viewing
                THEN [notice EXCEPT ![n] = "unread"] ELSE notice
  BY DEF Store
<1>7. /\ \A m \in Messages \ {n} : notice'[m] = notice[m]
      /\ notice'[n] = IF post[c].by = "peer" /\ ~post[c].viewing THEN "unread" ELSE notice[n]
  BY <1>0, <1>1, <1>6 DEF Notices
<1>8. Stored' = Stored \cup {n} /\ n \notin Stored
  BY <1>0, <1>4 DEF Stored
<1>9. UNCHANGED <<room, joining, dialog, shown, fetch, gap, left, looks, feedVars, lineVars>>
  BY DEF Store
<1> HIDE DEF n
<1>10. \A m \in Stored : message'[m] = message[m]
  BY <1>4 DEF Stored
<1>11. QED
  BY <1>0, <1>1, <1>2, <1>4, <1>5, <1>7, <1>8, <1>9, <1>10 DEF n

LEMMA EmitIs ==
    ASSUME LiveTypes, NEW c \in Calls, EmitAll(c)
    PROVE  \E m \in Messages :
               /\ m = post[c].id /\ Working(c) /\ post[c].pc = "emit"
               /\ post[c] \in Posts /\ post' = [post EXCEPT ![c] = NoWork]
               /\ Emit(ToDialog(m) \o ToBell(m))
               /\ UNCHANGED <<message, room, joining, dialog, fetch, notice, looks, feedVars,
                              outbox, online, moves>>
<1>1. post[c].id \in Messages
  BY LiveBounds DEF EmitAll, LiveTypes, RoomLeft, ChatTypes, Working, Posts, Messages
<1>2. QED
  BY <1>1 DEF EmitAll, Working, LiveTypes, ChatTypes, ToDialog, ToBell

\* What is stored stays, written by who wrote it, and has a notification or not.
LEMMA StoredStays ==
    ASSUME LiveTypes, LiveNext
    PROVE  /\ Stored \subseteq Stored'
           /\ \A m \in Stored : message'[m].by = message[m].by
<1>1. ASSUME NEW c \in Calls, Store(c)
      PROVE  /\ Stored \subseteq Stored'
             /\ \A m \in Stored : message'[m].by = message[m].by
  BY <1>1, StoreIs
<1>2. CASE TakeRead \/ ReadElsewhere
  BY <1>2, ReadAllMarks DEF TakeRead, ReadElsewhere, Stored
<1>3. ASSUME UNCHANGED message
      PROVE  /\ Stored \subseteq Stored'
             /\ \A m \in Stored : message'[m].by = message[m].by
  BY <1>3 DEF Stored
<1>4. QED
  BY <1>1, <1>2, <1>3
     DEF LiveNext, Server, Page, Participants, Post, EmitAll, TakeJoin, JoinRoom, TakeLeave,
         TakeVisibility, Open, Close, Toggle, FetchServed, FetchAnswered, Drop, Connect,
         ListServed, ListAnswered, Click, ClickAll, ClickServed, ClickFailed, MessageArrives,
         JoinedArrives, NoticeArrives, ReadArrives, ReadAllArrives, RefreshArrives, chatVars

NoticesKept ==
    \A m \in Messages : /\ notice[m] # "none" => notice'[m] # "none"
                        /\ notice'[m] # "none" => notice[m] # "none" \/ m \in Stored'

LEMMA NoticesStay ==
    ASSUME LiveTypes, LiveNext
    PROVE  NoticesKept
<1>0. notice \in Notices
  BY DEF LiveTypes, BellTypes
<1>1. ASSUME NEW c \in Calls, Store(c) PROVE NoticesKept
  BY <1>1, StoreIs DEF NoticesKept
<1>2. CASE TakeRead \/ ReadElsewhere
  BY <1>2, ReadAllMarks DEF TakeRead, ReadElsewhere, NoticesKept
<1>3. ASSUME NEW m \in {0} \cup Messages, ClickServed(m) PROVE NoticesKept
  BY <1>0, <1>3, AsReadIs DEF ClickServed, NoticesKept
<1>4. ASSUME UNCHANGED notice PROVE NoticesKept
  BY <1>4 DEF NoticesKept
<1>5. ASSUME NEW c \in Calls, EmitAll(c) PROVE NoticesKept
  BY <1>4, <1>5, EmitIs
<1>6. CASE TakeJoin \/ JoinRoom \/ TakeLeave \/ TakeVisibility \/ FetchServed \/ ListServed
  BY <1>4, <1>6 DEF TakeJoin, JoinRoom, TakeLeave, TakeVisibility, FetchServed, ListServed
<1>7. CASE Page
  BY <1>4, <1>7 DEF Page, FetchAnswered, Connect, ListAnswered, MessageArrives, JoinedArrives,
                    NoticeArrives, ReadArrives, ReadAllArrives, RefreshArrives
<1>8. CASE Participants
  BY <1>2, <1>4, <1>8 DEF Participants, Post, Open, Close, Toggle, Click, ClickAll
<1>9. CASE Drop
  BY <1>4, <1>9 DEF Drop
<1>10. ASSUME NEW m \in {0} \cup Messages, ClickFailed(m) PROVE NoticesKept
  BY <1>4, <1>10 DEF ClickFailed
<1>11. QED
  BY <1>1, <1>2, <1>3, <1>5, <1>6, <1>7, <1>8, <1>9, <1>10 DEF LiveNext, Server

StoredInv == StoredShown /\ Noticed /\ StoredCarried /\ BellAlone
LiveSofar == LiveTypes /\ StoredInv

LEMMA StoredInit == LiveInit => StoredInv
<1> SUFFICES ASSUME LiveInit PROVE StoredInv
  OBVIOUS
<1>1. StoredShown
  BY DEF LiveInit, StoredShown, Working
<1>2. Noticed
  BY DEF LiveInit, Noticed, NoNotice
<1>3. StoredCarried /\ BellAlone
  BY DEF LiveInit, StoredCarried, BellAlone, DialogOpen
<1>4. QED
  BY <1>1, <1>2, <1>3 DEF StoredInv

LEMMA StoredShownKept ==
    ASSUME LiveSofar, LiveNext
    PROVE  StoredShown'
<1>0. /\ LiveTypes /\ StoredShown /\ ChatTypes /\ LineTypes /\ Stored \subseteq Stored'
      /\ Listed \subseteq Stored
  BY StoredStays, StoredMessages, LiveBounds
     DEF LiveSofar, LiveTypes, StoredInv, Listed, Stored
<1>1. ASSUME NEW c \in Calls, NEW by \in {"peer", "reader"}, Post(c, by) PROVE StoredShown'
  <2>1. PICK p \in Posts : /\ post' = [post EXCEPT ![c] = p] /\ p.pc = "store"
                           /\ UNCHANGED <<shown, joining, fetch>>
    BY <1>0, <1>1, PostStarts
  <2>2. QED
    BY <1>0, <2>1 DEF StoredShown, Working, ChatTypes
<1>2. ASSUME NEW c \in Calls, Store(c) PROVE StoredShown'
  <2>1. PICK n \in Messages :
            /\ Stored' = Stored \cup {n} /\ post[c] \in Posts
            /\ post' = [post EXCEPT ![c] = [post[c] EXCEPT !.pc = "emit", !.id = n]]
            /\ UNCHANGED <<shown, joining, fetch>>
    BY <1>0, <1>2, StoreIs
  <2>2. QED
    BY <1>0, <2>1 DEF StoredShown, Working, ChatTypes, Posts
<1>3. ASSUME NEW c \in Calls, EmitAll(c) PROVE StoredShown'
  <2>1. post' = [post EXCEPT ![c] = NoWork] /\ Working(c) /\ post[c].pc = "emit"
    BY <1>0, <1>3, EmitIs
  <2>2. shown' \subseteq shown \cup {post[c].id} /\ UNCHANGED <<joining, fetch>>
    BY <1>3 DEF EmitAll
  <2>3. QED
    BY <1>0, <2>1, <2>2 DEF StoredShown, Working, ChatTypes
<1>4. CASE Close \/ Toggle \/ Drop
  <2>1. \/ \E cut \in BOOLEAN : LooksAway(cut)
        \/ UNCHANGED post
    BY <1>4 DEF Close, Toggle, Drop
  <2>2. \A c \in Calls : /\ Working(c)' <=> Working(c)
                         /\ Working(c) => post'[c].id = post[c].id /\ post'[c].pc = post[c].pc
    BY <1>0, <2>1, WentAway DEF Working
  <2>3. fetch' \in {fetch, NoWork} /\ joining' \in {joining, NoWork} /\ shown' = shown
    BY <1>4 DEF Close, Toggle, Drop
  <2>4. QED
    BY <1>0, <2>2, <2>3 DEF StoredShown
<1>5. CASE TakeJoin \/ JoinRoom \/ TakeLeave \/ TakeVisibility \/ TakeRead \/ ReadElsewhere
           \/ FetchServed \/ Open
  <2>1. /\ joining' \in {joining, NoWork} \/ joining'.list = Listed
        /\ fetch' = fetch \/ fetch'.list \in {Listed, {}}
        /\ UNCHANGED <<shown, post>>
    BY <1>5 DEF TakeJoin, JoinRoom, TakeLeave, TakeVisibility, TakeRead, ReadElsewhere,
                FetchServed, Open
  <2>2. QED
    BY <1>0, <2>1 DEF StoredShown, Working
<1>6. CASE FetchAnswered
  BY <1>0, <1>6 DEF FetchAnswered, StoredShown, Working
<1>7. CASE MessageArrives \/ JoinedArrives
  <2>1. Head(inbox) = inbox[1] /\ 1 \in DOMAIN inbox
    BY <1>0, <1>7, Arriving DEF MessageArrives, JoinedArrives, Arrive, Arrived
  <2>2. OfStored(Head(inbox))
    BY <2>1 DEF LiveSofar, StoredInv, StoredCarried
  <2>3. shown' \subseteq Stored
    BY <1>0, <1>7, <2>2 DEF MessageArrives, JoinedArrives, Arrived, OfStored, StoredShown
  <2>4. QED
    BY <1>0, <1>7, <2>3 DEF MessageArrives, JoinedArrives, StoredShown, Working
<1>8. ASSUME UNCHANGED <<shown, joining, fetch, post>> PROVE StoredShown'
  BY <1>0, <1>8 DEF StoredShown, Working
<1>9. CASE Connect \/ ListServed \/ ListAnswered \/ ClickAll \/ NoticeArrives \/ ReadArrives
           \/ ReadAllArrives \/ RefreshArrives
  BY <1>8, <1>9 DEF Connect, ListServed, ListAnswered, ClickAll, NoticeArrives, ReadArrives,
                    ReadAllArrives, RefreshArrives, chatVars
<1>10. ASSUME NEW m \in {0} \cup Messages, Click(m) \/ ClickServed(m) \/ ClickFailed(m)
       PROVE  StoredShown'
  BY <1>8, <1>10 DEF Click, ClickServed, ClickFailed, chatVars
<1>11. QED
  BY <1>1, <1>2, <1>3, <1>4, <1>5, <1>6, <1>7, <1>9, <1>10
     DEF LiveNext, Server, Page, Participants

LEMMA NoticedKept ==
    ASSUME LiveSofar, LiveNext
    PROVE  Noticed'
<1>0. /\ LiveTypes /\ BellTypes /\ Noticed /\ NoticesKept /\ Stored \subseteq Stored'
  BY StoredStays, NoticesStay DEF LiveSofar, LiveTypes, StoredInv
<1>1. \A m \in Messages : notice'[m] # "none" => m \in Stored'
  BY <1>0 DEF Noticed, NoticesKept
<1> DEFINE Has(m) == items[m] # "none" \/ (list # NoWork /\ list.of[m] # "none") \/ m \in clicks
<1>2. ASSUME \A m \in Messages : items'[m] # "none" => Has(m) \/ notice'[m] # "none",
             \A m \in Messages : m \in clicks' => Has(m) \/ notice'[m] # "none",
             \A m \in Messages :
                 list' # NoWork /\ list'.of[m] # "none" => Has(m) \/ notice'[m] # "none"
      PROVE  Noticed'
  <2>1. \A m \in Messages : Has(m) => notice'[m] # "none"
    BY <1>0 DEF Noticed, NoticesKept
  <2>2. QED
    BY <1>1, <1>2, <2>1 DEF Noticed
<1>3. ASSUME UNCHANGED feedVars PROVE Noticed'
  BY <1>2, <1>3 DEF feedVars
<1>4. ASSUME NEW S PROVE \A m \in Messages : AsRead(items, S)[m] # "none" <=> items[m] # "none"
  BY <1>0, AsReadIs DEF BellTypes
<1>5. \/ Overtake
      \/ list' = Asked
      \/ list' = NoWork
      => \A m \in Messages : list' # NoWork /\ list'.of[m] # "none" => Has(m)
  BY <1>0 DEF Overtake, Asked, NoNotice, BellTypes, Lists
<1> HIDE DEF Has
<1>6. /\ \A m \in Messages : items[m] # "none" => Has(m)
      /\ \A m \in Messages : m \in clicks => Has(m)
      /\ \A m \in Messages : list # NoWork /\ list.of[m] # "none" => Has(m)
  BY DEF Has
<1>7. CASE Connect \/ RefreshArrives
  BY <1>2, <1>5, <1>6, <1>7 DEF Connect, RefreshArrives
<1>8. CASE ListServed
  <2>1. UNCHANGED <<notice, items, clicks>> /\ list'.of = notice
    BY <1>8 DEF ListServed
  <2>2. QED
    BY <1>2, <1>6, <2>1
<1>9. CASE ListAnswered
  <2>1. list # NoWork /\ list' = NoWork /\ items' = list.of /\ clicks' = clicks
    BY <1>9 DEF ListAnswered
  <2>2. QED
    BY <1>2, <1>6, <2>1
<1>10. ASSUME NEW m \in Messages, Click(m) PROVE Noticed'
  <2>1. items[m] = "unread" /\ items' = AsRead(items, {m}) /\ clicks' = clicks \cup {m}
        /\ Overtake
    BY <1>10 DEF Click
  <2>2. QED
    BY <1>2, <1>4, <1>5, <1>6, <2>1
<1>11. CASE ClickAll
  <2>1. items' = AsRead(items, Messages) /\ clicks' = clicks \cup {0} /\ Overtake
    BY <1>11 DEF ClickAll
  <2>2. 0 \notin Messages
    BY DEF Messages
  <2>3. QED
    BY <1>2, <1>4, <1>5, <1>6, <2>1, <2>2
<1>12. ASSUME NEW m \in {0} \cup Messages, ClickServed(m) PROVE Noticed'
  BY <1>2, <1>6, <1>12 DEF ClickServed
<1>13. ASSUME NEW m \in {0} \cup Messages, ClickFailed(m) PROVE Noticed'
  BY <1>2, <1>5, <1>6, <1>13 DEF ClickFailed
<1>14. CASE NoticeArrives \/ ReadArrives
  <2>1. Head(inbox) = inbox[1] /\ 1 \in DOMAIN inbox /\ Head(inbox) \in Received
        /\ Head(inbox).type \in {"notice", "noticeRead"}
    BY <1>14, Arriving DEF NoticeArrives, ReadArrives, Arrive, Arrived, LiveSofar, LiveTypes
  <2>2. OfStored(Head(inbox)) /\ Head(inbox).id \in Messages
    BY <2>1 DEF LiveSofar, StoredInv, StoredCarried, Received
  <2>3. notice[Head(inbox).id] # "none" /\ UNCHANGED <<notice, clicks>> /\ Overtake
    BY <1>14, <2>1, <2>2 DEF NoticeArrives, ReadArrives, OfStored
  <2>4. \A m \in Messages : items'[m] # "none" => items[m] # "none" \/ m = Head(inbox).id
    BY <1>0, <1>4, <1>14 DEF NoticeArrives, ReadArrives, BellTypes, Notices
  <2>5. QED
    BY <1>2, <1>5, <1>6, <2>3, <2>4
<1>15. CASE ReadAllArrives
  BY <1>2, <1>4, <1>5, <1>6, <1>15 DEF ReadAllArrives
<1>16. CASE \/ TakeJoin \/ JoinRoom \/ TakeLeave \/ TakeVisibility \/ TakeRead \/ ReadElsewhere
            \/ Open \/ Close \/ Toggle \/ Drop
  BY <1>3, <1>16 DEF TakeJoin, JoinRoom, TakeLeave, TakeVisibility, TakeRead, ReadElsewhere,
                     Open, Close, Toggle, Drop
<1>17. CASE FetchServed \/ FetchAnswered \/ MessageArrives \/ JoinedArrives
  BY <1>3, <1>17 DEF FetchServed, FetchAnswered, MessageArrives, JoinedArrives
<1>18. ASSUME NEW c \in Calls, NEW by \in {"peer", "reader"}, Post(c, by) \/ EmitAll(c) \/ Store(c)
       PROVE  Noticed'
  BY <1>3, <1>18 DEF Post, EmitAll, Store
<1>19. QED
  BY <1>7, <1>8, <1>9, <1>10, <1>11, <1>12, <1>13, <1>14, <1>15, <1>16, <1>17, <1>18
     DEF LiveNext, Server, Page, Participants

LEMMA StoredCarriedKept ==
    ASSUME LiveSofar, LiveNext
    PROVE  StoredCarried'
<1>0. /\ LiveTypes /\ LineTypes /\ StoredCarried /\ NoticesKept /\ Stored \subseteq Stored'
      /\ StoredShown /\ Noticed /\ inbox \in Seq(Received)
  BY StoredStays, NoticesStay DEF LiveSofar, LiveTypes, StoredInv, LineTypes
<1>1. ASSUME NEW e \in Received, OfStored(e) PROVE OfStored(e)'
  <2>1. e.type \in {"notice", "noticeRead"} => e.id \in Messages
    BY DEF Received
  <2>2. QED
    BY <1>0, <1>1, <2>1 DEF OfStored, NoticesKept
<1>2. \A i \in DOMAIN inbox : \E e \in Received : e = inbox[i] /\ OfStored(e)'
  <2>1. \A i \in DOMAIN inbox : inbox[i] \in Received
    BY <1>0, LenProperties, ElementOfSeq
  <2>2. ASSUME NEW i \in DOMAIN inbox PROVE \E e \in Received : e = inbox[i] /\ OfStored(e)'
    <3>1. PICK e \in Received : e = inbox[i]
      BY <2>1
    <3>2. OfStored(e)
      BY <1>0, <3>1 DEF StoredCarried
    <3>3. QED
      BY <1>1, <3>1, <3>2
  <2>3. QED
    BY <2>2
<1>3. ASSUME NEW events \in Seq(Received), Emit(events),
             \A i \in DOMAIN events : OfStored(events[i])'
      PROVE  StoredCarried'
  <2>1. \A j \in DOMAIN inbox' : \/ j \in DOMAIN inbox /\ inbox'[j] = inbox[j]
                                 \/ \E i \in DOMAIN events : inbox'[j] = events[i]
    BY <1>0, <1>3, Emitted
  <2>2. ASSUME NEW j \in DOMAIN inbox' PROVE OfStored(inbox[j])' 
    <3>1. PICK e : e = inbox'[j]
      OBVIOUS
    <3>2. OfStored(e)'
      BY <1>2, <1>3, <2>1, <3>1
    <3>3. QED
      BY <3>1, <3>2 DEF OfStored
  <2>3. QED
    BY <2>2 DEF StoredCarried
<1>4. ASSUME inbox # <<>>, inbox' = Tail(inbox) PROVE StoredCarried'
  <2>1. \A i \in DOMAIN inbox' : i + 1 \in DOMAIN inbox /\ inbox'[i] = inbox[i + 1]
    BY <1>0, <1>4, Arriving
  <2>2. ASSUME NEW j \in DOMAIN inbox' PROVE OfStored(inbox[j])'
    <3>1. PICK e : e = inbox'[j]
      OBVIOUS
    <3>2. OfStored(e)'
      BY <1>2, <2>1, <3>1
    <3>3. QED
      BY <3>1, <3>2 DEF OfStored
  <2>3. QED
    BY <2>2 DEF StoredCarried
<1>5. ASSUME inbox' = inbox \/ inbox' = <<>> PROVE StoredCarried'
  BY <1>2, <1>5 DEF StoredCarried, OfStored
<1>6. ASSUME NEW c \in Calls, EmitAll(c) PROVE StoredCarried'
  <2>1. PICK m \in Messages : /\ m = post[c].id /\ Working(c) /\ post[c].pc = "emit"
                              /\ Emit(ToDialog(m) \o ToBell(m)) /\ UNCHANGED <<message, notice>>
    BY <1>0, <1>6, EmitIs
  <2>2. m \in Stored /\ Stored' = Stored
    BY <1>0, <2>1 DEF StoredShown, Stored
  <2>3. /\ ToDialog(m) \o ToBell(m) \in Seq(Received)
        /\ \A i \in DOMAIN (ToDialog(m) \o ToBell(m)) :
               LET e == (ToDialog(m) \o ToBell(m))[i] IN
               /\ e.type \in {"message", "notice"} /\ e.id = m
               /\ e.type = "notice" => notice[m] # "none"
    BY EmitsTyped
  <2>4. \E events \in Seq(Received) :
            /\ Emit(events)
            /\ \A i \in DOMAIN events : /\ events[i].type \in {"message", "notice"}
                                        /\ events[i].id = m
                                        /\ events[i].type = "notice" => notice[m] # "none"
    BY <2>1, <2>3
  <2>5. PICK events \in Seq(Received) :
            /\ Emit(events)
            /\ \A i \in DOMAIN events : /\ events[i].type \in {"message", "notice"}
                                        /\ events[i].id = m
                                        /\ events[i].type = "notice" => notice[m] # "none"
    BY <2>4
  <2>6. \A i \in DOMAIN events : OfStored(events[i])'
    BY <2>1, <2>2, <2>5 DEF OfStored
  <2>7. QED
    BY <1>3, <2>5, <2>6
<1>7. CASE JoinRoom
  <2>1. joining \in Joins /\ joining.list \subseteq Stored
    BY <1>0, <1>7 DEF JoinRoom, LiveTypes, ChatTypes, StoredShown
  <2>2. PICK e : e = [type |-> "joined", opened |-> joining.opened, list |-> joining.list]
    OBVIOUS
  <2>3. e \in Received
    BY <2>1, <2>2 DEF Received, Joins
  <2>4. e.type = "joined" /\ e.list \subseteq Stored'
    BY <1>0, <2>1, <2>2
  <2>5. OfStored(e)'
    BY <2>4 DEF OfStored
  <2>6. <<e>> \in Seq(Received) /\ Emit(<<e>>) /\ DOMAIN <<e>> = {1} /\ <<e>>[1] = e
    BY <1>7, <2>2, <2>3 DEF JoinRoom
  <2>7. QED
    BY <1>3, <2>5, <2>6
<1>8. ASSUME ReadAll PROVE StoredCarried'
  <2>1. PICK e : e = [type |-> "refresh"]
    OBVIOUS
  <2>2. <<e>> \in Seq(Received) /\ <<>> \in Seq(Received) /\ DOMAIN <<e>> = {1} /\ <<e>>[1] = e
    BY <2>1 DEF Received
  <2>3. e.type = "refresh"
    BY <2>1
  <2>4. OfStored(e)'
    BY <2>3 DEF OfStored
  <2>5. Emit(<<e>>) \/ Emit(<<>>)
    BY <1>8, <2>1 DEF ReadAll, Feed
  <2>6. CASE Emit(<<e>>)
    BY <1>3, <2>2, <2>4, <2>6
  <2>7. CASE Emit(<<>>)
    BY <1>0, <1>5, <2>7, NothingEmitted
  <2>8. QED
    BY <2>5, <2>6, <2>7
<1>9. CASE TakeRead \/ ReadElsewhere
  BY <1>5, <1>8, <1>9 DEF TakeRead, ReadElsewhere
<1>10. ASSUME NEW m \in {0} \cup Messages, ClickServed(m) PROVE StoredCarried'
  <2>1. CASE m = 0
    <3>1. PICK e : e = [type |-> "readAll"]
      OBVIOUS
    <3>2. <<e>> \in Seq(Received) /\ DOMAIN <<e>> = {1} /\ <<e>>[1] = e /\ Emit(<<e>>)
      BY <1>10, <2>1, <3>1 DEF Received, ClickServed
    <3>3. e.type = "readAll"
      BY <3>1
    <3>4. OfStored(e)'
      BY <3>3 DEF OfStored
    <3>5. QED
      BY <1>3, <3>2, <3>4
  <2>2. CASE m # 0 /\ notice[m] = "unread"
    <3>1. PICK events : events = Event("noticeRead", m)
      OBVIOUS
    <3>2. /\ events \in Seq(Received) /\ DOMAIN events = {1} /\ Emit(events)
          /\ events[1].type = "noticeRead" /\ events[1].id = m
      BY <1>10, <2>2, <3>1, EventTyped DEF ClickServed
    <3>3. m \in Stored' /\ notice'[m] # "none"
      BY <1>0, <2>2 DEF Noticed, NoticesKept
    <3>4. OfStored(events[1])'
      BY <3>2, <3>3 DEF OfStored
    <3>5. QED
      BY <1>3, <3>2, <3>4
  <2>3. CASE m # 0 /\ notice[m] # "unread"
    BY <1>0, <1>5, <1>10, <2>3, NothingEmitted DEF ClickServed
  <2>4. QED
    BY <2>1, <2>2, <2>3
<1>11. CASE MessageArrives \/ JoinedArrives \/ NoticeArrives \/ ReadArrives \/ ReadAllArrives
            \/ RefreshArrives
  BY <1>4, <1>11 DEF MessageArrives, JoinedArrives, NoticeArrives, ReadArrives, ReadAllArrives,
                     RefreshArrives, Arrive, Arrived
<1>12. CASE \/ TakeJoin \/ TakeLeave \/ TakeVisibility \/ Open \/ Close \/ Toggle \/ Drop
            \/ FetchServed \/ FetchAnswered
  BY <1>5, <1>12 DEF TakeJoin, TakeLeave, TakeVisibility, Open, Close, Toggle, Drop,
                     FetchServed, FetchAnswered, lineVars
<1>13. CASE Connect \/ ListServed \/ ListAnswered \/ ClickAll
  BY <1>5, <1>13 DEF Connect, ListServed, ListAnswered, ClickAll, lineVars
<1>14. ASSUME NEW m \in {0} \cup Messages, Click(m) \/ ClickFailed(m) PROVE StoredCarried'
  BY <1>5, <1>14 DEF Click, ClickFailed, lineVars
<1>15. ASSUME NEW c \in Calls, NEW by \in {"peer", "reader"}, Post(c, by) \/ Store(c)
       PROVE  StoredCarried'
  BY <1>5, <1>15 DEF Post, Store, lineVars
<1>16. QED
  BY <1>6, <1>7, <1>9, <1>10, <1>11, <1>12, <1>13, <1>14, <1>15
     DEF LiveNext, Server, Page, Participants

LEMMA BellAloneKept ==
    ASSUME LiveSofar, LiveNext
    PROVE  BellAlone'
<1> SUFFICES ASSUME looks' = "bell" PROVE BellAlone'
  BY DEF BellAlone
<1>0. looks' = looks
  BY DEF LiveNext, Server, Page, Participants, Post, Store, EmitAll, TakeJoin, JoinRoom,
         TakeLeave, TakeVisibility, TakeRead, ReadElsewhere, Open, Close, Toggle, FetchServed,
         FetchAnswered, Drop, Connect, ListServed, ListAnswered, Click, ClickAll, ClickServed,
         ClickFailed, MessageArrives, JoinedArrives, NoticeArrives, ReadArrives,
         ReadAllArrives, RefreshArrives
<1> DEFINE Plain(e) == e.type \notin {"message", "joined"}
<1>1. /\ ~DialogOpen /\ room = {} /\ joining = NoWork /\ outbox = <<>> /\ fetch = NoWork
      /\ \A i \in DOMAIN inbox : Plain(inbox[i])
      /\ LineTypes /\ LiveTypes
  BY <1>0 DEF LiveSofar, StoredInv, BellAlone, LiveTypes
<1> HIDE DEF Plain
<1>2. ASSUME UNCHANGED <<dialog, room, joining, outbox, fetch>>,
             \A i \in DOMAIN inbox' : Plain(inbox'[i])
      PROVE  BellAlone'
  BY <1>1, <1>2 DEF BellAlone, DialogOpen, Plain
<1>3. ASSUME NEW events \in Seq(Received), Emit(events), \A i \in DOMAIN events : Plain(events[i]),
             UNCHANGED <<dialog, room, joining, outbox, fetch>>
      PROVE  BellAlone'
  BY <1>1, <1>2, <1>3, Emitted
<1>4. ASSUME inbox # <<>>, inbox' = Tail(inbox),
             UNCHANGED <<dialog, room, joining, outbox, fetch>>
      PROVE  BellAlone'
  BY <1>1, <1>2, <1>4, Arriving
<1>5. ASSUME UNCHANGED <<dialog, room, joining, outbox, fetch>>, inbox' = inbox \/ inbox' = <<>>
      PROVE  BellAlone'
  BY <1>1, <1>2, <1>5
<1>6. ASSUME NEW c \in Calls, EmitAll(c) PROVE BellAlone'
  <2>1. PICK m \in Messages : /\ Emit(ToDialog(m) \o ToBell(m))
                              /\ UNCHANGED <<dialog, room, joining, outbox, fetch>>
    BY <1>1, <1>6, EmitIs
  <2>2. /\ ToDialog(m) \o ToBell(m) \in Seq(Received)
        /\ \A i \in DOMAIN (ToDialog(m) \o ToBell(m)) : Plain((ToDialog(m) \o ToBell(m))[i])
    BY <1>1, EmitsTyped DEF Plain
  <2>3. QED
    BY <1>3, <2>1, <2>2
<1>7. CASE ReadElsewhere
  <2>1. <<[type |-> "refresh"]>> \in Seq(Received) /\ <<>> \in Seq(Received)
    BY DEF Received
  <2>2. /\ \A i \in DOMAIN <<[type |-> "refresh"]>> : Plain(<<[type |-> "refresh"]>>[i])
        /\ \A i \in DOMAIN <<>> : Plain(<<>>[i])
    BY DEF Plain
  <2>3. Emit(<<[type |-> "refresh"]>>) \/ Emit(<<>>)
    BY <1>7 DEF ReadElsewhere, ReadAll, Feed
  <2>4. UNCHANGED <<dialog, room, joining, outbox, fetch>>
    BY <1>7 DEF ReadElsewhere
  <2>5. QED
    BY <1>3, <2>1, <2>2, <2>3, <2>4
<1>8. ASSUME NEW m \in {0} \cup Messages, ClickServed(m) PROVE BellAlone'
  <2>1. UNCHANGED <<dialog, room, joining, outbox, fetch>>
    BY <1>8 DEF ClickServed, chatVars
  <2>2. CASE m = 0
    <3>1. /\ <<[type |-> "readAll"]>> \in Seq(Received) /\ Emit(<<[type |-> "readAll"]>>)
          /\ \A i \in DOMAIN <<[type |-> "readAll"]>> : Plain(<<[type |-> "readAll"]>>[i])
      BY <1>8, <2>2 DEF ClickServed, Plain, Received
    <3>2. QED
      BY <1>3, <2>1, <3>1
  <2>3. CASE m # 0 /\ notice[m] = "unread"
    <3>1. /\ Event("noticeRead", m) \in Seq(Received) /\ Emit(Event("noticeRead", m))
          /\ \A i \in DOMAIN Event("noticeRead", m) : Plain(Event("noticeRead", m)[i])
      BY <1>8, <2>3, EventTyped DEF ClickServed, Plain
    <3>2. QED
      BY <1>3, <2>1, <3>1
  <2>4. CASE m # 0 /\ notice[m] # "unread"
    BY <1>1, <1>5, <1>8, <2>1, <2>4, NothingEmitted DEF ClickServed
  <2>5. QED
    BY <2>2, <2>3, <2>4
<1>9. CASE NoticeArrives \/ ReadArrives \/ ReadAllArrives \/ RefreshArrives
  <2>1. inbox # <<>> /\ inbox' = Tail(inbox) /\ UNCHANGED <<outbox, chatVars>>
    BY <1>9 DEF NoticeArrives, ReadArrives, ReadAllArrives, RefreshArrives, Arrive, Arrived
  <2>2. QED
    BY <1>4, <2>1 DEF chatVars
<1>10. CASE MessageArrives \/ JoinedArrives
  <2>1. 1 \in DOMAIN inbox /\ ~Plain(inbox[1])
    BY <1>1, <1>10, Arriving DEF MessageArrives, JoinedArrives, Arrive, Arrived, Plain
  <2>2. QED
    BY <1>1, <2>1
<1>11. CASE Drop
  <2>1. /\ room' = {} /\ joining' = NoWork /\ inbox' = <<>> /\ outbox' = <<>>
        /\ UNCHANGED <<dialog, fetch>>
    BY <1>11 DEF Drop
  <2>2. QED
    BY <1>1, <2>1 DEF BellAlone, DialogOpen
<1>12. CASE Connect \/ ListServed \/ ListAnswered \/ ClickAll
  <2>1. UNCHANGED <<inbox, outbox, chatVars>>
    BY <1>1, <1>12 DEF Connect, ListServed, ListAnswered, ClickAll, lineVars
  <2>2. QED
    BY <1>5, <2>1 DEF chatVars
<1>13. ASSUME NEW m \in {0} \cup Messages, Click(m) \/ ClickFailed(m) PROVE BellAlone'
  <2>1. UNCHANGED <<inbox, outbox, chatVars>>
    BY <1>13 DEF Click, ClickFailed, lineVars
  <2>2. QED
    BY <1>5, <2>1 DEF chatVars
<1>14. ASSUME NEW c \in Calls, NEW by \in {"peer", "reader"}, Post(c, by) \/ Store(c)
       PROVE  BellAlone'
  BY <1>5, <1>14 DEF Post, Store, lineVars
<1>15. ~(TakeJoin \/ JoinRoom \/ TakeLeave \/ TakeVisibility \/ TakeRead \/ Open
         \/ Close \/ Toggle \/ FetchServed \/ FetchAnswered)
  BY <1>0, <1>1 DEF TakeJoin, JoinRoom, TakeLeave, TakeVisibility, TakeRead, Open, Close, Toggle,
                    FetchServed, FetchAnswered, Waits
<1>16. QED
  BY <1>6, <1>7, <1>8, <1>9, <1>10, <1>11, <1>12, <1>13, <1>14, <1>15
     DEF LiveNext, Server, Page, Participants

LEMMA SofarInit == LiveInit => LiveSofar
BY LineInit, StoredInit DEF LiveSofar

LEMMA SofarKept == LiveSofar /\ LiveNext => LiveSofar'
BY TypesKept, StoredShownKept, NoticedKept, StoredCarriedKept, BellAloneKept
   DEF LiveSofar, StoredInv

-----------------------------------------------------------------------------
\* What is stored is unsent, and stays so until its call emits it.
UnsentMoved ==
    /\ \A m \in Stored' \ Stored : Unsent(m)'
    /\ \A m \in Messages :
           Unsent(m) => Unsent(m)' \/ \E c \in Calls : EmitAll(c) /\ post[c].id = m

LEMMA UnsentMoves ==
    ASSUME LiveSofar, LiveNext
    PROVE  UnsentMoved
<1>0. LiveTypes /\ ChatTypes
  BY DEF LiveSofar, LiveTypes
<1>1. ASSUME NEW c \in Calls, NEW by \in {"peer", "reader"}, Post(c, by) PROVE UnsentMoved
  <2>1. PICK p \in Posts : /\ post' = [post EXCEPT ![c] = p] /\ post[c] = NoWork
                           /\ UNCHANGED message
    BY <1>0, <1>1, PostStarts
  <2>2. QED
    BY <1>0, <2>1 DEF UnsentMoved, Unsent, Working, ChatTypes, Stored
<1>2. ASSUME NEW c \in Calls, Store(c) PROVE UnsentMoved
  <2>1. PICK n \in Messages :
            /\ Stored' = Stored \cup {n} /\ post[c] \in Posts /\ Working(c)
            /\ post' = [post EXCEPT ![c] = [post[c] EXCEPT !.pc = "emit", !.id = n]]
    BY <1>0, <1>2, StoreIs
  <2>2. post[c].pc = "store"
    BY <1>2 DEF Store
  <2>3. Unsent(n)'
    BY <1>0, <2>1 DEF Unsent, Working, ChatTypes, Posts, NoWork
  <2>4. \A m \in Messages : Unsent(m) => Unsent(m)'
    BY <1>0, <2>1, <2>2 DEF Unsent, Working, ChatTypes
  <2>5. QED
    BY <2>1, <2>3, <2>4 DEF UnsentMoved
<1>3. ASSUME NEW c \in Calls, EmitAll(c) PROVE UnsentMoved
  <2>1. post' = [post EXCEPT ![c] = NoWork] /\ UNCHANGED message
    BY <1>0, <1>3, EmitIs
  <2>2. QED
    BY <1>0, <1>3, <2>1 DEF UnsentMoved, Unsent, Working, ChatTypes, Stored
<1>4. CASE Close \/ Toggle \/ Drop
  <2>1. (\E cut \in BOOLEAN : LooksAway(cut)) \/ UNCHANGED post
    BY <1>4 DEF Close, Toggle, Drop
  <2>2. \A c \in Calls : /\ Working(c)' <=> Working(c)
                         /\ Working(c) => post'[c].id = post[c].id /\ post'[c].pc = post[c].pc
    BY <1>0, <2>1, WentAway DEF Working
  <2>3. Stored' = Stored
    BY <1>4 DEF Close, Toggle, Drop, Stored
  <2>4. QED
    BY <2>2, <2>3 DEF UnsentMoved, Unsent
<1>5. ASSUME UNCHANGED post, Stored' = Stored PROVE UnsentMoved
  BY <1>5 DEF UnsentMoved, Unsent, Working
<1>6. CASE TakeRead \/ ReadElsewhere
  <2>1. Stored' = Stored /\ UNCHANGED post
    BY <1>0, <1>6, ReadAllMarks DEF TakeRead, ReadElsewhere, Stored
  <2>2. QED
    BY <1>5, <2>1
<1>7. ASSUME UNCHANGED <<post, message>> PROVE UnsentMoved
  BY <1>5, <1>7 DEF Stored
<1>8. CASE TakeJoin \/ JoinRoom \/ TakeLeave \/ TakeVisibility \/ Open
           \/ FetchServed \/ FetchAnswered \/ MessageArrives \/ JoinedArrives
  BY <1>7, <1>8 DEF TakeJoin, JoinRoom, TakeLeave, TakeVisibility, Open, FetchServed,
                    FetchAnswered, MessageArrives, JoinedArrives
<1>9. CASE Connect \/ ListServed \/ ListAnswered \/ ClickAll \/ NoticeArrives \/ ReadArrives
           \/ ReadAllArrives \/ RefreshArrives
  BY <1>7, <1>9 DEF Connect, ListServed, ListAnswered, ClickAll, NoticeArrives, ReadArrives,
                    ReadAllArrives, RefreshArrives, chatVars
<1>10. ASSUME NEW m \in {0} \cup Messages, Click(m) \/ ClickServed(m) \/ ClickFailed(m)
       PROVE  UnsentMoved
  BY <1>7, <1>10 DEF Click, ClickServed, ClickFailed, chatVars
<1>11. QED
  BY <1>1, <1>2, <1>3, <1>4, <1>6, <1>8, <1>9, <1>10 DEF LiveNext, Server, Page, Participants

\* What is sent to the page gets there, unless the socket is cut.
StaysIn(i) == \E j \in DOMAIN inbox' : inbox'[j] = inbox[i]
Arrives == \/ MessageArrives \/ JoinedArrives \/ NoticeArrives
           \/ ReadArrives \/ ReadAllArrives \/ RefreshArrives

LEMMA InboxMoves ==
    ASSUME LiveSofar, LiveNext, online', NEW i \in DOMAIN inbox
    PROVE  StaysIn(i) \/ (Head(inbox) = inbox[i] /\ Arrives)
<1>0. LineTypes /\ LiveTypes
  BY DEF LiveSofar, LiveTypes
<1>1. ASSUME NEW events \in Seq(Received), Emit(events) PROVE StaysIn(i)
  BY <1>0, <1>1, Emitted DEF StaysIn
<1>2. ASSUME inbox' = inbox PROVE StaysIn(i)
  BY <1>2 DEF StaysIn
<1>3. CASE Arrives
  <2>1. inbox # <<>> /\ inbox' = Tail(inbox)
    BY <1>3 DEF Arrives, MessageArrives, JoinedArrives, NoticeArrives, ReadArrives, ReadAllArrives,
                RefreshArrives, Arrive, Arrived
  <2>2. i = 1 \/ StaysIn(i)
    BY <1>0, <2>1, Arriving DEF StaysIn
  <2>3. QED
    BY <1>0, <1>3, <2>1, <2>2, Arriving
<1>4. ASSUME NEW c \in Calls, EmitAll(c) PROVE StaysIn(i)
  <2>1. PICK m \in Messages : Emit(ToDialog(m) \o ToBell(m))
    BY <1>0, <1>4, EmitIs
  <2>2. QED
    BY <1>1, <2>1, EmitsTyped
<1>5. CASE JoinRoom
  <2>1. joining \in Joins
    BY <1>0, <1>5 DEF JoinRoom, LiveTypes, ChatTypes
  <2>2. <<[type |-> "joined", opened |-> joining.opened, list |-> joining.list]>> \in Seq(Received)
    BY <2>1 DEF Received, Joins
  <2>3. QED
    BY <1>1, <1>5, <2>2 DEF JoinRoom
<1>6. ReadAll => StaysIn(i)
  <2>1. <<[type |-> "refresh"]>> \in Seq(Received) /\ <<>> \in Seq(Received)
    BY DEF Received
  <2>2. QED
    BY <1>1, <2>1 DEF ReadAll, Feed
<1>7. CASE TakeRead \/ ReadElsewhere
  BY <1>2, <1>6, <1>7 DEF TakeRead, ReadElsewhere
<1>8. ASSUME NEW m \in {0} \cup Messages, ClickServed(m) PROVE StaysIn(i)
  <2>1. <<[type |-> "readAll"]>> \in Seq(Received) /\ <<>> \in Seq(Received)
    BY DEF Received
  <2>2. m # 0 => Event("noticeRead", m) \in Seq(Received)
    BY EventTyped
  <2>3. QED
    BY <1>1, <1>8, <2>1, <2>2 DEF ClickServed
<1>9. ~Drop
  BY DEF Drop
<1>10. CASE \/ TakeJoin \/ TakeLeave \/ TakeVisibility \/ Open \/ Close \/ Toggle
            \/ FetchServed \/ FetchAnswered
  BY <1>2, <1>10 DEF TakeJoin, TakeLeave, TakeVisibility, Open, Close, Toggle,
                     FetchServed, FetchAnswered, lineVars
<1>11. CASE Connect \/ ListServed \/ ListAnswered \/ ClickAll
  BY <1>2, <1>11 DEF Connect, ListServed, ListAnswered, ClickAll, lineVars
<1>12. ASSUME NEW m \in {0} \cup Messages, Click(m) \/ ClickFailed(m) PROVE StaysIn(i)
  BY <1>2, <1>12 DEF Click, ClickFailed, lineVars
<1>13. ASSUME NEW c \in Calls, NEW by \in {"peer", "reader"}, Post(c, by) \/ Store(c)
       PROVE  StaysIn(i)
  BY <1>2, <1>13 DEF Post, Store, lineVars
<1>14. QED
  BY <1>3, <1>4, <1>5, <1>7, <1>8, <1>9, <1>10, <1>11, <1>12, <1>13
     DEF LiveNext, Server, Page, Participants, Arrives

\* What is pushed after a join leaves it the last, and what is taken before it.
LEMMA JoinStays ==
    ASSUME LineTypes, NEW events \in Seq(Requested), Push(events),
           \A i \in DOMAIN events : events[i].type \notin {"join", "leave"},
           dialog'.opened = dialog.opened
    PROVE  (JoinSent => JoinSent') /\ (NoneAfter(0) => NoneAfter(0)')
<1>1. /\ \A i \in DOMAIN outbox : i \in DOMAIN outbox' /\ outbox'[i] = outbox[i]
      /\ \A j \in DOMAIN outbox' : \/ j \in DOMAIN outbox /\ outbox'[j] = outbox[j]
                                   \/ \E i \in DOMAIN events : outbox'[j] = events[i]
  BY Pushed
<1>2. \A i : NoneAfter(i) => NoneAfter(i)'
  BY <1>1 DEF NoneAfter
<1>3. QED
  BY <1>1, <1>2 DEF JoinSent

LEMMA JoinTakenOut ==
    ASSUME LineTypes, outbox # <<>>, outbox' = Tail(outbox), dialog'.opened = dialog.opened
    PROVE  /\ JoinSent => JoinSent' \/ (/\ Head(outbox).type = "join" /\ NoneAfter(0)'
                                        /\ Head(outbox).opened = dialog.opened)
           /\ NoneAfter(0) => NoneAfter(0)' /\ Head(outbox).type \notin {"join", "leave"}
<1>1. /\ 1 \in DOMAIN outbox /\ Head(outbox) = outbox[1] /\ DOMAIN outbox = 1..Len(outbox)
      /\ \A i \in DOMAIN outbox' : i + 1 \in DOMAIN outbox /\ outbox'[i] = outbox[i + 1]
      /\ \A i \in DOMAIN outbox :
             i # 1 => i - 1 \in DOMAIN outbox' /\ outbox'[i - 1] = outbox[i]
      /\ outbox' \in Seq(Requested)
  BY Taking, LenProperties DEF LineTypes
<1>2. DOMAIN outbox' \subseteq Nat \ {0} /\ DOMAIN outbox \subseteq Nat \ {0}
  BY <1>1, LenProperties DEF LineTypes
<1>3. ASSUME NEW i \in Nat, NoneAfter(i + 1) \/ NoneAfter(0) PROVE NoneAfter(i)'
  BY <1>1, <1>2, <1>3 DEF NoneAfter
<1>4. ASSUME JoinSent
      PROVE  JoinSent' \/ (/\ Head(outbox).type = "join" /\ NoneAfter(0)'
                           /\ Head(outbox).opened = dialog.opened)
  <2>1. PICK i \in DOMAIN outbox : /\ outbox[i].type = "join" /\ NoneAfter(i)
                                   /\ outbox[i].opened = dialog.opened
    BY <1>4 DEF JoinSent
  <2>2. CASE i = 1
    BY <1>1, <1>3, <2>1, <2>2
  <2>3. CASE i # 1
    <3>1. /\ i - 1 \in DOMAIN outbox' /\ outbox'[i - 1] = outbox[i]
          /\ i - 1 \in Nat /\ (i - 1) + 1 = i
      BY <1>1, <1>2, <2>3
    <3>2. NoneAfter(i - 1)'
      BY <1>3, <2>1, <3>1
    <3>3. QED
      BY <2>1, <3>1, <3>2 DEF JoinSent
  <2>4. QED
    BY <2>2, <2>3
<1>5. NoneAfter(0) => Head(outbox).type \notin {"join", "leave"}
  BY <1>1 DEF NoneAfter
<1>6. QED
  BY <1>3, <1>4, <1>5

LEMMA JoinPushed ==
    ASSUME LineTypes, NEW d \in [opened: 0..MaxMoves, visible: BOOLEAN], d.opened # 0,
           dialog' = d,
           (online /\ Push(JoinEvent(d))) \/ outbox' = JoinEvent(d)
    PROVE  JoinSent'
<1>1. /\ JoinEvent(d) \in Seq(Requested) /\ DOMAIN JoinEvent(d) = {1}
      /\ JoinEvent(d)[1].type = "join" /\ JoinEvent(d)[1].opened = d.opened
  BY JoinTyped
<1>2. CASE outbox' = JoinEvent(d)
  <2>1. DOMAIN outbox' = {1} /\ outbox'[1].type = "join" /\ outbox'[1].opened = dialog'.opened
    BY <1>1, <1>2
  <2>2. QED
    BY <2>1 DEF JoinSent, NoneAfter
<1>3. CASE online /\ Push(JoinEvent(d))
  <2>1. PICK events \in Seq(Requested) :
            /\ DOMAIN events = {1} /\ Push(events)
            /\ events[1].type = "join" /\ events[1].opened = d.opened
    BY <1>1, <1>3
  <2>2. /\ Len(outbox') = Len(outbox) + Len(events) /\ outbox' \in Seq(Requested)
        /\ Len(outbox) + 1 \in DOMAIN outbox' /\ outbox'[Len(outbox) + 1] = events[1]
    BY <1>3, <2>1, Pushed
  <2>3. Len(events) = 1 /\ DOMAIN outbox' = 1..Len(outbox') /\ Len(outbox) \in Nat
    BY <2>1, <2>2, LenProperties DEF LineTypes
  <2>4. \A j \in DOMAIN outbox' : ~(j > Len(outbox) + 1)
    <3>1. PICK n \in Nat : n = Len(outbox)
      BY <2>3
    <3>2. DOMAIN outbox' = 1..(n + 1)
      BY <2>2, <2>3, <3>1
    <3>3. QED
      BY <3>1, <3>2
  <2>5. QED
    BY <2>1, <2>2, <2>4 DEF JoinSent, NoneAfter
<1>4. QED
  BY <1>2, <1>3

\* How the join of an open dialog goes on.
StagesMoved ==
    /\ ~(online /\ DialogOpen) => JoinSent'
    /\ online /\ DialogOpen => /\ dialog'.opened = dialog.opened
                               /\ JoinSent => \/ JoinSent'
                                              \/ /\ TakeJoin /\ JoinTaken'
                                                 /\ joining'.list = Listed
                               /\ JoinTaken => \/ JoinTaken' /\ joining' = joining
                                               \/ JoinRoom /\ JoinDone'
                               /\ JoinDone => JoinDone'

LEMMA StagesMove ==
    ASSUME LiveSofar, LiveNext, online', DialogOpen'
    PROVE  StagesMoved
<1>0. /\ LiveTypes /\ LineTypes /\ ChatTypes
      /\ dialog \in [opened: 0..MaxMoves, visible: BOOLEAN]
  BY DEF LiveSofar, LiveTypes, ChatTypes
<1>1. ASSUME UNCHANGED <<dialog, outbox, joining, room, online>> PROVE StagesMoved
  BY <1>1 DEF StagesMoved, JoinSent, JoinTaken, JoinDone, NoneAfter, DialogOpen
<1>2. ASSUME NEW events \in Seq(Requested), Push(events), UNCHANGED <<joining, room, online>>,
             \A i \in DOMAIN events : events[i].type \notin {"join", "leave"},
             dialog'.opened = dialog.opened
      PROVE  StagesMoved
  <2>1. (JoinSent => JoinSent') /\ (NoneAfter(0) => NoneAfter(0)')
    BY <1>0, <1>2, JoinStays
  <2>2. QED
    BY <1>2, <2>1 DEF StagesMoved, JoinTaken, JoinDone, DialogOpen
<1>3. CASE TakeJoin
  <2>1. /\ outbox # <<>> /\ outbox' = Tail(outbox) /\ UNCHANGED <<online, room, dialog>>
        /\ joining'.opened = Head(outbox).opened /\ joining'.list = Listed /\ joining'.pc = "room"
        /\ Head(outbox).type = "join"
    BY <1>3 DEF TakeJoin, Take, Waits
  <2>2. joining' # NoWork
    BY <2>1 DEF NoWork
  <2>3. /\ JoinSent => JoinSent' \/ (NoneAfter(0)' /\ Head(outbox).opened = dialog.opened)
        /\ ~NoneAfter(0)
    BY <1>0, <2>1, JoinTakenOut
  <2>4. QED
    BY <1>3, <2>1, <2>2, <2>3 DEF StagesMoved, JoinTaken, JoinDone, DialogOpen
<1>4. CASE JoinRoom
  BY <1>4 DEF JoinRoom, StagesMoved, JoinSent, JoinTaken, JoinDone, NoneAfter, DialogOpen
<1>5. CASE TakeLeave
  <2>1. /\ outbox # <<>> /\ outbox' = Tail(outbox) /\ UNCHANGED <<online, joining, dialog>>
        /\ Head(outbox).type = "leave"
    BY <1>5 DEF TakeLeave, Take, Waits
  <2>2. (JoinSent => JoinSent') /\ ~NoneAfter(0)
    BY <1>0, <2>1, JoinTakenOut
  <2>3. QED
    BY <2>1, <2>2 DEF StagesMoved, JoinTaken, JoinDone, DialogOpen
<1>6. CASE TakeVisibility \/ TakeRead
  <2>1. /\ outbox # <<>> /\ outbox' = Tail(outbox) /\ UNCHANGED <<online, joining, dialog>>
        /\ Head(outbox).type \in {"visibility", "read"}
        /\ "exchange" \in room => "exchange" \in room'
    BY <1>6 DEF TakeVisibility, TakeRead, Take, Waits
  <2>2. (JoinSent => JoinSent') /\ (NoneAfter(0) => NoneAfter(0)')
    BY <1>0, <2>1, JoinTakenOut
  <2>3. QED
    BY <2>1, <2>2 DEF StagesMoved, JoinTaken, JoinDone, DialogOpen
<1>7. CASE Open
  <2>1. PICK d : d = dialog'
    OBVIOUS
  <2>2. d \in [opened: 0..MaxMoves, visible: BOOLEAN] /\ d.opened # 0 /\ online /\ ~DialogOpen
    BY <1>0, <1>7, <2>1, LiveBounds DEF Open, Move, ChatTypes
  <2>3. Push(JoinEvent(d))
    BY <1>7, <2>1 DEF Open
  <2>4. JoinSent'
    BY <1>0, <2>1, <2>2, <2>3, JoinPushed
  <2>5. QED
    BY <2>2, <2>4 DEF StagesMoved
<1>8. CASE Connect
  <2>1. ~online /\ UNCHANGED dialog /\ dialog.opened # 0 /\ outbox' = JoinEvent(dialog)
    BY <1>8 DEF Connect, DialogOpen, chatVars
  <2>2. PICK d : d = dialog
    OBVIOUS
  <2>3. d \in [opened: 0..MaxMoves, visible: BOOLEAN] /\ d.opened # 0 /\ dialog' = d
        /\ outbox' = JoinEvent(d)
    BY <1>0, <2>1, <2>2
  <2>4. JoinSent'
    BY <1>0, <2>3, JoinPushed
  <2>5. QED
    BY <2>1, <2>4 DEF StagesMoved
<1>9. CASE Toggle
  <2>1. PICK v \in BOOLEAN : dialog'.visible = v
    <3>1. dialog.visible \in BOOLEAN
      BY <1>0
    <3>2. dialog' = [dialog EXCEPT !.visible = ~dialog.visible]
      BY <1>9 DEF Toggle
    <3>3. dialog'.visible = ~dialog.visible
      BY <1>0, <3>2
    <3>4. QED
      BY <3>1, <3>3
  <2>2. dialog'.opened = dialog.opened /\ UNCHANGED <<joining, room, online>>
    BY <1>0, <1>9 DEF Toggle
  <2> DEFINE vis == <<[type |-> "visibility", active |-> v, opened |-> 0]>>
             rd == IF v THEN <<[type |-> "read"]>> ELSE <<>>
  <2>3. PICK events : events = vis \o rd
    OBVIOUS
  <2>4. /\ vis \in Seq(Requested) /\ rd \in Seq(Requested)
        /\ \A i \in DOMAIN vis : vis[i].type \notin {"join", "leave"}
        /\ \A i \in DOMAIN rd : rd[i].type \notin {"join", "leave"}
    <3>1. /\ <<[type |-> "read"]>> \in Seq(Requested)
          /\ \A i \in DOMAIN <<[type |-> "read"]>> :
                 <<[type |-> "read"]>>[i].type \notin {"join", "leave"}
      BY DEF Sent, Requested
    <3>2. <<>> \in Seq(Requested) /\ DOMAIN <<>> = {}
      OBVIOUS
    <3>3. vis \in Seq(Requested) /\ \A i \in DOMAIN vis : vis[i].type \notin {"join", "leave"}
      BY LiveBounds DEF Sent, Requested
    <3>4. QED
      BY <3>1, <3>2, <3>3
  <2>5. \A i \in DOMAIN events : \/ \E j \in DOMAIN vis : events[i] = vis[j]
                                 \/ \E j \in DOMAIN rd : events[i] = rd[j]
    BY <2>3, <2>4, ConcatEach
  <2>6. /\ events \in Seq(Requested)
        /\ \A i \in DOMAIN events : events[i].type \notin {"join", "leave"}
    BY <2>3, <2>4, <2>5, ConcatProperties
  <2>7. Push(events)
    BY <1>9, <2>1, <2>3 DEF Toggle
  <2>8. QED
    BY <1>2, <2>2, <2>6, <2>7
<1>10. CASE MessageArrives \/ JoinedArrives
  <2>1. /\ <<[type |-> "read"]>> \in Seq(Requested)
        /\ \A i \in DOMAIN <<[type |-> "read"]>> :
               <<[type |-> "read"]>>[i].type \notin {"join", "leave"}
    BY DEF Sent, Requested
  <2>2. Push(<<[type |-> "read"]>>) \/ UNCHANGED outbox
    BY <1>10 DEF MessageArrives, JoinedArrives
  <2>3. UNCHANGED <<dialog, joining, room, online>>
    BY <1>10 DEF MessageArrives, JoinedArrives, Arrive
  <2>4. QED
    BY <1>1, <1>2, <2>1, <2>2, <2>3
<1>11. ~Close /\ ~Drop
  BY <1>0 DEF Close, Drop, DialogOpen
<1>12. CASE \/ ReadElsewhere \/ FetchServed \/ FetchAnswered \/ ListServed \/ ListAnswered
            \/ ClickAll \/ NoticeArrives \/ ReadArrives \/ ReadAllArrives \/ RefreshArrives
  BY <1>1, <1>12 DEF ReadElsewhere, FetchServed, FetchAnswered, ListServed, ListAnswered,
                     ClickAll, NoticeArrives, ReadArrives, ReadAllArrives, RefreshArrives,
                     Arrive, chatVars, lineVars
<1>13. ASSUME NEW m \in {0} \cup Messages, Click(m) \/ ClickServed(m) \/ ClickFailed(m)
       PROVE  StagesMoved
  BY <1>1, <1>13 DEF Click, ClickServed, ClickFailed, chatVars, lineVars
<1>14. ASSUME NEW c \in Calls, NEW by \in {"peer", "reader"}, Post(c, by) \/ Store(c) \/ EmitAll(c)
       PROVE  StagesMoved
  BY <1>1, <1>14 DEF Post, Store, EmitAll, lineVars
<1>15. QED
  BY <1>3, <1>4, <1>5, <1>6, <1>7, <1>8, <1>9, <1>10, <1>11, <1>12, <1>13, <1>14
     DEF LiveNext, Server, Page, Participants

-----------------------------------------------------------------------------
StageInv == online /\ DialogOpen => JoinSent \/ JoinTaken \/ JoinDone

LEMMA StageKept ==
    ASSUME LiveSofar, StageInv, LiveNext
    PROVE  StageInv'
<1> SUFFICES ASSUME online', DialogOpen' PROVE JoinSent' \/ JoinTaken' \/ JoinDone'
  BY DEF StageInv
<1>1. StagesMoved
  BY StagesMove
<1>2. QED
  BY <1>1 DEF StagesMoved, StageInv

\* The page only learns of messages, and of gaps, as long as it is there.
LEMMA ShownGrows == LiveNext => shown \subseteq shown' /\ gap \subseteq gap'
<1> SUFFICES ASSUME LiveNext PROVE shown \subseteq shown' /\ gap \subseteq gap'
  OBVIOUS
<1>1. CASE MessageArrives \/ JoinedArrives \/ FetchAnswered
  BY <1>1 DEF MessageArrives, JoinedArrives, FetchAnswered
<1>2. ASSUME NEW c \in Calls, NEW by \in {"peer", "reader"}, EmitAll(c) \/ Post(c, by) \/ Store(c)
      PROVE  shown \subseteq shown' /\ gap \subseteq gap'
  BY <1>2 DEF EmitAll, Post, Store
<1>3. ASSUME NEW m \in {0} \cup Messages, Click(m) \/ ClickServed(m) \/ ClickFailed(m)
      PROVE  shown \subseteq shown' /\ gap \subseteq gap'
  BY <1>3 DEF Click, ClickServed, ClickFailed, chatVars
<1>4. CASE \/ TakeJoin \/ JoinRoom \/ TakeLeave \/ TakeVisibility \/ TakeRead
           \/ ReadElsewhere \/ Open \/ Close \/ Toggle \/ FetchServed \/ Drop
  BY <1>4 DEF TakeJoin, JoinRoom, TakeLeave, TakeVisibility, TakeRead, ReadElsewhere, Open,
              Close, Toggle, FetchServed, Drop
<1>5. CASE \/ Connect \/ ListServed \/ ListAnswered \/ ClickAll \/ NoticeArrives \/ ReadArrives
           \/ ReadAllArrives \/ RefreshArrives
  BY <1>5 DEF Connect, ListServed, ListAnswered, ClickAll, NoticeArrives, ReadArrives,
              ReadAllArrives, RefreshArrives, chatVars
<1>6. QED
  BY <1>1, <1>2, <1>3, <1>4, <1>5 DEF LiveNext, Server, Page, Participants

LEMMA JoinedIsSent ==
    ASSUME LiveSofar, JoinRoom, online
    PROVE  \E j \in DOMAIN inbox' : /\ inbox'[j].type = "joined"
                                    /\ inbox'[j].opened = joining.opened
                                    /\ inbox'[j].list = joining.list
<1>1. joining \in Joins /\ LineTypes
  BY DEF JoinRoom, LiveSofar, LiveTypes, ChatTypes
<1>2. PICK e \in Received :
          e = [type |-> "joined", opened |-> joining.opened, list |-> joining.list]
  BY <1>1 DEF Received, Joins
<1>3. <<e>> \in Seq(Received) /\ Emit(<<e>>) /\ 1 \in DOMAIN <<e>> /\ <<e>>[1] = e
  BY <1>2 DEF JoinRoom
<1>4. \E j \in DOMAIN inbox' : inbox'[j] = e
  BY <1>1, <1>3, IsThere
<1>5. QED
  BY <1>2, <1>4

LEMMA MessageIsSent ==
    ASSUME LiveSofar, NEW c \in Calls, EmitAll(c), online, "exchange" \in room
    PROVE  \E j \in DOMAIN inbox' : inbox'[j].type = "message" /\ inbox'[j].id = post[c].id
<1>1. LiveTypes /\ LineTypes
  BY DEF LiveSofar, LiveTypes
<1>2. PICK m \in Messages : m = post[c].id /\ Emit(ToDialog(m) \o ToBell(m))
  BY <1>1, EmitIs
<1>3. PICK s : s = ToDialog(m) \o ToBell(m)
  OBVIOUS
<1>4. s \in Seq(Received) /\ \E i \in DOMAIN s : s[i].type = "message" /\ s[i].id = m
  BY <1>3, EmitsTyped
<1>5. \A i \in DOMAIN s : \E j \in DOMAIN inbox' : inbox'[j] = s[i]
  BY <1>1, <1>2, <1>3, <1>4, IsThere
<1>6. QED
  BY <1>2, <1>4, <1>5

\* What the dialog will be sent arrives, and is shown.
LEMMA ComingArrives ==
    ASSUME LiveSofar, LiveNext, online, online', DialogOpen, DialogOpen',
           dialog'.opened = dialog.opened, "exchange" \in room,
           NEW m \in Messages, Coming(m)
    PROVE  m \in shown' \/ Coming(m)'
<1>1. CASE Unsent(m)
  <2>1. Unsent(m)' \/ \E c \in Calls : EmitAll(c) /\ post[c].id = m
    BY <1>1, UnsentMoves DEF UnsentMoved
  <2>2. ASSUME NEW c \in Calls, EmitAll(c), post[c].id = m PROVE Coming(m)'
    BY <2>2, MessageIsSent DEF Coming
  <2>3. QED
    BY <2>1, <2>2 DEF Coming
<1>2. ASSUME NEW i \in DOMAIN inbox, inbox[i].type = "message", inbox[i].id = m
      PROVE  m \in shown' \/ Coming(m)'
  <2>1. CASE StaysIn(i)
    BY <1>2, <2>1 DEF StaysIn, Coming
  <2>2. CASE Head(inbox) = inbox[i] /\ Arrives
    <3>1. MessageArrives
      BY <1>2, <2>2 DEF Arrives, Arrived, JoinedArrives, NoticeArrives, ReadArrives,
                        ReadAllArrives, RefreshArrives
    <3>2. QED
      BY <1>2, <2>2, <3>1 DEF MessageArrives
  <2>3. QED
    BY <2>1, <2>2, InboxMoves
<1>3. ASSUME NEW i \in DOMAIN inbox, inbox[i].type = "joined", inbox[i].opened = dialog.opened,
             m \in inbox[i].list
      PROVE  m \in shown' \/ Coming(m)'
  <2>1. CASE StaysIn(i)
    BY <1>3, <2>1 DEF StaysIn, Coming
  <2>2. CASE Head(inbox) = inbox[i] /\ Arrives
    <3>1. JoinedArrives
      BY <1>3, <2>2 DEF Arrives, Arrived, MessageArrives, NoticeArrives, ReadArrives,
                        ReadAllArrives, RefreshArrives
    <3>2. QED
      BY <1>3, <2>2, <3>1 DEF JoinedArrives
  <2>3. QED
    BY <2>1, <2>2, InboxMoves
<1>4. QED
  BY <1>1, <1>2, <1>3 DEF Coming

\* As long as a chat fits one list, an open dialog gets what is stored: with
\* the list of its join, as an event, or it fell between the two.
LEMMA ShownKept ==
    ASSUME LiveSofar, ShownInv, LiveNext, MaxMessages <= ListLimit
    PROVE  ShownInv'
<1> SUFFICES ASSUME online', DialogOpen'
             PROVE  \/ JoinSent'
                    \/ JoinTaken' /\ \A m \in Stored' \ (joining'.list \cup gap') : Unsent(m)'
                    \/ JoinDone' /\ \A m \in Stored' \ (shown' \cup gap') : Coming(m)'
  BY DEF ShownInv
<1>1. /\ StagesMoved /\ UnsentMoved /\ shown \subseteq shown' /\ gap \subseteq gap'
      /\ LiveTypes /\ LiveTypes' /\ Stored \subseteq Messages /\ Stored' \subseteq Messages
  <2>1. LiveTypes /\ LiveTypes'
    BY SofarKept DEF LiveSofar
  <2>2. ASSUME LiveTypes' PROVE Stored' \subseteq Messages
    BY <2>2, LiveBounds, LenProperties, FS_Subset, FS_CardinalityType
       DEF LiveTypes, RoomLeft, ChatTypes, Stored, Messages, Unstored
  <2>3. QED
    BY <2>1, <2>2, StagesMove, UnsentMoves, ShownGrows, StoredMessages
<1>2. CASE JoinSent'
  BY <1>2
<1>3. CASE TakeJoin /\ JoinTaken' /\ joining'.list = Listed
  <2>1. Listed = Stored
    BY <1>1, StoredMessages, LiveBounds DEF Listed, Stored
  <2>2. Stored' = Stored
    BY <1>3 DEF TakeJoin, Stored
  <2>3. QED
    BY <1>3, <2>1, <2>2
<1> SUFFICES ASSUME online, DialogOpen, ~JoinSent PROVE
                    \/ JoinTaken' /\ \A m \in Stored' \ (joining'.list \cup gap') : Unsent(m)'
                    \/ JoinDone' /\ \A m \in Stored' \ (shown' \cup gap') : Coming(m)'
  BY <1>1, <1>2, <1>3 DEF StagesMoved
<1>4. ASSUME JoinTaken, \A m \in Stored \ (joining.list \cup gap) : Unsent(m),
             JoinTaken', joining' = joining
      PROVE  \A m \in Stored' \ (joining'.list \cup gap') : Unsent(m)'
  <2> SUFFICES ASSUME NEW m \in Stored' \ (joining'.list \cup gap') PROVE Unsent(m)'
    OBVIOUS
  <2>1. m \notin Stored \/ Unsent(m)
    BY <1>1, <1>4
  <2>2. CASE m \notin Stored
    BY <1>1, <2>2 DEF UnsentMoved
  <2>3. ASSUME NEW c \in Calls, EmitAll(c), post[c].id = m PROVE FALSE
    <3>1. joining # NoWork /\ m \notin joining.list
      BY <1>4 DEF JoinTaken
    <3>2. m \in gap'
      BY <2>3, <3>1 DEF EmitAll
    <3>3. QED
      BY <3>2
  <2>4. QED
    BY <1>1, <2>1, <2>2, <2>3 DEF UnsentMoved
<1>5. ASSUME JoinTaken, \A m \in Stored \ (joining.list \cup gap) : Unsent(m),
             JoinRoom, JoinDone'
      PROVE  \A m \in Stored' \ (shown' \cup gap') : Coming(m)'
  <2> SUFFICES ASSUME NEW m \in Stored' \ (shown' \cup gap') PROVE Coming(m)'
    OBVIOUS
  <2>1. Stored' = Stored /\ UNCHANGED <<post, dialog>>
    BY <1>5 DEF JoinRoom, Stored
  <2>2. m \in joining.list \/ Unsent(m)
    BY <1>1, <1>5, <2>1
  <2>3. CASE Unsent(m)
    BY <2>1, <2>3 DEF Coming, Unsent, Working
  <2>4. CASE m \in joining.list
    <3>1. joining.opened = dialog'.opened
      BY <1>5, <2>1 DEF JoinTaken
    <3>2. QED
      BY <1>5, <2>4, <3>1, JoinedIsSent DEF Coming
  <2>5. QED
    BY <2>2, <2>3, <2>4
<1>6. ASSUME JoinDone, \A m \in Stored \ (shown \cup gap) : Coming(m), JoinDone'
      PROVE  \A m \in Stored' \ (shown' \cup gap') : Coming(m)'
  <2> SUFFICES ASSUME NEW m \in Stored' \ (shown' \cup gap') PROVE Coming(m)'
    OBVIOUS
  <2>1. CASE m \notin Stored
    BY <1>1, <2>1 DEF UnsentMoved, Coming
  <2>2. CASE m \in Stored
    <3>1. Coming(m) /\ m \in Messages /\ "exchange" \in room /\ dialog'.opened = dialog.opened
      BY <1>1, <1>6, <2>2 DEF JoinDone, StagesMoved
    <3>2. QED
      BY <3>1, ComingArrives
  <2>3. QED
    BY <2>1, <2>2
<1>7. QED
  BY <1>1, <1>4, <1>5, <1>6, <1>2 DEF ShownInv, StagesMoved

LEMMA ReadIsPushed ==
    ASSUME LineTypes, Push(<<[type |-> "read"]>>), online
    PROVE  \E i \in DOMAIN outbox' : outbox'[i].type = "read"
<1>1. PICK e \in Requested : e = [type |-> "read"]
  BY DEF Sent, Requested
<1>2. <<e>> \in Seq(Requested) /\ 1 \in DOMAIN <<e>> /\ <<e>>[1] = e /\ Push(<<e>>)
  BY <1>1
<1>3. Len(outbox) + 1 \in DOMAIN outbox' /\ outbox'[Len(outbox) + 1] = e
  BY <1>2, Pushed
<1>4. QED
  BY <1>1, <1>3

\* A page's request to mark as read stays on its way until it is taken.
LEMMA ReadStays ==
    ASSUME LiveSofar, LiveNext, online, online', DialogOpen, DialogOpen', ~TakeRead, ~Close,
           NEW i \in DOMAIN outbox, outbox[i].type = "read"
    PROVE  \E j \in DOMAIN outbox' : outbox'[j].type = "read"
<1> DEFINE There == \E j \in DOMAIN outbox' : outbox'[j].type = "read"
<1>0. LineTypes /\ LiveTypes
  BY DEF LiveSofar, LiveTypes
<1>1. ASSUME outbox # <<>>, outbox' = Tail(outbox), Head(outbox).type # "read" PROVE There
  <2>1. 1 \in DOMAIN outbox /\ Head(outbox) = outbox[1]
    BY <1>0, <1>1, Taking
  <2>2. i # 1
    BY <1>1, <2>1
  <2>3. i - 1 \in DOMAIN outbox' /\ outbox'[i - 1] = outbox[i]
    BY <1>0, <1>1, <2>2, Taking
  <2>4. QED
    BY <2>3
<1>2. ASSUME NEW events \in Seq(Requested), Push(events) PROVE There
  BY <1>0, <1>2, Pushed
<1>3. ASSUME UNCHANGED outbox PROVE There
  BY <1>3
<1>4. CASE TakeJoin \/ TakeLeave \/ TakeVisibility
  BY <1>1, <1>4 DEF TakeJoin, TakeLeave, TakeVisibility, Waits, Take
<1>5. CASE Toggle
  <2>1. /\ <<[type |-> "visibility", active |-> dialog'.visible, opened |-> 0]>> \in Seq(Requested)
        /\ <<[type |-> "read"]>> \in Seq(Requested) /\ <<>> \in Seq(Requested)
    <3>1. dialog'.visible \in BOOLEAN
      BY SofarKept DEF LiveSofar, LiveTypes, ChatTypes
    <3>2. QED
      BY <3>1, LiveBounds DEF Sent, Requested
  <2>2. <<[type |-> "visibility", active |-> dialog'.visible, opened |-> 0]>>
            \o (IF dialog'.visible THEN <<[type |-> "read"]>> ELSE <<>>) \in Seq(Requested)
    BY <2>1, ConcatProperties
  <2>3. QED
    BY <1>2, <1>5, <2>2 DEF Toggle
<1>6. CASE MessageArrives \/ JoinedArrives
  <2>1. <<[type |-> "read"]>> \in Seq(Requested)
    BY DEF Sent, Requested
  <2>2. QED
    BY <1>2, <1>3, <1>6, <2>1 DEF MessageArrives, JoinedArrives
<1>7. CASE \/ JoinRoom \/ ReadElsewhere \/ FetchServed \/ FetchAnswered \/ ListServed
           \/ ListAnswered \/ ClickAll \/ NoticeArrives \/ ReadArrives \/ ReadAllArrives
           \/ RefreshArrives
  BY <1>3, <1>7 DEF JoinRoom, ReadElsewhere, FetchServed, FetchAnswered, ListServed,
                    ListAnswered, ClickAll, NoticeArrives, ReadArrives, ReadAllArrives,
                    RefreshArrives, lineVars
<1>8. ASSUME NEW m \in {0} \cup Messages, Click(m) \/ ClickServed(m) \/ ClickFailed(m)
      PROVE  There
  BY <1>3, <1>8 DEF Click, ClickServed, ClickFailed, lineVars
<1>9. ASSUME NEW c \in Calls, NEW by \in {"peer", "reader"}, Post(c, by) \/ Store(c) \/ EmitAll(c)
      PROVE  There
  BY <1>3, <1>9 DEF Post, Store, EmitAll, lineVars
<1>10. ~Open /\ ~Drop /\ ~Connect
  BY DEF Open, Drop, Connect
<1>11. QED
  BY <1>4, <1>5, <1>6, <1>7, <1>8, <1>9, <1>10 DEF LiveNext, Server, Page, Participants

\* A page that looks asks for what arrives to be marked as read.
LEMMA ReadDueStays ==
    ASSUME LiveSofar, LiveNext, online, online', DialogOpen, DialogOpen',
           dialog'.opened = dialog.opened, dialog.visible, ~TakeRead, ReadDue
    PROVE  ReadDue'
<1>0. LineTypes /\ LiveTypes /\ \A m \in Stored : message'[m].by = message[m].by
  BY StoredStays DEF LiveSofar, LiveTypes
<1>1. ~Close
  BY DEF Close, DialogOpen, LiveSofar, LiveTypes, ChatTypes
<1>2. ASSUME NEW i \in DOMAIN outbox, outbox[i].type = "read" PROVE ReadDue'
  BY <1>1, <1>2, ReadStays DEF ReadDue
<1>3. ASSUME Push(<<[type |-> "read"]>>) PROVE ReadDue'
  BY <1>0, <1>3, ReadIsPushed DEF ReadDue
<1>4. ASSUME NEW i \in DOMAIN inbox, inbox[i].type = "message", message[inbox[i].id].by = "peer"
      PROVE  ReadDue'
  <2>1. PICK e : e = inbox[i]
    OBVIOUS
  <2>2. e.type = "message" /\ message'[e.id].by = "peer"
    BY <1>0, <1>4, <2>1 DEF LiveSofar, StoredInv, StoredCarried, OfStored
  <2>3. CASE StaysIn(i)
    <3>1. PICK j \in DOMAIN inbox' : inbox'[j] = e
      BY <2>1, <2>3 DEF StaysIn
    <3>2. QED
      BY <2>2, <3>1 DEF ReadDue
  <2>4. CASE Head(inbox) = inbox[i] /\ Arrives
    <3>1. MessageArrives
      BY <1>4, <2>4 DEF Arrives, Arrived, JoinedArrives, NoticeArrives, ReadArrives,
                        ReadAllArrives, RefreshArrives
    <3>2. Push(<<[type |-> "read"]>>)
      BY <1>4, <2>4, <3>1 DEF MessageArrives
    <3>3. QED
      BY <1>3, <3>2
  <2>5. QED
    BY <2>3, <2>4, InboxMoves
<1>5. ASSUME NEW i \in DOMAIN inbox, inbox[i].type = "joined", inbox[i].opened = dialog.opened
      PROVE  ReadDue'
  <2>1. CASE StaysIn(i)
    BY <1>5, <2>1 DEF StaysIn, ReadDue
  <2>2. CASE Head(inbox) = inbox[i] /\ Arrives
    <3>1. JoinedArrives
      BY <1>5, <2>2 DEF Arrives, Arrived, MessageArrives, NoticeArrives, ReadArrives,
                        ReadAllArrives, RefreshArrives
    <3>2. Push(<<[type |-> "read"]>>)
      BY <1>5, <2>2, <3>1 DEF JoinedArrives
    <3>3. QED
      BY <1>3, <3>2
  <2>3. QED
    BY <2>1, <2>2, InboxMoves
<1>6. QED
  BY <1>2, <1>4, <1>5 DEF ReadDue

LEMMA ToReadStays ==
    ASSUME LiveSofar, LiveNext
    PROVE  \A m \in Stored' : ToRead(m)' => m \notin Stored \/ ToRead(m)
<1>0. LiveTypes
  BY DEF LiveSofar
<1> DEFINE Goal == \A m \in Stored' : ToRead(m)' => m \notin Stored \/ ToRead(m)
<1>1. ASSUME NEW c \in Calls, Store(c) PROVE Goal
  BY <1>0, <1>1, StoreIs DEF ToRead
<1>2. CASE TakeRead \/ ReadElsewhere
  <2>1. ReadAll \/ UNCHANGED message
    BY <1>2 DEF TakeRead, ReadElsewhere
  <2>2. QED
    BY <1>0, <2>1, ReadAllMarks DEF ToRead
<1>3. ASSUME UNCHANGED message PROVE Goal
  BY <1>3 DEF ToRead
<1>4. QED
  BY <1>1, <1>2, <1>3
     DEF LiveNext, Server, Page, Participants, Post, EmitAll, TakeJoin, JoinRoom, TakeLeave,
         TakeVisibility, Open, Close, Toggle, FetchServed, FetchAnswered, Drop, Connect,
         ListServed, ListAnswered, Click, ClickAll, ClickServed, ClickFailed, MessageArrives,
         JoinedArrives, NoticeArrives, ReadArrives, ReadAllArrives, RefreshArrives, chatVars

\* What an open dialog on a visible page shows of the peer is read, or will be:
\* the page asks for it with what it joins, with each message, and when shown.
LEMMA ReadKept ==
    ASSUME LiveSofar, StageInv, ReadInv, LiveNext
    PROVE  ReadInv'
<1> SUFFICES ASSUME online', DialogOpen', dialog'.visible
             PROVE  \/ JoinSent' \/ JoinTaken'
                    \/ JoinDone' /\ (ReadDue' \/ \A m \in Stored' : ToRead(m)' => Unsent(m)')
  BY DEF ReadInv, Looking
<1>1. /\ StagesMoved /\ UnsentMoved /\ LiveTypes /\ LineTypes
      /\ dialog \in [opened: 0..MaxMoves, visible: BOOLEAN] /\ Stored \subseteq Messages
  BY StagesMove, UnsentMoves, StoredMessages DEF LiveSofar, LiveTypes, ChatTypes
<1> SUFFICES ASSUME ~JoinSent', ~JoinTaken'
             PROVE  JoinDone' /\ (ReadDue' \/ \A m \in Stored' : ToRead(m)' => Unsent(m)')
  OBVIOUS
<1>2. /\ online /\ DialogOpen /\ dialog'.opened = dialog.opened /\ ~JoinSent /\ JoinDone'
      /\ (JoinTaken /\ JoinRoom) \/ JoinDone
  BY <1>1 DEF StagesMoved, StageInv
<1>3. CASE JoinTaken /\ JoinRoom
  <2>1. joining.opened = dialog'.opened
    BY <1>2, <1>3 DEF JoinTaken
  <2>2. ReadDue'
    BY <1>2, <1>3, <2>1, JoinedIsSent DEF ReadDue
  <2>3. QED
    BY <1>2, <2>2
<1>4. CASE ~dialog.visible
  <2>1. Toggle
    BY <1>1, <1>2, <1>4
       DEF LiveNext, Server, Page, Participants, Post, Store, EmitAll, TakeJoin, JoinRoom,
           TakeLeave, TakeVisibility, TakeRead, ReadElsewhere, Open, Close, FetchServed,
           FetchAnswered, Drop, Connect, ListServed, ListAnswered, Click, ClickAll, ClickServed,
           ClickFailed, MessageArrives, JoinedArrives, NoticeArrives, ReadArrives,
           ReadAllArrives, RefreshArrives, chatVars
  <2>2. PICK s : s = <<[type |-> "visibility", active |-> TRUE, opened |-> 0]>>
                         \o <<[type |-> "read"]>>
    OBVIOUS
  <2>3. dialog'.visible = TRUE
    BY <1>1, <1>4, <2>1 DEF Toggle
  <2>4. Push(s)
    BY <2>1, <2>2, <2>3 DEF Toggle
  <2>5. s \in Seq(Requested) /\ 2 \in DOMAIN s /\ s[2].type = "read"
    BY <2>2, LiveBounds DEF Sent, Requested
  <2>6. \E i \in DOMAIN outbox' : outbox'[i].type = "read"
    <3>1. Len(outbox) + 2 \in DOMAIN outbox' /\ outbox'[Len(outbox) + 2] = s[2]
      BY <1>1, <1>2, <2>4, <2>5, Pushed
    <3>2. QED
      BY <2>5, <3>1
  <2>7. QED
    BY <1>2, <2>6 DEF ReadDue
<1>5. CASE JoinDone /\ dialog.visible /\ ~(JoinTaken /\ JoinRoom)
  <2>1. ReadDue \/ \A m \in Stored : ToRead(m) => Unsent(m)
    <3>1. JoinTaken => \/ JoinTaken' /\ joining' = joining
                       \/ JoinRoom /\ JoinDone'
      BY <1>1, <1>2 DEF StagesMoved
    <3>2. QED
      BY <1>2, <1>5, <3>1 DEF ReadInv, Looking
  <2>2. CASE TakeRead
    <3>1. ReadAll
      BY <1>5, <2>2 DEF TakeRead, JoinDone
    <3>2. \A m \in Stored' : ~ToRead(m)'
      BY <1>1, <3>1, ReadAllMarks
    <3>3. QED
      BY <1>2, <3>2
  <2>3. CASE ReadDue /\ ~TakeRead
    BY <1>2, <1>5, <2>3, ReadDueStays
  <2>4. CASE (\A m \in Stored : ToRead(m) => Unsent(m)) /\ ~ReadDue'
    <3>1. ASSUME NEW m \in Stored', ToRead(m)' PROVE Unsent(m)'
      <4>1. m \notin Stored \/ (ToRead(m) /\ m \in Messages /\ Unsent(m))
        BY <1>1, <2>4, <3>1, ToReadStays
      <4>2. CASE m \notin Stored
        BY <1>1, <4>2 DEF UnsentMoved
      <4>3. ASSUME NEW c \in Calls, EmitAll(c), post[c].id = m PROVE FALSE
        <5>1. PICK j \in DOMAIN inbox' : inbox'[j].type = "message" /\ inbox'[j].id = m
          BY <1>2, <1>5, <4>3, MessageIsSent DEF JoinDone
        <5>2. message'[m].by = "peer"
          BY <3>1 DEF ToRead
        <5>3. QED
          BY <2>4, <5>1, <5>2 DEF ReadDue
      <4>4. QED
        BY <1>1, <4>1, <4>2, <4>3 DEF UnsentMoved
    <3>2. QED
      BY <1>2, <3>1
  <2>5. QED
    BY <1>2, <2>1, <2>2, <2>3, <2>4
<1>6. QED
  BY <1>2, <1>3, <1>4, <1>5

\* What stops the reader from looking.
LEMMA LooksOn ==
    ASSUME LiveNext, Looking, ~Looking', dialog \in [opened: 0..MaxMoves, visible: BOOLEAN]
    PROVE  \E cut \in BOOLEAN : LooksAway(cut) /\ UNCHANGED message
<1>1. CASE Close \/ Drop
  BY <1>1 DEF Close, Drop
<1>2. CASE Toggle
  BY <1>2 DEF Toggle, Looking
<1>3. CASE MessageArrives \/ JoinedArrives \/ TakeJoin \/ TakeLeave \/ TakeVisibility \/ TakeRead
  BY <1>3 DEF MessageArrives, JoinedArrives, TakeJoin, TakeLeave, TakeVisibility, TakeRead,
              Arrive, Take, Looking, DialogOpen
<1>4. CASE \/ JoinRoom \/ ReadElsewhere \/ Open \/ FetchServed \/ FetchAnswered \/ Connect
           \/ ListServed \/ ListAnswered \/ ClickAll \/ NoticeArrives \/ ReadArrives
           \/ ReadAllArrives \/ RefreshArrives
  BY <1>4 DEF JoinRoom, ReadElsewhere, Open, FetchServed, FetchAnswered, Connect, ListServed,
              ListAnswered, ClickAll, NoticeArrives, ReadArrives, ReadAllArrives,
              RefreshArrives, Arrive, chatVars, lineVars, Looking, DialogOpen
<1>5. ASSUME NEW m \in {0} \cup Messages, Click(m) \/ ClickServed(m) \/ ClickFailed(m)
      PROVE  FALSE
  BY <1>5 DEF Click, ClickServed, ClickFailed, chatVars, lineVars, Looking, DialogOpen
<1>6. ASSUME NEW c \in Calls, NEW by \in {"peer", "reader"}, Post(c, by) \/ Store(c) \/ EmitAll(c)
      PROVE  FALSE
  BY <1>6 DEF Post, Store, EmitAll, lineVars, Looking, DialogOpen
<1>7. QED
  BY <1>1, <1>2, <1>3, <1>4, <1>5, <1>6 DEF LiveNext, Server, Page, Participants

\* The calls that count on the reader's look are marked when he looks away.
AwayCalls == \A c \in Calls : Working(c) /\ post[c].viewing /\ ~post[c].away => Looking

LEMMA AwayCallsKept ==
    ASSUME LiveSofar, AwayCalls, LiveNext
    PROVE  AwayCalls'
<1>0. /\ LiveTypes /\ ChatTypes /\ dialog \in [opened: 0..MaxMoves, visible: BOOLEAN]
  BY DEF LiveSofar, LiveTypes, ChatTypes
<1>1. ASSUME NEW cut \in BOOLEAN, LooksAway(cut) PROVE AwayCalls'
  BY <1>0, <1>1, WentAway DEF AwayCalls, Working
<1>2. ASSUME NEW c \in Calls, NEW by \in {"peer", "reader"}, Post(c, by) PROVE AwayCalls'
  <2>1. PICK p \in Posts : /\ post' = [post EXCEPT ![c] = p]
                           /\ p.viewing /\ ~p.away => Looking
                           /\ UNCHANGED <<dialog, lineVars>>
    BY <1>0, <1>2, PostStarts
  <2>2. Looking' <=> Looking
    BY <2>1 DEF Looking, DialogOpen, lineVars
  <2>3. QED
    BY <1>0, <2>1, <2>2 DEF AwayCalls, Working, ChatTypes
<1>3. ASSUME NEW c \in Calls, Store(c) PROVE AwayCalls'
  <2>1. PICK n \in Messages :
            /\ post[c] \in Posts /\ Working(c) /\ UNCHANGED <<dialog, lineVars>>
            /\ post' = [post EXCEPT ![c] = [post[c] EXCEPT !.pc = "emit", !.id = n]]
    BY <1>0, <1>3, StoreIs
  <2>2. Looking' <=> Looking
    BY <2>1 DEF Looking, DialogOpen, lineVars
  <2>3. QED
    BY <1>0, <2>1, <2>2 DEF AwayCalls, Working, ChatTypes, Posts
<1>4. ASSUME NEW c \in Calls, EmitAll(c) PROVE AwayCalls'
  <2>1. post' = [post EXCEPT ![c] = NoWork] /\ UNCHANGED <<dialog, online>>
    BY <1>0, <1>4, EmitIs
  <2>2. Looking' <=> Looking
    BY <2>1 DEF Looking, DialogOpen
  <2>3. QED
    BY <1>0, <2>1, <2>2 DEF AwayCalls, Working, ChatTypes
<1>5. ASSUME UNCHANGED post, Looking => Looking' PROVE AwayCalls'
  BY <1>5 DEF AwayCalls, Working
<1>6. UNCHANGED post /\ ~(Looking => Looking') => AwayCalls'
  BY <1>0, <1>1, LooksOn
<1>7. UNCHANGED post => AwayCalls'
  BY <1>5, <1>6
<1>8. CASE Close \/ Toggle \/ Drop
  BY <1>1, <1>7, <1>8 DEF Close, Toggle, Drop
<1>9. CASE \/ TakeJoin \/ JoinRoom \/ TakeLeave \/ TakeVisibility \/ TakeRead \/ ReadElsewhere
           \/ Open \/ FetchServed \/ FetchAnswered \/ MessageArrives \/ JoinedArrives
  BY <1>7, <1>9 DEF TakeJoin, JoinRoom, TakeLeave, TakeVisibility, TakeRead, ReadElsewhere, Open,
                    FetchServed, FetchAnswered, MessageArrives, JoinedArrives
<1>10. CASE \/ Connect \/ ListServed \/ ListAnswered \/ ClickAll \/ NoticeArrives \/ ReadArrives
            \/ ReadAllArrives \/ RefreshArrives
  BY <1>7, <1>10 DEF Connect, ListServed, ListAnswered, ClickAll, NoticeArrives, ReadArrives,
                     ReadAllArrives, RefreshArrives, chatVars
<1>11. ASSUME NEW m \in {0} \cup Messages, Click(m) \/ ClickServed(m) \/ ClickFailed(m)
       PROVE  AwayCalls'
  BY <1>7, <1>11 DEF Click, ClickServed, ClickFailed, chatVars
<1>12. QED
  BY <1>2, <1>3, <1>4, <1>8, <1>9, <1>10, <1>11 DEF LiveNext, Server, Page, Participants

\* A message nobody was told of was sent while the reader looked: when he does
\* not any more, it is shown, or known to have been under way.
LeftFor(m) ==
    \E c \in Calls : /\ Working(c) /\ post[c].pc = "emit" /\ post[c].id = m
                     /\ post[c].viewing /\ post[c].away
UnannouncedLeft ==
    ~Looking => \A m \in Stored : Unannounced(m) => m \in shown \cup gap \cup left \/ LeftFor(m)

LEMMA LeftForMoves ==
    ASSUME LiveSofar, LiveNext, NEW m \in Messages, LeftFor(m)
    PROVE  LeftFor(m)' \/ m \in left'
<1>0. LiveTypes /\ ChatTypes
  BY DEF LiveSofar, LiveTypes
<1>1. PICK c \in Calls : /\ Working(c) /\ post[c].pc = "emit" /\ post[c].id = m
                         /\ post[c].viewing /\ post[c].away
  BY DEF LeftFor
<1>2. ASSUME NEW cut \in BOOLEAN, LooksAway(cut) PROVE LeftFor(m)'
  BY <1>0, <1>1, <1>2, WentAway DEF LeftFor
<1>3. ASSUME UNCHANGED post PROVE LeftFor(m)'
  BY <1>3 DEF LeftFor, Working
<1>4. ASSUME NEW d \in Calls, NEW by \in {"peer", "reader"}, Post(d, by) PROVE LeftFor(m)'
  <2>1. PICK p \in Posts : post' = [post EXCEPT ![d] = p] /\ post[d] = NoWork
    BY <1>0, <1>4, PostStarts
  <2>2. post'[c] = post[c]
    BY <1>0, <1>1, <2>1 DEF Working, ChatTypes
  <2>3. QED
    BY <1>1, <2>2 DEF LeftFor, Working
<1>5. ASSUME NEW d \in Calls, Store(d) PROVE LeftFor(m)'
  <2>1. PICK p : post' = [post EXCEPT ![d] = p]
    BY <1>0, <1>5, StoreIs
  <2>2. post[d].pc = "store"
    BY <1>5 DEF Store
  <2>3. post'[c] = post[c]
    BY <1>0, <1>1, <2>1, <2>2 DEF ChatTypes
  <2>4. QED
    BY <1>1, <2>3 DEF LeftFor, Working
<1>6. ASSUME NEW d \in Calls, EmitAll(d) PROVE LeftFor(m)' \/ m \in left'
  <2>1. CASE d = c
    BY <1>1, <1>6, <2>1 DEF EmitAll
  <2>2. CASE d # c
    <3>1. post' = [post EXCEPT ![d] = NoWork]
      BY <1>0, <1>6, EmitIs
    <3>2. post'[c] = post[c]
      BY <1>0, <2>2, <3>1 DEF ChatTypes
    <3>3. QED
      BY <1>1, <3>2 DEF LeftFor, Working
  <2>3. QED
    BY <2>1, <2>2
<1>7. CASE Close \/ Toggle \/ Drop
  BY <1>2, <1>3, <1>7 DEF Close, Toggle, Drop
<1>8. CASE \/ TakeJoin \/ JoinRoom \/ TakeLeave \/ TakeVisibility \/ TakeRead \/ ReadElsewhere
           \/ Open \/ FetchServed \/ FetchAnswered \/ MessageArrives \/ JoinedArrives
  BY <1>3, <1>8 DEF TakeJoin, JoinRoom, TakeLeave, TakeVisibility, TakeRead, ReadElsewhere, Open,
                    FetchServed, FetchAnswered, MessageArrives, JoinedArrives
<1>9. CASE \/ Connect \/ ListServed \/ ListAnswered \/ ClickAll \/ NoticeArrives \/ ReadArrives
           \/ ReadAllArrives \/ RefreshArrives
  BY <1>3, <1>9 DEF Connect, ListServed, ListAnswered, ClickAll, NoticeArrives, ReadArrives,
                    ReadAllArrives, RefreshArrives, chatVars
<1>10. ASSUME NEW n \in {0} \cup Messages, Click(n) \/ ClickServed(n) \/ ClickFailed(n)
       PROVE  LeftFor(m)'
  BY <1>3, <1>10 DEF Click, ClickServed, ClickFailed, chatVars
<1>11. QED
  BY <1>4, <1>5, <1>6, <1>7, <1>8, <1>9, <1>10 DEF LiveNext, Server, Page, Participants

LEMMA LeftGrows == LiveNext => left \subseteq left'
<1> SUFFICES ASSUME LiveNext PROVE left \subseteq left'
  OBVIOUS
<1>1. CASE Close \/ Toggle \/ Drop
  BY <1>1 DEF Close, Toggle, Drop, LooksAway
<1>2. ASSUME NEW c \in Calls, NEW by \in {"peer", "reader"}, EmitAll(c) \/ Post(c, by) \/ Store(c)
      PROVE  left \subseteq left'
  BY <1>2 DEF EmitAll, Post, Store
<1>3. ASSUME NEW m \in {0} \cup Messages, Click(m) \/ ClickServed(m) \/ ClickFailed(m)
      PROVE  left \subseteq left'
  BY <1>3 DEF Click, ClickServed, ClickFailed, chatVars
<1>4. CASE \/ TakeJoin \/ JoinRoom \/ TakeLeave \/ TakeVisibility \/ TakeRead \/ FetchAnswered
           \/ ReadElsewhere \/ Open \/ FetchServed \/ MessageArrives \/ JoinedArrives
  BY <1>4 DEF TakeJoin, JoinRoom, TakeLeave, TakeVisibility, TakeRead, ReadElsewhere, Open,
              FetchServed, FetchAnswered, MessageArrives, JoinedArrives
<1>5. CASE \/ Connect \/ ListServed \/ ListAnswered \/ ClickAll \/ NoticeArrives \/ ReadArrives
           \/ ReadAllArrives \/ RefreshArrives
  BY <1>5 DEF Connect, ListServed, ListAnswered, ClickAll, NoticeArrives, ReadArrives,
              ReadAllArrives, RefreshArrives, chatVars
<1>6. QED
  BY <1>1, <1>2, <1>3, <1>4, <1>5 DEF LiveNext, Server, Page, Participants

LEMMA UnannouncedKept ==
    ASSUME LiveSofar, AwayCalls, UnannouncedLeft, LiveNext
    PROVE  UnannouncedLeft'
<1> SUFFICES ASSUME ~Looking', NEW m \in Stored', Unannounced(m)'
             PROVE  m \in shown' \cup gap' \cup left' \/ LeftFor(m)'
  BY DEF UnannouncedLeft
<1>0. /\ LiveTypes /\ ChatTypes /\ shown \subseteq shown'
      /\ gap \subseteq gap' /\ left \subseteq left'
      /\ NoticesKept /\ Stored \subseteq Messages
      /\ dialog \in [opened: 0..MaxMoves, visible: BOOLEAN]
      /\ \A n \in Stored : message'[n].by = message[n].by
  BY ShownGrows, LeftGrows, NoticesStay, StoredMessages, StoredStays
     DEF LiveSofar, LiveTypes, ChatTypes
<1>1. m \in Stored => Unannounced(m)
  BY <1>0 DEF Unannounced, NoticesKept
<1>2. ASSUME NEW cut \in BOOLEAN, LooksAway(cut), UNCHANGED message
      PROVE  m \in shown \/ m \in left'
  <2>1. m \in Stored
    BY <1>2 DEF Stored
  <2>2. QED
    BY <1>1, <1>2, <2>1 DEF LooksAway, Unannounced
<1>3. CASE Looking
  BY <1>0, <1>2, <1>3, LooksOn
<1>4. CASE ~Looking /\ m \in Stored
  BY <1>0, <1>1, <1>4, LeftForMoves DEF UnannouncedLeft
<1>5. CASE ~Looking /\ m \notin Stored
  <2>1. PICK c \in Calls : Store(c)
    <3>1. Stored' # Stored
      BY <1>5
    <3>2. ReadAll => Stored' = Stored
      BY <1>0, ReadAllMarks
    <3>3. ~UNCHANGED message
      BY <3>1 DEF Stored
    <3>4. ~(TakeRead \/ ReadElsewhere)
      BY <3>1, <3>2, <3>3 DEF TakeRead, ReadElsewhere
    <3>5. QED
      BY <3>3, <3>4
         DEF LiveNext, Server, Page, Participants, Post, EmitAll, TakeJoin, JoinRoom, TakeLeave,
             TakeVisibility, Open, Close, Toggle, FetchServed, FetchAnswered, Drop, Connect,
             ListServed, ListAnswered, Click, ClickAll, ClickServed, ClickFailed, MessageArrives,
             JoinedArrives, NoticeArrives, ReadArrives, ReadAllArrives, RefreshArrives, chatVars
  <2>2. PICK n \in Messages :
            /\ Stored' = Stored \cup {n} /\ Working(c) /\ post[c] \in Posts
            /\ message'[n] = [by |-> post[c].by, read |-> FALSE]
            /\ notice'[n] = IF post[c].by = "peer" /\ ~post[c].viewing THEN "unread" ELSE notice[n]
            /\ post' = [post EXCEPT ![c] = [post[c] EXCEPT !.pc = "emit", !.id = n]]
    BY <1>0, <2>1, StoreIs
  <2>3. m = n
    BY <1>5, <2>2
  <2>4. post[c].viewing
    BY <2>2, <2>3 DEF Unannounced
  <2>5. post[c].away
    BY <1>5, <2>2, <2>4 DEF AwayCalls
  <2>6. post'[c] = [post[c] EXCEPT !.pc = "emit", !.id = n]
    BY <1>0, <2>2 DEF ChatTypes
  <2>7. post[c] = [by |-> post[c].by, pc |-> post[c].pc, viewing |-> post[c].viewing,
                   away |-> post[c].away, id |-> post[c].id]
    BY <2>2 DEF Posts
  <2>8. post'[c] = [by |-> post[c].by, pc |-> "emit", viewing |-> post[c].viewing,
                    away |-> post[c].away, id |-> n]
    BY <2>6, <2>7
  <2>9. /\ post'[c] # NoWork /\ post'[c].pc = "emit" /\ post'[c].id = m
        /\ post'[c].viewing /\ post'[c].away
    BY <2>3, <2>4, <2>5, <2>8 DEF NoWork
  <2>10. QED
    BY <2>9 DEF LeftFor, Working
<1>6. QED
  BY <1>3, <1>4, <1>5

-----------------------------------------------------------------------------
LEMMA DialogInit == LiveInit => ShownInv /\ StageInv /\ ReadInv /\ AwayCalls /\ UnannouncedLeft
<1> SUFFICES ASSUME LiveInit PROVE ShownInv /\ StageInv /\ ReadInv /\ AwayCalls /\ UnannouncedLeft
  OBVIOUS
<1>1. ~DialogOpen /\ ~Looking
  BY DEF LiveInit, DialogOpen, Looking
<1>2. Stored = {}
  BY DEF LiveInit, Stored
<1>3. \A c \in Calls : ~Working(c)
  BY DEF LiveInit, Working
<1>4. QED
  BY <1>1, <1>2, <1>3 DEF ShownInv, StageInv, ReadInv, AwayCalls, UnannouncedLeft

LEMMA SofarStutters == LiveSofar /\ UNCHANGED liveVars => LiveSofar'
<1> SUFFICES ASSUME LiveSofar, UNCHANGED liveVars PROVE LiveSofar'
  OBVIOUS
<1>1. UNCHANGED <<chatVars, notice, looks, feedVars, lineVars>>
  BY DEF liveVars
<1>2. ChatTypes' /\ LineTypes' /\ BellTypes'
  BY <1>1 DEF LiveSofar, LiveTypes, ChatTypes, LineTypes, BellTypes, chatVars, feedVars, lineVars,
              Unread
<1>3. RoomLeft'
  BY <1>1 DEF LiveSofar, LiveTypes, RoomLeft, Working, Unstored, chatVars
<1>4. StoredShown' /\ Noticed'
  BY <1>1 DEF LiveSofar, StoredInv, StoredShown, Noticed, Working, Stored, chatVars, feedVars
<1>5. StoredCarried'
  BY <1>1 DEF LiveSofar, StoredInv, StoredCarried, OfStored, Stored, chatVars, lineVars
<1>6. BellAlone'
  BY <1>1 DEF LiveSofar, StoredInv, BellAlone, DialogOpen, chatVars, lineVars
<1>7. QED
  BY <1>2, <1>3, <1>4, <1>5, <1>6 DEF LiveSofar, LiveTypes, StoredInv

LEMMA StagesStutter ==
    UNCHANGED liveVars => /\ JoinSent' <=> JoinSent
                          /\ JoinTaken' <=> JoinTaken
                          /\ JoinDone' <=> JoinDone
                          /\ Looking' <=> Looking
                          /\ DialogOpen' <=> DialogOpen
                          /\ \A m : Unsent(m)' <=> Unsent(m)
BY DEF liveVars, chatVars, lineVars, JoinSent, JoinTaken, JoinDone, NoneAfter, Looking, DialogOpen,
       Unsent, Working

LEMMA ShownStutters == ShownInv /\ UNCHANGED liveVars => ShownInv'
<1> SUFFICES ASSUME ShownInv, UNCHANGED liveVars PROVE ShownInv'
  OBVIOUS
<1>1. \A m : Coming(m) => Coming(m)'
  BY StagesStutter DEF Coming, liveVars, chatVars, lineVars
<1>2. UNCHANGED <<online, joining, gap, shown, message>>
  BY DEF liveVars, chatVars, lineVars
<1>3. QED
  BY <1>1, <1>2, StagesStutter DEF ShownInv, Stored

LEMMA StageStutters == StageInv /\ UNCHANGED liveVars => StageInv'
BY StagesStutter DEF StageInv, liveVars, lineVars

LEMMA ReadStutters == ReadInv /\ UNCHANGED liveVars => ReadInv'
<1> SUFFICES ASSUME ReadInv, UNCHANGED liveVars PROVE ReadInv'
  OBVIOUS
<1>1. UNCHANGED <<message, outbox, inbox, dialog>>
  BY DEF liveVars, chatVars, lineVars
<1>2. ReadDue => ReadDue'
  BY <1>1 DEF ReadDue
<1>3. QED
  BY <1>1, <1>2, StagesStutter DEF ReadInv, Stored, ToRead

LEMMA AwayStutters ==
    AwayCalls /\ UnannouncedLeft /\ UNCHANGED liveVars => AwayCalls' /\ UnannouncedLeft'
<1> SUFFICES ASSUME AwayCalls, UnannouncedLeft, UNCHANGED liveVars
             PROVE  AwayCalls' /\ UnannouncedLeft'
  OBVIOUS
<1>1. UNCHANGED <<message, notice, post, shown, gap, left>>
  BY DEF liveVars, chatVars
<1>2. QED
  BY <1>1, StagesStutter DEF AwayCalls, UnannouncedLeft, Stored, Unannounced, LeftFor, Working

\* The rows, the numbers and the messages under way have their types for every
\* set of calls and every bound: the bell's number stays between 0 and the
\* number of messages although it is counted up and down (NotificationsButton).
THEOREM LiveTypesHold == LiveSpec => []LiveTypeOK
<1>1. LiveInit => LiveSofar
  BY SofarInit
<1>2. LiveSofar /\ [LiveNext]_liveVars => LiveSofar'
  BY SofarKept, SofarStutters
<1>3. LiveSofar => LiveTypeOK
  BY LiveTyped DEF LiveSofar
<1>4. QED
  BY <1>1, <1>2, <1>3, PTL DEF LiveSpec

\* An open dialog has every message once nothing is on its way, through
\* closing, hiding and lost connections, but for what is sent between join's
\* list and its rooms: as long as list returns the whole chat.
THEOREM DialogShows == MaxMessages <= ListLimit => (LiveSpec => []ShownUnlessInGap)
<1> SUFFICES ASSUME MaxMessages <= ListLimit PROVE LiveSpec => []ShownUnlessInGap
  OBVIOUS
<1>1. LiveInit => LiveSofar /\ ShownInv
  BY SofarInit, DialogInit
<1>2. LiveSofar /\ ShownInv /\ [LiveNext]_liveVars => (LiveSofar /\ ShownInv)'
  BY SofarKept, SofarStutters, ShownKept, ShownStutters
<1>3. ShownInv => ShownUnlessInGap
  BY DEF ShownInv, ShownUnlessInGap, Quiet, JoinSent, JoinTaken, Coming, Unsent, Working
<1>4. QED
  BY <1>1, <1>2, <1>3, PTL DEF LiveSpec

\* What the reader was not told of he has, or he stopped looking while it was
\* under way: create decides before its transaction whether it announces.
THEOREM NothingGoesUnnoticed == MaxMessages <= ListLimit => (LiveSpec => []AnnouncedOrShown)
<1> SUFFICES ASSUME MaxMessages <= ListLimit PROVE LiveSpec => []AnnouncedOrShown
  OBVIOUS
<1> DEFINE I == LiveSofar /\ ShownInv /\ AwayCalls /\ UnannouncedLeft
<1>1. LiveInit => I
  BY SofarInit, DialogInit
<1>2. I /\ [LiveNext]_liveVars => I'
  BY SofarKept, SofarStutters, ShownKept, ShownStutters, AwayCallsKept, UnannouncedKept,
     AwayStutters
<1>3. I => AnnouncedOrShown
  <2> SUFFICES ASSUME I, Quiet PROVE AnnouncedOrShown
    BY DEF AnnouncedOrShown
  <2>1. CASE Looking
    BY <2>1 DEF ShownInv, AnnouncedOrShown, Quiet, JoinSent, JoinTaken, Coming, Unsent, Working,
                Looking
  <2>2. CASE ~Looking
    BY <2>2 DEF UnannouncedLeft, Unannounced, LeftFor, Working, AnnouncedOrShown, Quiet
  <2>3. QED
    BY <2>1, <2>2
<1>4. QED
  BY <1>1, <1>2, <1>3, PTL DEF LiveSpec

\* What an open dialog on a visible page has shown is marked as read once
\* nothing is on its way, also what came by the list of a join.
THEOREM LookingReads == LiveSpec => []LookedAtIsRead
<1> DEFINE I == LiveSofar /\ StageInv /\ ReadInv
<1>1. LiveInit => I
  BY SofarInit, DialogInit
<1>2. I /\ [LiveNext]_liveVars => I'
  BY SofarKept, SofarStutters, StageKept, StageStutters, ReadKept, ReadStutters
<1>3. I => LookedAtIsRead
  <2> SUFFICES ASSUME I, Quiet, Looking, NEW m \in shown, message[m].by = "peer"
               PROVE  message[m].read
    BY DEF LookedAtIsRead
  <2>1. m \in Stored
    BY DEF LiveSofar, StoredInv, StoredShown
  <2>2. ~Unsent(m) /\ ~JoinSent /\ ~JoinTaken /\ ~ReadDue
    BY DEF Quiet, Unsent, Working, JoinSent, JoinTaken, ReadDue
  <2>3. QED
    BY <2>1, <2>2 DEF ReadInv, ToRead
<1>4. QED
  BY <1>1, <1>2, <1>3, PTL DEF LiveSpec
-----------------------------------------------------------------------------
(* The bell.  While no list is on its way, its items are what the server    *)
(* had, and what they will be when all that is sent has arrived is what the *)
(* server has now: but for what it has not told of yet, and for what the    *)
(* bell has asked it to mark.                                               *)

Marks == {"none", "unread", "read"}
Tells(e, m) == e.type = "notice" /\ e.id = m
Reads(e, m) == e.type = "readAll" \/ (e.type = "noticeRead" /\ e.id = m)

\* What the bell makes of m when e arrives, and when all that is in s has.
After(old, e, m) ==
    IF Reads(e, m) /\ old # "none" THEN "read"
    ELSE IF Tells(e, m) /\ old = "none" THEN "unread" ELSE old
Told(s, m) == \E i \in DOMAIN s : Tells(s[i], m)
ReadIn(s, m) == \E i \in DOMAIN s : Reads(s[i], m)
ReadAfter(s, m) == \E i, j \in DOMAIN s : i < j /\ Tells(s[i], m) /\ Reads(s[j], m)
Ends(old, s, m) ==
    IF \/ old = "read"
       \/ old = "unread" /\ ReadIn(s, m)
       \/ old = "none" /\ ReadAfter(s, m)
    THEN "read"
    ELSE IF old = "none" /\ Told(s, m) THEN "unread" ELSE old

\* The first the bell hears of a notification that is read already.
TooLate(s) ==
    \E i \in DOMAIN s : /\ s[i].type = "notice" /\ s[i].late /\ items[s[i].id] = "none"
                        /\ \A j \in DOMAIN s : j < i => ~Tells(s[j], s[i].id)
Refreshes(s) == \E i \in DOMAIN s : s[i].type = "refresh"

Agrees(end, m) ==
    \/ end = notice[m]
    \/ end = "none" /\ Unsent(m)
    \/ end = "read" /\ notice[m] = "unread" /\ clicks \cap {0, m} # {}
Foreseen == \/ Refreshes(inbox) \/ TooLate(inbox)
            \/ \A m \in Messages : Agrees(Ends(items[m], inbox, m), m)

\* Only what the bell has is marked.
MarksItems ==
    /\ \A m \in Messages \cap clicks : items[m] # "none"
    /\ \A i \in DOMAIN inbox : inbox[i].type = "noticeRead" => items[inbox[i].id] # "none"

BellCurrent == looks = "bell" /\ online /\ list = NoWork /\ ~stale
BellRight == unread = Cardinality(Unread(items)) /\ MarksItems /\ Foreseen
ItemsInv == BellCurrent => BellRight

\* A list answered with no word since is what the server has, but for what no
\* page was told of yet.
ListRight ==
    /\ \A m \in Messages \cap clicks : list.of[m] # "none"
    /\ inbox = <<>> => \A m \in Messages : \/ list.of[m] = notice[m]
                                           \/ list.of[m] = "none" /\ Unsent(m)
ListFresh == looks = "bell" /\ online /\ list # NoWork /\ list.pc = "answered" /\ ~list.overtaken
ListInv == ListFresh => ListRight

-----------------------------------------------------------------------------
LEMMA EndsNothing ==
    ASSUME NEW old \in Marks, NEW m \in Messages
    PROVE  Ends(old, <<>>, m) = old
BY DEF Ends, Marks, Told, ReadIn, ReadAfter

LEMMA EndsIsMark ==
    ASSUME NEW old \in Marks, NEW s, NEW m
    PROVE  Ends(old, s, m) \in Marks
BY DEF Ends, Marks

LEMMA OneMore ==
    ASSUME NEW s \in Seq(Received), NEW e \in Received, NEW t, t = Append(s, e)
    PROVE  /\ t # <<>> /\ Len(s) + 1 \in DOMAIN t /\ Len(s) + 1 \notin DOMAIN s
           /\ t[Len(s) + 1] = e /\ t \in Seq(Received) /\ Len(s) \in Nat
           /\ \A i \in DOMAIN s : i \in DOMAIN t /\ t[i] = s[i] /\ i < Len(s) + 1
           /\ \A i \in DOMAIN t : i = Len(s) + 1 \/ (i \in DOMAIN s /\ t[i] = s[i])
<1>1. /\ DOMAIN s = 1..Len(s) /\ Len(s) \in Nat /\ t \in Seq(Received) /\ Len(t) = Len(s) + 1
      /\ t # <<>> /\ t[Len(s) + 1] = e /\ \A i \in 1..Len(s) : t[i] = s[i]
  BY AppendProperties, LenProperties
<1>2. DOMAIN t = 1..Len(s) + 1
  BY <1>1, LenProperties
<1>3. QED
  BY <1>1, <1>2

\* What is sent changes what will be as if it came last.
LEMMA EndsSent ==
    ASSUME NEW s \in Seq(Received), NEW e \in Received, NEW t, t = Append(s, e),
           NEW old \in Marks, NEW m \in Messages
    PROVE  Ends(old, t, m) = After(Ends(old, s, m), e, m)
<1>1. Told(t, m) <=> (Told(s, m) \/ Tells(e, m))
  BY OneMore DEF Told
<1>2. ReadIn(t, m) <=> (ReadIn(s, m) \/ Reads(e, m))
  BY OneMore DEF ReadIn
<1>3. ~(Tells(e, m) /\ Reads(e, m))
  BY DEF Tells, Reads
<1>4. ReadAfter(t, m) <=> (ReadAfter(s, m) \/ (Told(s, m) /\ Reads(e, m)))
  <2>1. ReadAfter(s, m) => ReadAfter(t, m)
    BY OneMore DEF ReadAfter
  <2>2. Told(s, m) /\ Reads(e, m) => ReadAfter(t, m)
    BY OneMore DEF ReadAfter, Told
  <2>3. ASSUME NEW i \in DOMAIN t, NEW j \in DOMAIN t, i < j, Tells(t[i], m), Reads(t[j], m)
        PROVE  ReadAfter(s, m) \/ (Told(s, m) /\ Reads(e, m))
    <3>1. i # Len(s) + 1
      BY <2>3, OneMore, LenProperties
    <3>2. i \in DOMAIN s /\ t[i] = s[i]
      BY <3>1, OneMore
    <3>3. QED
      BY <2>3, <3>2, OneMore DEF ReadAfter, Told
  <2>4. QED
    BY <2>1, <2>2, <2>3 DEF ReadAfter
<1>5. ReadAfter(s, m) => Told(s, m)
  BY DEF ReadAfter, Told
<1>6. CASE old = "none"
  BY <1>1, <1>2, <1>3, <1>4, <1>5, <1>6 DEF Ends, After
<1>7. CASE old = "unread"
  BY <1>1, <1>2, <1>3, <1>4, <1>5, <1>7 DEF Ends, After
<1>8. CASE old = "read"
  BY <1>1, <1>2, <1>3, <1>4, <1>5, <1>8 DEF Ends, After
<1>9. QED
  BY <1>6, <1>7, <1>8 DEF Marks

LEMMA OneLess ==
    ASSUME NEW s \in Seq(Received), s # <<>>, NEW t, t = Tail(s)
    PROVE  /\ t \in Seq(Received) /\ Head(s) \in Received /\ 1 \in DOMAIN s /\ s[1] = Head(s)
           /\ DOMAIN s = 1..Len(s) /\ Len(s) \in Nat
           /\ \A i \in DOMAIN t : i + 1 \in DOMAIN s /\ t[i] = s[i + 1] /\ i \in Nat /\ i >= 1
           /\ \A i \in DOMAIN s : i # 1 => /\ i - 1 \in DOMAIN t /\ t[i - 1] = s[i] /\ i > 1
BY HeadTailProperties, LenProperties

\* And what arrives, as if it were in the bell before.
LEMMA EndsArrived ==
    ASSUME NEW s \in Seq(Received), s # <<>>, NEW t, t = Tail(s),
           NEW old \in Marks, NEW m \in Messages
    PROVE  Ends(After(old, Head(s), m), t, m) = Ends(old, s, m)
<1> DEFINE e == Head(s)
<1>1. Told(s, m) <=> (Tells(e, m) \/ Told(t, m))
  <2>1. Told(t, m) => Told(s, m)
    BY OneLess DEF Told
  <2>2. Tells(e, m) => Told(s, m)
    BY OneLess DEF Told
  <2>3. ASSUME NEW i \in DOMAIN s, Tells(s[i], m) PROVE Tells(e, m) \/ Told(t, m)
    <3>1. i # 1 => i - 1 \in DOMAIN t /\ t[i - 1] = s[i]
      BY OneLess
    <3>2. i = 1 => s[i] = e
      BY OneLess
    <3>3. QED
      BY <2>3, <3>1, <3>2 DEF Told
  <2>4. QED
    BY <2>1, <2>2, <2>3 DEF Told
<1>2. ReadIn(s, m) <=> (Reads(e, m) \/ ReadIn(t, m))
  <2>1. ReadIn(t, m) => ReadIn(s, m)
    BY OneLess DEF ReadIn
  <2>2. Reads(e, m) => ReadIn(s, m)
    BY OneLess DEF ReadIn
  <2>3. ASSUME NEW i \in DOMAIN s, Reads(s[i], m) PROVE Reads(e, m) \/ ReadIn(t, m)
    <3>1. i # 1 => i - 1 \in DOMAIN t /\ t[i - 1] = s[i]
      BY OneLess
    <3>2. i = 1 => s[i] = e
      BY OneLess
    <3>3. QED
      BY <2>3, <3>1, <3>2 DEF ReadIn
  <2>4. QED
    BY <2>1, <2>2, <2>3 DEF ReadIn
<1>3. ~(Tells(e, m) /\ Reads(e, m))
  BY DEF Tells, Reads
<1>4. ReadAfter(s, m) <=> (ReadAfter(t, m) \/ (Tells(e, m) /\ ReadIn(t, m)))
  <2>1. ASSUME NEW i \in DOMAIN t, NEW j \in DOMAIN t, i < j, Tells(t[i], m), Reads(t[j], m)
        PROVE  ReadAfter(s, m)
    <3>1. /\ i + 1 \in DOMAIN s /\ j + 1 \in DOMAIN s /\ i + 1 < j + 1
          /\ s[i + 1] = t[i] /\ s[j + 1] = t[j]
      BY <2>1, OneLess
    <3>2. QED
      BY <2>1, <3>1 DEF ReadAfter
  <2>2. ASSUME NEW j \in DOMAIN t, Tells(e, m), Reads(t[j], m)
        PROVE  ReadAfter(s, m)
    <3>1. /\ 1 \in DOMAIN s /\ j + 1 \in DOMAIN s /\ 1 < j + 1
          /\ s[1] = e /\ s[j + 1] = t[j]
      BY <2>2, OneLess
    <3>2. QED
      BY <2>2, <3>1 DEF ReadAfter
  <2>3. ASSUME NEW i \in DOMAIN s, NEW j \in DOMAIN s, i < j, Tells(s[i], m), Reads(s[j], m)
        PROVE  ReadAfter(t, m) \/ (Tells(e, m) /\ ReadIn(t, m))
    <3>1. j # 1 /\ j - 1 \in DOMAIN t /\ t[j - 1] = s[j]
      BY <2>3, OneLess
    <3>2. CASE i = 1
      BY <2>3, <3>1, <3>2, OneLess DEF ReadIn
    <3>3. CASE i # 1
      <4>1. i - 1 \in DOMAIN t /\ t[i - 1] = s[i] /\ i - 1 < j - 1
        BY <2>3, <3>3, OneLess
      <4>2. QED
        BY <2>3, <3>1, <4>1 DEF ReadAfter
    <3>4. QED
      BY <3>2, <3>3
  <2>4. QED
    BY <2>1, <2>2, <2>3 DEF ReadAfter, ReadIn
<1>5. ReadAfter(t, m) => ReadIn(t, m) /\ Told(t, m)
  BY DEF ReadAfter, ReadIn, Told
<1>6. CASE old = "none"
  BY <1>1, <1>2, <1>3, <1>4, <1>5, <1>6 DEF Ends, After
<1>7. CASE old = "unread"
  BY <1>1, <1>2, <1>3, <1>4, <1>5, <1>7 DEF Ends, After
<1>8. CASE old = "read"
  BY <1>1, <1>2, <1>3, <1>4, <1>5, <1>8 DEF Ends, After
<1>9. QED
  BY <1>6, <1>7, <1>8 DEF Marks

LEMMA BellTyped ==
    ASSUME LiveSofar
    PROVE  /\ LiveTypes /\ LineTypes /\ inbox \in Seq(Received)
           /\ items \in Notices /\ notice \in Notices /\ unread \in Nat
           /\ \A m \in Messages : items[m] \in Marks /\ notice[m] \in Marks
BY DEF LiveSofar, LiveTypes, LineTypes, BellTypes, Notices, Marks

LEMMA SendsOne ==
    ASSUME LiveSofar, online, NEW e \in Received, Emit(<<e>>)
    PROVE  inbox' = Append(inbox, e)
BY BellTyped, AppendIsConcat DEF Emit

LEMMA EndsSentHere ==
    ASSUME LiveSofar, NEW e \in Received, inbox' = Append(inbox, e), UNCHANGED items,
           NEW m \in Messages
    PROVE  Ends(items[m], inbox, m)' = After(Ends(items[m], inbox, m), e, m)
<1>1. PICK old \in Marks : old = items[m] /\ old = items'[m]
  BY BellTyped
<1>2. PICK s \in Seq(Received) : s = inbox
  BY BellTyped
<1>3. \A t : t = Append(s, e) => Ends(old, t, m) = After(Ends(old, s, m), e, m)
  BY EndsSent
<1>4. QED
  BY <1>1, <1>2, <1>3

\* What is sent is foreseen, if it makes the bell end as the server has it.
LEMMA ForeseenSent ==
    ASSUME LiveSofar, Foreseen, NEW e \in Received, inbox' = Append(inbox, e), UNCHANGED items,
           \A m \in Messages : \A end \in Marks :
               end = Ends(items[m], inbox, m) /\ Agrees(end, m)
                   => Agrees(After(end, e, m), m)' \/ TooLate(inbox)'
    PROVE  Foreseen'
<1>0. inbox \in Seq(Received) /\ \A m \in Messages : items[m] \in Marks
  BY BellTyped
<1>1. CASE Refreshes(inbox)
  <2>1. Refreshes(inbox)'
    BY <1>0, <1>1, OneMore DEF Refreshes
  <2>2. QED
    BY <2>1 DEF Foreseen
<1>2. CASE TooLate(inbox)
  <2>1. PICK i \in DOMAIN inbox :
            /\ inbox[i].type = "notice" /\ inbox[i].late /\ items[inbox[i].id] = "none"
            /\ \A j \in DOMAIN inbox : j < i => ~Tells(inbox[j], inbox[i].id)
    BY <1>2 DEF TooLate
  <2>2. i \in DOMAIN inbox' /\ inbox'[i] = inbox[i] /\ i < Len(inbox) + 1
    BY <1>0, OneMore
  <2>3. ASSUME NEW j \in DOMAIN inbox', j < i PROVE ~Tells(inbox'[j], inbox[i].id)
    <3>1. j # Len(inbox) + 1
      BY <1>0, <2>2, <2>3, LenProperties
    <3>2. j \in DOMAIN inbox /\ inbox'[j] = inbox[j]
      BY <1>0, <3>1, OneMore
    <3>3. QED
      BY <2>1, <2>3, <3>2
  <2>4. TooLate(inbox)'
    BY <2>1, <2>2, <2>3 DEF TooLate
  <2>5. QED
    BY <2>4 DEF Foreseen
<1>3. CASE \A m \in Messages : Agrees(Ends(items[m], inbox, m), m)
  <2> SUFFICES ASSUME ~TooLate(inbox)' PROVE Foreseen'
    BY DEF Foreseen
  <2>1. ASSUME NEW m \in Messages PROVE Agrees(Ends(items[m], inbox, m), m)'
    <3>1. PICK end \in Marks : end = Ends(items[m], inbox, m)
      BY <1>0, EndsIsMark
    <3>2. Agrees(After(end, e, m), m)'
      BY <1>3, <3>1
    <3>3. Ends(items[m], inbox, m)' = After(end, e, m)
      BY <3>1, EndsSentHere
    <3>4. QED
      BY <3>2, <3>3 DEF Agrees
  <2>2. QED
    BY <2>1 DEF Foreseen
<1>4. QED
  BY <1>1, <1>2, <1>3 DEF Foreseen

\* What the bell and its line do not take part in is foreseen as it was.
LEMMA ForeseenStays ==
    ASSUME LiveSofar, Foreseen, UNCHANGED <<items, inbox>>,
           \A m \in Messages : \A end \in Marks :
               end = Ends(items[m], inbox, m) /\ Agrees(end, m) => Agrees(end, m)'
    PROVE  Foreseen'
<1>1. Refreshes(inbox) \/ TooLate(inbox) => Foreseen'
  BY DEF Foreseen, Refreshes, TooLate
<1>2. CASE \A m \in Messages : Agrees(Ends(items[m], inbox, m), m)
  <2>1. ASSUME NEW m \in Messages PROVE Agrees(Ends(items[m], inbox, m), m)'
    <3>1. PICK end \in Marks : end = Ends(items[m], inbox, m)
      BY BellTyped, EndsIsMark
    <3>2. Agrees(end, m)' /\ Ends(items[m], inbox, m)' = end
      BY <1>2, <3>1
    <3>3. QED
      BY <3>2 DEF Agrees
  <2>2. QED
    BY <2>1 DEF Foreseen
<1>3. QED
  BY <1>1, <1>2 DEF Foreseen

LEMMA MarksSent ==
    ASSUME LiveSofar, MarksItems, NEW e \in Received, inbox' = Append(inbox, e),
           UNCHANGED items, clicks' \subseteq clicks,
           e.type = "noticeRead" => items[e.id] # "none"
    PROVE  MarksItems'
<1>1. \A i \in DOMAIN inbox' : inbox'[i] = e \/ \E j \in DOMAIN inbox : inbox'[i] = inbox[j]
  BY BellTyped, OneMore
<1>2. QED
  BY <1>1 DEF MarksItems

-----------------------------------------------------------------------------
LEMMA PostRight ==
    ASSUME LiveSofar, BellRight, NEW c \in Calls, NEW by \in {"peer", "reader"}, Post(c, by)
    PROVE  BellRight'
<1>0. ChatTypes
  BY DEF LiveSofar, LiveTypes
<1>1. PICK p \in Posts : /\ post' = [post EXCEPT ![c] = p] /\ post[c] = NoWork
                         /\ UNCHANGED <<notice, feedVars, lineVars>>
  BY <1>0, PostStarts
<1>2. UNCHANGED <<notice, items, unread, clicks, inbox>>
  BY <1>1 DEF feedVars, lineVars
<1>3. \A m : Unsent(m) => Unsent(m)'
  BY <1>0, <1>1 DEF Unsent, Working, ChatTypes
<1>4. \A m \in Messages : \A end \in Marks : Agrees(end, m) => Agrees(end, m)'
  BY <1>2, <1>3 DEF Agrees
<1>5. Foreseen'
  BY <1>2, <1>4, ForeseenStays DEF BellRight
<1>6. QED
  BY <1>2, <1>5 DEF BellRight, MarksItems, Unread

\* What is stored has not been told of: the bell ends without it until then.
LEMMA StoreRight ==
    ASSUME LiveSofar, BellRight, NEW c \in Calls, Store(c)
    PROVE  BellRight'
<1>0. ChatTypes /\ LiveTypes
  BY DEF LiveSofar, LiveTypes
<1>1. PICK n \in Messages :
          /\ n \notin Stored /\ post[c] \in Posts
          /\ \A m \in Messages \ {n} : notice'[m] = notice[m]
          /\ post' = [post EXCEPT ![c] = [post[c] EXCEPT !.pc = "emit", !.id = n]]
          /\ UNCHANGED <<feedVars, lineVars>>
  BY <1>0, StoreIs
<1>2. UNCHANGED <<items, unread, clicks, inbox>>
  BY <1>1 DEF feedVars, lineVars
<1>3. /\ \A m \in Messages : Unsent(m) => Unsent(m)'
      /\ Unsent(n)'
  <2>1. post[c].pc = "store"
    BY DEF Store
  <2>2. \A d \in Calls \ {c} : post'[d] = post[d]
    BY <1>0, <1>1 DEF ChatTypes
  <2>3. \A m \in Messages : Unsent(m) => Unsent(m)'
    BY <2>1, <2>2 DEF Unsent, Working
  <2>4. post'[c] = [post[c] EXCEPT !.pc = "emit", !.id = n]
    BY <1>0, <1>1 DEF ChatTypes
  <2>5. post[c] = [by |-> post[c].by, pc |-> post[c].pc, viewing |-> post[c].viewing,
                   away |-> post[c].away, id |-> post[c].id]
    BY <1>1 DEF Posts
  <2>6. post'[c] = [by |-> post[c].by, pc |-> "emit", viewing |-> post[c].viewing,
                    away |-> post[c].away, id |-> n]
    BY <2>4, <2>5
  <2>7. post'[c].pc = "emit" /\ post'[c].id = n
    BY <2>6
  <2>8. Unsent(n)'
    BY <2>7 DEF Unsent, Working, NoWork
  <2>9. QED
    BY <2>3, <2>8
<1>4. items[n] = "none" /\ ~Told(inbox, n)
  <2>1. notice[n] = "none" /\ items[n] = "none"
    BY <1>1 DEF LiveSofar, StoredInv, Noticed
  <2>2. QED
    BY <2>1 DEF LiveSofar, StoredInv, StoredCarried, OfStored, Told, Tells
<1>5. Ends(items[n], inbox, n) = "none"
  BY <1>4 DEF Ends, ReadAfter, Told
<1>6. ASSUME NEW m \in Messages, NEW end \in Marks, end = Ends(items[m], inbox, m), Agrees(end, m)
      PROVE  Agrees(end, m)'
  <2>1. CASE m = n
    BY <1>3, <1>5, <1>6, <2>1 DEF Agrees
  <2>2. CASE m # n
    BY <1>1, <1>2, <1>3, <1>6, <2>2 DEF Agrees
  <2>3. QED
    BY <2>1, <2>2
<1>7. Foreseen'
  BY <1>2, <1>6, ForeseenStays DEF BellRight
<1>8. QED
  BY <1>2, <1>7 DEF BellRight, MarksItems, Unread

\* An event tells of what the server has, unless that was read meanwhile.
LEMMA EmitRight ==
    ASSUME LiveSofar, BellCurrent, BellRight, NEW c \in Calls, EmitAll(c)
    PROVE  BellRight'
<1>0. ChatTypes /\ LiveTypes /\ online /\ looks = "bell" /\ room = {}
  BY DEF LiveSofar, LiveTypes, BellCurrent, StoredInv, BellAlone
<1>1. PICK m \in Messages :
          /\ m = post[c].id /\ post' = [post EXCEPT ![c] = NoWork]
          /\ Emit(ToDialog(m) \o ToBell(m)) /\ UNCHANGED <<notice, feedVars>>
  BY <1>0, EmitIs
<1>2. UNCHANGED <<items, unread, clicks, notice>>
  BY <1>1 DEF feedVars
<1>3. \A n \in Messages \ {m} : Unsent(n) => Unsent(n)'
  BY <1>0, <1>1 DEF Unsent, Working, ChatTypes
<1>4. ToDialog(m) \o ToBell(m) = IF notice[m] # "none" THEN Event("notice", m) ELSE <<>>
  BY <1>0, EmitsTyped, EventTyped, ConcatEmptySeq DEF ToDialog, ToBell, Feed
<1>5. CASE notice[m] = "none"
  <2>1. inbox' = inbox
    BY <1>0, <1>1, <1>4, <1>5, NothingEmitted DEF LiveTypes
  <2>2. ASSUME NEW n \in Messages, NEW end \in Marks, Agrees(end, n) PROVE Agrees(end, n)'
    BY <1>2, <1>3, <1>5, <2>2 DEF Agrees
  <2>3. Foreseen'
    BY <1>2, <2>1, <2>2, ForeseenStays DEF BellRight
  <2>4. QED
    BY <1>2, <2>1, <2>3 DEF BellRight, MarksItems, Unread
<1>6. CASE notice[m] # "none"
  <2>1. PICK e \in Received : /\ Event("notice", m) = <<e>> /\ e.type = "notice" /\ e.id = m
                              /\ e.late <=> notice[m] = "read"
    <3>1. PICK late \in BOOLEAN : late <=> notice[m] = "read"
      OBVIOUS
    <3>2. Event("notice", m) = <<[type |-> "notice", id |-> m, late |-> late]>>
      BY <3>1 DEF Event
    <3>3. [type |-> "notice", id |-> m, late |-> late] \in Received
      BY DEF Received
    <3>4. QED
      BY <3>1, <3>2, <3>3
  <2>2. inbox' = Append(inbox, e)
    BY <1>0, <1>1, <1>4, <1>6, <2>1, SendsOne
  <2>3. ASSUME NEW n \in Messages, NEW end \in Marks, end = Ends(items[n], inbox, n),
               Agrees(end, n), ~TooLate(inbox)'
        PROVE  Agrees(After(end, e, n), n)'
    <3>1. CASE n # m
      BY <1>2, <1>3, <2>1, <2>3, <3>1 DEF Agrees, After, Tells, Reads
    <3>2. CASE n = m /\ end # "none"
      BY <1>2, <2>1, <2>3, <3>2 DEF Agrees, After, Tells, Reads
    <3>3. CASE n = m /\ end = "none"
      <4>1. items[m] = "none" /\ ~Told(inbox, m)
        BY <2>3, <3>3, BellTyped DEF Ends, Marks
      <4>2. e.late => TooLate(inbox)'
        <5>1. /\ Len(inbox) + 1 \in DOMAIN inbox' /\ inbox'[Len(inbox) + 1] = e
              /\ \A j \in DOMAIN inbox' : j < Len(inbox) + 1 => ~Tells(inbox'[j], m)
          BY <2>2, <4>1, BellTyped, OneMore DEF Told
        <5>2. QED
          BY <1>2, <2>1, <4>1, <5>1 DEF TooLate
      <4>3. notice[m] = "unread"
        BY <1>6, <2>1, <2>3, <4>2, BellTyped DEF Marks
      <4>4. After(end, e, n) = "unread"
        BY <2>1, <3>3 DEF After, Tells, Reads
      <4>5. QED
        BY <1>2, <3>3, <4>3, <4>4 DEF Agrees
    <3>4. QED
      BY <3>1, <3>2, <3>3
  <2>4. Foreseen'
    BY <1>2, <2>2, <2>3, ForeseenSent DEF BellRight
  <2>5. MarksItems'
    BY <1>2, <2>1, <2>2, MarksSent DEF BellRight
  <2>6. QED
    BY <1>2, <2>4, <2>5 DEF BellRight, Unread
<1>7. QED
  BY <1>5, <1>6

\* What the server marks for the bell it tells every page of.
LEMMA ClickServedRight ==
    ASSUME LiveSofar, BellCurrent, BellRight, NEW k \in {0} \cup Messages, ClickServed(k)
    PROVE  BellRight'
<1>0. online
  BY DEF BellCurrent
<1>1. /\ k \in clicks /\ clicks' = clicks \ {k} /\ UNCHANGED <<items, unread, post>>
      /\ notice' = AsRead(notice, IF k = 0 THEN Messages ELSE {k})
      /\ Emit(IF k = 0 THEN <<[type |-> "readAll"]>>
              ELSE IF notice[k] = "unread" THEN Event("noticeRead", k) ELSE <<>>)
  BY DEF ClickServed, chatVars
<1>2. \A m \in Messages : Unsent(m) => Unsent(m)'
  BY <1>1 DEF Unsent, Working
<1>3. \A m \in Messages : notice'[m] = IF (k = 0 \/ m = k) /\ notice[m] = "unread"
                                       THEN "read" ELSE notice[m]
  BY <1>1, BellTyped, AsReadIs DEF Messages
<1>4. MarksItems /\ Foreseen /\ unread = Cardinality(Unread(items))
  BY DEF BellRight
<1>5. CASE k = 0 \/ notice[k] = "unread"
  <2>1. PICK e \in Received :
            /\ Emit(<<e>>)
            /\ IF k = 0 THEN e.type = "readAll" ELSE e.type = "noticeRead" /\ e.id = k
    <3>1. [type |-> "readAll"] \in Received
      BY DEF Received
    <3>2. k # 0 => Event("noticeRead", k) = <<[type |-> "noticeRead", id |-> k, late |-> FALSE]>>
      BY DEF Event
    <3>3. k # 0 => [type |-> "noticeRead", id |-> k, late |-> FALSE] \in Received
      BY DEF Received
    <3>4. QED
      BY <1>1, <1>5, <3>1, <3>2, <3>3
  <2>2. inbox' = Append(inbox, e)
    BY <1>0, <2>1, SendsOne
  <2>3. ASSUME NEW m \in Messages, NEW end \in Marks, Agrees(end, m)
        PROVE  Agrees(After(end, e, m), m)'
    <3>1. CASE k # 0 /\ m # k
      <4>1. After(end, e, m) = end
        BY <2>1, <3>1 DEF After, Tells, Reads
      <4>2. notice'[m] = notice[m] /\ clicks' \cap {0, m} = clicks \cap {0, m}
        BY <1>1, <1>3, <3>1
      <4>3. QED
        BY <1>2, <2>3, <4>1, <4>2 DEF Agrees
    <3>2. CASE k = 0 \/ m = k
      <4>1. Reads(e, m) /\ ~Tells(e, m)
        BY <2>1, <3>2 DEF Reads, Tells
      <4>2. CASE end = "none"
        BY <1>2, <1>3, <2>3, <4>1, <4>2 DEF Agrees, After
      <4>3. CASE end # "none"
        BY <1>3, <2>3, <3>2, <4>1, <4>3, BellTyped DEF Agrees, After, Marks
      <4>4. QED
        BY <4>2, <4>3
    <3>3. QED
      BY <3>1, <3>2
  <2>4. Foreseen'
    BY <1>1, <1>4, <2>2, <2>3, ForeseenSent
  <2>5. e.type = "noticeRead" => items[e.id] # "none"
    BY <1>1, <1>4, <2>1 DEF MarksItems
  <2>6. MarksItems'
    BY <1>1, <1>4, <2>2, <2>5, MarksSent
  <2>7. QED
    BY <1>1, <1>4, <2>4, <2>6 DEF BellRight, Unread
<1>6. CASE k # 0 /\ notice[k] # "unread"
  <2>1. inbox' = inbox
    BY <1>1, <1>6, BellTyped, NothingEmitted
  <2>2. ASSUME NEW m \in Messages, NEW end \in Marks, Agrees(end, m) PROVE Agrees(end, m)'
    BY <1>1, <1>2, <1>3, <1>6, <2>2 DEF Agrees
  <2>3. Foreseen'
    BY <1>1, <1>4, <2>1, <2>2, ForeseenStays
  <2>4. QED
    BY <1>1, <1>4, <2>1, <2>3 DEF BellRight, MarksItems, Unread
<1>7. QED
  BY <1>5, <1>6

\* Another page that reads the chat makes this one list again.
LEMMA ElsewhereRight ==
    ASSUME LiveSofar, BellCurrent, BellRight, ReadElsewhere
    PROVE  BellRight'
<1>1. online /\ looks = "bell" /\ ReadAll /\ UNCHANGED <<items, unread, post, clicks>>
  BY DEF BellCurrent, ReadElsewhere, feedVars
<1>2. MarksItems /\ Foreseen /\ unread = Cardinality(Unread(items))
  BY DEF BellRight
<1>3. CASE Unread(notice) # {}
  <2>1. PICK e \in Received : e = [type |-> "refresh"]
    BY DEF Received
  <2>2. inbox' = Append(inbox, e)
    BY <1>1, <1>3, <2>1, SendsOne DEF ReadAll, Feed
  <2>3. Foreseen'
    BY <2>1, <2>2, BellTyped, OneMore DEF Foreseen, Refreshes
  <2>4. MarksItems'
    BY <1>1, <1>2, <2>1, <2>2, MarksSent
  <2>5. QED
    BY <1>1, <1>2, <2>3, <2>4 DEF BellRight, Unread
<1>4. CASE Unread(notice) = {}
  <2>1. inbox' = inbox
    BY <1>1, <1>4, BellTyped, NothingEmitted DEF ReadAll
  <2>2. notice' = notice
    BY <1>1, <1>4, BellTyped, ReadAllMarks
  <2>3. ASSUME NEW m \in Messages, NEW end \in Marks, Agrees(end, m) PROVE Agrees(end, m)'
    BY <1>1, <2>2, <2>3 DEF Agrees, Unsent, Working
  <2>4. Foreseen'
    BY <1>1, <1>2, <2>1, <2>3, ForeseenStays
  <2>5. QED
    BY <1>1, <1>2, <2>1, <2>4 DEF BellRight, MarksItems, Unread
<1>5. QED
  BY <1>3, <1>4

-----------------------------------------------------------------------------
\* What the reader marks is shown at once, and asked for.
LEMMA ClicksRight ==
    ASSUME LiveSofar, BellRight, NEW k \in {0} \cup Messages, NEW S \in SUBSET Messages,
           S = IF k = 0 THEN Messages ELSE {k},
           items' = AsRead(items, S), unread' = Cardinality(Unread(items')),
           clicks' = clicks \cup {k}, k # 0 => items[k] # "none",
           UNCHANGED <<inbox, notice, post>>
    PROVE  BellRight'
<1>1. \A m \in Messages : items'[m] = IF m \in S /\ items[m] = "unread" THEN "read" ELSE items[m]
  BY BellTyped, AsReadIs
<1>2. MarksItems /\ Foreseen
  BY DEF BellRight
<1>3. \A m \in Messages : items'[m] = "none" <=> items[m] = "none"
  BY <1>1
<1>4. \A i \in DOMAIN inbox : inbox[i].type \in {"notice", "noticeRead"} => inbox[i].id \in Messages
  BY BellTyped DEF Received
<1>5. MarksItems'
  <2>1. ASSUME NEW m \in Messages, m \in clicks' PROVE items'[m] # "none"
    <3>1. m # 0
      BY DEF Messages
    <3>2. items[m] # "none"
      BY <1>2, <2>1, <3>1 DEF MarksItems
    <3>3. QED
      BY <1>3, <3>2
  <2>2. \A i \in DOMAIN inbox' : inbox'[i].type = "noticeRead" => items'[inbox'[i].id] # "none"
    BY <1>2, <1>3, <1>4 DEF MarksItems
  <2>3. QED
    BY <2>1, <2>2 DEF MarksItems
<1>6. TooLate(inbox) => TooLate(inbox)'
  BY <1>3, <1>4 DEF TooLate, Tells
<1>7. ASSUME NEW m \in Messages, Agrees(Ends(items[m], inbox, m), m)
      PROVE  Agrees(Ends(items[m], inbox, m), m)'
  <2>1. CASE items'[m] = items[m]
    <3>1. Ends(items[m], inbox, m)' = Ends(items[m], inbox, m)
      BY <2>1
    <3>2. PICK end \in Marks : end = Ends(items[m], inbox, m)
      BY BellTyped, EndsIsMark
    <3>3. Agrees(end, m)'
      BY <1>7, <3>2 DEF Agrees, Unsent, Working
    <3>4. QED
      BY <3>1, <3>2, <3>3 DEF Agrees
  <2>2. CASE items'[m] # items[m]
    <3>1. m \in S /\ items[m] = "unread" /\ items'[m] = "read"
      BY <1>1, <2>2
    <3>2. Ends(items[m], inbox, m)' = "read"
      BY <3>1 DEF Ends
    <3>3. Ends(items[m], inbox, m) # "none"
      BY <3>1 DEF Ends
    <3>4. notice[m] \in {"unread", "read"}
      BY <1>7, <3>3, BellTyped DEF Agrees, Marks
    <3>5. clicks' \cap {0, m} # {}
      BY <3>1
    <3>6. QED
      BY <3>2, <3>4, <3>5 DEF Agrees
  <2>3. QED
    BY <2>1, <2>2
<1>8. Foreseen'
  BY <1>2, <1>6, <1>7 DEF Foreseen, Refreshes
<1>9. QED
  BY <1>5, <1>8 DEF BellRight

LEMMA ClickRight ==
    ASSUME LiveSofar, BellRight, NEW m \in Messages, Click(m)
    PROVE  BellRight'
<1>1. /\ items[m] = "unread" /\ items' = AsRead(items, {m}) /\ unread' = Less(unread)
      /\ clicks' = clicks \cup {m} /\ UNCHANGED <<inbox, notice, post>>
  BY DEF Click, chatVars, lineVars
<1>2. unread' = Cardinality(Unread(items'))
  <2>1. /\ Cardinality(Unread(items')) = Cardinality(Unread(items)) - 1
        /\ Cardinality(Unread(items')) \in Nat /\ Cardinality(Unread(items)) \in Nat
    BY <1>1, BellTyped, AsReadOne, AsReadIs, UnreadBounded
  <2>2. QED
    BY <1>1, <2>1 DEF BellRight, Less
<1>3. m # 0 /\ {m} \in SUBSET Messages /\ m \in {0} \cup Messages
  BY DEF Messages
<1>4. QED
  BY <1>1, <1>2, <1>3, ClicksRight

LEMMA ClickAllRight ==
    ASSUME LiveSofar, BellRight, ClickAll
    PROVE  BellRight'
<1>1. /\ items' = AsRead(items, Messages) /\ unread' = 0
      /\ clicks' = clicks \cup {0} /\ UNCHANGED <<inbox, notice, post>>
  BY DEF ClickAll, chatVars, lineVars
<1>2. unread' = Cardinality(Unread(items'))
  BY <1>1, BellTyped, AsReadAll
<1>3. QED
  BY <1>1, <1>2, ClicksRight

LEMMA EndsArrivedHere ==
    ASSUME LiveSofar, inbox # <<>>, inbox' = Tail(inbox), NEW m \in Messages,
           items'[m] = After(items[m], Head(inbox), m)
    PROVE  Ends(items[m], inbox, m)' = Ends(items[m], inbox, m)
<1>1. PICK old \in Marks : old = items[m]
  BY BellTyped
<1>2. PICK s \in Seq(Received) : s = inbox /\ s # <<>>
  BY BellTyped
<1>3. \A t : t = Tail(s) => Ends(After(old, Head(s), m), t, m) = Ends(old, s, m)
  BY <1>2, EndsArrived
<1>4. QED
  BY <1>1, <1>2, <1>3

\* What arrives was foreseen.
LEMMA ArrivedRight ==
    ASSUME LiveSofar, BellRight, inbox # <<>>, inbox' = Tail(inbox),
           UNCHANGED <<notice, post, clicks>>, unread' = Cardinality(Unread(items')),
           Head(inbox).type # "refresh",
           \A m \in Messages : items'[m] = After(items[m], Head(inbox), m),
           Head(inbox).type = "notice" /\ Head(inbox).late => items[Head(inbox).id] # "none"
    PROVE  BellRight'
<1> DEFINE e == Head(inbox)
<1>0. /\ inbox \in Seq(Received) /\ 1 \in DOMAIN inbox /\ inbox[1] = e
      /\ \A i \in DOMAIN inbox' : i + 1 \in DOMAIN inbox /\ inbox'[i] = inbox[i + 1]
                                  /\ i \in Nat /\ i >= 1
      /\ \A i \in DOMAIN inbox : i # 1 => /\ i - 1 \in DOMAIN inbox' /\ i > 1
                                          /\ inbox'[i - 1] = inbox[i]
  BY BellTyped, OneLess
<1>1. MarksItems /\ Foreseen
  BY DEF BellRight
<1>2. \A m \in Messages : items[m] # "none" => items'[m] # "none"
  BY DEF After
<1>3. \A i \in DOMAIN inbox : inbox[i].type \in {"notice", "noticeRead"} => inbox[i].id \in Messages
  BY <1>0 DEF Received
<1>4. MarksItems'
  BY <1>0, <1>1, <1>2, <1>3 DEF MarksItems
<1>5. ASSUME Refreshes(inbox) PROVE Refreshes(inbox)'
  <2>1. PICK i \in DOMAIN inbox : inbox[i].type = "refresh"
    BY <1>5 DEF Refreshes
  <2>2. i # 1
    BY <1>0, <2>1
  <2>3. i - 1 \in DOMAIN inbox' /\ inbox'[i - 1] = inbox[i]
    BY <1>0, <2>2
  <2>4. QED
    BY <2>1, <2>3 DEF Refreshes
<1>6. ASSUME TooLate(inbox) PROVE TooLate(inbox)'
  <2>1. PICK i \in DOMAIN inbox :
            /\ inbox[i].type = "notice" /\ inbox[i].late /\ items[inbox[i].id] = "none"
            /\ \A j \in DOMAIN inbox : j < i => ~Tells(inbox[j], inbox[i].id)
    BY <1>6 DEF TooLate
  <2>2. i # 1
    BY <1>0, <2>1
  <2>3. i - 1 \in DOMAIN inbox' /\ inbox'[i - 1] = inbox[i]
    BY <1>0, <2>2
  <2>4. ~Tells(e, inbox[i].id) /\ inbox[i].id \in Messages
    BY <1>0, <1>3, <2>1, <2>2
  <2>5. items'[inbox[i].id] = "none"
    BY <2>1, <2>4 DEF After
  <2>6. ASSUME NEW j \in DOMAIN inbox', j < i - 1 PROVE ~Tells(inbox'[j], inbox[i].id)
    <3>1. j + 1 \in DOMAIN inbox /\ j + 1 < i /\ inbox'[j] = inbox[j + 1]
      BY <1>0, <2>6
    <3>2. QED
      BY <2>1, <3>1
  <2>7. QED
    BY <2>1, <2>3, <2>5, <2>6 DEF TooLate
<1>7. ASSUME NEW m \in Messages, Agrees(Ends(items[m], inbox, m), m)
      PROVE  Agrees(Ends(items[m], inbox, m), m)'
  <2>1. Ends(items[m], inbox, m)' = Ends(items[m], inbox, m)
    BY EndsArrivedHere
  <2>2. PICK end \in Marks : end = Ends(items[m], inbox, m)
    BY BellTyped, EndsIsMark
  <2>3. Agrees(end, m)'
    BY <1>7, <2>2 DEF Agrees, Unsent, Working
  <2>4. QED
    BY <2>1, <2>2, <2>3 DEF Agrees
<1>8. Foreseen'
  BY <1>1, <1>5, <1>6, <1>7 DEF Foreseen
<1>9. QED
  BY <1>4, <1>8 DEF BellRight

LEMMA NoticeRight ==
    ASSUME LiveSofar, BellRight, NoticeArrives, ~stale'
    PROVE  BellRight'
<1>1. /\ inbox # <<>> /\ Head(inbox).type = "notice" /\ inbox' = Tail(inbox)
      /\ UNCHANGED <<notice, post, clicks>>
  BY DEF NoticeArrives, Arrived, Arrive, chatVars
<1>2. PICK e \in Received : e = Head(inbox) /\ e.type = "notice"
  BY <1>1, BellTyped, OneLess
<1>3. e.id \in Messages
  BY <1>2 DEF Received
<1>4. CASE items[e.id] = "none"
  <2>1. /\ items' = [items EXCEPT ![e.id] = "unread"] /\ unread' = unread + 1 /\ ~e.late
    BY <1>2, <1>4 DEF NoticeArrives
  <2>2. unread' = Cardinality(Unread(items'))
    BY <1>3, <1>4, <2>1, BellTyped, OneMoreUnread DEF BellRight
  <2>3. \A m \in Messages : items'[m] = After(items[m], e, m)
    BY <1>2, <1>3, <1>4, <2>1, BellTyped DEF After, Tells, Reads, Notices
  <2>4. QED
    BY <1>1, <1>2, <2>1, <2>2, <2>3, ArrivedRight
<1>5. CASE items[e.id] # "none"
  <2>1. UNCHANGED <<items, unread>>
    BY <1>2, <1>5 DEF NoticeArrives
  <2>2. \A m \in Messages : items'[m] = After(items[m], e, m)
    BY <1>2, <1>5, <2>1 DEF After, Tells, Reads
  <2>3. unread' = Cardinality(Unread(items'))
    BY <2>1 DEF BellRight
  <2>4. QED
    BY <1>1, <1>2, <1>5, <2>2, <2>3, ArrivedRight
<1>6. QED
  BY <1>4, <1>5

LEMMA ReadRight ==
    ASSUME LiveSofar, BellRight, ReadArrives
    PROVE  BellRight'
<1>1. /\ inbox # <<>> /\ Head(inbox).type = "noticeRead" /\ inbox' = Tail(inbox)
      /\ UNCHANGED <<notice, post, clicks>>
  BY DEF ReadArrives, Arrived, Arrive, chatVars
<1>2. PICK e \in Received : e = Head(inbox) /\ e.type = "noticeRead" /\ e = inbox[1]
  BY <1>1, BellTyped, OneLess
<1>3. e.id \in Messages
  BY <1>2 DEF Received
<1>4. items[e.id] \in {"unread", "read"}
  <2>1. 1 \in DOMAIN inbox
    BY <1>1, BellTyped, OneLess
  <2>2. items[e.id] # "none"
    BY <1>2, <2>1 DEF BellRight, MarksItems
  <2>3. QED
    BY <1>3, <2>2, BellTyped DEF Marks
<1>5. /\ items' = AsRead(items, {e.id})
      /\ unread' = IF items[e.id] = "read" THEN unread ELSE Less(unread)
  BY <1>2 DEF ReadArrives
<1>6. unread' = Cardinality(Unread(items'))
  <2>1. CASE items[e.id] = "read"
    BY <1>3, <1>5, <2>1, BellTyped, AsReadOne DEF BellRight
  <2>2. CASE items[e.id] = "unread"
    <3>1. /\ Cardinality(Unread(items')) = Cardinality(Unread(items)) - 1
          /\ Cardinality(Unread(items')) \in Nat /\ Cardinality(Unread(items)) \in Nat
      BY <1>3, <1>5, <2>2, BellTyped, AsReadOne, AsReadIs, UnreadBounded
    <3>2. QED
      BY <1>5, <2>2, <3>1 DEF BellRight, Less
  <2>3. QED
    BY <1>4, <2>1, <2>2
<1>7. ASSUME NEW m \in Messages PROVE items'[m] = After(items[m], e, m)
  <2>1. items'[m] = IF m = e.id /\ items[m] = "unread" THEN "read" ELSE items[m]
    BY <1>5, BellTyped, AsReadIs
  <2>2. QED
    BY <1>2, <1>4, <2>1 DEF After, Tells, Reads
<1>8. QED
  BY <1>1, <1>2, <1>6, <1>7, ArrivedRight

LEMMA ReadAllRight ==
    ASSUME LiveSofar, BellRight, ReadAllArrives
    PROVE  BellRight'
<1>1. /\ inbox # <<>> /\ Head(inbox).type = "readAll" /\ inbox' = Tail(inbox)
      /\ items' = AsRead(items, Messages) /\ unread' = 0 /\ UNCHANGED <<notice, post, clicks>>
  BY DEF ReadAllArrives, Arrived, Arrive, chatVars
<1>2. unread' = Cardinality(Unread(items'))
  BY <1>1, BellTyped, AsReadAll
<1>3. ASSUME NEW m \in Messages PROVE items'[m] = After(items[m], Head(inbox), m)
  <2>1. items'[m] = IF items[m] = "unread" THEN "read" ELSE items[m]
    BY <1>1, BellTyped, AsReadIs
  <2>2. items[m] \in Marks
    BY BellTyped
  <2>3. QED
    BY <1>1, <2>1, <2>2 DEF After, Tells, Reads, Marks
<1>4. QED
  BY <1>1, <1>2, <1>3, ArrivedRight

-----------------------------------------------------------------------------
LEMMA LooksStays == LiveNext => UNCHANGED looks
BY DEF LiveNext, Server, Page, Participants, Post, Store, EmitAll, TakeJoin, JoinRoom,
       TakeLeave, TakeVisibility, TakeRead, ReadElsewhere, Open, Close, Toggle, FetchServed,
       FetchAnswered, Drop, Connect, ListServed, ListAnswered, Click, ClickAll, ClickServed,
       ClickFailed, MessageArrives, JoinedArrives, NoticeArrives, ReadArrives,
       ReadAllArrives, RefreshArrives

\* Where the bell is looked at, nothing of the dialog happens.
BellSteps ==
    \/ \E c \in Calls : \/ \E by \in {"peer", "reader"} : Post(c, by)
                        \/ Store(c) \/ EmitAll(c)
    \/ \E k \in {0} \cup Messages : ClickServed(k) \/ ClickFailed(k)
    \/ \E m \in Messages : Click(m)
    \/ ClickAll \/ ReadElsewhere \/ ListServed \/ ListAnswered \/ Connect \/ Drop
    \/ NoticeArrives \/ ReadArrives \/ ReadAllArrives \/ RefreshArrives

LEMMA BellOnly ==
    ASSUME LiveSofar, LiveNext, looks = "bell"
    PROVE  BellSteps
<1>1. /\ ~DialogOpen /\ joining = NoWork /\ outbox = <<>> /\ fetch = NoWork
      /\ \A i \in DOMAIN inbox : inbox[i].type \notin {"message", "joined"}
  BY DEF LiveSofar, StoredInv, BellAlone
<1>2. ~(TakeJoin \/ TakeLeave \/ TakeVisibility \/ TakeRead)
  BY <1>1 DEF TakeJoin, TakeLeave, TakeVisibility, TakeRead, Waits
<1>3. ~(JoinRoom \/ Open \/ Close \/ Toggle \/ FetchServed \/ FetchAnswered)
  BY <1>1 DEF JoinRoom, Open, Close, Toggle, FetchServed, FetchAnswered
<1>4. ~(MessageArrives \/ JoinedArrives)
  <2>1. inbox # <<>> => 1 \in DOMAIN inbox /\ inbox[1] = Head(inbox)
    BY BellTyped, OneLess
  <2>2. QED
    BY <1>1, <2>1 DEF MessageArrives, JoinedArrives, Arrived
<1>5. QED
  BY <1>2, <1>3, <1>4 DEF LiveNext, Server, Page, Participants, BellSteps

\* A list that nothing overtook is what the server has.
LEMMA AnsweredRight ==
    ASSUME LiveSofar, ListInv, looks = "bell", online, ListAnswered, ~stale'
    PROVE  BellRight'
<1>1. /\ inbox = <<>> /\ list # NoWork /\ list.pc = "answered" /\ ~list.overtaken
      /\ items' = list.of /\ unread' = Cardinality(Unread(list.of))
      /\ UNCHANGED <<inbox, notice, post, clicks>>
  BY DEF ListAnswered, chatVars, lineVars
<1>2. ListRight
  BY <1>1 DEF ListInv, ListFresh
<1>3. list.of \in Notices
  BY <1>1 DEF LiveSofar, LiveTypes, BellTypes, Lists
<1>4. MarksItems'
  BY <1>1, <1>2 DEF MarksItems, ListRight
<1>5. ASSUME NEW m \in Messages PROVE Agrees(Ends(items[m], inbox, m), m)'
  <2>1. PICK old \in Marks : old = list.of[m]
    BY <1>3 DEF Notices, Marks
  <2>2. Ends(items[m], inbox, m)' = old
    BY <1>1, <2>1, EndsNothing
  <2>3. old = notice'[m] \/ (old = "none" /\ Unsent(m)')
    BY <1>1, <1>2, <2>1 DEF ListRight, Unsent, Working
  <2>4. QED
    BY <2>2, <2>3 DEF Agrees
<1>6. Foreseen'
  BY <1>5 DEF Foreseen
<1>7. QED
  BY <1>1, <1>4, <1>6 DEF BellRight

LEMMA ItemsKept ==
    ASSUME LiveSofar, ItemsInv, ListInv, LiveNext
    PROVE  ItemsInv'
<1> SUFFICES ASSUME BellCurrent' PROVE BellRight'
  BY DEF ItemsInv
<1>1. looks = "bell" /\ online' /\ list' = NoWork /\ ~stale' /\ BellSteps
  BY LooksStays, BellOnly DEF BellCurrent
<1>2. NoWork.pc = "none" /\ Asked.pc = "sent"
  BY DEF NoWork, Asked
<1>3. ~(Drop \/ Connect \/ RefreshArrives \/ \E k \in {0} \cup Messages : ClickFailed(k))
  BY <1>1, <1>2 DEF Drop, Connect, RefreshArrives, ClickFailed
<1>4. CASE ListAnswered
  <2>1. online
    BY <1>1, <1>4 DEF ListAnswered, lineVars
  <2>2. QED
    BY <1>1, <1>4, <2>1, AnsweredRight
<1>5. CASE ListServed
  BY <1>1, <1>2, <1>5 DEF ListServed, NoWork
<1>6. ASSUME NEW c \in Calls, NEW by \in {"peer", "reader"}, Post(c, by) \/ Store(c) \/ EmitAll(c)
      PROVE  BellRight'
  <2>1. BellCurrent
    <3>1. UNCHANGED <<looks, online, list, stale>>
      BY <1>6 DEF Post, Store, EmitAll, feedVars, lineVars
    <3>2. QED
      BY <1>1, <3>1 DEF BellCurrent
  <2>2. QED
    BY <1>6, <2>1, PostRight, StoreRight, EmitRight DEF ItemsInv
<1>7. ASSUME NEW k \in {0} \cup Messages, ClickServed(k) PROVE BellRight'
  <2>1. BellCurrent
    BY <1>1, <1>7 DEF BellCurrent, ClickServed
  <2>2. QED
    BY <1>7, <2>1, ClickServedRight DEF ItemsInv
<1>8. CASE ReadElsewhere
  <2>1. BellCurrent
    BY <1>1, <1>8 DEF BellCurrent, ReadElsewhere, feedVars
  <2>2. QED
    BY <1>8, <2>1, ElsewhereRight DEF ItemsInv
<1>9. Overtake => list = NoWork
  <2>1. CASE list # NoWork
    <3>1. PICK l \in Lists : l = list
      BY <2>1 DEF LiveSofar, LiveTypes, BellTypes
    <3>2. [l EXCEPT !.overtaken = TRUE].pc = l.pc /\ l.pc # "none"
      BY DEF Lists
    <3>3. QED
      BY <1>1, <1>2, <2>1, <3>1, <3>2 DEF Overtake
  <2>2. QED
    BY <2>1
<1>10. ASSUME NEW m \in Messages, Click(m) \/ ClickAll PROVE BellRight'
  <2>1. BellCurrent
    <3>1. Overtake /\ UNCHANGED <<online, stale>>
      BY <1>10 DEF Click, ClickAll, lineVars
    <3>2. QED
      BY <1>1, <1>9, <3>1 DEF BellCurrent
  <2>2. QED
    BY <1>10, <2>1, ClickRight, ClickAllRight DEF ItemsInv
<1>11. CASE ClickAll
  <2>1. BellCurrent
    BY <1>1, <1>9, <1>11 DEF BellCurrent, ClickAll, lineVars
  <2>2. QED
    BY <1>11, <2>1, ClickAllRight DEF ItemsInv
<1>12. CASE NoticeArrives \/ ReadArrives \/ ReadAllArrives
  <2>1. BellCurrent
    <3>1. Overtake /\ UNCHANGED online
      BY <1>12 DEF NoticeArrives, ReadArrives, ReadAllArrives, Arrive
    <3>2. CASE NoticeArrives
      <4>1. stale' = (stale \/ Head(inbox).late) \/ stale' = stale
        BY <3>2 DEF NoticeArrives
      <4>2. ~stale
        BY <1>1, <4>1, Zenon
      <4>3. QED
        BY <1>1, <1>9, <3>1, <4>2 DEF BellCurrent
    <3>3. CASE ReadArrives \/ ReadAllArrives
      <4>1. stale' = stale
        BY <3>3 DEF ReadArrives, ReadAllArrives
      <4>2. QED
        BY <1>1, <1>9, <3>1, <4>1 DEF BellCurrent
    <3>4. QED
      BY <1>12, <3>2, <3>3
  <2>2. QED
    BY <1>1, <1>12, <2>1, NoticeRight, ReadRight, ReadAllRight DEF ItemsInv
<1>13. QED
  BY <1>1, <1>3, <1>4, <1>5, <1>6, <1>7, <1>8, <1>10, <1>11, <1>12 DEF BellSteps

\* What the list does not know the server tells, or will.
LEMMA ListKept ==
    ASSUME LiveSofar, ListInv, LiveNext
    PROVE  ListInv'
<1> SUFFICES ASSUME ListFresh' PROVE ListRight'
  BY DEF ListInv
<1>0. /\ LiveTypes /\ ChatTypes /\ Noticed /\ looks = "bell" /\ BellSteps
      /\ online' /\ list' # NoWork /\ list'.pc = "answered" /\ ~list'.overtaken
  BY LooksStays, BellOnly DEF LiveSofar, LiveTypes, StoredInv, ListFresh
<1>1. NoWork.pc = "none" /\ Asked.pc = "sent"
  BY DEF NoWork, Asked
<1>2. ~(\/ Drop \/ Connect \/ RefreshArrives \/ ListAnswered
        \/ \E k \in {0} \cup Messages : ClickFailed(k))
  BY <1>0, <1>1 DEF Drop, Connect, RefreshArrives, ListAnswered, ClickFailed
<1>3. ~Overtake
  <2>1. ASSUME Overtake, list # NoWork PROVE FALSE
    <3>1. PICK l \in Lists : l = list
      BY <2>1 DEF LiveSofar, LiveTypes, BellTypes
    <3>2. [l EXCEPT !.overtaken = TRUE].overtaken = TRUE
      BY DEF Lists
    <3>3. QED
      BY <1>0, <2>1, <3>1, <3>2 DEF Overtake
  <2>2. QED
    BY <1>0, <2>1 DEF Overtake
<1>4. ~(\/ ClickAll \/ NoticeArrives \/ ReadArrives \/ ReadAllArrives
        \/ \E m \in Messages : Click(m))
  BY <1>3 DEF ClickAll, NoticeArrives, ReadArrives, ReadAllArrives, Click
<1>5. CASE ListServed
  <2>1. list'.of = notice /\ UNCHANGED <<notice, clicks>>
    BY <1>5 DEF ListServed
  <2>2. QED
    BY <1>0, <2>1 DEF ListRight, Noticed
<1>6. ASSUME UNCHANGED <<looks, online, list>>
      PROVE  ListRight /\ list'.of = list.of /\ \A m \in Messages : list.of[m] \in Marks
  BY <1>0, <1>6 DEF ListInv, ListFresh, LiveTypes, BellTypes, Lists, Notices, Marks
<1>7. ASSUME NEW c \in Calls, NEW by \in {"peer", "reader"}, Post(c, by)
      PROVE  ListRight'
  <2>1. PICK p \in Posts : /\ post' = [post EXCEPT ![c] = p] /\ post[c] = NoWork
                           /\ UNCHANGED <<notice, looks, feedVars, lineVars>>
    BY <1>0, <1>7, PostStarts
  <2>2. UNCHANGED <<notice, looks, online, list, clicks, inbox>>
    BY <2>1 DEF feedVars, lineVars
  <2>3. \A m : Unsent(m) => Unsent(m)'
    BY <1>0, <2>1 DEF Unsent, Working, ChatTypes
  <2>4. QED
    BY <1>6, <2>2, <2>3 DEF ListRight
<1>8. ASSUME NEW c \in Calls, Store(c) PROVE ListRight'
  <2>1. PICK n \in Messages :
            /\ n \notin Stored /\ Stored' = Stored \cup {n}
            /\ \A m \in Messages \ {n} : notice'[m] = notice[m]
            /\ UNCHANGED <<looks, feedVars, lineVars>>
    BY <1>0, <1>8, StoreIs
  <2>2. UNCHANGED <<looks, online, list, clicks, inbox>>
    BY <2>1 DEF feedVars, lineVars
  <2>3. ListRight /\ list'.of = list.of /\ \A m \in Messages : list.of[m] \in Marks
    BY <1>6, <2>2
  <2>4. list.of[n] = "none"
    BY <1>0, <2>1, <2>2 DEF Noticed
  <2>5. Unsent(n)' /\ \A m \in Messages : Unsent(m) => Unsent(m)'
    <3>1. UnsentMoved
      BY UnsentMoves
    <3>2. ASSUME NEW d \in Calls, EmitAll(d) PROVE FALSE
      <4>1. post'[d] = NoWork /\ Stored' = Stored
        BY <1>0, <3>2 DEF EmitAll, ChatTypes, Stored
      <4>2. QED
        BY <2>1, <4>1
    <3>3. QED
      BY <2>1, <3>1, <3>2 DEF UnsentMoved
  <2>6. ASSUME NEW m \in Messages, inbox = <<>>
        PROVE  \/ list.of[m] = notice'[m]
               \/ list.of[m] = "none" /\ Unsent(m)'
    <3>1. CASE m = n
      BY <2>4, <2>5, <3>1
    <3>2. CASE m # n
      BY <2>1, <2>3, <2>5, <2>6, <3>2 DEF ListRight
    <3>3. QED
      BY <3>1, <3>2
  <2>7. QED
    BY <2>2, <2>3, <2>6 DEF ListRight
<1>9. ASSUME NEW c \in Calls, EmitAll(c) PROVE ListRight'
  <2>1. PICK m \in Messages :
            /\ m = post[c].id /\ post' = [post EXCEPT ![c] = NoWork]
            /\ Emit(ToDialog(m) \o ToBell(m)) /\ UNCHANGED <<notice, looks, feedVars, online>>
    BY <1>0, <1>9, EmitIs
  <2>2. UNCHANGED <<looks, online, list, clicks, notice>>
    BY <2>1 DEF feedVars
  <2>3. ListRight /\ list'.of = list.of /\ \A n \in Messages : list.of[n] \in Marks
    BY <1>6, <2>2
  <2>4. \A n \in Messages \ {m} : Unsent(n) => Unsent(n)'
    BY <1>0, <2>1 DEF Unsent, Working, ChatTypes
  <2>5. room = {}
    BY <1>0 DEF LiveSofar, StoredInv, BellAlone
  <2>6. ToDialog(m) \o ToBell(m) = IF notice[m] # "none" THEN Event("notice", m) ELSE <<>>
    BY <1>0, <2>5, EmitsTyped, EventTyped, ConcatEmptySeq DEF ToDialog, ToBell, Feed
  <2>7. CASE notice[m] # "none"
    <3>1. PICK e \in Received : Event("notice", m) = <<e>>
      <4>1. PICK late \in BOOLEAN : late <=> notice[m] = "read"
        OBVIOUS
      <4>2. Event("notice", m) = <<[type |-> "notice", id |-> m, late |-> late]>>
        BY <4>1 DEF Event
      <4>3. [type |-> "notice", id |-> m, late |-> late] \in Received
        BY DEF Received
      <4>4. QED
        BY <4>2, <4>3
    <3>2. inbox' # <<>>
      BY <1>0, <2>1, <2>2, <2>6, <2>7, <3>1, SendsOne, BellTyped, OneMore
    <3>3. QED
      BY <2>2, <2>3, <3>2 DEF ListRight
  <2>8. CASE notice[m] = "none"
    <3>1. inbox' = inbox
      BY <2>1, <2>6, <2>8, NothingEmitted, BellTyped
    <3>2. ASSUME NEW n \in Messages, inbox = <<>>
          PROVE  \/ list.of[n] = notice[n]
                 \/ list.of[n] = "none" /\ Unsent(n)'
      <4>1. CASE n = m
        BY <2>3, <2>8, <3>2, <4>1 DEF ListRight
      <4>2. CASE n # m
        BY <2>3, <2>4, <3>2, <4>2 DEF ListRight
      <4>3. QED
        BY <4>1, <4>2
    <3>3. QED
      BY <2>2, <2>3, <3>1, <3>2 DEF ListRight
  <2>9. QED
    BY <2>7, <2>8
<1>10. ASSUME NEW k \in {0} \cup Messages, ClickServed(k) PROVE ListRight'
  <2>1. /\ k \in clicks /\ clicks' = clicks \ {k} /\ UNCHANGED <<looks, online, list, post>>
        /\ notice' = AsRead(notice, IF k = 0 THEN Messages ELSE {k})
        /\ Emit(IF k = 0 THEN <<[type |-> "readAll"]>>
                ELSE IF notice[k] = "unread" THEN Event("noticeRead", k) ELSE <<>>)
    BY <1>10 DEF ClickServed, chatVars
  <2>2. ListRight /\ list'.of = list.of
    BY <1>6, <2>1
  <2>3. CASE k = 0 \/ notice[k] = "unread"
    <3>1. PICK e \in Received : Emit(<<e>>)
      <4>1. [type |-> "readAll"] \in Received
        BY DEF Received
      <4>2. k # 0 => Event("noticeRead", k) = <<[type |-> "noticeRead", id |-> k, late |-> FALSE]>>
        BY DEF Event
      <4>3. k # 0 => [type |-> "noticeRead", id |-> k, late |-> FALSE] \in Received
        BY DEF Received
      <4>4. QED
        BY <2>1, <2>3, <4>1, <4>2, <4>3
    <3>2. inbox' # <<>>
      BY <1>0, <2>1, <3>1, SendsOne, BellTyped, OneMore
    <3>3. QED
      BY <2>1, <2>2, <3>2 DEF ListRight
  <2>4. CASE k # 0 /\ notice[k] # "unread"
    <3>1. inbox' = inbox /\ notice' = notice
      BY <2>1, <2>4, NothingEmitted, BellTyped, AsReadOne
    <3>2. QED
      BY <2>1, <2>2, <3>1 DEF ListRight, Unsent, Working
  <2>5. QED
    BY <2>3, <2>4
<1>11. CASE ReadElsewhere
  <2>1. ReadAll /\ UNCHANGED <<looks, online, list, post, clicks>>
    BY <1>11 DEF ReadElsewhere, feedVars
  <2>2. ListRight /\ list'.of = list.of
    BY <1>6, <2>1
  <2>3. CASE Unread(notice) # {}
    <3>1. PICK e \in Received : e = [type |-> "refresh"]
      BY DEF Received
    <3>2. inbox' = Append(inbox, e)
      BY <1>0, <2>1, <2>3, <3>1, SendsOne DEF ReadAll, Feed
    <3>3. inbox' # <<>>
      BY <3>2, BellTyped, OneMore
    <3>4. QED
      BY <2>1, <2>2, <3>3 DEF ListRight
  <2>4. CASE Unread(notice) = {}
    <3>1. inbox' = inbox /\ notice' = notice
      BY <2>1, <2>4, BellTyped, NothingEmitted, ReadAllMarks DEF ReadAll
    <3>2. QED
      BY <2>1, <2>2, <3>1 DEF ListRight, Unsent, Working
  <2>5. QED
    BY <2>3, <2>4
<1>12. QED
  BY <1>0, <1>2, <1>4, <1>5, <1>7, <1>8, <1>9, <1>10, <1>11 DEF BellSteps

LEMMA BellInit == LiveInit => ItemsInv /\ ListInv
<1> SUFFICES ASSUME LiveInit PROVE ItemsInv /\ ListInv
  OBVIOUS
<1>1. list = NoWork /\ clicks = {} /\ inbox = <<>> /\ items = NoNotice /\ notice = NoNotice
  BY DEF LiveInit
<1>2. MarksItems /\ unread = Cardinality(Unread(items))
  BY <1>1, NoNoticeTyped DEF MarksItems, LiveInit
<1>3. \A m \in Messages : Agrees(Ends(items[m], inbox, m), m)
  BY <1>1, EndsNothing DEF Agrees, NoNotice, Marks
<1>4. QED
  BY <1>1, <1>2, <1>3 DEF ItemsInv, BellRight, Foreseen, ListInv, ListFresh

LEMMA BellStutters == ItemsInv /\ ListInv /\ UNCHANGED liveVars => ItemsInv' /\ ListInv'
<1> SUFFICES ASSUME ItemsInv, ListInv, UNCHANGED liveVars PROVE ItemsInv' /\ ListInv'
  OBVIOUS
<1>1. UNCHANGED <<post, notice, looks, items, unread, list, clicks, stale, inbox, online>>
  BY DEF liveVars, chatVars, feedVars, lineVars
<1>2. \A m : Unsent(m)' <=> Unsent(m)
  BY <1>1 DEF Unsent, Working
<1>3. BellRight => BellRight'
  <2>1. Foreseen => Foreseen'
    BY <1>1, <1>2 DEF Foreseen, Refreshes, TooLate, Agrees
  <2>2. QED
    BY <1>1, <2>1 DEF BellRight, MarksItems, Unread
<1>4. ListRight => ListRight'
  BY <1>1, <1>2 DEF ListRight
<1>5. QED
  BY <1>1, <1>3, <1>4 DEF ItemsInv, ListInv, BellCurrent, ListFresh

\* The bell shows what the server has once nothing is on its way, for any order
\* of its lists, its clicks and the events, unless a list crossed events or one
\* told of what had been read: the number is that of what is unread.
THEOREM BellIsTrue == LiveSpec => []BellFollows
<1> DEFINE I == LiveSofar /\ ItemsInv /\ ListInv
<1>1. LiveInit => I
  BY SofarInit, BellInit
<1>2. I /\ [LiveNext]_liveVars => I'
  BY SofarKept, SofarStutters, ItemsKept, ListKept, BellStutters
<1>3. I => BellFollows
  <2> SUFFICES ASSUME I, looks = "bell", Quiet, ~stale
               PROVE  items = notice /\ unread = Cardinality(Unread(notice))
    BY DEF BellFollows
  <2>1. inbox = <<>> /\ clicks = {} /\ BellRight
    BY DEF Quiet, ItemsInv, BellCurrent
  <2>2. ~Refreshes(inbox) /\ ~TooLate(inbox)
    BY <2>1 DEF Refreshes, TooLate
  <2>3. ASSUME NEW m \in Messages PROVE items[m] = notice[m]
    <3>1. Agrees(Ends(items[m], inbox, m), m)
      BY <2>1, <2>2 DEF BellRight, Foreseen
    <3>2. Ends(items[m], inbox, m) = items[m]
      BY <2>1, BellTyped, EndsNothing
    <3>3. ~Unsent(m)
      BY DEF Quiet, Unsent, Working
    <3>4. QED
      BY <2>1, <3>1, <3>2, <3>3 DEF Agrees
  <2>4. items = notice
    BY <2>3, BellTyped DEF Notices
  <2>5. QED
    BY <2>1, <2>4 DEF BellRight
<1>4. QED
  BY <1>1, <1>2, <1>3, PTL DEF LiveSpec
=============================================================================
