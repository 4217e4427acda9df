------------------------------ MODULE Sessions ------------------------------
(***************************************************************************)
(* The sessions of one account on the server: server/src/auth/auth.service, *)
(* the access check of jwt-access.strategy and the user's room of the      *)
(* realtime gateway.  A request is a record of `call' from its arrival to  *)
(* the arrival of its answer, and takes a step per await in between.       *)
(*                                                                         *)
(* The numbers of sessions and passwords are the order they are made in.   *)
(***************************************************************************)
EXTENDS Naturals, FiniteSets

CONSTANTS
    Tabs,           \* pages of the user's browsers
    Calls,          \* requests in flight, besides one refresh of each tab
    MaxSessions,    \* bound: sessions created
    MaxTrouble      \* bound: reset links, restrictions, losses and reloads in all

ASSUME SessionBounds == MaxSessions \in Nat \ {0} /\ MaxTrouble \in Nat

VARIABLES
    password,   \* the number of the current password
    active,     \* User.status is ACTIVE
    link,       \* per new password: the link that sets it, if it was sent
    session,    \* the rows of UserSession
    call,       \* requests in flight
    joining,    \* tabs whose socket is authenticated and not yet in the room
    room,       \* tabs whose socket is in the room of the user
    expired,    \* sessions whose access token is over its 15 minutes
    blocks,     \* how often the account was restricted
    lost,       \* how many messages and pages were lost
    epoch,      \* history: per tab, the entrances closed when its socket was let in
    missed      \* history: tabs let in before a closing and joining after it

rows == <<password, active, link, session, expired, blocks, lost>>
sockets == <<joining, room, epoch, missed>>
serverVars == <<rows, call, sockets>>

Kinds == {"login", "refresh", "logout", "logoutAll", "reset", "block"}
Ids == 1..MaxSessions
Slots == Calls \cup Tabs
Tabless == "api"
ASSUME NoTabIsTabless == Tabless \notin Tabs

\* of: the password, session or link the request carries; made: the session its
\* answer brings, 0 for none; late: overtaken by a reset while it was creating one.
NoCall == [kind |-> "none"]
CallRows == [kind: Kinds, tab: Tabs \cup {Tabless},
             pc: {"sent", "claim", "create", "act", "close", "answered"},
             of: 0..MaxSessions + MaxTrouble, made: 0..MaxSessions,
             password: 0..MaxTrouble, login: 0..MaxSessions, late: BOOLEAN]

\* A row and, for the properties, the login and the password it goes back to,
\* the tab it was rotated by and whether it is the work of a late call.
SessionRows == [ended: {"no", "rotated", "purpose"}, by: Tabs \cup {Tabless},
                login: Ids, password: 0..MaxTrouble, late: BOOLEAN]
Made == DOMAIN session
Live(s) == s \in Made /\ session[s].ended = "no"

\* How often the account's sockets were told to leave.
Closings == password + blocks
Requested == {p \in 1..MaxTrouble : link[p] # "none"}
MoreTrouble == Cardinality(Requested) + blocks + lost < MaxTrouble

SessionsInit ==
    /\ password = 0 /\ active = TRUE /\ link = [p \in 1..MaxTrouble |-> "none"]
    /\ session = <<>> /\ expired = {} /\ blocks = 0 /\ lost = 0
    /\ call = [c \in Slots |-> NoCall]
    /\ joining = {} /\ room = {} /\ missed = {}
    /\ epoch = [t \in Tabs |-> 0]

-----------------------------------------------------------------------------
InFlight(c, kind, pc) == call[c] # NoCall /\ call[c].kind = kind /\ call[c].pc = pc
Go(c, pc) == call' = [call EXCEPT ![c].pc = pc]
Answer(c, s) == call' = [call EXCEPT ![c].pc = "answered", ![c].made = s,
                                     ![c].password = 0, ![c].late = FALSE]
Done(c) == call' = [call EXCEPT ![c] = NoCall]

Request(tab, kind, of) ==
    [kind |-> kind, tab |-> tab, pc |-> "sent", of |-> of, made |-> 0,
     password |-> 0, login |-> 0, late |-> FALSE]
Send(c, tab, kind, of) ==
    call[c] = NoCall /\ call' = [call EXCEPT ![c] = Request(tab, kind, of)]

\* JwtAccessStrategy.validate, and the gateway's authenticate.
Accepts(s) == Live(s) /\ active /\ s \notin expired

\* Sessions whose revokedAt is still null get it, or are deleted.  Where an
\* ended one came from is of no interest any more.
Ended(how, by, s) ==
    [ended |-> how, by |-> by, login |-> s, password |-> 0, late |-> FALSE]
End(ids, how, by) ==
    /\ session' = [s \in Made |-> IF s \in ids /\ Live(s) THEN Ended(how, by, s) ELSE session[s]]
    /\ expired' = expired \ ids
EndAll == End(Made, "purpose", Tabless)

\* disconnectUser closes the sockets that are in the room.
CloseRoom ==
    /\ room' = {} /\ missed' = joining
    /\ epoch' = [t \in Tabs |-> IF t \in room THEN 0 ELSE epoch[t]]
    /\ UNCHANGED joining

-----------------------------------------------------------------------------
(* login and refresh.                                                      *)

\* login: the user is read, the password compared with that row's.
LoginCheck(c) ==
    /\ InFlight(c, "login", "sent")
    /\ IF call[c].of = password /\ active
       THEN call' = [call EXCEPT ![c].pc = "create", ![c].password = password]
       ELSE Answer(c, 0)
    /\ UNCHANGED <<rows, sockets>>

RefreshCheck(c) ==
    /\ InFlight(c, "refresh", "sent")
    /\ IF Live(call[c].of) THEN Go(c, "claim") ELSE Answer(c, 0)
    /\ UNCHANGED <<rows, sockets>>

\* Faulty variant: the session is revoked, whoever revoked it before.
ClaimUnconditionally(c) ==
    /\ InFlight(c, "refresh", "claim")
    /\ LET s == call[c].of IN
       /\ End({s}, "rotated", call[c].tab)
       /\ call' = [call EXCEPT ![c].pc = "create", ![c].login = session[s].login,
                       ![c].password = session[s].password, ![c].late = session[s].late]
    /\ UNCHANGED <<password, active, link, blocks, lost, sockets>>

\* updateMany where revokedAt is null: one of several refreshes wins.
RefreshClaim(c) ==
    /\ InFlight(c, "refresh", "claim")
    /\ LET s == call[c].of IN
       IF Live(s)
       THEN /\ End({s}, "rotated", call[c].tab)
            /\ call' = [call EXCEPT ![c].pc = "create", ![c].login = session[s].login,
                            ![c].password = session[s].password, ![c].late = session[s].late]
       ELSE Answer(c, 0) /\ UNCHANGED <<session, expired>>
    /\ UNCHANGED <<password, active, link, blocks, lost, sockets>>

\* Faulty variant: createSession continues as if its statement never failed.
CreateAnyway(c) ==
    /\ call[c] # NoCall /\ call[c].pc = "create"
    /\ LET s == Cardinality(Made) + 1 IN
       /\ session' = [i \in Made \cup {s} |->
              IF i = s THEN [ended |-> "no", by |-> Tabless, login |-> call[c].login,
                             password |-> call[c].password, late |-> call[c].late]
              ELSE session[i]]
       /\ Answer(c, s)
    /\ UNCHANGED <<password, active, link, expired, blocks, lost, sockets>>

\* createSession is a statement of its own; at the bound it fails.
CreateSession(c) ==
    /\ call[c] # NoCall /\ call[c].pc = "create"
    /\ LET s == Cardinality(Made) + 1
           row == [ended |-> "no", by |-> Tabless,
                   login |-> IF call[c].kind = "login" THEN s ELSE call[c].login,
                   password |-> call[c].password, late |-> call[c].late] IN
       IF s \in Ids
       THEN session' = [i \in Made \cup {s} |-> IF i = s THEN row ELSE session[i]]
            /\ Answer(c, s)
       ELSE UNCHANGED session /\ Answer(c, 0)
    /\ UNCHANGED <<password, active, link, expired, blocks, lost, sockets>>

Expire(s) ==
    /\ Live(s) /\ s \notin expired /\ expired' = expired \cup {s}
    /\ UNCHANGED <<password, active, link, session, blocks, lost, call, sockets>>

-----------------------------------------------------------------------------
(* logout, logoutAll, password reset and restriction.                      *)

Logout(c) ==
    /\ InFlight(c, "logout", "sent")
    /\ End({call[c].of}, "purpose", Tabless)
    /\ Answer(c, 0)
    /\ UNCHANGED <<password, active, link, blocks, lost, sockets>>

\* logoutAll, from some device: the access check, then one updateMany.
LogoutAllStart(c) ==
    /\ \E s \in Made : Accepts(s)
    /\ Send(c, Tabless, "logoutAll", 0)
    /\ UNCHANGED <<rows, sockets>>

LogoutAll(c) ==
    /\ InFlight(c, "logoutAll", "sent")
    /\ EndAll /\ Done(c)
    /\ UNCHANGED <<password, active, link, blocks, lost, sockets>>

\* requestPasswordReset: older links are spent in the transaction of the new.
RequestReset(p) ==
    /\ active /\ MoreTrouble /\ p = Cardinality(Requested) + 1
    /\ link' = [q \in 1..MaxTrouble |-> IF q = p THEN "sent"
                                          ELSE IF link[q] = "sent" THEN "spent" ELSE link[q]]
    /\ UNCHANGED <<password, active, session, expired, blocks, lost, call, sockets>>

ResetCheck(c) ==
    /\ InFlight(c, "reset", "sent")
    /\ IF link[call[c].of] = "sent" /\ active THEN Go(c, "act") ELSE Answer(c, 0)
    /\ UNCHANGED <<rows, sockets>>

\* A call past its check when the reset commits brings its session afterwards.
Overtake(c, pc) ==
    [d \in Slots |->
        IF d = c THEN [call[d] EXCEPT !.pc = pc, !.made = 1]
        ELSE IF call[d] # NoCall /\ call[d].pc = "create" THEN [call[d] EXCEPT !.late = TRUE]
        ELSE call[d]]

\* Faulty variant: the sockets of the account are left open.
ResetLeavesSockets(c) ==
    /\ InFlight(c, "reset", "act")
    /\ IF link[call[c].of] = "sent"
       THEN /\ link' = [link EXCEPT ![call[c].of] = "spent"]
            /\ password' = password + 1
            /\ EndAll /\ call' = Overtake(c, "answered")
       ELSE Answer(c, 0) /\ UNCHANGED <<link, password, session, expired>>
    /\ UNCHANGED <<active, blocks, lost, sockets>>

\* Faulty variant: the sessions are left for the next refresh to find out.
ResetKeepsSessions(c) ==
    /\ InFlight(c, "reset", "act")
    /\ IF link[call[c].of] = "sent"
       THEN /\ link' = [link EXCEPT ![call[c].of] = "spent"]
            /\ password' = password + 1
            /\ call' = Overtake(c, "close")
       ELSE Answer(c, 0) /\ UNCHANGED <<link, password>>
    /\ UNCHANGED <<active, session, expired, blocks, lost, sockets>>

\* The transaction: the link is claimed, the hash set, the sessions revoked.
\* made = 1 stands for the answer {reset: true}.
Reset(c) ==
    /\ InFlight(c, "reset", "act")
    /\ IF link[call[c].of] = "sent"
       THEN /\ link' = [link EXCEPT ![call[c].of] = "spent"]
            /\ password' = password + 1
            /\ EndAll /\ call' = Overtake(c, "close")
       ELSE Answer(c, 0) /\ UNCHANGED <<link, password, session, expired>>
    /\ UNCHANGED <<active, blocks, lost, sockets>>

ResetClose(c) ==
    /\ InFlight(c, "reset", "close")
    /\ CloseRoom /\ Answer(c, 1) /\ UNCHANGED rows

\* updateUser with a status that is not ACTIVE, and its disconnectUser.
Block(c) ==
    /\ active /\ MoreTrouble
    /\ active' = FALSE /\ blocks' = blocks + 1
    /\ EndAll
    /\ call[c] = NoCall
    /\ call' = [call EXCEPT ![c] = [Request(Tabless, "block", 0) EXCEPT !.pc = "close"]]
    /\ UNCHANGED <<password, link, lost, sockets>>

BlockClose(c) ==
    /\ InFlight(c, "block", "close")
    /\ CloseRoom /\ Done(c) /\ UNCHANGED rows

Unblock ==
    /\ ~active /\ active' = TRUE
    /\ UNCHANGED <<password, link, session, expired, blocks, lost, call, sockets>>

-----------------------------------------------------------------------------
(* The sockets.                                                            *)

\* The gateway's middleware lets a socket in; handleConnection joins the room.
Admit(t) ==
    /\ joining' = joining \cup {t}
    /\ epoch' = [epoch EXCEPT ![t] = Closings]
    /\ missed' = missed \ {t}
    /\ UNCHANGED room

Join(t) ==
    /\ t \in joining
    /\ joining' = joining \ {t} /\ room' = room \cup {t}
    /\ UNCHANGED <<epoch, missed>>

\* The tab closes its socket.
Leave(t) ==
    /\ joining' = joining \ {t} /\ room' = room \ {t} /\ missed' = missed \ {t}
    /\ epoch' = [epoch EXCEPT ![t] = 0]

\* The steps of a request that arrived.
ServerContinue(c) ==
    \/ LoginCheck(c) \/ RefreshCheck(c) \/ RefreshClaim(c) \/ CreateSession(c)
    \/ Logout(c) \/ LogoutAll(c) \/ ResetCheck(c) \/ Reset(c) \/ ResetClose(c)
    \/ BlockClose(c)

\* What others do: time, mail, another device, an administrator.
Elsewhere ==
    \/ \E s \in Ids : Expire(s)
    \/ \E p \in 1..MaxTrouble : RequestReset(p)
    \/ \E c \in Calls : LogoutAllStart(c) \/ Block(c)
    \/ Unblock

-----------------------------------------------------------------------------
(* Properties.                                                             *)

SessionsTypeOK ==
    /\ password \in 0..MaxTrouble /\ active \in BOOLEAN
    /\ {blocks, lost} \subseteq 0..MaxTrouble
    /\ link \in [1..MaxTrouble -> {"none", "sent", "spent"}]
    /\ Made = 1..Cardinality(Made) /\ Made \subseteq Ids
    /\ \A s \in Made : session[s] \in SessionRows
    /\ call \in [Slots -> CallRows \cup {NoCall}]
    /\ expired \subseteq Made /\ joining \cup room \cup missed \subseteq Tabs
    /\ epoch \in [Tabs -> Nat]

\* A login goes on in one session at a time, however many refreshes, from
\* however many tabs, carry the same token.
OneLivePerLogin ==
    \A s, r \in Made : Live(s) /\ Live(r) /\ session[s].login = session[r].login => s = r

\* After a password reset an old password or an old token is good for nothing,
\* except through a request that had passed its check before the reset
\* (docs/local-manual-testing-plan.md, AUTH-06).
OldSessionsEnd ==
    \A s \in Made : Live(s) /\ session[s].password < password => session[s].late

\* Once a reset or a restriction has closed the sockets, the ones left were
\* authenticated after it, or before it and had not joined the room yet.
OldSocketsClose ==
    (\A c \in Slots : call[c] # NoCall => call[c].pc # "close")
        => \A t \in room \ missed : epoch[t] = Closings
=============================================================================
