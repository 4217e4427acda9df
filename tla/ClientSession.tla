---------------------------- MODULE ClientSession ----------------------------
(***************************************************************************)
(* The pages over Sessions: auth-api (one refresh at a time per page),     *)
(* authorized-request (a 401 is retried once after a refresh), use-auth    *)
(* with AuthSessionSync (who is shown as signed in) and realtime-client.   *)
(*                                                                         *)
(* The refresh token is a cookie of the browser, shared by its tabs; the   *)
(* access token is in the sessionStorage of each tab.  Any answer may be   *)
(* late or lost, and a page may be reloaded while it waits.                *)
(***************************************************************************)
EXTENDS Sessions

CONSTANTS
    BrowserOf,  \* the browser of each tab
    Ops         \* of {"query", "socket"}: what a page does with its token

VARIABLES
    cookie,     \* per browser: the session of its refresh token, 0 for none
    token,      \* per tab: the session of its access token, 0 for none
    user,       \* per tab: the query cache holds a user
    op,         \* per tab and kind: where authorizedRequest or connectRealtime is
    connected,  \* tabs with a connected socket
    broken      \* history: sessions whose refresh brought no answer to its page

pageVars == <<cookie, token, user, op, connected, broken>>
vars == <<serverVars, pageVars>>

\* with: the session of the token the request was sent with.
OpRows == [at: {"idle", "wait1", "sent1", "wait2", "sent2", "dropped"},
           with: 0..MaxSessions]
Idle == [at |-> "idle", with |-> 0]

Init ==
    /\ SessionsInit
    /\ cookie = [b \in {BrowserOf[t] : t \in Tabs} |-> 0]
    /\ token = [t \in Tabs |-> 0] /\ user = [t \in Tabs |-> FALSE]
    /\ op = [t \in Tabs |-> [o \in Ops |-> Idle]]
    /\ connected = {} /\ broken = {}

-----------------------------------------------------------------------------
Cookie(t) == cookie[BrowserOf[t]]
SetCookie(t, s) == cookie' = [cookie EXCEPT ![BrowserOf[t]] = s]
SetToken(t, s) == token' = [token EXCEPT ![t] = s]
SetUser(t, shown) == user' = [user EXCEPT ![t] = shown]
At(t, o, at) == op[t][o].at = at
Move(t, o, at, s) == op' = [op EXCEPT ![t][o] = [at |-> at, with |-> s]]

Pending(t, kind) ==
    {c \in Slots : call[c] # NoCall /\ call[c].kind = kind /\ call[c].tab = t}

\* Faulty variant: every 401 sends a refresh of its own.
RefreshAgain(t) == \E c \in Calls \cup {t} : Send(c, t, "refresh", Cookie(t))

\* refresh: the promise in flight, if there is one.
Refresh(t) ==
    IF Pending(t, "refresh") # {} THEN UNCHANGED call
    ELSE Send(t, t, "refresh", Cookie(t))

\* authorizedRequest and connectRealtime begin with the token, or get one.
OpStart(t, o) ==
    /\ At(t, o, "idle") /\ o = "socket" => t \notin connected
    /\ IF token[t] # 0 THEN Move(t, o, "sent1", token[t]) /\ UNCHANGED call
                       ELSE Move(t, o, "wait1", 0) /\ Refresh(t)
    /\ UNCHANGED <<rows, sockets, cookie, token, user, connected, broken>>

\* notifyAuthSessionEnded: no user, and the query in flight is cancelled.
SessionEnded(t) == SetUser(t, FALSE)
Cancelled(q) == IF q.at \in {"wait2", "dropped"} THEN [at |-> "dropped", with |-> 0] ELSE Idle

\* The server's answer to a private request: the user, or a 401 that is
\* retried after a refresh, or the second one.
QueryServed(t) ==
    LET q == op[t]["query"] IN
    /\ q.at \in {"sent1", "sent2"}
    /\ \/ /\ Accepts(q.with)
          /\ SetUser(t, TRUE) /\ Move(t, "query", "idle", 0) /\ UNCHANGED <<call, token>>
       \/ /\ ~Accepts(q.with) /\ q.at = "sent1"
          /\ Move(t, "query", "wait2", 0) /\ Refresh(t) /\ UNCHANGED <<token, user>>
       \/ /\ ~Accepts(q.with) /\ q.at = "sent2"
          /\ SetToken(t, 0) /\ SessionEnded(t) /\ Move(t, "query", "idle", 0)
          /\ UNCHANGED call
    /\ UNCHANGED <<rows, sockets, cookie, connected, broken>>

\* The gateway's answer to a handshake; connectRealtime gives up after the second.
SocketServed(t) ==
    LET q == op[t]["socket"] IN
    /\ q.at \in {"sent1", "sent2"}
    /\ \/ /\ Accepts(q.with)
          /\ Admit(t) /\ connected' = connected \cup {t}
          /\ Move(t, "socket", "idle", 0) /\ UNCHANGED call
       \/ /\ ~Accepts(q.with) /\ q.at = "sent1"
          /\ Move(t, "socket", "wait2", 0) /\ Refresh(t) /\ UNCHANGED <<sockets, connected>>
       \/ /\ ~Accepts(q.with) /\ q.at = "sent2"
          /\ Move(t, "socket", "idle", 0) /\ UNCHANGED <<call, sockets, connected>>
    /\ UNCHANGED <<rows, cookie, token, user, broken>>

-----------------------------------------------------------------------------
(* The answers of the auth endpoints.                                      *)

\* Those who wait for the refresh send with the new token.
Resumed(t, s) ==
    [op EXCEPT ![t] = [o \in Ops |->
        CASE op[t][o].at = "wait1" -> [at |-> "sent1", with |-> s]
          [] op[t][o].at = "wait2" -> [at |-> "sent2", with |-> s]
          [] op[t][o].at = "dropped" -> Idle
          [] OTHER -> op[t][o]]]
\* Faulty variant: nobody is told that the refresh failed.
NoneRejected(t) == op

\* A refresh that failed rejects them all and cancels the query.
Rejected(t) ==
    [op EXCEPT ![t] = [o \in Ops |->
        IF o = "query" \/ op[t][o].at \in {"wait1", "wait2"} THEN Idle ELSE op[t][o]]]

Answered(c, kind) == InFlight(c, kind, "answered") /\ call[c].tab \in Tabs

RefreshOk(c) ==
    /\ Answered(c, "refresh") /\ call[c].made # 0
    /\ LET t == call[c].tab IN
       /\ SetCookie(t, call[c].made)
       /\ SetToken(t, IF \E o \in Ops : At(t, o, "dropped") THEN 0 ELSE call[c].made)
       /\ op' = Resumed(t, call[c].made)
    /\ Done(c)
    /\ UNCHANGED <<rows, sockets, user, connected, broken>>

RefreshFailed(t) == SetToken(t, 0) /\ SessionEnded(t) /\ op' = Rejected(t)

RefreshNo(c) ==
    /\ Answered(c, "refresh") /\ call[c].made = 0
    /\ RefreshFailed(call[c].tab) /\ Done(c)
    /\ UNCHANGED <<rows, sockets, cookie, connected>>
    /\ broken' = IF call[c].login # 0 THEN broken \cup {call[c].of} ELSE broken

\* The form is offered to who is not signed in, and disabled while it waits.
LoginStart(c, t, p) ==
    /\ ~user[t] /\ Pending(t, "login") = {} /\ Send(c, t, "login", p)
    /\ UNCHANGED <<rows, sockets, pageVars>>

LoginAnswered(c) ==
    /\ Answered(c, "login")
    /\ LET t == call[c].tab
           s == call[c].made IN
       IF s = 0 THEN UNCHANGED <<cookie, token, user>>
       ELSE SetCookie(t, s) /\ SetToken(t, s) /\ SetUser(t, TRUE)
    /\ Done(c)
    /\ UNCHANGED <<rows, sockets, op, connected, broken>>

\* disconnectRealtime: a handshake under way comes to nothing, a connectRealtime
\* that waits for its token does not.
HangUp(t) ==
    /\ Leave(t) /\ connected' = connected \ {t}
    /\ op' = [op EXCEPT ![t] = [o \in Ops |->
                 IF o = "socket" /\ op[t][o].at \in {"sent1", "sent2"} THEN Idle ELSE op[t][o]]]

LogoutStart(c, t) ==
    /\ user[t] /\ Pending(t, "logout") = {}
    /\ HangUp(t) /\ Send(c, t, "logout", Cookie(t))
    /\ UNCHANGED <<rows, cookie, token, user, broken>>

\* onSettled: whether it succeeded or not.
LogoutSettled(c) ==
    /\ Answered(c, "logout")
    /\ LET t == call[c].tab IN SetCookie(t, 0) /\ SetToken(t, 0) /\ SetUser(t, FALSE)
    /\ Done(c)
    /\ UNCHANGED <<rows, sockets, op, connected, broken>>

ResetStart(c, t, p) ==
    /\ Pending(t, "reset") = {} /\ Send(c, t, "reset", p)
    /\ UNCHANGED <<rows, sockets, pageVars>>

\* resetPassword of the page, then disconnectRealtime.
ResetAnswered(c) ==
    /\ Answered(c, "reset")
    /\ LET t == call[c].tab IN
       IF call[c].made = 0 THEN UNCHANGED <<cookie, token, user, op, connected, sockets>>
       ELSE /\ SetCookie(t, 0) /\ SetToken(t, 0) /\ SessionEnded(t)
            /\ Leave(t) /\ connected' = connected \ {t}
            /\ op' = [op EXCEPT ![t] = [o \in Ops |->
                  IF o = "query" THEN Cancelled(op[t][o])
                  ELSE IF op[t][o].at \in {"sent1", "sent2"} THEN Idle ELSE op[t][o]]]
    /\ Done(c) /\ UNCHANGED <<rows, broken>>

\* A request of a page or its answer is lost: the page sees it fail.
Lose(c) ==
    /\ call[c] # NoCall /\ call[c].tab \in Tabs /\ call[c].pc \in {"sent", "answered"}
    /\ MoreTrouble /\ lost' = lost + 1
    /\ Done(c)
    /\ LET t == call[c].tab IN
       /\ CASE call[c].kind = "refresh" -> RefreshFailed(t)
            [] call[c].kind = "logout" -> SetToken(t, 0) /\ SetUser(t, FALSE) /\ UNCHANGED op
            [] OTHER -> UNCHANGED <<token, user, op>>
       /\ broken' = IF call[c].kind = "refresh" /\ call[c].pc = "answered"
                    THEN broken \cup ({call[c].of} \ {0}) ELSE broken
    /\ UNCHANGED <<password, active, link, session, expired, blocks, sockets, cookie, connected>>

\* The page is loaded again: the requests of the old one go on without it.  The
\* access token stays in the sessionStorage.
Reload(t) ==
    /\ MoreTrouble /\ lost' = lost + 1
    /\ LET ours == {c \in Slots : call[c] # NoCall /\ call[c].tab = t} IN
       /\ \E c \in Calls :
              /\ call[t] # NoCall => call[c] = NoCall
              /\ call' = [d \in Slots |->
                     IF d = t THEN NoCall
                     ELSE IF d = c /\ call[t] # NoCall THEN [call[t] EXCEPT !.tab = Tabless]
                     ELSE IF d \in ours THEN [call[d] EXCEPT !.tab = Tabless] ELSE call[d]]
       /\ broken' = broken \cup ({call[c].of : c \in {d \in ours : call[d].kind = "refresh"}} \ {0})
    /\ op' = [op EXCEPT ![t] = [o \in Ops |-> Idle]]
    /\ SetUser(t, FALSE) /\ Leave(t) /\ connected' = connected \ {t}
    /\ UNCHANGED <<password, active, link, session, expired, blocks, cookie, token>>

\* Its answer reaches nobody.
Unheard(c) ==
    /\ call[c] # NoCall /\ call[c].tab = Tabless /\ call[c].pc = "answered"
    /\ Done(c) /\ UNCHANGED <<rows, sockets, pageVars>>

\* The server's closing of the room reaches the pages at once.
Server(A) ==
    /\ A
    /\ connected' = connected \ (room \ room')
    /\ UNCHANGED <<cookie, token, user, op, broken>>

PageContinue(c) ==
    \/ RefreshOk(c) \/ RefreshNo(c) \/ LoginAnswered(c) \/ LogoutSettled(c)
    \/ ResetAnswered(c) \/ Unheard(c)

QueryContinue(t) == "query" \in Ops /\ QueryServed(t)
SocketContinue(t) ==
    "socket" \in Ops /\ (SocketServed(t) \/ Server(Join(t) /\ UNCHANGED <<rows, call>>))

Next ==
    \/ Server(Elsewhere)
    \/ \E c \in Slots : Server(ServerContinue(c)) \/ PageContinue(c) \/ Lose(c)
    \/ \E c \in Calls, t \in Tabs :
           \/ \E p \in 0..password : LoginStart(c, t, p)
           \/ \E p \in Requested : ResetStart(c, t, p)
           \/ LogoutStart(c, t)
    \/ \E t \in Tabs :
           \/ QueryContinue(t) \/ SocketContinue(t) \/ Reload(t)
           \/ \E o \in Ops : OpStart(t, o)

Spec == Init /\ [][Next]_vars

-----------------------------------------------------------------------------
(* Properties.                                                             *)

TypeOK ==
    /\ SessionsTypeOK
    /\ cookie \in [{BrowserOf[t] : t \in Tabs} -> 0..MaxSessions]
    /\ token \in [Tabs -> 0..MaxSessions] /\ user \in [Tabs -> BOOLEAN]
    /\ op \in [Tabs -> [Ops -> OpRows]]
    /\ connected \subseteq Tabs /\ broken \subseteq Ids

\* No page is signed out by its own refresh: one that fails carried a session
\* that was ended on purpose, that another tab rotated, or whose rotation was
\* lost on the way.
NoPageSignsItselfOut ==
    \A c \in Slots : Answered(c, "refresh") /\ call[c].made = 0
                     /\ call[c].login = 0 =>
        LET s == call[c].of IN
        \/ s = 0
        \/ session[s].ended = "purpose" \/ s \in broken
        \/ session[s].by # call[c].tab

\* Whoever waits for a new token waits for a refresh that is in flight: one
\* that fails or is lost leaves no request of the page hanging.
NobodyWaitsForNothing ==
    \A t \in Tabs, o \in Ops :
        op[t][o].at \in {"wait1", "wait2", "dropped"} => Pending(t, "refresh") # {}

\* After logoutAll no socket of the account is left
\* (docs/local-manual-testing-plan.md, AUTH-05).
LogoutAllClosesSockets ==
    [][\A c \in Calls : InFlight(c, "logoutAll", "sent") /\ call'[c] = NoCall
                         => room' = {}]_vars
=============================================================================
