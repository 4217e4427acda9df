--------------------------- MODULE SessionsProofs ---------------------------
(***************************************************************************)
(* Theorems about Sessions, driven by the pages of ClientSession, for any  *)
(* tabs, browsers and requests in flight: a login goes on in one session   *)
(* at a time, a password reset ends the old ones and their sockets, nobody *)
(* waits for a refresh that is over, and no page signs itself out.         *)
(*                                                                         *)
(* A refresh ends its session in one statement and creates the next in     *)
(* another.  In between the login has no session but the request, so each  *)
(* invariant speaks of the sessions and of the requests that carry them.   *)
(***************************************************************************)
EXTENDS ClientSession, FiniteSetTheorems, TLAPS

CallFields == {"kind", "tab", "pc", "of", "made", "password", "login", "late"}

Creating(c) == call[c] # NoCall /\ call[c].pc = "create"
Renewing(c) == Creating(c) /\ call[c].kind = "refresh"

Numbered == \E n \in Nat : Made = 1..n
CallsTyped ==
    /\ call = [c \in Slots |-> call[c]]
    /\ \A c \in Slots : call[c] = NoCall \/ DOMAIN call[c] = CallFields

\* Sessions and refreshes go on with logins there have been.
LoginsMade ==
    /\ \A s \in Made : Live(s) => session[s].login \in Made
    /\ \A c \in Slots : Renewing(c) => call[c].login \in Made

\* A login that a refresh is about to renew has no other session or refresh.
OneAtATime ==
    /\ \A c, d \in Slots :
          Renewing(c) /\ Renewing(d) /\ call[c].login = call[d].login => c = d
    /\ \A c \in Slots, s \in Made :
          Renewing(c) /\ Live(s) => session[s].login # call[c].login

\* Whoever is about to create a session knows the password, or was overtaken.
OldCallsLate ==
    /\ password \in Nat
    /\ \A c \in Slots :
          Creating(c) => /\ call[c].kind \in {"login", "refresh"}
                         /\ call[c].password < password => call[c].late = TRUE
    /\ \A s \in Made : Live(s) /\ session[s].password < password => session[s].late = TRUE

SessionInv ==
    /\ Numbered /\ CallsTyped /\ LoginsMade /\ OneAtATime /\ OldCallsLate
    /\ OneLivePerLogin

LEMMA SessionInvInit == Init => SessionInv
<1> SUFFICES ASSUME Init PROVE SessionInv
  OBVIOUS
<1>1. /\ session = <<>> /\ password = 0 /\ call = [c \in Slots |-> NoCall]
  BY DEF Init, SessionsInit
<1>2. Made = {} /\ Made = 1..0
  BY <1>1 DEF Made
<1>3. Numbered
  BY <1>2 DEF Numbered
<1>4. \A c \in Slots : ~Creating(c) /\ call[c] = NoCall
  BY <1>1 DEF Creating
<1>5. CallsTyped
  BY <1>1, <1>4 DEF CallsTyped
<1>6. QED
  BY <1>1, <1>2, <1>3, <1>4, <1>5
     DEF SessionInv, LoginsMade, OneAtATime, OldCallsLate, OneLivePerLogin, Renewing

-----------------------------------------------------------------------------
(* Steps that create nothing.                                              *)

SameWork(d, c) ==
    /\ Creating(c) /\ call'[d].kind = call[c].kind /\ call'[d].login = call[c].login
    /\ call'[d].password = call[c].password /\ call'[d].late = call[c].late

NothingNew ==
    /\ DOMAIN session' = Made /\ password' = password
    /\ \A s \in Made : session'[s] = session[s] \/ session'[s].ended # "no"

\* Every call about to create a session after the step was one before it,
\* maybe in another slot.
LEMMA CallsGoOn ==
    ASSUME SessionInv, NothingNew, CallsTyped', NEW from,
           \A d \in Slots : Creating(d)' => from[d] \in Slots /\ SameWork(d, from[d]),
           \A d, e \in Slots : Creating(d)' /\ Creating(e)' /\ from[d] = from[e] => d = e
    PROVE  SessionInv'
<1> USE DEF SessionInv
<1>1. Made' = Made /\ \A s \in Made : Live(s)' => Live(s) /\ session'[s] = session[s]
  BY DEF NothingNew, Made, Live
<1>2. \A d \in Slots : Renewing(d)' => Renewing(from[d]) /\ call'[d].login = call[from[d]].login
  BY DEF Renewing, SameWork
<1>3. Numbered'
  BY <1>1 DEF Numbered
<1>4. LoginsMade'
  BY <1>1, <1>2 DEF LoginsMade, Renewing
<1>5. OneAtATime'
  BY <1>1, <1>2 DEF OneAtATime, Renewing
<1>6. OldCallsLate'
  BY <1>1 DEF OldCallsLate, SameWork, NothingNew
<1>7. OneLivePerLogin'
  BY <1>1 DEF OneLivePerLogin
<1>8. QED
  BY <1>3, <1>4, <1>5, <1>6, <1>7

CallsStay == CallsTyped' /\ \A d \in Slots : Creating(d)' => SameWork(d, d)

LEMMA Quiet ==
    ASSUME SessionInv, NothingNew, CallsStay
    PROVE  SessionInv'
<1> DEFINE from == [d \in Slots |-> d]
<1>1. \A d \in Slots : Creating(d)' => from[d] \in Slots /\ SameWork(d, from[d])
  BY DEF CallsStay
<1>2. \A d, e \in Slots : Creating(d)' /\ Creating(e)' /\ from[d] = from[e] => d = e
  OBVIOUS
<1> HIDE DEF from
<1>3. QED
  BY <1>1, <1>2, CallsGoOn DEF CallsStay

LEMMA NoCallChanged ==
    ASSUME SessionInv, UNCHANGED call
    PROVE  CallsStay
BY DEF SessionInv, CallsStay, CallsTyped, SameWork, Creating

\* One slot changes, to a call that creates nothing.
LEMMA OneCallChanged ==
    ASSUME SessionInv, NEW c \in Slots, NEW now,
           now = NoCall \/ (DOMAIN now = CallFields /\ now.pc # "create"),
           call' = [call EXCEPT ![c] = now]
    PROVE  CallsStay
<1>1. /\ call' = [d \in Slots |-> call'[d]] /\ call'[c] = now
      /\ \A d \in Slots \ {c} : call'[d] = call[d]
  BY DEF SessionInv, CallsTyped
<1>2. ~Creating(c)'
  BY <1>1 DEF Creating
<1>3. CallsTyped'
  BY <1>1 DEF SessionInv, CallsTyped
<1>4. QED
  BY <1>1, <1>2, <1>3 DEF CallsStay, SameWork, Creating

LEMMA RequestFields ==
    ASSUME NEW tab, NEW kind, NEW of
    PROVE  /\ DOMAIN Request(tab, kind, of) = CallFields
           /\ Request(tab, kind, of).pc = "sent"
BY DEF Request, CallFields

LEMMA Sends ==
    ASSUME SessionInv, NEW c \in Slots, NEW tab, NEW kind, NEW of, Send(c, tab, kind, of)
    PROVE  CallsStay
BY OneCallChanged, RequestFields DEF Send

LEMMA Refreshes ==
    ASSUME SessionInv, NEW t \in Tabs, Refresh(t) PROVE CallsStay
BY Sends, NoCallChanged DEF Refresh, Slots

LEMMA Ends == ASSUME SessionInv, NEW c \in Slots, Done(c) PROVE CallsStay
<1>1. /\ call' = [d \in Slots |-> call'[d]] /\ call'[c] = NoCall
      /\ \A d \in Slots \ {c} : call'[d] = call[d]
  BY DEF Done, SessionInv, CallsTyped
<1>2. CallsTyped'
  BY <1>1 DEF SessionInv, CallsTyped
<1>3. QED
  BY <1>1, <1>2 DEF CallsStay, SameWork, Creating

LEMMA Goes ==
    ASSUME SessionInv, NEW c \in Slots, call[c] # NoCall, NEW pc, pc # "create", Go(c, pc)
    PROVE  CallsStay
<1>1. DOMAIN call[c] = CallFields
  BY DEF SessionInv, CallsTyped
<1> DEFINE now == [call[c] EXCEPT !.pc = pc]
<1>2. DOMAIN now = CallFields /\ now.pc = pc
  BY <1>1 DEF CallFields
<1>3. call' = [call EXCEPT ![c] = now]
  BY DEF Go
<1> HIDE DEF now
<1>4. QED
  BY <1>2, <1>3, OneCallChanged

LEMMA Answers ==
    ASSUME SessionInv, NEW c \in Slots, call[c] # NoCall, NEW s, Answer(c, s)
    PROVE  CallsStay
<1>1. DOMAIN call[c] = CallFields
  BY DEF SessionInv, CallsTyped
<1> DEFINE now == [call[c] EXCEPT !.pc = "answered", !.made = s, !.password = 0, !.late = FALSE]
<1>2. DOMAIN now = CallFields /\ now.pc = "answered"
  BY <1>1 DEF CallFields
<1>3. call' = [call EXCEPT ![c] = now]
  BY DEF Answer, SessionInv, CallsTyped
<1> HIDE DEF now
<1>4. QED
  BY <1>2, <1>3, OneCallChanged

LEMMA RowsStay == ASSUME UNCHANGED <<session, password>> PROVE NothingNew
BY DEF NothingNew, Made

LEMMA RowsEnd ==
    ASSUME NEW ids, NEW how, NEW by, how # "no", End(ids, how, by), UNCHANGED password
    PROVE  NothingNew
BY DEF End, Ended, NothingNew, Made

-----------------------------------------------------------------------------
(* The steps of the server.                                                *)

LEMMA LoginSteps ==
    ASSUME SessionInv, NEW c \in Slots, LoginCheck(c) PROVE SessionInv'
<1> USE DEF SessionInv
<1>1. NothingNew /\ call[c] # NoCall /\ call[c].kind = "login" /\ DOMAIN call[c] = CallFields
  BY RowsStay DEF LoginCheck, InFlight, rows, CallsTyped
<1>2. CASE Answer(c, 0)
  BY <1>1, <1>2, Answers, Quiet
<1>3. CASE call' = [call EXCEPT ![c].pc = "create", ![c].password = password]
  <2> DEFINE now == [call[c] EXCEPT !.pc = "create", !.password = password]
  <2>1. /\ DOMAIN now = CallFields /\ now.pc = "create" /\ now.password = password
        /\ now.kind = "login"
    BY <1>1 DEF CallFields
  <2>2. call' = [call EXCEPT ![c] = now]
    BY <1>3 DEF CallsTyped
  <2> HIDE DEF now
  <2>3. /\ call' = [d \in Slots |-> call'[d]] /\ call'[c] = now
        /\ \A d \in Slots \ {c} : call'[d] = call[d]
    BY <2>2 DEF CallsTyped
  <2>4. CallsTyped'
    BY <2>1, <2>3 DEF CallsTyped
  <2>5. UNCHANGED <<session, password>> /\ Made' = Made
    BY DEF LoginCheck, rows, Made
  <2>6. \A d \in Slots : Renewing(d)' => Renewing(d) /\ call'[d] = call[d]
    BY <2>1, <2>3 DEF Renewing, Creating
  <2>7. OldCallsLate'
    BY <2>1, <2>3, <2>5 DEF OldCallsLate, Creating, Live
  <2>8. LoginsMade' /\ OneAtATime' /\ OneLivePerLogin' /\ Numbered'
    BY <2>5, <2>6 DEF LoginsMade, OneAtATime, OneLivePerLogin, Numbered, Live
  <2>9. QED
    BY <2>4, <2>7, <2>8
<1>4. QED
  BY <1>2, <1>3 DEF LoginCheck

\* The refresh takes the login over from its session.
LEMMA ClaimSteps ==
    ASSUME SessionInv, NEW c \in Slots, RefreshClaim(c) PROVE SessionInv'
<1> USE DEF SessionInv
<1> DEFINE s == call[c].of
<1>1. /\ call[c] # NoCall /\ call[c].kind = "refresh" /\ DOMAIN call[c] = CallFields
      /\ password' = password
  BY DEF RefreshClaim, InFlight, CallsTyped
<1>2. CASE ~Live(s)
  BY <1>1, <1>2, RowsStay, Answers, Quiet DEF RefreshClaim
<1>3. CASE Live(s)
  <2> DEFINE now == [call[c] EXCEPT !.pc = "create", !.login = session[s].login,
                         !.password = session[s].password, !.late = session[s].late]
  <2>1. /\ DOMAIN now = CallFields /\ now.pc = "create" /\ now.kind = "refresh"
        /\ now.login = session[s].login /\ now.password = session[s].password
        /\ now.late = session[s].late
    BY <1>1 DEF CallFields
  <2>2. call' = [call EXCEPT ![c] = now]
    BY <1>3 DEF RefreshClaim, CallsTyped
  <2>3. End({s}, "rotated", call[c].tab)
    BY <1>3 DEF RefreshClaim
  <2> HIDE DEF now
  <2>4. /\ call' = [d \in Slots |-> call'[d]] /\ call'[c] = now
        /\ \A d \in Slots \ {c} : call'[d] = call[d]
    BY <2>2 DEF CallsTyped
  <2> HIDE DEF s
  <2>5. /\ Made' = Made /\ s \in Made
        /\ \A r \in Made : Live(r)' => Live(r) /\ r # s /\ session'[r] = session[r]
    BY <1>3, <2>3 DEF End, Ended, Live, Made
  <2>6. \A d \in Slots : Renewing(d)' => d = c \/ (Renewing(d) /\ call'[d] = call[d])
    <3> SUFFICES ASSUME NEW d \in Slots \ {c}, Renewing(d)'
                 PROVE  Renewing(d) /\ call'[d] = call[d]
      OBVIOUS
    <3>1. call'[d] = call[d]
      BY <2>4
    <3>2. QED
      BY <3>1 DEF Renewing, Creating
  <2>7. CallsTyped' /\ Numbered'
    BY <2>1, <2>4, <2>5 DEF CallsTyped, Numbered
  <2>8. LoginsMade'
    BY <1>3, <2>1, <2>4, <2>5, <2>6 DEF LoginsMade
  <2>9. OneAtATime'
    <3>1. \A d \in Slots : Renewing(d)' /\ call'[d].login = now.login => d = c
      BY <1>3, <2>1, <2>5, <2>6 DEF OneAtATime
    <3>2. \A r \in Made' : Live(r)' => session'[r].login # now.login
      BY <1>3, <2>1, <2>5 DEF OneLivePerLogin
    <3>3. QED
      BY <2>4, <2>5, <2>6, <3>1, <3>2 DEF OneAtATime
  <2>10. OldCallsLate'
    BY <1>1, <1>3, <2>1, <2>4, <2>5 DEF OldCallsLate, Creating
  <2>11. OneLivePerLogin'
    BY <2>5 DEF OneLivePerLogin
  <2>12. QED
    BY <2>7, <2>8, <2>9, <2>10, <2>11
<1>4. QED
  BY <1>2, <1>3

\* The new session takes it over from the refresh, or begins a login.
LEMMA CreateSteps ==
    ASSUME SessionInv, NEW c \in Slots, CreateSession(c) PROVE SessionInv'
<1> USE DEF SessionInv
<1> DEFINE s == Cardinality(Made) + 1
           row == [ended |-> "no", by |-> Tabless,
                   login |-> IF call[c].kind = "login" THEN s ELSE call[c].login,
                   password |-> call[c].password, late |-> call[c].late]
<1>1. Creating(c) /\ password' = password
  BY DEF CreateSession, Creating
<1>2. CASE UNCHANGED session /\ Answer(c, 0)
  BY <1>1, <1>2, RowsStay, Answers, Quiet DEF Creating
<1>3. CASE /\ session' = [i \in Made \cup {s} |-> IF i = s THEN row ELSE session[i]]
           /\ Answer(c, s)
  <2>1. s \notin Made /\ Numbered'
    <3>1. PICK n \in Nat : Made = 1..n
      BY DEF Numbered
    <3>2. s = n + 1
      <4>1. Cardinality(1..n) = IF 1 > n THEN 0 ELSE n - 1 + 1
        BY FS_Interval
      <4>2. QED
        BY <3>1, <4>1
    <3>3. Made' = 1..(n + 1)
      BY <1>3, <3>1, <3>2 DEF Made
    <3>4. QED
      BY <3>1, <3>2, <3>3 DEF Numbered
  <2>2. /\ row.ended = "no" /\ row.password = call[c].password /\ row.late = call[c].late
        /\ call[c].kind = "login" => row.login = s
        /\ call[c].kind # "login" => row.login = call[c].login
    OBVIOUS
  <2> HIDE DEF s, row
  <2>3. /\ Made' = Made \cup {s} /\ session'[s] = row
        /\ \A r \in Made : session'[r] = session[r] /\ r # s
    BY <1>3, <2>1 DEF Made
  <2>4. CallsStay
    BY <1>1, <1>3, Answers DEF Creating
  <2>5. ~Creating(c)'
    BY <1>1, <1>3 DEF Answer, CallsTyped, CallFields, Creating, NoCall
  <2>6. \A d \in Slots : Renewing(d)' =>
           d # c /\ Renewing(d) /\ call'[d].login = call[d].login
    BY <2>4, <2>5 DEF CallsStay, Renewing, SameWork
  <2>7. \A r \in Made : Live(r)' => Live(r)
    BY <2>3 DEF Live
  <2>8. call[c].kind # "login" => Renewing(c)
    BY <1>1 DEF OldCallsLate, Renewing
  <2>9. LoginsMade'
    BY <2>2, <2>3, <2>6, <2>7, <2>8 DEF LoginsMade
  <2>10. \A d \in Slots : Renewing(d)' => call'[d].login # row.login
    BY <2>1, <2>2, <2>6, <2>8 DEF LoginsMade, OneAtATime
  <2>11. \A r \in Made : Live(r)' => session[r].login # row.login
    BY <2>1, <2>2, <2>7, <2>8 DEF LoginsMade, OneAtATime
  <2>12. OneAtATime'
    BY <2>3, <2>6, <2>7, <2>10 DEF OneAtATime
  <2>13. OneLivePerLogin'
    BY <2>3, <2>7, <2>11 DEF OneLivePerLogin
  <2>14. OldCallsLate'
    BY <1>1, <2>2, <2>3, <2>4, <2>7 DEF OldCallsLate, CallsStay, SameWork
  <2>15. QED
    BY <2>1, <2>4, <2>9, <2>12, <2>13, <2>14 DEF CallsStay
<1>4. QED
  BY <1>2, <1>3 DEF CreateSession

\* No session is left; who is about to create one is overtaken.
LEMMA ResetSteps ==
    ASSUME SessionInv, NEW c \in Slots, Reset(c) PROVE SessionInv'
<1> USE DEF SessionInv
<1>1. call[c] # NoCall /\ DOMAIN call[c] = CallFields /\ call[c].pc = "act"
  BY DEF Reset, InFlight, CallsTyped
<1>2. CASE Answer(c, 0) /\ UNCHANGED <<password, session>>
  BY <1>1, <1>2, RowsStay, Answers, Quiet
<1>3. CASE password' = password + 1 /\ EndAll /\ call' = Overtake(c, "close")
  <2>1. Made' = Made /\ \A s \in Made : ~Live(s)'
    BY <1>3 DEF EndAll, End, Ended, Live, Made
  <2>2. /\ call' = [d \in Slots |-> call'[d]]
        /\ call'[c] = [call[c] EXCEPT !.pc = "close", !.made = 1]
        /\ \A d \in Slots \ {c} : Creating(d) => call'[d] = [call[d] EXCEPT !.late = TRUE]
        /\ \A d \in Slots \ {c} : ~Creating(d) => call'[d] = call[d]
    BY <1>3 DEF Overtake, Creating
  <2>3. ~Creating(c)' /\ DOMAIN call'[c] = CallFields
    BY <1>1, <2>2 DEF Creating, CallFields
  <2>4. \A d \in Slots \ {c} : Creating(d) =>
           /\ DOMAIN call'[d] = CallFields /\ call'[d].late = TRUE
           /\ call'[d].kind = call[d].kind /\ call'[d].login = call[d].login
    <3> SUFFICES ASSUME NEW d \in Slots \ {c}, Creating(d)
                 PROVE  /\ DOMAIN call'[d] = CallFields /\ call'[d].late = TRUE
                        /\ call'[d].kind = call[d].kind /\ call'[d].login = call[d].login
      OBVIOUS
    <3>1. DOMAIN call[d] = CallFields
      BY DEF CallsTyped, Creating
    <3>2. QED
      BY <2>2, <3>1 DEF CallFields
  <2>5. \A d \in Slots : Creating(d)' => Creating(d) /\ d # c
    BY <2>2, <2>3 DEF Creating
  <2>6. CallsTyped'
    BY <2>2, <2>3, <2>4 DEF CallsTyped
  <2>7. \A d \in Slots : Renewing(d)' => Renewing(d) /\ call'[d].login = call[d].login
    BY <2>4, <2>5 DEF Renewing
  <2>8. LoginsMade' /\ OneAtATime' /\ OneLivePerLogin' /\ Numbered'
    BY <2>1, <2>7 DEF LoginsMade, OneAtATime, OneLivePerLogin, Numbered
  <2>9. OldCallsLate'
    BY <1>3, <2>1, <2>4, <2>5 DEF OldCallsLate
  <2>10. QED
    BY <2>6, <2>8, <2>9
<1>4. QED
  BY <1>2, <1>3 DEF Reset

LEMMA ServerSteps ==
    ASSUME SessionInv, NEW c \in Slots, ServerContinue(c) PROVE SessionInv'
<1>1. CASE RefreshCheck(c)
  BY <1>1, RowsStay, Goes, Answers, Quiet DEF RefreshCheck, InFlight, rows
<1>2. CASE Logout(c)
  BY <1>2, RowsEnd, Answers, Quiet DEF Logout, InFlight
<1>3. CASE LogoutAll(c)
  BY <1>3, RowsEnd, Ends, Quiet DEF LogoutAll, EndAll
<1>4. CASE ResetCheck(c)
  BY <1>4, RowsStay, Goes, Answers, Quiet DEF ResetCheck, InFlight, rows
<1>5. CASE ResetClose(c)
  BY <1>5, RowsStay, Answers, Quiet DEF ResetClose, InFlight, rows
<1>6. CASE BlockClose(c)
  BY <1>6, RowsStay, Ends, Quiet DEF BlockClose, rows
<1>7. QED
  BY <1>1, <1>2, <1>3, <1>4, <1>5, <1>6, LoginSteps, ClaimSteps, CreateSteps, ResetSteps
     DEF ServerContinue

LEMMA OtherSteps ==
    ASSUME SessionInv, Elsewhere PROVE SessionInv'
<1>1. ASSUME NEW s \in Ids, Expire(s) PROVE SessionInv'
  BY <1>1, RowsStay, NoCallChanged, Quiet DEF Expire
<1>2. ASSUME NEW p \in 1..MaxTrouble, RequestReset(p) PROVE SessionInv'
  BY <1>2, RowsStay, NoCallChanged, Quiet DEF RequestReset
<1>3. ASSUME NEW c \in Calls, LogoutAllStart(c) PROVE SessionInv'
  BY <1>3, RowsStay, Sends, Quiet DEF LogoutAllStart, rows, Slots
<1>4. ASSUME NEW c \in Calls, Block(c) PROVE SessionInv'
  <2> DEFINE now == [Request(Tabless, "block", 0) EXCEPT !.pc = "close"]
  <2>1. DOMAIN now = CallFields /\ now.pc = "close"
    BY RequestFields DEF CallFields
  <2>2. call' = [call EXCEPT ![c] = now] /\ c \in Slots
    BY <1>4 DEF Block, Slots
  <2> HIDE DEF now
  <2>3. CallsStay
    BY <2>1, <2>2, OneCallChanged
  <2>4. QED
    BY <1>4, <2>3, RowsEnd, Quiet DEF Block, EndAll
<1>5. CASE Unblock
  BY <1>5, RowsStay, NoCallChanged, Quiet DEF Unblock
<1>6. QED
  BY <1>1, <1>2, <1>3, <1>4, <1>5 DEF Elsewhere

-----------------------------------------------------------------------------
(* The steps of the pages.                                                 *)

\* The requests of the old page go on without it, one of them in another slot.
LEMMA ReloadSteps ==
    ASSUME SessionInv, NEW t \in Tabs, Reload(t) PROVE SessionInv'
<1> USE DEF SessionInv
<1> DEFINE ours == {c \in Slots : call[c] # NoCall /\ call[c].tab = t}
<1>1. PICK c \in Calls :
         /\ call[t] # NoCall => call[c] = NoCall
         /\ call' = [d \in Slots |->
                IF d = t THEN NoCall
                ELSE IF d = c /\ call[t] # NoCall THEN [call[t] EXCEPT !.tab = Tabless]
                ELSE IF d \in ours THEN [call[d] EXCEPT !.tab = Tabless] ELSE call[d]]
  BY DEF Reload
<1> DEFINE from == [d \in Slots |-> IF d = c /\ call[t] # NoCall THEN t ELSE d]
<1>2. t \in Slots /\ c \in Slots
  BY DEF Slots
<1>3. \A d \in Slots : call[d] # NoCall =>
         LET moved == [call[d] EXCEPT !.tab = Tabless] IN
         /\ DOMAIN moved = CallFields /\ moved.pc = call[d].pc /\ moved.kind = call[d].kind
         /\ moved.login = call[d].login /\ moved.password = call[d].password
         /\ moved.late = call[d].late
  <2> SUFFICES ASSUME NEW d \in Slots, call[d] # NoCall
               PROVE  LET moved == [call[d] EXCEPT !.tab = Tabless] IN
                      /\ DOMAIN moved = CallFields /\ moved.pc = call[d].pc
                      /\ moved.kind = call[d].kind /\ moved.login = call[d].login
                      /\ moved.password = call[d].password /\ moved.late = call[d].late
    OBVIOUS
  <2>1. DOMAIN call[d] = CallFields
    BY DEF CallsTyped
  <2>2. QED
    BY <2>1 DEF CallFields
<1>4. \A d \in Slots : d # t =>
         /\ from[d] \in Slots
         /\ call'[d] = call[from[d]]
            \/ /\ call[from[d]] # NoCall
               /\ call'[d] = [call[from[d]] EXCEPT !.tab = Tabless]
  <2> SUFFICES ASSUME NEW d \in Slots, d # t
               PROVE  /\ from[d] \in Slots
                      /\ call'[d] = call[from[d]]
                         \/ /\ call[from[d]] # NoCall
                            /\ call'[d] = [call[from[d]] EXCEPT !.tab = Tabless]
    OBVIOUS
  <2>1. CASE d = c /\ call[t] # NoCall
    <3>1. from[d] = t /\ call'[d] = [call[t] EXCEPT !.tab = Tabless]
      BY <1>1, <2>1
    <3>2. QED
      BY <1>2, <2>1, <3>1
  <2>2. CASE ~(d = c /\ call[t] # NoCall)
    <3>1. from[d] = d
      BY <2>2
    <3>2. call'[d] = IF d \in ours THEN [call[d] EXCEPT !.tab = Tabless] ELSE call[d]
      BY <1>1, <2>2
    <3>3. QED
      BY <3>1, <3>2
  <2>3. QED
    BY <2>1, <2>2
<1>5. call'[t] = NoCall
  BY <1>1, <1>2
<1>6. call' = [d \in Slots |-> call'[d]]
  BY <1>1
<1>7. \A d, e \in Slots : d # t /\ e # t /\ call'[d] # NoCall /\ call'[e] # NoCall
                          /\ from[d] = from[e] => d = e
  OBVIOUS
<1> HIDE DEF from
<1>8. CallsTyped'
  BY <1>3, <1>4, <1>5, <1>6 DEF CallsTyped
<1>9. \A d \in Slots : Creating(d)' => d # t /\ call'[d] # NoCall
  BY <1>5 DEF Creating
<1>10. \A d \in Slots : Creating(d)' => from[d] \in Slots /\ SameWork(d, from[d])
  <2> SUFFICES ASSUME NEW d \in Slots, Creating(d)'
               PROVE  from[d] \in Slots /\ SameWork(d, from[d])
    OBVIOUS
  <2>1. d # t /\ call'[d] # NoCall /\ call'[d].pc = "create"
    BY <1>9 DEF Creating
  <2>2. CASE call'[d] = call[from[d]]
    BY <1>4, <2>1, <2>2 DEF SameWork, Creating
  <2>3. CASE call[from[d]] # NoCall /\ call'[d] = [call[from[d]] EXCEPT !.tab = Tabless]
    BY <1>3, <1>4, <2>1, <2>3 DEF SameWork, Creating
  <2>4. QED
    BY <1>4, <2>1, <2>2, <2>3
<1>11. \A d, e \in Slots : Creating(d)' /\ Creating(e)' /\ from[d] = from[e] => d = e
  BY <1>7, <1>9
<1>12. NothingNew
  BY RowsStay DEF Reload
<1>13. QED
  BY <1>8, <1>10, <1>11, <1>12, CallsGoOn

LEMMA PageSteps ==
    ASSUME SessionInv, NEW t \in Tabs,
           \/ QueryContinue(t) \/ SocketContinue(t) \/ Reload(t)
           \/ \E o \in Ops : OpStart(t, o)
    PROVE  SessionInv'
<1>1. CASE QueryContinue(t)
  BY <1>1, RowsStay, NoCallChanged, Refreshes, Quiet DEF QueryContinue, QueryServed, rows
<1>2. CASE SocketContinue(t)
  <2>1. CASE SocketServed(t)
    BY <2>1, RowsStay, NoCallChanged, Refreshes, Quiet DEF SocketServed, rows
  <2>2. QED
    BY <1>2, <2>1, RowsStay, NoCallChanged, Quiet DEF SocketContinue, Server, rows
<1>3. ASSUME NEW o \in Ops, OpStart(t, o) PROVE SessionInv'
  BY <1>3, RowsStay, NoCallChanged, Refreshes, Quiet DEF OpStart, rows
<1>4. QED
  BY <1>1, <1>2, <1>3, ReloadSteps

LEMMA AnswerSteps ==
    ASSUME SessionInv, NEW c \in Slots, PageContinue(c) \/ Lose(c)
    PROVE  SessionInv'
<1>1. Done(c) /\ UNCHANGED <<session, password>>
  BY DEF PageContinue, RefreshOk, RefreshNo, LoginAnswered, LogoutSettled, ResetAnswered,
     Unheard, Lose, rows
<1>2. QED
  BY <1>1, Ends, RowsStay, Quiet

LEMMA StartSteps ==
    ASSUME SessionInv, NEW c \in Calls, NEW t \in Tabs, NEW p,
           LoginStart(c, t, p) \/ ResetStart(c, t, p) \/ LogoutStart(c, t)
    PROVE  SessionInv'
<1>1. UNCHANGED <<session, password>> /\ c \in Slots
  BY DEF LoginStart, ResetStart, LogoutStart, rows, Slots
<1>2. CallsStay
  BY <1>1, Sends DEF LoginStart, ResetStart, LogoutStart
<1>3. QED
  BY <1>1, <1>2, RowsStay, Quiet

LEMMA SessionInvNext == SessionInv /\ [Next]_vars => SessionInv'
<1> SUFFICES ASSUME SessionInv, [Next]_vars PROVE SessionInv'
  OBVIOUS
<1>1. CASE UNCHANGED vars
  BY <1>1, RowsStay, NoCallChanged, Quiet DEF vars, serverVars, rows
<1>2. ASSUME NEW c \in Calls, NEW t \in Tabs, NEW p \in 0..password, LoginStart(c, t, p)
      PROVE  SessionInv'
  BY <1>2, StartSteps
<1>3. ASSUME NEW c \in Calls, NEW t \in Tabs, NEW p \in Requested, ResetStart(c, t, p)
      PROVE  SessionInv'
  BY <1>3, StartSteps
<1>4. ASSUME NEW c \in Calls, NEW t \in Tabs, LogoutStart(c, t) PROVE SessionInv'
  BY <1>4, StartSteps
<1>5. QED
  BY <1>1, <1>2, <1>3, <1>4, ServerSteps, OtherSteps, PageSteps, AnswerSteps DEF Next, Server

\* A login goes on in one session at a time, however many refreshes, from
\* however many tabs, carry the same token (auth.service.ts refresh: one
\* updateMany where revokedAt is null wins).
THEOREM OneLive == Spec => []OneLivePerLogin
<1>1. SessionInv => OneLivePerLogin
  BY DEF SessionInv
<1>2. QED
  BY <1>1, SessionInvInit, SessionInvNext, PTL DEF Spec

\* After a password reset an old password or an old token is good for nothing,
\* except through a request that had passed its check before the reset
\* (auth.service.ts resetPassword).
THEOREM OldOnesEnd == Spec => []OldSessionsEnd
<1>1. SessionInv => OldSessionsEnd
  BY DEF SessionInv, OldCallsLate, OldSessionsEnd
<1>2. QED
  BY <1>1, SessionInvInit, SessionInvNext, PTL DEF Spec

-----------------------------------------------------------------------------
(* Types.                                                                  *)

Pcs == {"sent", "claim", "create", "act", "close", "answered"}

\* Links are sent one after another, the last one may be open, and a password
\* was set through each of the others at most.
LinksInOrder ==
    \E n \in 0..MaxTrouble :
        /\ Requested = 1..n /\ password <= n
        /\ \A p \in 1..MaxTrouble : link[p] = "sent" => p = n /\ password < n

CallsFit ==
    \A c \in Slots : call[c] # NoCall =>
        /\ call[c].kind = "reset" => call[c].of \in 1..MaxTrouble
        /\ call[c].kind = "refresh" => call[c].of \in 0..MaxSessions
        /\ call[c].pc = "claim" => call[c].kind = "refresh"
        /\ call[c].kind = "refresh" /\ call[c].login # 0 => call[c].of # 0

CallsOK == call \in [Slots -> CallRows \cup {NoCall}] /\ CallsFit

LEMMA NoCallIsNone == NoCall.kind = "none" /\ NoCall \notin CallRows
BY DEF NoCall, CallRows, Kinds

LEMMA CallRow ==
    ASSUME CallsOK, NEW c \in Slots, call[c] # NoCall
    PROVE  call[c] \in CallRows
BY DEF CallsOK

\* What a step makes of the call in slot c.
Now(c, now) ==
    /\ call'[c] = now
    /\ \A d \in Slots \ {c} : call'[d] = call[d]
SameRequest(x, y) == x.kind = y.kind /\ x.tab = y.tab /\ x.of = y.of

LEMMA CallSet ==
    ASSUME CallsOK, NEW c \in Slots, NEW now \in CallRows \cup {NoCall},
           call' = [call EXCEPT ![c] = now]
    PROVE  call' \in [Slots -> CallRows \cup {NoCall}] /\ Now(c, now)
BY DEF CallsOK, Now

\* One slot changes to a call that fits.
LEMMA CallFits ==
    ASSUME CallsOK, NEW c \in Slots, NEW now \in CallRows \cup {NoCall},
           call' = [call EXCEPT ![c] = now],
           now # NoCall => /\ now.kind = "reset" => now.of \in 1..MaxTrouble
                           /\ now.kind = "refresh" => now.of \in 0..MaxSessions
                           /\ now.pc = "claim" => now.kind = "refresh"
                           /\ now.kind = "refresh" /\ now.login # 0 => now.of # 0
    PROVE  CallsOK' /\ Now(c, now)
BY CallSet DEF CallsOK, CallsFit, Now

LEMMA Going ==
    ASSUME CallsOK, NEW c \in Slots, call[c] # NoCall, NEW pc \in Pcs,
           pc = "claim" => call[c].kind = "refresh", Go(c, pc)
    PROVE  /\ CallsOK' /\ Now(c, call'[c]) /\ call'[c] \in CallRows
           /\ SameRequest(call'[c], call[c])
           /\ call'[c].pc = pc /\ call'[c].made = call[c].made /\ call'[c].login = call[c].login
<1> DEFINE now == [call[c] EXCEPT !.pc = pc]
<1>1. call[c] \in CallRows
  BY CallRow
<1>2. /\ now \in CallRows /\ now.pc = pc /\ SameRequest(now, call[c])
      /\ now.made = call[c].made /\ now.login = call[c].login
  BY <1>1 DEF CallRows, Pcs, SameRequest
<1>3. call' = [call EXCEPT ![c] = now]
  BY DEF Go
<1> HIDE DEF now
<1>4. CallsOK' /\ Now(c, now)
  BY <1>2, <1>3, CallFits DEF CallsOK, CallsFit, SameRequest
<1>5. QED
  BY <1>2, <1>4 DEF Now

LEMMA Answering ==
    ASSUME CallsOK, NEW c \in Slots, call[c] # NoCall, NEW s \in 0..MaxSessions, Answer(c, s)
    PROVE  /\ CallsOK' /\ Now(c, call'[c]) /\ call'[c] \in CallRows
           /\ SameRequest(call'[c], call[c])
           /\ call'[c].pc = "answered" /\ call'[c].made = s /\ call'[c].login = call[c].login
<1> DEFINE now == [call[c] EXCEPT !.pc = "answered", !.made = s, !.password = 0, !.late = FALSE]
<1>1. call[c] \in CallRows
  BY CallRow
<1>2. /\ now \in CallRows /\ now.pc = "answered" /\ SameRequest(now, call[c])
      /\ now.made = s /\ now.login = call[c].login
  <2>1. 0 \in 0..MaxTrouble /\ s \in 0..MaxSessions
    BY SessionBounds
  <2>2. QED
    BY <1>1, <2>1 DEF CallRows, SameRequest
<1>3. call' = [call EXCEPT ![c] = now]
  BY DEF Answer, CallsOK
<1> HIDE DEF now
<1>4. CallsOK' /\ Now(c, now)
  BY <1>2, <1>3, CallFits DEF CallsOK, CallsFit, SameRequest
<1>5. QED
  BY <1>2, <1>4 DEF Now

LEMMA Ending ==
    ASSUME CallsOK, NEW c \in Slots, Done(c)
    PROVE  CallsOK' /\ Now(c, NoCall)
BY CallFits DEF Done

Fitting(kind, of) ==
    /\ kind = "reset" => of \in 1..MaxTrouble
    /\ kind = "refresh" => of \in 0..MaxSessions
    /\ of \in 0..MaxSessions + MaxTrouble

LEMMA Requesting ==
    ASSUME CallsOK, NEW c \in Slots, NEW tab \in Tabs \cup {Tabless}, NEW kind \in Kinds, NEW of,
           Fitting(kind, of), Send(c, tab, kind, of)
    PROVE  /\ CallsOK' /\ Now(c, call'[c]) /\ call'[c] \in CallRows /\ call[c] = NoCall
           /\ call'[c] = Request(tab, kind, of)
<1> DEFINE now == Request(tab, kind, of)
<1>1. now \in CallRows /\ now.kind = kind /\ now.of = of /\ now.pc = "sent" /\ now.login = 0
  BY SessionBounds DEF Request, CallRows, Fitting
<1>2. call' = [call EXCEPT ![c] = now] /\ call[c] = NoCall
  BY DEF Send
<1> HIDE DEF now
<1>3. CallsOK' /\ Now(c, now)
  BY <1>1, <1>2, CallFits DEF Fitting
<1>4. QED
  BY <1>1, <1>2, <1>3 DEF Now, now

RowsOK ==
    /\ password \in 0..MaxTrouble /\ active \in BOOLEAN
    /\ blocks \in 0..MaxTrouble /\ lost \in 0..MaxTrouble
    /\ link \in [1..MaxTrouble -> {"none", "sent", "spent"}] /\ LinksInOrder
    /\ Made = 1..Cardinality(Made) /\ Made \subseteq Ids
    /\ \A s \in Made : session[s] \in SessionRows
    /\ expired \subseteq Made
SocketsOK ==
    /\ joining \subseteq Tabs /\ room \subseteq Tabs /\ missed \subseteq Tabs
    /\ epoch \in [Tabs -> Nat]
PagesOK ==
    /\ cookie \in [{BrowserOf[t] : t \in Tabs} -> 0..MaxSessions]
    /\ token \in [Tabs -> 0..MaxSessions] /\ user \in [Tabs -> BOOLEAN]
    /\ op \in [Tabs -> [Ops -> OpRows]]
    /\ connected \subseteq Tabs /\ broken \subseteq Ids

ServerOK == RowsOK /\ CallsOK /\ SocketsOK
TypesOK == ServerOK /\ PagesOK

LEMMA TypesInParts == TypesOK => TypeOK
BY DEF TypesOK, ServerOK, TypeOK, SessionsTypeOK, RowsOK, CallsOK, SocketsOK, PagesOK

LEMMA UpTo ==
    ASSUME NEW n \in Nat PROVE Cardinality(1..n) = n
<1>1. Cardinality(1..n) = IF 1 > n THEN 0 ELSE n - 1 + 1
  BY FS_Interval
<1>2. QED
  BY <1>1

LEMMA TroubleLeft ==
    ASSUME RowsOK, MoreTrouble
    PROVE  /\ blocks + 1 \in 0..MaxTrouble /\ lost + 1 \in 0..MaxTrouble
           /\ Cardinality(Requested) + 1 \in 1..MaxTrouble
<1>1. PICK n \in 0..MaxTrouble : Requested = 1..n
  BY DEF RowsOK, LinksInOrder
<1>2. Cardinality(Requested) = n
  BY <1>1, UpTo, SessionBounds
<1>3. QED
  BY <1>2, SessionBounds DEF MoreTrouble, RowsOK

\* Sessions that end.
LEMMA EndTyped ==
    ASSUME RowsOK, NEW ids, NEW how \in {"rotated", "purpose"}, NEW by \in Tabs \cup {Tabless},
           End(ids, how, by)
    PROVE  /\ DOMAIN session' = Made /\ Made' = Made
           /\ \A s \in Made : session'[s] \in SessionRows
           /\ expired' \subseteq Made
<1>1. \A s \in Made : Ended(how, by, s) \in SessionRows
  <2>1. 0 \in 0..MaxTrouble /\ Made \subseteq Ids
    BY SessionBounds DEF RowsOK
  <2>2. QED
    BY <2>1 DEF Ended, SessionRows
<1>2. QED
  BY <1>1 DEF End, RowsOK, Made

LEMMA RowsEnded ==
    ASSUME RowsOK, NEW ids, NEW how \in {"rotated", "purpose"}, NEW by \in Tabs \cup {Tabless},
           End(ids, how, by), UNCHANGED <<password, active, link, blocks, lost>>
    PROVE  RowsOK'
<1>1. LinksInOrder'
  BY DEF RowsOK, LinksInOrder, Requested
<1>2. QED
  BY <1>1, EndTyped DEF RowsOK

LEMMA RowsUnchanged == ASSUME RowsOK, UNCHANGED rows PROVE RowsOK'
BY DEF RowsOK, rows, LinksInOrder, Requested, Made

LEMMA RowsCreated ==
    ASSUME SessionInv, RowsOK, CallsOK, NEW c \in Slots, CreateSession(c)
    PROVE  RowsOK' /\ CallsOK'
<1> DEFINE s == Cardinality(Made) + 1
           row == [ended |-> "no", by |-> Tabless,
                   login |-> IF call[c].kind = "login" THEN s ELSE call[c].login,
                   password |-> call[c].password, late |-> call[c].late]
<1>1. Creating(c) /\ call[c] \in CallRows
  BY CallRow DEF CreateSession, Creating
<1>2. UNCHANGED <<password, active, link, expired, blocks, lost>> /\ LinksInOrder'
  BY DEF CreateSession, RowsOK, LinksInOrder, Requested
<1>3. CASE s \notin Ids
  <2>1. UNCHANGED session /\ Answer(c, 0)
    BY <1>3 DEF CreateSession
  <2>2. 0 \in 0..MaxSessions
    BY SessionBounds
  <2>3. QED
    BY <1>1, <1>2, <2>1, <2>2, Answering, RowsUnchanged DEF rows, Creating
<1>4. CASE s \in Ids
  <2>1. session' = [i \in Made \cup {s} |-> IF i = s THEN row ELSE session[i]] /\ Answer(c, s)
    BY <1>4 DEF CreateSession
  <2>2. row \in SessionRows
    <3>1. call[c].kind # "login" => call[c].login \in Ids
      BY <1>1 DEF SessionInv, OldCallsLate, LoginsMade, Renewing, RowsOK
    <3>2. call[c].password \in 0..MaxTrouble /\ call[c].late \in BOOLEAN
      BY <1>1 DEF CallRows
    <3> HIDE DEF s
    <3>3. QED
      BY <1>4, <3>1, <3>2 DEF SessionRows
  <2>3. PICK n \in Nat : Made = 1..n
    BY DEF SessionInv, Numbered
  <2>4. s = n + 1 /\ s \in 0..MaxSessions
    BY <1>4, <2>3, UpTo, SessionBounds DEF Ids
  <2>5. Made' = 1..s /\ Made \subseteq Made'
    BY <2>1, <2>3, <2>4 DEF Made
  <2>6. Cardinality(1..s) = s
    BY <2>4, UpTo
  <2> HIDE DEF s, row
  <2>7. Made' = 1..Cardinality(Made') /\ Made' \subseteq Ids
    BY <1>4, <2>4, <2>5, <2>6, SessionBounds DEF Ids
  <2>8. \A i \in Made' : session'[i] \in SessionRows
    BY <2>1, <2>2 DEF RowsOK, Made
  <2>9. CallsOK'
    BY <1>1, <2>1, <2>4, Answering DEF Creating
  <2>10. QED
    BY <1>2, <2>5, <2>7, <2>8, <2>9 DEF RowsOK
<1>5. QED
  BY <1>3, <1>4

LEMMA LinkSent ==
    ASSUME RowsOK, NEW p \in 1..MaxTrouble, RequestReset(p)
    PROVE  RowsOK'
<1>1. PICK n \in 0..MaxTrouble :
         /\ Requested = 1..n /\ password <= n
         /\ \A q \in 1..MaxTrouble : link[q] = "sent" => q = n /\ password < n
  BY DEF RowsOK, LinksInOrder
<1>2. p = n + 1
  BY <1>1, UpTo, SessionBounds DEF RequestReset
<1>3. /\ link' \in [1..MaxTrouble -> {"none", "sent", "spent"}] /\ link'[p] = "sent"
      /\ \A q \in 1..MaxTrouble : q # p => link'[q] # "sent"
      /\ \A q \in 1..MaxTrouble : q # p => (link'[q] = "none" <=> link[q] = "none")
  BY DEF RequestReset, RowsOK
<1>4. Requested' = Requested \cup {p}
  BY <1>3 DEF Requested
<1>5. password' = password /\ password <= n /\ password \in Nat
  BY <1>1, SessionBounds DEF RequestReset, RowsOK
<1>6. LinksInOrder'
  <2>1. Requested' = 1..(n + 1)
    BY <1>1, <1>2, <1>4
  <2>2. \A q \in 1..MaxTrouble : link'[q] = "sent" => q = n + 1
    <3>1. \A q \in 1..MaxTrouble : link'[q] = "sent" => q = p
      BY <1>3
    <3>2. QED
      BY <1>2, <3>1
  <2>3. n + 1 \in 0..MaxTrouble /\ password' <= n + 1 /\ password' < n + 1
    BY <1>2, <1>5
  <2>4. QED
    BY <2>1, <2>2, <2>3 DEF LinksInOrder
<1>7. QED
  BY <1>3, <1>6 DEF RequestReset, RowsOK, Made

LEMMA LinkSpent ==
    ASSUME RowsOK, NEW p \in 1..MaxTrouble, link[p] = "sent",
           link' = [link EXCEPT ![p] = "spent"], password' = password + 1,
           EndAll, UNCHANGED <<active, blocks, lost>>
    PROVE  RowsOK'
<1>1. PICK n \in 0..MaxTrouble :
         /\ Requested = 1..n /\ password <= n
         /\ \A q \in 1..MaxTrouble : link[q] = "sent" => q = n /\ password < n
  BY DEF RowsOK, LinksInOrder
<1>2. p = n /\ password + 1 <= n /\ password \in Nat
  BY <1>1, SessionBounds DEF RowsOK
<1>3. /\ link' \in [1..MaxTrouble -> {"none", "sent", "spent"}]
      /\ \A q \in 1..MaxTrouble : link'[q] # "sent"
      /\ \A q \in 1..MaxTrouble : link'[q] = "none" <=> link[q] = "none"
  BY <1>1, <1>2 DEF RowsOK
<1>4. Requested' = Requested
  BY <1>3 DEF Requested
<1>5. LinksInOrder' /\ password' \in 0..MaxTrouble
  BY <1>1, <1>2, <1>3, <1>4, SessionBounds DEF LinksInOrder
<1>6. /\ DOMAIN session' = Made /\ Made' = Made /\ expired' \subseteq Made
      /\ \A s \in Made : session'[s] \in SessionRows
  BY EndTyped DEF EndAll
<1>7. QED
  BY <1>3, <1>5, <1>6 DEF RowsOK

-----------------------------------------------------------------------------
(* Every step keeps the types.                                             *)

LEMMA SocketsStay == ASSUME SocketsOK, UNCHANGED sockets PROVE SocketsOK'
BY DEF SocketsOK, sockets

LEMMA PagesStay ==
    ASSUME PagesOK, NEW gone, connected' = connected \ gone,
           UNCHANGED <<cookie, token, user, op, broken>>
    PROVE  PagesOK'
BY DEF PagesOK

LEMMA CallsStand == ASSUME CallsOK, UNCHANGED call PROVE CallsOK'
BY DEF CallsOK, CallsFit

LEMMA Closes == ASSUME SocketsOK, CloseRoom PROVE SocketsOK'
BY DEF SocketsOK, CloseRoom

LEMMA Leaves == ASSUME SocketsOK, NEW t \in Tabs, Leave(t) PROVE SocketsOK'
BY DEF SocketsOK, Leave

LEMMA Admits == ASSUME RowsOK, SocketsOK, NEW t \in Tabs, Admit(t) PROVE SocketsOK'
<1>1. Closings \in Nat
  BY SessionBounds DEF Closings, RowsOK
<1>2. QED
  BY <1>1 DEF SocketsOK, Admit

\* 0 is no session and no password.
LEMMA Zeros == 0 \in 0..MaxSessions /\ 1 \in 0..MaxSessions /\ 0 \in 0..MaxTrouble
BY SessionBounds

LEMMA LoginTypes == ASSUME ServerOK, NEW c \in Slots, LoginCheck(c) PROVE ServerOK'
<1> USE DEF ServerOK
<1>1. /\ call[c] # NoCall /\ call[c].kind = "login" /\ call[c] \in CallRows
      /\ UNCHANGED <<rows, sockets>>
  BY CallRow DEF LoginCheck, InFlight
<1>2. CASE Answer(c, 0)
  BY <1>1, <1>2, Zeros, Answering, RowsUnchanged, SocketsStay
<1>3. CASE call' = [call EXCEPT ![c].pc = "create", ![c].password = password]
  <2> DEFINE now == [call[c] EXCEPT !.pc = "create", !.password = password]
  <2>1. password \in 0..MaxTrouble
    BY DEF RowsOK
  <2>2. now \in CallRows /\ now.kind = "login"
    BY <1>1, <2>1 DEF CallRows
  <2>3. call' = [call EXCEPT ![c] = now]
    BY <1>3 DEF CallsOK
  <2> HIDE DEF now
  <2>4. now # NoCall => /\ now.kind = "reset" => now.of \in 1..MaxTrouble
                        /\ now.kind = "refresh" => now.of \in 0..MaxSessions
                        /\ now.pc = "claim" => now.kind = "refresh"
                        /\ now.kind = "refresh" /\ now.login # 0 => now.of # 0
    <3>1. now.pc = "create"
      BY <1>1 DEF now, CallRows
    <3>2. QED
      BY <2>2, <3>1
  <2>5. CallsOK'
    BY <2>2, <2>3, <2>4, CallFits
  <2>6. QED
    BY <1>1, <2>5, RowsUnchanged, SocketsStay
<1>4. QED
  BY <1>2, <1>3 DEF LoginCheck

LEMMA ClaimTypes == ASSUME ServerOK, NEW c \in Slots, RefreshClaim(c) PROVE ServerOK'
<1> USE DEF ServerOK
<1> DEFINE s == call[c].of
<1>1. /\ call[c] # NoCall /\ call[c].kind = "refresh" /\ call[c] \in CallRows
      /\ UNCHANGED <<password, active, link, blocks, lost, sockets>>
  BY CallRow DEF RefreshClaim, InFlight
<1>2. CASE ~Live(s)
  <2>1. Answer(c, 0) /\ UNCHANGED rows
    BY <1>1, <1>2 DEF RefreshClaim, rows
  <2>2. QED
    BY <1>1, <2>1, Zeros, Answering, RowsUnchanged, SocketsStay
<1>3. CASE Live(s)
  <2> DEFINE now == [call[c] EXCEPT !.pc = "create", !.login = session[s].login,
                         !.password = session[s].password, !.late = session[s].late]
  <2>1. End({s}, "rotated", call[c].tab) /\ call[c].tab \in Tabs \cup {Tabless}
    BY <1>1, <1>3 DEF RefreshClaim, CallRows
  <2>2. session[s] \in SessionRows /\ Ids \subseteq 0..MaxSessions
    <3>1. Ids \subseteq 0..MaxSessions
      BY DEF Ids
    <3>2. QED
      BY <1>3, <3>1 DEF RowsOK, Live
  <2>3. /\ session[s].login \in 0..MaxSessions /\ session[s].password \in 0..MaxTrouble
        /\ session[s].late \in BOOLEAN
    BY <2>2 DEF SessionRows
  <2>4. call' = [call EXCEPT ![c] = now]
    BY <1>3 DEF RefreshClaim, CallsOK
  <2> HIDE DEF s
  <2>5. now \in CallRows /\ now.kind = "refresh" /\ now.of = call[c].of
    BY <1>1, <2>3 DEF CallRows
  <2>6. call[c].of # 0
    BY <1>3 DEF s, RowsOK, Live, Ids
  <2> HIDE DEF now
  <2>7. CallsOK'
    BY <1>1, <2>4, <2>5, <2>6, CallFits DEF CallsOK, CallsFit
  <2>8. RowsOK'
    BY <1>1, <2>1, RowsEnded
  <2>9. QED
    BY <1>1, <2>7, <2>8, SocketsStay
<1>4. QED
  BY <1>2, <1>3

LEMMA CreateTypes ==
    ASSUME SessionInv, ServerOK, NEW c \in Slots, CreateSession(c) PROVE ServerOK'
BY RowsCreated, SocketsStay DEF ServerOK, CreateSession

LEMMA LogoutTypes ==
    ASSUME ServerOK, NEW c \in Slots, Logout(c) \/ LogoutAll(c) PROVE ServerOK'
<1> USE DEF ServerOK
<1>1. CASE Logout(c)
  BY <1>1, Zeros, Answering, RowsEnded, SocketsStay DEF Logout, InFlight
<1>2. CASE LogoutAll(c)
  BY <1>2, Ending, RowsEnded, SocketsStay DEF LogoutAll, EndAll
<1>3. QED
  BY <1>1, <1>2

LEMMA ResetTypes == ASSUME ServerOK, NEW c \in Slots, Reset(c) PROVE ServerOK'
<1> USE DEF ServerOK
<1>1. /\ call[c] # NoCall /\ call[c].kind = "reset" /\ call[c] \in CallRows
      /\ UNCHANGED <<active, blocks, lost, sockets>>
  BY CallRow DEF Reset, InFlight
<1>2. CASE link[call[c].of] # "sent"
  <2>1. Answer(c, 0) /\ UNCHANGED rows
    BY <1>1, <1>2 DEF Reset, rows
  <2>2. QED
    BY <1>1, <2>1, Zeros, Answering, RowsUnchanged, SocketsStay
<1>3. CASE link[call[c].of] = "sent"
  <2>1. /\ link' = [link EXCEPT ![call[c].of] = "spent"] /\ password' = password + 1
        /\ EndAll /\ call' = Overtake(c, "close")
    BY <1>3 DEF Reset
  <2>2. call[c].of \in 1..MaxTrouble
    BY <1>1 DEF CallsOK, CallsFit
  <2>3. RowsOK'
    BY <1>1, <1>3, <2>1, <2>2, LinkSpent
  <2>4. \A d \in Slots : call[d] # NoCall =>
           /\ [call[d] EXCEPT !.late = TRUE] \in CallRows
           /\ SameRequest([call[d] EXCEPT !.late = TRUE], call[d])
           /\ [call[d] EXCEPT !.late = TRUE].pc = call[d].pc
           /\ [call[d] EXCEPT !.late = TRUE].login = call[d].login
    <3> SUFFICES ASSUME NEW d \in Slots, call[d] # NoCall
                 PROVE  /\ [call[d] EXCEPT !.late = TRUE] \in CallRows
                        /\ SameRequest([call[d] EXCEPT !.late = TRUE], call[d])
                        /\ [call[d] EXCEPT !.late = TRUE].pc = call[d].pc
                        /\ [call[d] EXCEPT !.late = TRUE].login = call[d].login
      OBVIOUS
    <3>1. call[d] \in CallRows
      BY CallRow
    <3>2. QED
      BY <3>1 DEF CallRows, SameRequest
  <2>5. /\ [call[c] EXCEPT !.pc = "close", !.made = 1] \in CallRows
        /\ SameRequest([call[c] EXCEPT !.pc = "close", !.made = 1], call[c])
        /\ [call[c] EXCEPT !.pc = "close", !.made = 1].pc = "close"
        /\ [call[c] EXCEPT !.pc = "close", !.made = 1].login = call[c].login
    BY <1>1, Zeros DEF CallRows, SameRequest
  <2>6. /\ call' = [d \in Slots |-> call'[d]]
        /\ call'[c] \in CallRows /\ SameRequest(call'[c], call[c]) /\ call'[c].pc = "close"
        /\ call'[c].login = call[c].login
        /\ \A d \in Slots : d # c => \/ call'[d] = call[d]
                                     \/ /\ call[d] # NoCall
                                        /\ call'[d] = [call[d] EXCEPT !.late = TRUE]
    BY <2>1, <2>5 DEF Overtake
  <2>7. \A d \in Slots : call'[d] = call[d] \/
           /\ call[d] # NoCall /\ call'[d] \in CallRows
           /\ SameRequest(call'[d], call[d]) /\ call'[d].pc \in {"close", call[d].pc}
           /\ call'[d].login = call[d].login
    BY <1>1, <2>4, <2>6
  <2>8. CallsOK'
    BY <2>6, <2>7 DEF CallsOK, CallsFit, SameRequest
  <2>9. QED
    BY <1>1, <2>3, <2>8, SocketsStay
<1>4. QED
  BY <1>2, <1>3

LEMMA OtherCallTypes ==
    ASSUME ServerOK, NEW c \in Slots,
           RefreshCheck(c) \/ ResetCheck(c) \/ ResetClose(c) \/ BlockClose(c)
    PROVE  ServerOK'
<1> USE DEF ServerOK
<1>1. CASE RefreshCheck(c)
  <2>1. "claim" \in Pcs
    BY DEF Pcs
  <2>2. QED
    BY <1>1, <2>1, Zeros, Going, Answering, RowsUnchanged, SocketsStay DEF RefreshCheck, InFlight
<1>2. CASE ResetCheck(c)
  <2>1. "act" \in Pcs
    BY DEF Pcs
  <2>2. QED
    BY <1>2, <2>1, Zeros, Going, Answering, RowsUnchanged, SocketsStay DEF ResetCheck, InFlight
<1>3. CASE ResetClose(c)
  BY <1>3, Zeros, Answering, RowsUnchanged, Closes DEF ResetClose, InFlight
<1>4. CASE BlockClose(c)
  BY <1>4, Ending, RowsUnchanged, Closes DEF BlockClose
<1>5. QED
  BY <1>1, <1>2, <1>3, <1>4

LEMMA ServerTypes ==
    ASSUME SessionInv, ServerOK, NEW c \in Slots, ServerContinue(c) PROVE ServerOK'
BY LoginTypes, ClaimTypes, CreateTypes, LogoutTypes, ResetTypes, OtherCallTypes
   DEF ServerContinue

LEMMA ElsewhereTypes == ASSUME ServerOK, Elsewhere PROVE ServerOK'
<1> USE DEF ServerOK
<1>1. ASSUME NEW s \in Ids, Expire(s) PROVE ServerOK'
  <2>1. RowsOK'
    BY <1>1 DEF Expire, Live, RowsOK, LinksInOrder, Requested, Made
  <2>2. QED
    BY <1>1, <2>1, CallsStand, SocketsStay DEF Expire
<1>2. ASSUME NEW p \in 1..MaxTrouble, RequestReset(p) PROVE ServerOK'
  BY <1>2, LinkSent, CallsStand, SocketsStay DEF RequestReset
<1>3. ASSUME NEW c \in Calls, LogoutAllStart(c) PROVE ServerOK'
  <2>1. c \in Slots /\ "logoutAll" \in Kinds /\ Fitting("logoutAll", 0)
    BY SessionBounds DEF Slots, Kinds, Fitting
  <2>2. QED
    BY <1>3, <2>1, Requesting, RowsUnchanged, SocketsStay DEF LogoutAllStart
<1>4. ASSUME NEW c \in Calls, Block(c) PROVE ServerOK'
  <2> DEFINE now == [Request(Tabless, "block", 0) EXCEPT !.pc = "close"]
  <2>1. now \in CallRows /\ now.kind = "block" /\ now.pc = "close"
    <3>1. 0 \in 0..MaxSessions + MaxTrouble
      BY SessionBounds
    <3>2. QED
      BY <3>1, Zeros DEF Request, CallRows, Kinds
  <2>2. call' = [call EXCEPT ![c] = now] /\ c \in Slots
    BY <1>4 DEF Block, Slots
  <2> HIDE DEF now
  <2>3. CallsOK'
    BY <2>1, <2>2, CallFits
  <2>4. RowsOK'
    <3>1. /\ DOMAIN session' = Made /\ Made' = Made /\ expired' \subseteq Made
          /\ \A s \in Made : session'[s] \in SessionRows
      BY <1>4, EndTyped DEF Block, EndAll
    <3>2. blocks' \in 0..MaxTrouble
      BY <1>4, TroubleLeft DEF Block
    <3>3. LinksInOrder'
      BY <1>4 DEF Block, RowsOK, LinksInOrder, Requested
    <3>4. QED
      BY <1>4, <3>1, <3>2, <3>3 DEF Block, RowsOK
  <2>5. QED
    BY <1>4, <2>3, <2>4, SocketsStay DEF Block
<1>5. CASE Unblock
  <2>1. RowsOK'
    BY <1>5 DEF Unblock, RowsOK, LinksInOrder, Requested, Made
  <2>2. QED
    BY <1>5, <2>1, CallsStand, SocketsStay DEF Unblock
<1>6. QED
  BY <1>1, <1>2, <1>3, <1>4, <1>5 DEF Elsewhere

-----------------------------------------------------------------------------
(* The steps of the pages.                                                 *)

LEMMA ServedTypes ==
    ASSUME SessionInv, TypesOK, NEW A,
           Server(A), ServerOK'
    PROVE  TypesOK'
BY PagesStay DEF Server, TypesOK

LEMMA Cookies ==
    ASSUME PagesOK, NEW t \in Tabs PROVE Cookie(t) \in 0..MaxSessions
BY DEF PagesOK, Cookie

LEMMA SetTypes ==
    ASSUME PagesOK, NEW t \in Tabs, NEW s \in 0..MaxSessions
    PROVE  /\ SetCookie(t, s) => cookie' \in [{BrowserOf[b] : b \in Tabs} -> 0..MaxSessions]
           /\ SetToken(t, s) => token' \in [Tabs -> 0..MaxSessions]
           /\ \A shown \in BOOLEAN : SetUser(t, shown) => user' \in [Tabs -> BOOLEAN]
BY DEF PagesOK, SetCookie, SetToken, SetUser

LEMMA Moves ==
    ASSUME PagesOK, NEW t \in Tabs, NEW o \in Ops, NEW s \in 0..MaxSessions,
           NEW at \in {"idle", "wait1", "sent1", "wait2", "sent2", "dropped"}, Move(t, o, at, s)
    PROVE  op' \in [Tabs -> [Ops -> OpRows]]
<1>1. [at |-> at, with |-> s] \in OpRows
  BY DEF OpRows
<1>2. QED
  BY <1>1 DEF PagesOK, Move

\* Whatever a page's operations turn into.
LEMMA Turns ==
    ASSUME PagesOK, NEW t \in Tabs, NEW ops, \A o \in Ops : ops[o] \in OpRows,
           op' = [op EXCEPT ![t] = [o \in Ops |-> ops[o]]]
    PROVE  op' \in [Tabs -> [Ops -> OpRows]]
BY DEF PagesOK

LEMMA IdleTyped == Idle \in OpRows
BY Zeros DEF Idle, OpRows

LEMMA RefreshTypes ==
    ASSUME CallsOK, PagesOK, NEW t \in Tabs, Refresh(t) PROVE CallsOK'
<1>1. CASE UNCHANGED call
  BY <1>1, CallsStand
<1>2. CASE Send(t, t, "refresh", Cookie(t))
  <2>1. t \in Slots /\ "refresh" \in Kinds /\ Fitting("refresh", Cookie(t))
    BY Cookies, SessionBounds DEF Slots, Kinds, Fitting
  <2>2. QED
    BY <1>2, <2>1, Requesting
<1>3. QED
  BY <1>1, <1>2 DEF Refresh

LEMMA OpStartTypes ==
    ASSUME TypesOK, NEW t \in Tabs, NEW o \in Ops, OpStart(t, o) PROVE TypesOK'
<1> USE DEF TypesOK, ServerOK
<1>1. UNCHANGED <<rows, sockets, cookie, token, user, connected, broken>>
  BY DEF OpStart
<1>2. RowsOK' /\ SocketsOK'
  BY <1>1, RowsUnchanged, SocketsStay
<1>3. token[t] \in 0..MaxSessions
  BY DEF PagesOK
<1>4. CallsOK' /\ op' \in [Tabs -> [Ops -> OpRows]]
  BY <1>3, Zeros, Moves, RefreshTypes, CallsStand DEF OpStart
<1>5. QED
  BY <1>1, <1>2, <1>4 DEF PagesOK

LEMMA QueryTypes ==
    ASSUME TypesOK, NEW t \in Tabs, QueryContinue(t) PROVE TypesOK'
<1> USE DEF TypesOK, ServerOK
<1>1. UNCHANGED <<rows, sockets, cookie, connected, broken>> /\ "query" \in Ops
  BY DEF QueryContinue, QueryServed
<1>2. RowsOK' /\ SocketsOK'
  BY <1>1, RowsUnchanged, SocketsStay
<1>3. CallsOK'
  BY RefreshTypes, CallsStand DEF QueryContinue, QueryServed
<1>4. op' \in [Tabs -> [Ops -> OpRows]]
  BY <1>1, Zeros, Moves DEF QueryContinue, QueryServed
<1>5. token' \in [Tabs -> 0..MaxSessions] /\ user' \in [Tabs -> BOOLEAN]
  <2>1. token \in [Tabs -> 0..MaxSessions] /\ user \in [Tabs -> BOOLEAN]
    BY DEF PagesOK
  <2>2. QED
    BY <2>1, Zeros, SetTypes DEF QueryContinue, QueryServed, SessionEnded
<1>6. QED
  BY <1>1, <1>2, <1>3, <1>4, <1>5 DEF PagesOK

LEMMA SocketTypes ==
    ASSUME SessionInv, TypesOK, NEW t \in Tabs, SocketContinue(t) PROVE TypesOK'
<1> USE DEF TypesOK, ServerOK
<1>1. CASE SocketServed(t)
  <2>1. UNCHANGED <<rows, cookie, token, user, broken>> /\ "socket" \in Ops
    BY <1>1 DEF SocketServed, SocketContinue
  <2>2. RowsOK' /\ SocketsOK'
    BY <1>1, <2>1, RowsUnchanged, SocketsStay, Admits DEF SocketServed
  <2>3. CallsOK'
    BY <1>1, RefreshTypes, CallsStand DEF SocketServed
  <2>4. op' \in [Tabs -> [Ops -> OpRows]]
    BY <1>1, <2>1, Zeros, Moves DEF SocketServed
  <2>5. connected' \subseteq Tabs
    BY <1>1 DEF SocketServed, PagesOK
  <2>6. QED
    BY <2>1, <2>2, <2>3, <2>4, <2>5 DEF PagesOK
<1>2. CASE Server(Join(t) /\ UNCHANGED <<rows, call>>)
  <2>1. SocketsOK' /\ RowsOK' /\ CallsOK'
    BY <1>2, RowsUnchanged, CallsStand DEF Server, Join, SocketsOK
  <2>2. QED
    BY <1>2, <2>1, PagesStay DEF Server
<1>3. QED
  BY <1>1, <1>2 DEF SocketContinue

LEMMA StartTypes ==
    ASSUME TypesOK, NEW c \in Calls, NEW t \in Tabs,
           \/ \E p \in 0..password : LoginStart(c, t, p)
           \/ \E p \in Requested : ResetStart(c, t, p)
           \/ LogoutStart(c, t)
    PROVE  TypesOK'
<1> USE DEF TypesOK, ServerOK
<1>1. c \in Slots /\ {"login", "reset", "logout"} \subseteq Kinds
  BY DEF Slots, Kinds
<1>2. ASSUME NEW p \in 0..password, LoginStart(c, t, p) PROVE TypesOK'
  <2>1. Fitting("login", p)
    BY SessionBounds DEF Fitting, RowsOK
  <2>2. CallsOK'
    BY <1>1, <1>2, <2>1, Requesting DEF LoginStart
  <2>3. QED
    BY <1>2, <2>2, RowsUnchanged, SocketsStay DEF LoginStart, PagesOK, pageVars
<1>3. ASSUME NEW p \in Requested, ResetStart(c, t, p) PROVE TypesOK'
  <2>1. Fitting("reset", p)
    BY SessionBounds DEF Fitting, Requested
  <2>2. CallsOK'
    BY <1>1, <1>3, <2>1, Requesting DEF ResetStart
  <2>3. QED
    BY <1>3, <2>2, RowsUnchanged, SocketsStay DEF ResetStart, PagesOK, pageVars
<1>4. CASE LogoutStart(c, t)
  <2>1. Fitting("logout", Cookie(t))
    BY Cookies, SessionBounds DEF Fitting
  <2>2. CallsOK'
    BY <1>1, <1>4, <2>1, Requesting DEF LogoutStart
  <2>3. /\ HangUp(t) /\ UNCHANGED <<rows, cookie, token, user, broken>>
    BY <1>4 DEF LogoutStart
  <2>4. SocketsOK' /\ RowsOK'
    BY <2>3, Leaves, RowsUnchanged DEF HangUp
  <2> DEFINE ops == [o \in Ops |-> IF o = "socket" /\ op[t][o].at \in {"sent1", "sent2"}
                                   THEN Idle ELSE op[t][o]]
  <2>5. \A o \in Ops : ops[o] \in OpRows
    BY IdleTyped DEF PagesOK
  <2>6. op' = [op EXCEPT ![t] = [o \in Ops |-> ops[o]]]
    BY <2>3 DEF HangUp
  <2> HIDE DEF ops
  <2>7. op' \in [Tabs -> [Ops -> OpRows]]
    BY <2>5, <2>6, Turns
  <2>8. QED
    BY <2>2, <2>3, <2>4, <2>7 DEF PagesOK, HangUp
<1>5. QED
  BY <1>2, <1>3, <1>4

\* The answers.
LEMMA RefreshFailedTypes ==
    ASSUME PagesOK, NEW t \in Tabs, RefreshFailed(t)
    PROVE  /\ token' \in [Tabs -> 0..MaxSessions] /\ user' \in [Tabs -> BOOLEAN]
           /\ op' \in [Tabs -> [Ops -> OpRows]]
<1> DEFINE ops == [o \in Ops |-> IF o = "query" \/ op[t][o].at \in {"wait1", "wait2"}
                                 THEN Idle ELSE op[t][o]]
<1>1. \A o \in Ops : ops[o] \in OpRows
  BY IdleTyped DEF PagesOK
<1>2. op' = [op EXCEPT ![t] = [o \in Ops |-> ops[o]]]
  BY DEF RefreshFailed, Rejected
<1> HIDE DEF ops
<1>3. op' \in [Tabs -> [Ops -> OpRows]]
  BY <1>1, <1>2, Turns
<1>4. QED
  BY <1>3, Zeros, SetTypes DEF RefreshFailed, SessionEnded

LEMMA BrokenOf ==
    ASSUME PagesOK, CallsOK, NEW c \in Slots, call[c] # NoCall, call[c].kind = "refresh"
    PROVE  ({call[c].of} \ {0}) \subseteq Ids
<1>1. call[c].of \in 0..MaxSessions
  BY DEF CallsOK, CallsFit
<1>2. QED
  BY <1>1, SessionBounds DEF Ids

LEMMA RefreshOkTypes ==
    ASSUME PagesOK, CallsOK, NEW c \in Slots, RefreshOk(c) PROVE PagesOK'
<1> DEFINE t == call[c].tab  s == call[c].made
<1>1. t \in Tabs /\ s \in 0..MaxSessions
  BY CallRow DEF RefreshOk, Answered, InFlight, CallRows
<1> DEFINE ops == [o \in Ops |->
        CASE op[t][o].at = "wait1" -> [at |-> "sent1", with |-> s]
          [] op[t][o].at = "wait2" -> [at |-> "sent2", with |-> s]
          [] op[t][o].at = "dropped" -> Idle
          [] OTHER -> op[t][o]]
<1>2. op' = [op EXCEPT ![t] = [o \in Ops |-> ops[o]]]
  BY DEF RefreshOk, Resumed
<1>3. /\ SetCookie(t, s) /\ UNCHANGED <<user, connected, broken>>
      /\ SetToken(t, 0) \/ SetToken(t, s)
  BY DEF RefreshOk
<1> HIDE DEF t, s
<1>4. \A o \in Ops : ops[o] \in OpRows
  <2> SUFFICES ASSUME NEW o \in Ops PROVE ops[o] \in OpRows
    OBVIOUS
  <2>1. op[t][o] \in OpRows
    BY <1>1 DEF PagesOK
  <2>2. [at |-> "sent1", with |-> s] \in OpRows /\ [at |-> "sent2", with |-> s] \in OpRows
    BY <1>1 DEF OpRows
  <2>3. QED
    BY <2>1, <2>2, IdleTyped
<1> HIDE DEF ops
<1>5. op' \in [Tabs -> [Ops -> OpRows]]
  BY <1>1, <1>2, <1>4, Turns
<1>6. QED
  BY <1>1, <1>3, <1>5, Zeros, SetTypes DEF PagesOK

LEMMA RefreshNoTypes ==
    ASSUME PagesOK, CallsOK, NEW c \in Slots, RefreshNo(c)
    PROVE  PagesOK'
<1>1. /\ call[c].tab \in Tabs /\ RefreshFailed(call[c].tab) /\ UNCHANGED <<cookie, connected>>
      /\ call[c] # NoCall /\ call[c].kind = "refresh"
  BY DEF RefreshNo, Answered, InFlight
<1>2. broken' \subseteq Ids
  <2>1. ({call[c].of} \ {0}) \subseteq Ids
    BY <1>1, BrokenOf
  <2>2. QED
    BY <1>1, <2>1 DEF RefreshNo, PagesOK, CallsOK, CallsFit
<1>3. QED
  BY <1>1, <1>2, RefreshFailedTypes DEF PagesOK

LEMMA LoginAnsweredTypes ==
    ASSUME PagesOK, CallsOK, NEW c \in Slots, LoginAnswered(c) PROVE PagesOK'
<1>1. /\ call[c].tab \in Tabs /\ call[c].made \in 0..MaxSessions
      /\ UNCHANGED <<op, connected, broken>>
  BY CallRow DEF LoginAnswered, Answered, InFlight, CallRows
<1>2. CASE call[c].made = 0
  BY <1>1, <1>2 DEF LoginAnswered, PagesOK
<1>3. CASE call[c].made # 0
  <2>1. /\ SetCookie(call[c].tab, call[c].made) /\ SetToken(call[c].tab, call[c].made)
        /\ SetUser(call[c].tab, TRUE)
    BY <1>3 DEF LoginAnswered
  <2>2. QED
    BY <1>1, <2>1, SetTypes DEF PagesOK
<1>4. QED
  BY <1>2, <1>3

LEMMA LogoutSettledTypes ==
    ASSUME PagesOK, NEW c \in Slots, LogoutSettled(c) PROVE PagesOK'
<1>1. /\ call[c].tab \in Tabs /\ UNCHANGED <<op, connected, broken>>
      /\ SetCookie(call[c].tab, 0) /\ SetToken(call[c].tab, 0) /\ SetUser(call[c].tab, FALSE)
  BY DEF LogoutSettled, Answered
<1>2. QED
  BY <1>1, Zeros, SetTypes DEF PagesOK

LEMMA ResetAnsweredTypes ==
    ASSUME PagesOK, SocketsOK, NEW c \in Slots, ResetAnswered(c) PROVE PagesOK' /\ SocketsOK'
<1> DEFINE t == call[c].tab
<1>1. t \in Tabs /\ UNCHANGED broken
  BY DEF ResetAnswered, Answered
<1>2. CASE call[c].made = 0
  <2>1. UNCHANGED <<cookie, token, user, op, connected, sockets>>
    BY <1>2 DEF ResetAnswered
  <2>2. QED
    BY <1>1, <2>1, SocketsStay DEF PagesOK
<1>3. CASE call[c].made # 0
  <2> DEFINE ops == [o \in Ops |->
                       IF o = "query" THEN Cancelled(op[t][o])
                       ELSE IF op[t][o].at \in {"sent1", "sent2"} THEN Idle ELSE op[t][o]]
  <2>1. /\ SetCookie(t, 0) /\ SetToken(t, 0) /\ SetUser(t, FALSE)
        /\ Leave(t) /\ connected' = connected \ {t}
        /\ op' = [op EXCEPT ![t] = [o \in Ops |-> ops[o]]]
    BY <1>3 DEF ResetAnswered, SessionEnded
  <2> HIDE DEF t
  <2>2. \A o \in Ops : ops[o] \in OpRows
    <3> SUFFICES ASSUME NEW o \in Ops PROVE ops[o] \in OpRows
      OBVIOUS
    <3>1. op[t][o] \in OpRows /\ [at |-> "dropped", with |-> 0] \in OpRows
      BY <1>1, Zeros DEF PagesOK, OpRows
    <3>2. Cancelled(op[t][o]) \in OpRows
      BY <3>1, IdleTyped DEF Cancelled
    <3>3. QED
      BY <3>1, <3>2, IdleTyped
  <2> HIDE DEF ops
  <2>3. op' \in [Tabs -> [Ops -> OpRows]]
    BY <1>1, <2>1, <2>2, Turns
  <2>4. SocketsOK'
    BY <1>1, <2>1, Leaves
  <2>5. QED
    BY <1>1, <2>1, <2>3, <2>4, Zeros, SetTypes DEF PagesOK
<1>4. QED
  BY <1>2, <1>3

LEMMA AnswerTypes ==
    ASSUME TypesOK, NEW c \in Slots, PageContinue(c) PROVE TypesOK'
<1> USE DEF TypesOK, ServerOK
<1>1. CallsOK' /\ RowsOK'
  BY Ending, RowsUnchanged
     DEF PageContinue, RefreshOk, RefreshNo, LoginAnswered, LogoutSettled, ResetAnswered, Unheard
<1>2. CASE ResetAnswered(c)
  BY <1>1, <1>2, ResetAnsweredTypes
<1>3. CASE ~ResetAnswered(c)
  <2>1. SocketsOK'
    BY <1>3, SocketsStay DEF PageContinue, RefreshOk, RefreshNo, LoginAnswered, LogoutSettled,
       Unheard
  <2>2. CASE Unheard(c)
    BY <1>1, <2>1, <2>2 DEF Unheard, PagesOK, pageVars
  <2>3. QED
    BY <1>1, <1>3, <2>1, <2>2, RefreshOkTypes, RefreshNoTypes, LoginAnsweredTypes,
       LogoutSettledTypes DEF PageContinue
<1>4. QED
  BY <1>2, <1>3

LEMMA LostRows ==
    ASSUME RowsOK, MoreTrouble, lost' = lost + 1,
           UNCHANGED <<password, active, link, session, expired, blocks>>
    PROVE  RowsOK'
BY TroubleLeft DEF RowsOK, LinksInOrder, Requested, Made

LEMMA LoseTypes ==
    ASSUME TypesOK, NEW c \in Slots, Lose(c) PROVE TypesOK'
<1> USE DEF TypesOK, ServerOK
<1>1. /\ call[c] # NoCall /\ call[c].tab \in Tabs /\ MoreTrouble /\ lost' = lost + 1 /\ Done(c)
      /\ UNCHANGED <<password, active, link, session, expired, blocks, sockets, cookie, connected>>
  BY DEF Lose
<1>2. RowsOK' /\ CallsOK' /\ SocketsOK'
  BY <1>1, LostRows, Ending, SocketsStay
<1>3. broken' \subseteq Ids
  BY <1>1, BrokenOf DEF Lose, PagesOK
<1>4. /\ token' \in [Tabs -> 0..MaxSessions] /\ user' \in [Tabs -> BOOLEAN]
      /\ op' \in [Tabs -> [Ops -> OpRows]]
  <2>1. CASE call[c].kind = "refresh"
    BY <1>1, <2>1, RefreshFailedTypes DEF Lose
  <2>2. CASE call[c].kind = "logout"
    BY <1>1, <2>2, SetTypes, Zeros DEF Lose, PagesOK
  <2>3. CASE call[c].kind \notin {"refresh", "logout"}
    BY <2>3 DEF Lose, PagesOK
  <2>4. QED
    BY <2>1, <2>2, <2>3
<1>5. QED
  BY <1>1, <1>2, <1>3, <1>4 DEF PagesOK

LEMMA ReloadTypes ==
    ASSUME TypesOK, NEW t \in Tabs, Reload(t) PROVE TypesOK'
<1> USE DEF TypesOK, ServerOK
<1> DEFINE ours == {c \in Slots : call[c] # NoCall /\ call[c].tab = t}
<1>1. PICK c \in Calls :
         /\ call[t] # NoCall => call[c] = NoCall
         /\ call' = [d \in Slots |->
                IF d = t THEN NoCall
                ELSE IF d = c /\ call[t] # NoCall THEN [call[t] EXCEPT !.tab = Tabless]
                ELSE IF d \in ours THEN [call[d] EXCEPT !.tab = Tabless] ELSE call[d]]
  BY DEF Reload
<1>2. t \in Slots
  BY DEF Slots
<1> DEFINE Alike(x, y) == /\ x \in CallRows /\ x.kind = y.kind /\ x.of = y.of
                          /\ x.pc = y.pc /\ x.login = y.login
<1>3. \A d \in Slots : call[d] # NoCall => Alike([call[d] EXCEPT !.tab = Tabless], call[d])
  <2> SUFFICES ASSUME NEW d \in Slots, call[d] # NoCall
               PROVE  Alike([call[d] EXCEPT !.tab = Tabless], call[d])
    OBVIOUS
  <2>1. call[d] \in CallRows
    BY CallRow
  <2>2. QED
    BY <2>1 DEF CallRows
<1>4. \A d \in Slots : \/ call'[d] = NoCall \/ call'[d] = call[d]
                       \/ \E e \in Slots : call[e] # NoCall /\ Alike(call'[d], call[e])
  BY <1>1, <1>2, <1>3
<1>5. CallsOK'
  <2>1. call' = [d \in Slots |-> call'[d]]
    BY <1>1
  <2>2. QED
    BY <1>4, <2>1 DEF CallsOK, CallsFit
<1>6. RowsOK' /\ SocketsOK'
  BY LostRows, Leaves DEF Reload
<1>7. op' \in [Tabs -> [Ops -> OpRows]]
  BY IdleTyped DEF Reload, PagesOK
<1>8. broken' \subseteq Ids
  <2>1. \A d \in ours : call[d].kind = "refresh" => ({call[d].of} \ {0}) \subseteq Ids
    BY BrokenOf
  <2>2. broken' = broken \cup ({call[d].of : d \in {e \in ours : call[e].kind = "refresh"}} \ {0})
    BY DEF Reload
  <2> HIDE DEF ours
  <2>3. QED
    BY <2>1, <2>2 DEF PagesOK
<1>9. QED
  BY <1>5, <1>6, <1>7, <1>8, SetTypes DEF Reload, PagesOK

LEMMA TypesNext == SessionInv /\ TypesOK /\ [Next]_vars => TypesOK'
<1> SUFFICES ASSUME SessionInv, TypesOK, [Next]_vars PROVE TypesOK'
  OBVIOUS
<1>1. CASE UNCHANGED vars
  BY <1>1, RowsUnchanged, CallsStand, SocketsStay
     DEF vars, serverVars, pageVars, TypesOK, ServerOK, PagesOK
<1>2. CASE Server(Elsewhere)
  BY <1>2, ElsewhereTypes, ServedTypes DEF TypesOK, Server
<1>3. ASSUME NEW c \in Slots, Server(ServerContinue(c)) \/ PageContinue(c) \/ Lose(c)
      PROVE  TypesOK'
  <2>1. CASE Server(ServerContinue(c))
    BY <2>1, ServerTypes, ServedTypes DEF TypesOK, Server
  <2>2. QED
    BY <1>3, <2>1, AnswerTypes, LoseTypes
<1>4. ASSUME NEW c \in Calls, NEW t \in Tabs,
             \/ \E p \in 0..password : LoginStart(c, t, p)
             \/ \E p \in Requested : ResetStart(c, t, p)
             \/ LogoutStart(c, t)
      PROVE  TypesOK'
  BY <1>4, StartTypes
<1>5. ASSUME NEW t \in Tabs,
             \/ QueryContinue(t) \/ SocketContinue(t) \/ Reload(t)
             \/ \E o \in Ops : OpStart(t, o)
      PROVE  TypesOK'
  BY <1>5, QueryTypes, SocketTypes, ReloadTypes, OpStartTypes
<1>6. QED
  BY <1>1, <1>2, <1>3, <1>4, <1>5 DEF Next

LEMMA TypesInit == Init => TypesOK
<1> SUFFICES ASSUME Init PROVE TypesOK
  OBVIOUS
<1>1. /\ password = 0 /\ active = TRUE /\ link = [p \in 1..MaxTrouble |-> "none"]
      /\ session = <<>> /\ expired = {} /\ blocks = 0 /\ lost = 0
      /\ call = [c \in Slots |-> NoCall]
      /\ joining = {} /\ room = {} /\ missed = {}
      /\ epoch = [t \in Tabs |-> 0]
  BY DEF Init, SessionsInit
<1>2. Made = {} /\ 1..0 = {} /\ Cardinality(1..0) = 0
  BY <1>1, UpTo DEF Made
<1>3. LinksInOrder
  <2>1. Requested = 1..0
    BY <1>1 DEF Requested
  <2>2. QED
    BY <1>1, <2>1, Zeros DEF LinksInOrder
<1>4. RowsOK
  BY <1>1, <1>2, <1>3, Zeros DEF RowsOK
<1>5. CallsOK /\ SocketsOK
  BY <1>1 DEF CallsOK, CallsFit, SocketsOK
<1>6. PagesOK
  BY Zeros, IdleTyped DEF Init, PagesOK
<1>7. QED
  BY <1>4, <1>5, <1>6 DEF TypesOK, ServerOK

\* The rows, requests, sockets and pages have their types: a reset never
\* counts a password more than links were sent.
THEOREM SessionTypes == Spec => []TypeOK
<1>1. QED
  BY TypesInParts, SessionInvInit, SessionInvNext, TypesInit, TypesNext, PTL DEF Spec

-----------------------------------------------------------------------------
(* The sockets.  Between the commit of a reset or a restriction and its    *)
(* closing of the room, the request that closes it is in flight.           *)

Closing == \E c \in Slots : call[c] # NoCall /\ call[c].pc = "close"
Inside == (room \cup joining) \ missed
SocketsInv == Closing \/ \A t \in Inside : epoch[t] = Closings

\* Nothing was closed, and whoever is inside was before or entered just now.
NoneClosed ==
    /\ UNCHANGED <<password, blocks>>
    /\ \A t \in Inside' : epoch'[t] = Closings \/ (t \in Inside /\ epoch'[t] = epoch[t])

LEMMA SocketsKept ==
    ASSUME SocketsInv, NoneClosed, Closing => Closing' PROVE SocketsInv'
BY DEF SocketsInv, NoneClosed, Closings

LEMMA StillClosing ==
    ASSUME NEW c \in Slots, Now(c, call'[c]), call[c] = NoCall \/ call[c].pc # "close", Closing
    PROVE  Closing'
BY DEF Now, Closing

LEMMA Untouched == ASSUME UNCHANGED <<password, blocks, sockets>> PROVE NoneClosed
BY DEF NoneClosed, sockets, Inside

LEMMA LeftAlone ==
    ASSUME SocketsOK, NEW t \in Tabs, Leave(t), UNCHANGED <<password, blocks>> PROVE NoneClosed
BY DEF NoneClosed, SocketsOK, Leave, Inside

LEMMA RoomClosed == ASSUME CloseRoom PROVE SocketsInv'
BY DEF CloseRoom, SocketsInv, Inside

LEMMA RefreshClosing ==
    ASSUME CallsOK, PagesOK, NEW t \in Tabs, Refresh(t), Closing PROVE Closing'
<1>1. CASE UNCHANGED call
  BY <1>1 DEF Closing
<1>2. CASE Send(t, t, "refresh", Cookie(t))
  <2>1. t \in Slots /\ "refresh" \in Kinds /\ Fitting("refresh", Cookie(t))
    BY Cookies, SessionBounds DEF Slots, Kinds, Fitting
  <2>2. Now(t, call'[t]) /\ call[t] = NoCall
    BY <1>2, <2>1, Requesting
  <2>3. QED
    BY <2>1, <2>2, StillClosing
<1>3. QED
  BY <1>1, <1>2 DEF Refresh

\* One slot changes, as every step of a request but one leaves the others.
LEMMA ServerCalls ==
    ASSUME SessionInv, CallsOK, RowsOK, NEW c \in Slots, ServerContinue(c), ~Reset(c)
    PROVE  Now(c, call'[c]) /\ call[c] # NoCall
<1>1. "claim" \in Pcs /\ "act" \in Pcs
  BY DEF Pcs
<1>2. CASE RefreshCheck(c)
  BY <1>1, <1>2, Zeros, Going, Answering DEF RefreshCheck, InFlight
<1>3. CASE ResetCheck(c)
  BY <1>1, <1>3, Zeros, Going, Answering DEF ResetCheck, InFlight
<1>4. CASE LoginCheck(c) \/ RefreshClaim(c) \/ CreateSession(c)
  BY <1>4 DEF LoginCheck, RefreshClaim, CreateSession, InFlight, Answer, Now, CallsOK
<1>5. CASE Logout(c) \/ ResetClose(c) \/ LogoutAll(c) \/ BlockClose(c)
  BY <1>5 DEF Logout, ResetClose, LogoutAll, BlockClose, InFlight, Answer, Done, Now, CallsOK
<1>6. QED
  BY <1>2, <1>3, <1>4, <1>5 DEF ServerContinue

LEMMA ResetSockets ==
    ASSUME CallsOK, SocketsInv, NEW c \in Slots, Reset(c) PROVE SocketsInv'
<1>1. /\ call[c] # NoCall /\ call[c].pc = "act" /\ call[c] \in CallRows
      /\ UNCHANGED <<blocks, sockets>>
  BY CallRow DEF Reset, InFlight
<1>2. CASE Answer(c, 0) /\ UNCHANGED password
  <2>1. Closing => Closing'
    BY <1>1, <1>2, Zeros, Answering, StillClosing
  <2>2. QED
    BY <1>1, <1>2, <2>1, Untouched, SocketsKept
<1>3. CASE call' = Overtake(c, "close")
  <2>1. call'[c] = [call[c] EXCEPT !.pc = "close", !.made = 1]
    BY <1>3 DEF Overtake
  <2>2. call'[c] # NoCall /\ call'[c].pc = "close"
    BY <1>1, <2>1, NoCallIsNone DEF CallRows, Kinds
  <2>3. QED
    BY <2>2 DEF SocketsInv, Closing
<1>4. QED
  BY <1>2, <1>3 DEF Reset

LEMMA ServerSockets ==
    ASSUME SessionInv, CallsOK, RowsOK, SocketsInv, NEW c \in Slots, ServerContinue(c)
    PROVE  SocketsInv'
<1>1. CASE ResetClose(c) \/ BlockClose(c)
  BY <1>1, RoomClosed DEF ResetClose, BlockClose
<1>2. CASE Reset(c)
  BY <1>2, ResetSockets
<1>3. CASE ~Reset(c) /\ ~ResetClose(c) /\ ~BlockClose(c)
  <2>1. /\ UNCHANGED <<password, blocks, sockets>> /\ call[c].pc # "close"
    BY <1>3 DEF ServerContinue, LoginCheck, RefreshCheck, RefreshClaim, CreateSession, Logout,
       LogoutAll, ResetCheck, InFlight, rows
  <2>2. Now(c, call'[c])
    BY <1>3, ServerCalls
  <2>3. QED
    BY <2>1, <2>2, StillClosing, Untouched, SocketsKept
<1>4. QED
  BY <1>1, <1>2, <1>3

LEMMA ElsewhereSockets ==
    ASSUME CallsOK, SocketsInv, Elsewhere PROVE SocketsInv'
<1>1. ASSUME NEW c \in Calls, LogoutAllStart(c) PROVE SocketsInv'
  <2>1. c \in Slots /\ "logoutAll" \in Kinds /\ Fitting("logoutAll", 0)
    BY SessionBounds DEF Slots, Kinds, Fitting
  <2>2. Now(c, call'[c]) /\ call[c] = NoCall /\ UNCHANGED <<rows, sockets>>
    BY <1>1, <2>1, Requesting DEF LogoutAllStart
  <2>3. QED
    BY <2>1, <2>2, StillClosing, Untouched, SocketsKept DEF rows
<1>2. ASSUME NEW c \in Calls, Block(c) PROVE SocketsInv'
  <2>1. c \in Slots
    BY DEF Slots
  <2>2. call'[c] # NoCall /\ call'[c].pc = "close"
    BY <1>2, <2>1 DEF Block, CallsOK, Request, NoCall
  <2>3. QED
    BY <2>1, <2>2 DEF SocketsInv, Closing
<1>3. CASE (\E s \in Ids : Expire(s)) \/ (\E p \in 1..MaxTrouble : RequestReset(p)) \/ Unblock
  <2>1. UNCHANGED <<password, blocks, sockets>> /\ (Closing => Closing')
    BY <1>3 DEF Expire, RequestReset, Unblock, Closing
  <2>2. QED
    BY <2>1, Untouched, SocketsKept
<1>4. QED
  BY <1>1, <1>2, <1>3 DEF Elsewhere

LEMMA ReloadSockets ==
    ASSUME TypesOK, SocketsInv, NEW t \in Tabs, Reload(t) PROVE SocketsInv'
<1> USE DEF TypesOK, ServerOK
<1> DEFINE ours == {c \in Slots : call[c] # NoCall /\ call[c].tab = t}
<1>1. PICK c \in Calls :
         /\ call[t] # NoCall => call[c] = NoCall
         /\ call' = [d \in Slots |->
                IF d = t THEN NoCall
                ELSE IF d = c /\ call[t] # NoCall THEN [call[t] EXCEPT !.tab = Tabless]
                ELSE IF d \in ours THEN [call[d] EXCEPT !.tab = Tabless] ELSE call[d]]
  BY DEF Reload
<1>2. t \in Slots /\ c \in Slots
  BY DEF Slots
<1>3. \A d \in Slots : call[d] # NoCall =>
         /\ [call[d] EXCEPT !.tab = Tabless] # NoCall
         /\ [call[d] EXCEPT !.tab = Tabless].pc = call[d].pc
  <2> SUFFICES ASSUME NEW d \in Slots, call[d] # NoCall
               PROVE  /\ [call[d] EXCEPT !.tab = Tabless] # NoCall
                      /\ [call[d] EXCEPT !.tab = Tabless].pc = call[d].pc
    OBVIOUS
  <2>1. call[d] \in CallRows
    BY CallRow
  <2>2. [call[d] EXCEPT !.tab = Tabless] \in CallRows
    BY <2>1 DEF CallRows
  <2>3. QED
    BY <2>1, <2>2, NoCallIsNone DEF CallRows
<1>4. ASSUME Closing PROVE Closing'
  <2>1. PICK d \in Slots : call[d] # NoCall /\ call[d].pc = "close"
    BY <1>4 DEF Closing
  <2>2. CASE d # t
    <3>1. call'[d] # NoCall /\ call'[d].pc = "close"
      BY <1>1, <1>3, <2>1, <2>2
    <3>2. QED
      BY <3>1 DEF Closing
  <2>3. CASE d = t
    <3>1. CASE c = t
      BY <1>1, <2>1, <2>3, <3>1
    <3>2. CASE c # t
      <4>1. call'[c] # NoCall /\ call'[c].pc = "close"
        BY <1>1, <1>2, <1>3, <2>1, <2>3, <3>2
      <4>2. QED
        BY <1>2, <4>1 DEF Closing
    <3>3. QED
      BY <3>1, <3>2
  <2>4. QED
    BY <2>2, <2>3
<1>5. NoneClosed
  BY LeftAlone DEF Reload
<1>6. QED
  BY <1>4, <1>5, SocketsKept

LEMMA PageSockets ==
    ASSUME TypesOK, SocketsInv, NEW t \in Tabs,
           \/ QueryContinue(t) \/ SocketContinue(t) \/ Reload(t)
           \/ \E o \in Ops : OpStart(t, o)
    PROVE  SocketsInv'
<1> USE DEF TypesOK, ServerOK
<1>1. CASE QueryContinue(t)
  <2>1. UNCHANGED <<password, blocks, sockets>>
    BY <1>1 DEF QueryContinue, QueryServed, rows
  <2>2. Closing => Closing'
    BY <1>1, RefreshClosing DEF QueryContinue, QueryServed, Closing
  <2>3. QED
    BY <2>1, <2>2, Untouched, SocketsKept
<1>2. CASE SocketServed(t)
  <2>1. UNCHANGED rows
    BY <1>2 DEF SocketServed
  <2>2. Closing => Closing'
    BY <1>2, RefreshClosing DEF SocketServed, Closing
  <2>3. NoneClosed
    <3>1. CASE Admit(t)
      BY <2>1, <3>1 DEF Admit, NoneClosed, SocketsOK, Inside, rows
    <3>2. CASE UNCHANGED sockets
      BY <2>1, <3>2, Untouched DEF rows
    <3>3. QED
      BY <1>2, <3>1, <3>2 DEF SocketServed
  <2>4. QED
    BY <2>2, <2>3, SocketsKept
<1>3. CASE Server(Join(t) /\ UNCHANGED <<rows, call>>)
  <2>1. NoneClosed /\ UNCHANGED call
    BY <1>3 DEF Server, Join, NoneClosed, Inside, rows
  <2>2. QED
    BY <2>1, SocketsKept DEF Closing
<1>4. ASSUME NEW o \in Ops, OpStart(t, o) PROVE SocketsInv'
  <2>1. UNCHANGED <<password, blocks, sockets>>
    BY <1>4 DEF OpStart, rows
  <2>2. Closing => Closing'
    BY <1>4, RefreshClosing DEF OpStart, Closing
  <2>3. QED
    BY <2>1, <2>2, Untouched, SocketsKept
<1>5. QED
  BY <1>1, <1>2, <1>3, <1>4, ReloadSockets DEF SocketContinue

LEMMA AnswerSockets ==
    ASSUME TypesOK, SocketsInv, NEW c \in Slots, PageContinue(c) \/ Lose(c)
    PROVE  SocketsInv'
<1> USE DEF TypesOK, ServerOK
<1>1. Done(c) /\ call[c] # NoCall /\ call[c].pc # "close" /\ UNCHANGED <<password, blocks>>
  BY DEF PageContinue, RefreshOk, RefreshNo, LoginAnswered, LogoutSettled, ResetAnswered,
     Unheard, Lose, Answered, InFlight, rows
<1>2. Closing => Closing'
  <2>1. Now(c, call'[c])
    BY <1>1, Ending DEF Now
  <2>2. QED
    BY <1>1, <2>1, StillClosing
<1>3. NoneClosed
  <2>1. CASE UNCHANGED sockets
    BY <1>1, <2>1, Untouched
  <2>2. CASE Leave(call[c].tab) /\ call[c].tab \in Tabs
    BY <1>1, <2>2, LeftAlone
  <2>3. QED
    BY <2>1, <2>2 DEF PageContinue, RefreshOk, RefreshNo, LoginAnswered, LogoutSettled,
       ResetAnswered, Unheard, Lose, Answered, sockets
<1>4. QED
  BY <1>2, <1>3, SocketsKept

LEMMA StartSockets ==
    ASSUME TypesOK, SocketsInv, NEW c \in Calls, NEW t \in Tabs,
           \/ \E p \in 0..password : LoginStart(c, t, p)
           \/ \E p \in Requested : ResetStart(c, t, p)
           \/ LogoutStart(c, t)
    PROVE  SocketsInv'
<1> USE DEF TypesOK, ServerOK
<1>1. c \in Slots /\ UNCHANGED <<password, blocks>> /\ call[c] = NoCall
  BY DEF LoginStart, ResetStart, LogoutStart, Send, rows, Slots
<1>2. Now(c, call'[c])
  BY <1>1 DEF LoginStart, ResetStart, LogoutStart, Send, Now, CallsOK
<1>3. NoneClosed
  BY <1>1, Untouched, LeftAlone DEF LoginStart, ResetStart, LogoutStart, HangUp
<1>4. QED
  BY <1>1, <1>2, <1>3, StillClosing, SocketsKept

LEMMA SocketsNext == SessionInv /\ TypesOK /\ SocketsInv /\ [Next]_vars => SocketsInv'
<1> SUFFICES ASSUME SessionInv, TypesOK, SocketsInv, [Next]_vars PROVE SocketsInv'
  OBVIOUS
<1>1. CASE UNCHANGED vars
  BY <1>1, Untouched, SocketsKept DEF vars, serverVars, rows, Closing
<1>2. ASSUME NEW c \in Slots, Server(ServerContinue(c)) \/ PageContinue(c) \/ Lose(c)
      PROVE  SocketsInv'
  BY <1>2, ServerSockets, AnswerSockets DEF Server, TypesOK, ServerOK
<1>3. CASE Server(Elsewhere)
  BY <1>3, ElsewhereSockets DEF Server, TypesOK, ServerOK
<1>4. QED
  BY <1>1, <1>2, <1>3, StartSockets, PageSockets DEF Next

LEMMA SocketsInit == Init => SocketsInv
BY DEF Init, SessionsInit, SocketsInv, Inside

\* Once a reset or a restriction has closed the sockets, the ones left were
\* authenticated after it, or before it and had not joined the room yet
\* (auth.service.ts resetPassword and users.service.ts updateUser call
\* disconnectUser after their statements).
THEOREM ClosedSocketsGone == Spec => []OldSocketsClose
<1>1. SocketsInv => OldSocketsClose
  BY DEF SocketsInv, OldSocketsClose, Closing, Inside
<1>2. QED
  BY <1>1, SessionInvInit, SessionInvNext, TypesInit, TypesNext, SocketsInit, SocketsNext, PTL
     DEF Spec

-----------------------------------------------------------------------------
(* Who waits for a token waits for a refresh in flight.                    *)

Refreshing(c) == call[c] # NoCall /\ call[c].kind = "refresh"

\* The refresh of a page has a slot of its own, and only queries are dropped.
RefreshesInPlace ==
    \A c \in Slots : Refreshing(c) /\ call[c].tab \in Tabs => c = call[c].tab
QueriesDropped == \A t \in Tabs, o \in Ops : op[t][o].at = "dropped" => o = "query"

Waits(t) == \E o \in Ops : op[t][o].at \in {"wait1", "wait2", "dropped"}
Awaited(t) == Refreshing(t) /\ call[t].tab = t
WaitsInv ==
    /\ RefreshesInPlace /\ QueriesDropped
    /\ \A t \in Tabs : Waits(t) => Awaited(t)

\* What a slot holds after a step: its refresh, or another refresh only of
\* the page whose slot it is.
StaysRefresh(c) == Refreshing(c)' => \/ Refreshing(c) /\ call'[c].tab = call[c].tab
                                     \/ call'[c].tab = c
                                     \/ call'[c].tab = Tabless

\* A page of which nothing new waits and whose refresh goes on, and one that
\* waits for nothing.
WaitsOn(t) ==
    \/ /\ \A o \in Ops : op'[t][o].at = "dropped" => o = "query"
       /\ Waits(t)' => Awaited(t)'
WaitsSame(t) == op'[t] = op[t] /\ (Awaited(t) => Awaited(t)')

LEMMA WaitsKept ==
    ASSUME WaitsInv, \A c \in Slots : StaysRefresh(c),
           \A t \in Tabs : WaitsSame(t) \/ WaitsOn(t)
    PROVE  WaitsInv'
<1>1. RefreshesInPlace'
  BY NoTabIsTabless DEF WaitsInv, RefreshesInPlace, StaysRefresh
<1>2. QueriesDropped' /\ \A t \in Tabs : Waits(t)' => Awaited(t)'
  BY DEF WaitsInv, QueriesDropped, WaitsSame, WaitsOn, Waits
<1>3. QED
  BY <1>1, <1>2 DEF WaitsInv

\* A step of one request, which goes on as what it was, or is over.
GoesOn(c) == call'[c] = NoCall \/ (call'[c].kind = call[c].kind /\ call'[c].tab = call[c].tab)

LEMMA GoingOn ==
    ASSUME NEW c \in Slots, Now(c, call'[c]), GoesOn(c), call[c] # NoCall
    PROVE  /\ \A d \in Slots : StaysRefresh(d)
           /\ \A t \in Tabs : (call'[c] = NoCall => ~Refreshing(c) \/ call[c].tab # t)
                              => (Awaited(t) => Awaited(t)')
BY DEF Now, GoesOn, StaysRefresh, Refreshing, Awaited, Slots

\* A request is sent: a page's refresh in its own slot.
LEMMA SentOn ==
    ASSUME NEW c \in Slots, Now(c, call'[c]), call[c] = NoCall,
           call'[c].kind = "refresh" => call'[c].tab = c
    PROVE  /\ \A d \in Slots : StaysRefresh(d)
           /\ \A t \in Tabs : Awaited(t) => Awaited(t)'
BY DEF Now, StaysRefresh, Refreshing, Awaited, Slots

LEMMA RefreshOn ==
    ASSUME CallsOK, PagesOK, WaitsInv, NEW t \in Tabs, Refresh(t)
    PROVE  /\ \A d \in Slots : StaysRefresh(d)
           /\ \A u \in Tabs : Awaited(u) => Awaited(u)'
           /\ Awaited(t)'
<1>1. CASE Pending(t, "refresh") # {}
  <2>1. UNCHANGED call
    BY <1>1 DEF Refresh
  <2>2. Awaited(t)
    BY <1>1 DEF Pending, WaitsInv, RefreshesInPlace, Refreshing, Awaited
  <2>3. QED
    BY <2>1, <2>2 DEF StaysRefresh, Refreshing, Awaited
<1>2. CASE Send(t, t, "refresh", Cookie(t))
  <2>1. t \in Slots /\ "refresh" \in Kinds /\ Fitting("refresh", Cookie(t))
    BY Cookies, SessionBounds DEF Slots, Kinds, Fitting
  <2>2. /\ Now(t, call'[t]) /\ call[t] = NoCall /\ call'[t] \in CallRows
        /\ call'[t] = Request(t, "refresh", Cookie(t))
    BY <1>2, <2>1, Requesting
  <2>3. call'[t].kind = "refresh" /\ call'[t].tab = t /\ call'[t] # NoCall
    BY <2>2, NoCallIsNone DEF Request
  <2>4. QED
    BY <2>1, <2>2, <2>3, SentOn DEF Awaited, Refreshing
<1>3. QED
  BY <1>1, <1>2 DEF Refresh

\* The steps of the server lose no refresh of a page.
LEMMA ServerGoesOn ==
    ASSUME SessionInv, CallsOK, RowsOK, NEW c \in Slots, ServerContinue(c), ~Reset(c)
    PROVE  GoesOn(c) /\ (call'[c] = NoCall => call[c].kind # "refresh")
<1>1. "claim" \in Pcs /\ "act" \in Pcs
  BY DEF Pcs
<1>2. CASE RefreshCheck(c)
  BY <1>1, <1>2, Zeros, Going, Answering, NoCallIsNone
     DEF RefreshCheck, InFlight, SameRequest, GoesOn
<1>3. CASE ResetCheck(c)
  BY <1>1, <1>3, Zeros, Going, Answering, NoCallIsNone
     DEF ResetCheck, InFlight, SameRequest, GoesOn
<1>4. CASE Logout(c) \/ ResetClose(c)
  BY <1>4, Zeros, Answering, NoCallIsNone DEF Logout, ResetClose, InFlight, SameRequest, GoesOn
<1>5. CASE LogoutAll(c) \/ BlockClose(c)
  BY <1>5, Ending DEF LogoutAll, BlockClose, InFlight, GoesOn, Now
<1>6. CASE LoginCheck(c) \/ RefreshClaim(c) \/ CreateSession(c)
  <2>1. call[c] \in CallRows
    BY <1>6, CallRow DEF LoginCheck, RefreshClaim, CreateSession, InFlight
  <2>2. ASSUME NEW s \in 0..MaxSessions, Answer(c, s) PROVE GoesOn(c) /\ call'[c] # NoCall
    <3>1. SameRequest(call'[c], call[c]) /\ call'[c] \in CallRows
      BY <1>6, <2>2, Answering DEF LoginCheck, RefreshClaim, CreateSession, InFlight
    <3>2. QED
      BY <3>1, NoCallIsNone DEF SameRequest, GoesOn
  <2>3. CASE LoginCheck(c)
    <3>1. CASE call' = [call EXCEPT ![c].pc = "create", ![c].password = password]
      <4>1. call'[c].kind = call[c].kind /\ call'[c].tab = call[c].tab
        BY <2>1, <3>1 DEF CallsOK, CallRows
      <4>2. QED
        BY <2>1, <2>3, <4>1 DEF GoesOn, LoginCheck, InFlight
    <3>2. QED
      BY <2>2, <2>3, <3>1, Zeros DEF LoginCheck
  <2>4. CASE RefreshClaim(c)
    <3>1. CASE ~Live(call[c].of)
      BY <2>2, <2>4, <3>1, Zeros DEF RefreshClaim
    <3>2. CASE Live(call[c].of)
      <4> DEFINE s == call[c].of
      <4>1. call' = [call EXCEPT ![c].pc = "create", ![c].login = session[s].login,
                         ![c].password = session[s].password, ![c].late = session[s].late]
        BY <2>4, <3>2 DEF RefreshClaim
      <4>2. call'[c].kind = call[c].kind /\ call'[c].tab = call[c].tab
        BY <2>1, <4>1 DEF CallsOK, CallRows
      <4>3. call[c].kind = "refresh"
        BY <2>4 DEF RefreshClaim, InFlight
      <4>4. QED
        BY <4>2, <4>3, NoCallIsNone DEF GoesOn
    <3>3. QED
      BY <3>1, <3>2
  <2>5. CASE CreateSession(c)
    <3>1. \E s \in 0..MaxSessions : Answer(c, s)
      BY <2>5, Zeros DEF CreateSession, Ids
    <3>2. QED
      BY <2>2, <3>1
  <2>6. QED
    BY <1>6, <2>3, <2>4, <2>5
<1>7. QED
  BY <1>2, <1>3, <1>4, <1>5, <1>6 DEF ServerContinue

LEMMA ResetGoesOn ==
    ASSUME CallsOK, NEW c \in Slots, Reset(c)
    PROVE  /\ \A d \in Slots : StaysRefresh(d)
           /\ \A t \in Tabs : Awaited(t) => Awaited(t)'
<1>1. call[c] # NoCall /\ call[c].kind = "reset" /\ call[c] \in CallRows
  BY CallRow DEF Reset, InFlight
<1>2. CASE Answer(c, 0)
  <2>1. Now(c, call'[c]) /\ SameRequest(call'[c], call[c])
    BY <1>1, <1>2, Zeros, Answering
  <2>2. QED
    BY <1>1, <2>1, GoingOn DEF SameRequest, GoesOn, Refreshing
<1>3. CASE call' = Overtake(c, "close")
  <2>1. /\ call'[c] = [call[c] EXCEPT !.pc = "close", !.made = 1]
        /\ \A d \in Slots : d # c => \/ call'[d] = call[d]
                                     \/ /\ call[d] # NoCall
                                        /\ call'[d] = [call[d] EXCEPT !.late = TRUE]
    BY <1>3 DEF Overtake
  <2>2. call'[c].kind = "reset"
    BY <1>1, <2>1 DEF CallRows
  <2>3. ASSUME NEW d \in Slots, d # c
        PROVE  call'[d] = call[d] \/ (/\ call'[d] # NoCall /\ call[d] # NoCall
                                      /\ call'[d].kind = call[d].kind /\ call'[d].tab = call[d].tab)
    <3>1. CASE call[d] # NoCall /\ call'[d] = [call[d] EXCEPT !.late = TRUE]
      <4>1. call[d] \in CallRows
        BY <3>1, CallRow
      <4>2. call'[d].kind = call[d].kind /\ call'[d].tab = call[d].tab /\ call'[d] \in CallRows
        BY <3>1, <4>1 DEF CallRows
      <4>3. QED
        BY <3>1, <4>2, NoCallIsNone
    <3>2. QED
      BY <2>1, <2>3, <3>1
  <2>4. QED
    BY <1>1, <2>2, <2>3 DEF StaysRefresh, Refreshing, Awaited, Slots
<1>4. QED
  BY <1>2, <1>3 DEF Reset

LEMMA ServerWaits ==
    ASSUME SessionInv, TypesOK, WaitsInv, NEW c \in Slots, ServerContinue(c), UNCHANGED op
    PROVE  WaitsInv'
<1> USE DEF TypesOK, ServerOK
<1>1. /\ \A d \in Slots : StaysRefresh(d)
      /\ \A t \in Tabs : Awaited(t) => Awaited(t)'
  <2>1. CASE Reset(c)
    BY <2>1, ResetGoesOn
  <2>2. CASE ~Reset(c)
    BY <2>2, ServerCalls, ServerGoesOn, GoingOn DEF Refreshing
  <2>3. QED
    BY <2>1, <2>2
<1>2. QED
  BY <1>1, WaitsKept DEF WaitsSame

LEMMA ElsewhereWaits ==
    ASSUME TypesOK, WaitsInv, Elsewhere, UNCHANGED op PROVE WaitsInv'
<1> USE DEF TypesOK, ServerOK
<1>1. CASE UNCHANGED call
  BY <1>1, WaitsKept DEF WaitsSame, StaysRefresh, Refreshing, Awaited
<1>2. ASSUME NEW c \in Calls, LogoutAllStart(c) \/ Block(c) PROVE WaitsInv'
  <2>1. /\ c \in Slots /\ Now(c, call'[c]) /\ call[c] = NoCall
        /\ call'[c].kind \in {"logoutAll", "block"}
    BY <1>2 DEF LogoutAllStart, Block, Send, Request, Slots, Now, CallsOK
  <2>2. QED
    BY <2>1, SentOn, WaitsKept DEF WaitsSame
<1>3. QED
  BY <1>1, <1>2 DEF Elsewhere, Expire, RequestReset, Unblock

\* An operation that begins to wait has asked for a refresh.
LEMMA OneOpMoves ==
    ASSUME TypesOK, WaitsInv, NEW t \in Tabs, NEW o \in Ops, NEW s,
           NEW at \in {"idle", "wait1", "sent1", "wait2", "sent2"}, Move(t, o, at, s),
           \/ UNCHANGED call /\ at \notin {"wait1", "wait2"}
           \/ Refresh(t)
    PROVE  WaitsInv'
<1> USE DEF TypesOK, ServerOK
<1>1. /\ op'[t][o].at = at /\ \A r \in Ops : r # o => op'[t][r] = op[t][r]
      /\ \A u \in Tabs : u # t => op'[u] = op[u]
  BY DEF Move, PagesOK
<1>2. /\ \A d \in Slots : StaysRefresh(d)
      /\ \A u \in Tabs : Awaited(u) => Awaited(u)'
      /\ at \in {"wait1", "wait2"} => Awaited(t)'
  BY RefreshOn DEF StaysRefresh, Refreshing, Awaited
<1>3. WaitsOn(t)
  BY <1>1, <1>2 DEF WaitsOn, Waits, WaitsInv, QueriesDropped
<1>4. QED
  BY <1>1, <1>2, <1>3, WaitsKept DEF WaitsSame

LEMMA PageWaits ==
    ASSUME TypesOK, WaitsInv, NEW t \in Tabs,
           \/ QueryContinue(t) \/ SocketContinue(t) \/ \E o \in Ops : OpStart(t, o)
    PROVE  WaitsInv'
<1> USE DEF TypesOK, ServerOK
<1>1. CASE QueryContinue(t)
  BY <1>1, OneOpMoves DEF QueryContinue, QueryServed
<1>2. CASE SocketServed(t) /\ "socket" \in Ops
  BY <1>2, OneOpMoves DEF SocketServed
<1>3. CASE Server(Join(t) /\ UNCHANGED <<rows, call>>)
  BY <1>3, WaitsKept DEF Server, WaitsSame, StaysRefresh, Refreshing, Awaited
<1>4. ASSUME NEW o \in Ops, OpStart(t, o) PROVE WaitsInv'
  BY <1>4, OneOpMoves DEF OpStart
<1>5. QED
  BY <1>1, <1>2, <1>3, <1>4 DEF SocketContinue

\* A page whose refresh is over waits for nothing.
LEMMA RestsOn ==
    ASSUME NEW t \in Tabs, \A o \in Ops : op'[t][o].at \notin {"wait1", "wait2", "dropped"}
    PROVE  WaitsOn(t)
BY DEF WaitsOn, Waits

LEMMA OverWaits ==
    ASSUME TypesOK, WaitsInv, NEW c \in Slots, call[c] # NoCall, Done(c), NEW t \in Tabs,
           \A u \in Tabs : u # t => op'[u] = op[u],
           Refreshing(c) => call[c].tab \in {t, Tabless} /\ (call[c].tab = t => WaitsOn(t)),
           WaitsOn(t) \/ op'[t] = op[t]
    PROVE  WaitsInv'
<1> USE DEF TypesOK, ServerOK
<1>1. Now(c, NoCall) /\ Now(c, call'[c]) /\ call'[c] = NoCall
  BY Ending DEF Now
<1>2. /\ \A d \in Slots : StaysRefresh(d)
      /\ \A u \in Tabs : (~Refreshing(c) \/ call[c].tab # u) => (Awaited(u) => Awaited(u)')
  BY <1>1, GoingOn DEF GoesOn
<1>3. QED
  BY <1>2, NoTabIsTabless, WaitsKept DEF WaitsSame

LEMMA RejectedRests ==
    ASSUME PagesOK, WaitsInv, NEW t \in Tabs, op' = Rejected(t)
    PROVE  WaitsOn(t) /\ \A u \in Tabs : u # t => op'[u] = op[u]
<1>1. op'[t] = [o \in Ops |-> IF o = "query" \/ op[t][o].at \in {"wait1", "wait2"}
                              THEN Idle ELSE op[t][o]]
  BY DEF Rejected, PagesOK
<1>2. \A u \in Tabs : u # t => op'[u] = op[u]
  BY DEF Rejected, PagesOK
<1>3. \A o \in Ops : op'[t][o].at \notin {"wait1", "wait2", "dropped"}
  BY <1>1 DEF Idle, WaitsInv, QueriesDropped
<1>4. QED
  BY <1>2, <1>3, RestsOn

LEMMA ResumedRests ==
    ASSUME PagesOK, NEW t \in Tabs, NEW s, op' = Resumed(t, s)
    PROVE  WaitsOn(t) /\ \A u \in Tabs : u # t => op'[u] = op[u]
<1>1. op'[t] = [o \in Ops |->
                  CASE op[t][o].at = "wait1" -> [at |-> "sent1", with |-> s]
                    [] op[t][o].at = "wait2" -> [at |-> "sent2", with |-> s]
                    [] op[t][o].at = "dropped" -> Idle
                    [] OTHER -> op[t][o]]
  BY DEF Resumed, PagesOK
<1>2. \A u \in Tabs : u # t => op'[u] = op[u]
  BY DEF Resumed, PagesOK
<1>3. \A o \in Ops : op'[t][o].at \notin {"wait1", "wait2", "dropped"}
  <2> SUFFICES ASSUME NEW o \in Ops PROVE op'[t][o].at \notin {"wait1", "wait2", "dropped"}
    OBVIOUS
  <2>1. CASE op[t][o].at = "wait1"
    BY <1>1, <2>1
  <2>2. CASE op[t][o].at = "wait2"
    BY <1>1, <2>2
  <2>3. CASE op[t][o].at = "dropped"
    BY <1>1, <2>3 DEF Idle
  <2>4. CASE op[t][o].at \notin {"wait1", "wait2", "dropped"}
    BY <1>1, <2>4
  <2>5. QED
    BY <2>1, <2>2, <2>3, <2>4
<1>4. QED
  BY <1>2, <1>3, RestsOn

LEMMA AnswerWaits ==
    ASSUME TypesOK, WaitsInv, NEW c \in Slots, PageContinue(c) \/ Lose(c) PROVE WaitsInv'
<1> USE DEF TypesOK, ServerOK
<1>1. Done(c) /\ call[c] # NoCall
  BY DEF PageContinue, RefreshOk, RefreshNo, LoginAnswered, LogoutSettled, ResetAnswered,
     Unheard, Lose, Answered, InFlight
<1> PICK t \in Tabs \cup {Tabless} : call[c].tab = t
  BY <1>1, CallRow DEF CallRows
<1>2. CASE RefreshOk(c)
  <2>1. t \in Tabs /\ op' = Resumed(t, call[c].made)
    BY <1>2 DEF RefreshOk, Answered
  <2>2. WaitsOn(t) /\ \A u \in Tabs : u # t => op'[u] = op[u]
    BY <2>1, ResumedRests
  <2>3. QED
    BY <1>1, <2>1, <2>2, OverWaits
<1>3. CASE RefreshNo(c) \/ (Lose(c) /\ call[c].kind = "refresh")
  <2>1. t \in Tabs /\ op' = Rejected(t)
    BY <1>3 DEF RefreshNo, Answered, Lose, RefreshFailed
  <2>2. WaitsOn(t) /\ \A u \in Tabs : u # t => op'[u] = op[u]
    BY <2>1, RejectedRests
  <2>3. QED
    BY <1>1, <2>1, <2>2, OverWaits
<1>4. CASE \/ LoginAnswered(c) \/ LogoutSettled(c)
           \/ (ResetAnswered(c) /\ call[c].made = 0)
           \/ (Lose(c) /\ call[c].kind # "refresh")
  <2>1. t \in Tabs /\ ~Refreshing(c) /\ UNCHANGED op
    BY <1>4 DEF LoginAnswered, LogoutSettled, ResetAnswered, Lose, Answered, InFlight, Refreshing
  <2>2. QED
    BY <1>1, <2>1, OverWaits
<1>5. CASE ResetAnswered(c) /\ call[c].made # 0
  <2>1. /\ t \in Tabs /\ ~Refreshing(c)
        /\ op' = [op EXCEPT ![t] = [o \in Ops |->
                     IF o = "query" THEN Cancelled(op[t][o])
                     ELSE IF op[t][o].at \in {"sent1", "sent2"} THEN Idle ELSE op[t][o]]]
    BY <1>5 DEF ResetAnswered, Answered, InFlight, Refreshing
  <2>2. /\ op'[t] = [o \in Ops |-> IF o = "query" THEN Cancelled(op[t][o])
                        ELSE IF op[t][o].at \in {"sent1", "sent2"} THEN Idle ELSE op[t][o]]
        /\ \A u \in Tabs : u # t => op'[u] = op[u]
    BY <2>1 DEF PagesOK
  <2>3. \A o \in Ops :
           /\ op'[t][o].at = "dropped" => o = "query"
           /\ op'[t][o].at \in {"wait1", "wait2", "dropped"}
                 => op[t][o].at \in {"wait1", "wait2", "dropped"}
    BY <2>1, <2>2 DEF Cancelled, Idle, WaitsInv, QueriesDropped
  <2>4. Awaited(t) => Awaited(t)'
    <3>1. Now(c, call'[c]) /\ call'[c] = NoCall
      BY <1>1, Ending DEF Now
    <3>2. GoesOn(c)
      BY <3>1 DEF GoesOn
    <3>3. QED
      BY <1>1, <2>1, <3>1, <3>2, GoingOn
  <2>5. WaitsOn(t)
    BY <2>1, <2>3, <2>4 DEF WaitsOn, Waits, WaitsInv
  <2>6. QED
    BY <1>1, <2>1, <2>2, <2>5, OverWaits
<1>6. CASE Unheard(c)
  <2>1. UNCHANGED op /\ call[c].tab = Tabless
    BY <1>6 DEF Unheard, pageVars
  <2>2. CASE Tabs = {}
    BY <2>2 DEF WaitsInv, QueriesDropped, RefreshesInPlace
  <2>3. CASE Tabs # {}
    <3>1. PICK u \in Tabs : TRUE
      BY <2>3
    <3>2. QED
      BY <1>1, <2>1, <3>1, NoTabIsTabless, OverWaits
  <2>4. QED
    BY <2>2, <2>3
<1>7. QED
  BY <1>2, <1>3, <1>4, <1>5, <1>6 DEF PageContinue

LEMMA ReloadWaits ==
    ASSUME TypesOK, WaitsInv, NEW t \in Tabs, Reload(t) PROVE WaitsInv'
<1> USE DEF TypesOK, ServerOK
<1> DEFINE ours == {c \in Slots : call[c] # NoCall /\ call[c].tab = t}
<1>1. PICK c \in Calls :
         /\ call[t] # NoCall => call[c] = NoCall
         /\ call' = [d \in Slots |->
                IF d = t THEN NoCall
                ELSE IF d = c /\ call[t] # NoCall THEN [call[t] EXCEPT !.tab = Tabless]
                ELSE IF d \in ours THEN [call[d] EXCEPT !.tab = Tabless] ELSE call[d]]
  BY DEF Reload
<1>2. t \in Slots /\ c \in Slots /\ Tabs \subseteq Slots
  BY DEF Slots
<1>3. \A d \in Slots : call[d] # NoCall => [call[d] EXCEPT !.tab = Tabless].tab = Tabless
  <2> SUFFICES ASSUME NEW d \in Slots, call[d] # NoCall
               PROVE  [call[d] EXCEPT !.tab = Tabless].tab = Tabless
    OBVIOUS
  <2>1. call[d] \in CallRows
    BY CallRow
  <2>2. QED
    BY <2>1 DEF CallRows
<1>4. \A d \in Slots : StaysRefresh(d)
  BY <1>1, <1>2, <1>3 DEF StaysRefresh, Refreshing
<1>5. \A u \in Tabs : u # t => (Awaited(u) => Awaited(u)')
  BY <1>1, <1>2 DEF Awaited, Refreshing
<1>6. op' = [op EXCEPT ![t] = [o \in Ops |-> Idle]]
  BY DEF Reload
<1>7. WaitsOn(t) /\ \A u \in Tabs : u # t => op'[u] = op[u]
  BY <1>6, RestsOn DEF PagesOK, Idle
<1>8. QED
  BY <1>4, <1>5, <1>7, WaitsKept DEF WaitsSame

LEMMA StartWaits ==
    ASSUME TypesOK, WaitsInv, NEW c \in Calls, NEW t \in Tabs,
           \/ \E p \in 0..password : LoginStart(c, t, p)
           \/ \E p \in Requested : ResetStart(c, t, p)
           \/ LogoutStart(c, t)
    PROVE  WaitsInv'
<1> USE DEF TypesOK, ServerOK
<1>1. /\ c \in Slots /\ call[c] = NoCall /\ Now(c, call'[c])
      /\ call'[c].kind \in {"login", "reset", "logout"}
  BY DEF LoginStart, ResetStart, LogoutStart, Send, Request, Slots, Now, CallsOK
<1>2. /\ \A d \in Slots : StaysRefresh(d)
      /\ \A u \in Tabs : Awaited(u) => Awaited(u)'
  BY <1>1, SentOn
<1>3. CASE UNCHANGED op
  BY <1>2, <1>3, WaitsKept DEF WaitsSame
<1>4. CASE LogoutStart(c, t)
  <2>1. op' = [op EXCEPT ![t] = [o \in Ops |->
                 IF o = "socket" /\ op[t][o].at \in {"sent1", "sent2"} THEN Idle ELSE op[t][o]]]
    BY <1>4 DEF LogoutStart, HangUp
  <2>2. /\ \A u \in Tabs : u # t => op'[u] = op[u]
        /\ \A o \in Ops : op'[t][o] = op[t][o] \/ op'[t][o] = Idle
    BY <2>1 DEF PagesOK
  <2>3. WaitsOn(t)
    BY <1>2, <2>2 DEF WaitsOn, Waits, WaitsInv, QueriesDropped, Idle
  <2>4. QED
    BY <1>2, <2>2, <2>3, WaitsKept DEF WaitsSame
<1>5. QED
  BY <1>3, <1>4 DEF LoginStart, ResetStart, pageVars

LEMMA WaitsNext == SessionInv /\ TypesOK /\ WaitsInv /\ [Next]_vars => WaitsInv'
<1> SUFFICES ASSUME SessionInv, TypesOK, WaitsInv, [Next]_vars PROVE WaitsInv'
  OBVIOUS
<1>1. CASE UNCHANGED vars
  BY <1>1, WaitsKept DEF vars, serverVars, pageVars, WaitsSame, StaysRefresh, Refreshing, Awaited
<1>2. ASSUME NEW c \in Slots, Server(ServerContinue(c)) \/ PageContinue(c) \/ Lose(c)
      PROVE  WaitsInv'
  BY <1>2, ServerWaits, AnswerWaits DEF Server
<1>3. CASE Server(Elsewhere)
  BY <1>3, ElsewhereWaits DEF Server
<1>4. QED
  BY <1>1, <1>2, <1>3, StartWaits, PageWaits, ReloadWaits DEF Next

LEMMA WaitsInit == Init => WaitsInv
BY DEF Init, SessionsInit, WaitsInv, RefreshesInPlace, QueriesDropped, Waits, Refreshing, Idle

\* Whoever waits for a new token waits for a refresh that is in flight: one
\* that fails or is lost leaves no request of the page hanging (auth-api.ts
\* shares one promise, authorized-request.ts awaits it).
THEOREM WaitersAreServed == Spec => []NobodyWaitsForNothing
<1>1. WaitsInv => NobodyWaitsForNothing
  BY DEF WaitsInv, NobodyWaitsForNothing, Waits, Awaited, Refreshing, Pending, Slots
<1>2. QED
  BY <1>1, SessionInvInit, SessionInvNext, TypesInit, TypesNext, WaitsInit, WaitsNext, PTL
     DEF Spec

-----------------------------------------------------------------------------
(* Who holds a session: the cookie of one browser, or one answer on its    *)
(* way.  A refresh that fails carried a session that is over, and the page *)
(* that rotated a session has forgotten it, or waits for the new one.      *)

Browsers == {BrowserOf[t] : t \in Tabs}
Granted(c) == call[c] # NoCall /\ call[c].kind \in {"login", "refresh"} /\ call[c].made # 0

OneHolder ==
    /\ \A b \in Browsers : cookie[b] # 0 => cookie[b] \in Made
    /\ \A b, e \in Browsers : cookie[b] = cookie[e] /\ cookie[b] # 0 => b = e
    /\ \A c \in Slots : Granted(c) =>
          call[c].made \in Made /\ \A b \in Browsers : cookie[b] # call[c].made
    /\ \A c, d \in Slots : Granted(c) /\ Granted(d) /\ call[c].made = call[d].made => c = d

FailsForGoodReason(c) ==
    call[c].pc = "answered" /\ call[c].made = 0 /\ call[c].login = 0 /\ call[c].of # 0
        => ~Live(call[c].of)
Carried ==
    \A c \in Slots : Refreshing(c) =>
        /\ call[c].of # 0 => call[c].of \in Made
        /\ \A d \in Slots : Granted(d) => call[d].made # call[c].of
        /\ \A t \in Tabs, b \in Browsers :
              call[c].tab = t /\ cookie[b] = call[c].of /\ cookie[b] # 0 => b = BrowserOf[t]
        /\ call[c].pc \in {"sent", "claim"} => call[c].login = 0
        /\ FailsForGoodReason(c)

RotatedBy(s, t) == session[s].ended = "rotated" /\ session[s].by = t /\ s \notin broken
Renews(t, s) ==
    Awaited(t) /\ call[t].of = s /\ call[t].login # 0 /\ call[t].pc \in {"create", "answered"}
Forgets(t, s) ==
    /\ \A b \in Browsers : cookie[b] # s
    /\ Awaited(t) => call[t].of # s
Spent ==
    \A s \in Made, t \in Tabs : RotatedBy(s, t) =>
        /\ \A d \in Slots : Granted(d) => call[d].made # s
        /\ Renews(t, s) \/ Forgets(t, s)

HoldersInv == OneHolder /\ Carried /\ Spent

\* Nothing is granted, rotated or handed over; cookies may be cleared.
RowsQuiet ==
    /\ \A b \in Browsers : cookie'[b] \in {cookie[b], 0}
    /\ Made' = Made /\ \A s \in Made : session'[s] = session[s] \/ session'[s].ended = "purpose"
    /\ broken \subseteq broken'
GrantStays(c) == Granted(c)' => Granted(c) /\ call'[c].made = call[c].made
CarryStays(c) ==
    Refreshing(c)' =>
        /\ Refreshing(c) /\ call'[c].of = call[c].of
        /\ call'[c].tab = call[c].tab \/ call'[c].tab = Tabless
        /\ call'[c].pc \in {"sent", "claim"} => call'[c].login = 0
        /\ FailsForGoodReason(c)'
RenewStays(t) == \A s \in Made : Renews(t, s) => Renews(t, s)' \/ s \in broken'

LEMMA HoldersKept ==
    ASSUME RowsOK, HoldersInv, RowsQuiet, \A t \in Tabs : RenewStays(t),
           \A c \in Slots : GrantStays(c) /\ CarryStays(c)
    PROVE  HoldersInv'
<1>1. 0 \notin Made
  BY DEF RowsOK, Ids
<1>2. Tabs \subseteq Slots /\ Made' = Made
  BY DEF Slots, RowsQuiet
<1>3. OneHolder'
  BY <1>1, <1>2 DEF HoldersInv, OneHolder, RowsQuiet, GrantStays
<1>4. Carried'
  BY <1>1, <1>2, NoTabIsTabless DEF HoldersInv, Carried, RowsQuiet, GrantStays, CarryStays
<1>5. \A s \in Made, t \in Tabs : RotatedBy(s, t)' => RotatedBy(s, t)
  BY DEF RotatedBy, RowsQuiet
<1>6. \A s \in Made, t \in Tabs : Forgets(t, s) => Forgets(t, s)'
  BY <1>1, <1>2, NoTabIsTabless DEF Forgets, RowsQuiet, CarryStays, Awaited
<1>7. \A s \in Made, t \in Tabs : RotatedBy(s, t)' /\ Renews(t, s) => Renews(t, s)'
  BY DEF RotatedBy, RenewStays
<1>8. Spent'
  BY <1>2, <1>5, <1>6, <1>7 DEF HoldersInv, Spent, GrantStays
<1>9. QED
  BY <1>3, <1>4, <1>8 DEF HoldersInv

LEMMA SlotStays ==
    ASSUME HoldersInv, RowsQuiet, NEW c \in Slots, call'[c] = call[c]
    PROVE  GrantStays(c) /\ CarryStays(c) /\ (c \in Tabs => RenewStays(c))
<1>1. Granted(c)' <=> Granted(c)
  BY DEF Granted
<1>2. Refreshing(c)' <=> Refreshing(c)
  BY DEF Refreshing
<1>3. c \in Tabs => \A s \in Made : Renews(c, s)' <=> Renews(c, s)
  BY DEF Renews, Awaited, Refreshing
<1>4. Live(call[c].of)' => Live(call[c].of)
  BY DEF Live, RowsQuiet
<1>5. CarryStays(c)
  <2>1. FailsForGoodReason(c) => FailsForGoodReason(c)'
    BY <1>4 DEF FailsForGoodReason, Live
  <2>2. QED
    BY <1>2, <2>1 DEF CarryStays, HoldersInv, Carried
<1>6. QED
  BY <1>1, <1>3, <1>5 DEF GrantStays, RenewStays

LEMMA OneSlot ==
    ASSUME RowsOK, HoldersInv, RowsQuiet, NEW c \in Slots, Now(c, call'[c]),
           GrantStays(c), CarryStays(c), c \in Tabs => RenewStays(c)
    PROVE  HoldersInv'
<1>1. \A d \in Slots : GrantStays(d) /\ CarryStays(d) /\ (d \in Tabs => RenewStays(d))
  <2> SUFFICES ASSUME NEW d \in Slots
               PROVE  GrantStays(d) /\ CarryStays(d) /\ (d \in Tabs => RenewStays(d))
    OBVIOUS
  <2>1. CASE d = c
    BY <2>1
  <2>2. CASE d # c
    BY <2>2, SlotStays DEF Now
  <2>3. QED
    BY <2>1, <2>2
<1>2. QED
  BY <1>1, HoldersKept DEF Slots

\* A request that is no refresh, before or after, and was granted nothing new.
LEMMA OtherSlot ==
    ASSUME RowsOK, HoldersInv, RowsQuiet, NEW c \in Slots, Now(c, call'[c]),
           ~Refreshing(c), ~Refreshing(c)', GrantStays(c)
    PROVE  HoldersInv'
<1>1. CarryStays(c) /\ RenewStays(c)
  BY DEF CarryStays, RenewStays, Renews, Awaited
<1>2. QED
  BY <1>1, OneSlot

\* A request that is over; a refresh that had renewed its session is broken.
LEMMA OverSlot ==
    ASSUME RowsOK, CallsOK, HoldersInv, RowsQuiet, NEW c \in Slots, Done(c),
           Refreshing(c) /\ call[c].login # 0 /\ call[c].tab \in Tabs
           /\ call[c].pc \in {"create", "answered"} => call[c].of \in broken'
    PROVE  HoldersInv'
<1>1. Now(c, call'[c]) /\ call'[c] = NoCall
  BY Ending DEF Now
<1>2. GrantStays(c) /\ CarryStays(c)
  BY <1>1 DEF GrantStays, CarryStays, Granted, Refreshing
<1>3. c \in Tabs => RenewStays(c)
  BY DEF RenewStays, Renews, Awaited
<1>4. QED
  BY <1>1, <1>2, <1>3, OneSlot

LEMMA QuietRows ==
    ASSUME NEW ids, NEW by, UNCHANGED <<cookie, broken>>,
           UNCHANGED session \/ End(ids, "purpose", by)
    PROVE  RowsQuiet
BY DEF RowsQuiet, End, Ended, Made

LEMMA AnsweredFields ==
    ASSUME CallsOK, NEW c \in Slots, call[c] # NoCall, NEW s \in 0..MaxSessions, Answer(c, s)
    PROVE  /\ Now(c, call'[c]) /\ call'[c] # NoCall
           /\ call'[c].kind = call[c].kind /\ call'[c].tab = call[c].tab /\ call'[c].of = call[c].of
           /\ call'[c].pc = "answered" /\ call'[c].made = s /\ call'[c].login = call[c].login
BY Answering, NoCallIsNone DEF SameRequest

LEMMA LoginHolders ==
    ASSUME ServerOK, HoldersInv, NEW c \in Slots, LoginCheck(c), UNCHANGED <<cookie, broken>>
    PROVE  HoldersInv'
<1> USE DEF ServerOK
<1>1. call[c] # NoCall /\ call[c].kind = "login" /\ call[c] \in CallRows /\ RowsQuiet
  BY CallRow, QuietRows DEF LoginCheck, InFlight, rows
<1>2. Now(c, call'[c]) /\ call'[c].kind = "login" /\ call'[c].made \in {0, call[c].made}
  <2>1. CASE Answer(c, 0)
    BY <1>1, <2>1, Zeros, AnsweredFields
  <2>2. CASE call' = [call EXCEPT ![c].pc = "create", ![c].password = password]
    BY <1>1, <2>2 DEF CallsOK, CallRows, Now
  <2>3. QED
    BY <2>1, <2>2 DEF LoginCheck
<1>3. GrantStays(c)
  BY <1>1, <1>2 DEF GrantStays, Granted
<1>4. QED
  BY <1>1, <1>2, <1>3, OtherSlot DEF Refreshing

LEMMA RefreshCheckHolders ==
    ASSUME ServerOK, HoldersInv, NEW c \in Slots, RefreshCheck(c), UNCHANGED <<cookie, broken>>
    PROVE  HoldersInv'
<1> USE DEF ServerOK
<1>1. /\ call[c] # NoCall /\ call[c].kind = "refresh" /\ call[c] \in CallRows
      /\ call[c].pc = "sent" /\ RowsQuiet /\ UNCHANGED session
  BY CallRow, QuietRows DEF RefreshCheck, InFlight, rows
<1>2. call[c].login = 0
  BY <1>1 DEF HoldersInv, Carried, Refreshing
<1>3. /\ Now(c, call'[c]) /\ call'[c] # NoCall /\ call'[c].kind = "refresh"
      /\ call'[c].tab = call[c].tab /\ call'[c].of = call[c].of /\ call'[c].login = 0
      /\ call'[c].made \in {0, call[c].made}
      /\ call'[c].pc = "answered" => ~Live(call[c].of)
  <2>1. CASE Live(call[c].of)
    <3>1. "claim" \in Pcs /\ Go(c, "claim")
      BY <2>1 DEF Pcs, RefreshCheck
    <3>2. QED
      BY <1>1, <1>2, <3>1, Going, NoCallIsNone DEF SameRequest
  <2>2. CASE ~Live(call[c].of)
    BY <1>1, <1>2, <2>2, Zeros, AnsweredFields DEF RefreshCheck
  <2>3. QED
    BY <2>1, <2>2
<1>4. GrantStays(c) /\ RenewStays(c)
  BY <1>1, <1>3 DEF GrantStays, Granted, RenewStays, Renews
<1>5. CarryStays(c)
  BY <1>1, <1>3 DEF CarryStays, Refreshing, FailsForGoodReason, Live, Made
<1>6. QED
  BY <1>1, <1>3, <1>4, <1>5, OneSlot

\* The claim: the session is over, and the refresh renews it.
LEMMA ClaimHolders ==
    ASSUME ServerOK, WaitsInv, HoldersInv, NEW c \in Slots, RefreshClaim(c),
           UNCHANGED <<cookie, broken>>
    PROVE  HoldersInv'
<1> USE DEF ServerOK
<1>1. /\ call[c] # NoCall /\ call[c].kind = "refresh" /\ call[c] \in CallRows
      /\ call[c].pc = "claim"
  BY CallRow DEF RefreshClaim, InFlight
<1>2. Refreshing(c) /\ call[c].login = 0
  BY <1>1 DEF HoldersInv, Carried, Refreshing
<1>3. CASE ~Live(call[c].of)
  <2>1. Answer(c, 0) /\ UNCHANGED session
    BY <1>3 DEF RefreshClaim
  <2>2. /\ Now(c, call'[c]) /\ call'[c] # NoCall /\ call'[c].kind = "refresh"
        /\ call'[c].tab = call[c].tab /\ call'[c].of = call[c].of /\ call'[c].login = 0
        /\ call'[c].made = 0 /\ call'[c].pc = "answered"
    BY <1>1, <1>2, <2>1, Zeros, AnsweredFields
  <2>3. GrantStays(c) /\ RenewStays(c) /\ RowsQuiet
    BY <1>1, <2>1, <2>2, QuietRows DEF GrantStays, Granted, RenewStays, Renews
  <2>4. CarryStays(c)
    BY <1>2, <1>3, <2>1, <2>2 DEF CarryStays, FailsForGoodReason, Live, Made
  <2>5. QED
    BY <2>2, <2>3, <2>4, OneSlot
<1>4. CASE Live(call[c].of)
  <2>0. PICK s \in Made : s = call[c].of
    BY <1>4 DEF Live
  <2>1. call' = [call EXCEPT ![c].pc = "create", ![c].login = session[s].login,
                     ![c].password = session[s].password, ![c].late = session[s].late]
    BY <1>4, <2>0 DEF RefreshClaim
  <2>2. session[s].login # 0
    <3>1. session[s] \in SessionRows
      BY <2>0 DEF RowsOK
    <3>2. session[s].login \in Ids
      BY <3>1 DEF SessionRows
    <3>3. 0 \notin Ids
      BY DEF Ids
    <3>4. QED
      BY <3>2, <3>3
  <2>3. /\ Now(c, call'[c]) /\ call'[c] # NoCall /\ call'[c].kind = "refresh"
        /\ call'[c].tab = call[c].tab /\ call'[c].of = s /\ call'[c].login # 0
        /\ call'[c].made = call[c].made /\ call'[c].pc = "create"
    <3>1. /\ Now(c, call'[c])
          /\ call'[c] = [call[c] EXCEPT !.pc = "create", !.login = session[s].login,
                            !.password = session[s].password, !.late = session[s].late]
      BY <2>1 DEF CallsOK, Now
    <3>2. /\ call'[c].kind = "refresh" /\ call'[c].tab = call[c].tab /\ call'[c].of = s
          /\ call'[c].login = session[s].login /\ call'[c].made = call[c].made
          /\ call'[c].pc = "create"
      BY <1>1, <2>0, <3>1 DEF CallRows
    <3>3. QED
      BY <2>2, <3>1, <3>2, NoCallIsNone
  <2>4. /\ Made' = Made /\ \A r \in Made : r # s => session'[r] = session[r]
        /\ session'[s].by = call[c].tab /\ session'[s].ended = "rotated"
    BY <1>4, <2>0 DEF RefreshClaim, End, Ended, Made
  <2>5. /\ \A d \in Slots : Granted(d)' <=> Granted(d)
        /\ \A d \in Slots : d # c => call'[d] = call[d]
        /\ \A d \in Slots : Refreshing(d)' <=> Refreshing(d)
    BY <1>1, <2>3 DEF Granted, Now, Refreshing
  <2>6. OneHolder'
    BY <2>3, <2>4, <2>5 DEF HoldersInv, OneHolder
  <2>7. \A r \in Made : Live(r)' => Live(r)
    BY <2>4 DEF Live
  <2>8. Carried'
    <3> SUFFICES ASSUME NEW d \in Slots, Refreshing(d)'
                 PROVE  /\ call'[d].of # 0 => call'[d].of \in Made'
                        /\ \A e \in Slots : Granted(e)' => call'[e].made # call'[d].of
                        /\ \A t \in Tabs, b \in Browsers :
                              call'[d].tab = t /\ cookie'[b] = call'[d].of /\ cookie'[b] # 0
                              => b = BrowserOf[t]
                        /\ call'[d].pc \in {"sent", "claim"} => call'[d].login = 0
                        /\ FailsForGoodReason(d)'
      BY DEF Carried
    <3>1. Refreshing(d) /\ call'[d].of = call[d].of /\ call'[d].tab = call[d].tab
      BY <2>0, <2>3, <2>5
    <3>2. call'[d].pc \in {"sent", "claim"} => call'[d].login = 0
      BY <2>3, <2>5, <3>1 DEF HoldersInv, Carried
    <3>3. FailsForGoodReason(d)'
      <4>1. CASE d = c
        BY <2>3, <4>1 DEF FailsForGoodReason
      <4>2. CASE d # c
        <5>1. FailsForGoodReason(d) /\ call'[d] = call[d]
          BY <2>5, <3>1, <4>2 DEF HoldersInv, Carried
        <5>2. QED
          BY <2>4, <2>7, <5>1 DEF FailsForGoodReason, Live
      <4>3. QED
        BY <4>1, <4>2
    <3>4. \A e \in Slots : Granted(e)' => Granted(e) /\ call'[e].made = call[e].made
      BY <2>3, <2>5
    <3>5. QED
      BY <2>4, <3>1, <3>2, <3>3, <3>4 DEF HoldersInv, Carried
  <2>9. Spent'
    <3> SUFFICES ASSUME NEW r \in Made, NEW t \in Tabs, RotatedBy(r, t)'
                 PROVE  /\ \A d \in Slots : Granted(d)' => call'[d].made # r
                        /\ Renews(t, r)' \/ Forgets(t, r)'
      BY <2>4 DEF Spent
    <3>1. CASE r = s
      <4>1. t = call[c].tab /\ t = c
        BY <1>2, <2>4, <3>1 DEF RotatedBy, WaitsInv, RefreshesInPlace
      <4>2. Renews(t, r)'
        BY <2>3, <3>1, <4>1 DEF Renews, Awaited, Refreshing
      <4>3. \A d \in Slots : Granted(d)' => call'[d].made # r
        BY <1>2, <2>0, <2>3, <2>5, <3>1 DEF HoldersInv, Carried
      <4>4. QED
        BY <4>2, <4>3
    <3>2. CASE r # s
      <4>1. RotatedBy(r, t)
        BY <2>4, <3>2 DEF RotatedBy
      <4>2. \A d \in Slots : Granted(d)' => call'[d].made # r
        BY <2>3, <2>5, <4>1 DEF HoldersInv, Spent
      <4>3. CASE Renews(t, r)
        <5>1. t # c
          BY <1>1, <4>3 DEF Renews
        <5>2. call'[t] = call[t]
          BY <2>5, <5>1 DEF Slots
        <5>3. QED
          BY <4>2, <4>3, <5>2 DEF Renews, Awaited, Refreshing
      <4>4. CASE Forgets(t, r)
        <5>1. call'[t].of = call[t].of /\ (Awaited(t)' => Awaited(t))
          BY <2>0, <2>3, <2>5 DEF Awaited, Slots
        <5>2. QED
          BY <4>2, <4>4, <5>1 DEF Forgets
      <4>5. QED
        BY <4>1, <4>2, <4>3, <4>4 DEF HoldersInv, Spent
    <3>3. QED
      BY <3>1, <3>2
  <2>10. QED
    BY <2>6, <2>8, <2>9 DEF HoldersInv
<1>5. QED
  BY <1>3, <1>4

\* The new session belongs to the answer that brings it.
LEMMA CreateHolders ==
    ASSUME SessionInv, ServerOK, HoldersInv, NEW c \in Slots, CreateSession(c),
           UNCHANGED <<cookie, broken>>
    PROVE  HoldersInv'
<1> USE DEF ServerOK
<1>1. Creating(c) /\ call[c] \in CallRows /\ call[c].kind \in {"login", "refresh"}
  BY CallRow DEF CreateSession, Creating, SessionInv, OldCallsLate
<1>2. 0 \notin Made /\ (Refreshing(c) => call[c].login # 0)
  <2>1. 0 \notin Made
    BY DEF RowsOK, Ids
  <2>2. QED
    BY <1>1, <2>1 DEF SessionInv, LoginsMade, Renewing, Refreshing
<1> DEFINE s == Cardinality(Made) + 1
<1>3. CASE s \notin Ids
  <2>1. UNCHANGED session /\ Answer(c, 0)
    BY <1>3 DEF CreateSession
  <2>2. /\ Now(c, call'[c]) /\ call'[c] # NoCall /\ call'[c].kind = call[c].kind
        /\ call'[c].tab = call[c].tab /\ call'[c].of = call[c].of
        /\ call'[c].login = call[c].login /\ call'[c].made = 0 /\ call'[c].pc = "answered"
    BY <1>1, <2>1, Zeros, AnsweredFields DEF Creating
  <2>3. GrantStays(c) /\ RowsQuiet
    BY <2>1, <2>2, QuietRows DEF GrantStays, Granted
  <2>4. CarryStays(c) /\ (c \in Tabs => RenewStays(c))
    BY <1>1, <1>2, <2>2 DEF CarryStays, Creating, Refreshing, FailsForGoodReason, RenewStays,
       Renews, Awaited
  <2>5. QED
    BY <2>2, <2>3, <2>4, OneSlot
<1>4. CASE s \in Ids
  <2>1. /\ Answer(c, s) /\ Made' = Made \cup {s} /\ session'[s].ended = "no"
        /\ \A r \in Made : r # s => session'[r] = session[r]
    BY <1>4 DEF CreateSession, Made
  <2>2. s \notin Made /\ s \in 0..MaxSessions /\ s # 0
    <3>1. PICK n \in Nat : Made = 1..n
      BY DEF SessionInv, Numbered
    <3>2. s = n + 1
      BY <3>1, UpTo
    <3>3. QED
      BY <1>4, <3>1, <3>2, SessionBounds DEF Ids
  <2> HIDE DEF s
  <2>3. /\ Now(c, call'[c]) /\ call'[c] # NoCall /\ call'[c].kind = call[c].kind
        /\ call'[c].tab = call[c].tab /\ call'[c].of = call[c].of
        /\ call'[c].login = call[c].login /\ call'[c].made = s /\ call'[c].pc = "answered"
    BY <1>1, <2>1, <2>2, AnsweredFields DEF Creating
  <2>4. \A d \in Slots : d # c => call'[d] = call[d]
    BY <2>3 DEF Now
  <2>5. \A d \in Slots : Granted(d)' => d = c \/ (Granted(d) /\ call'[d].made = call[d].made)
    BY <2>4 DEF Granted
  <2>6. \A d \in Slots : Refreshing(d)' <=> Refreshing(d)
    BY <1>1, <2>3, <2>4 DEF Refreshing, Creating
  <2>7. OneHolder'
    <3>1. \A b \in Browsers : cookie'[b] # s /\ cookie'[b] = cookie[b]
      BY <2>2 DEF HoldersInv, OneHolder
    <3>2. \A d \in Slots : Granted(d) => call[d].made # s
      BY <2>2 DEF HoldersInv, OneHolder
    <3>3. QED
      BY <2>1, <2>3, <2>5, <3>1, <3>2 DEF HoldersInv, OneHolder
  <2>8. Carried'
    <3> SUFFICES ASSUME NEW d \in Slots, Refreshing(d)'
                 PROVE  /\ call'[d].of # 0 => call'[d].of \in Made'
                        /\ \A e \in Slots : Granted(e)' => call'[e].made # call'[d].of
                        /\ \A t \in Tabs, b \in Browsers :
                              call'[d].tab = t /\ cookie'[b] = call'[d].of /\ cookie'[b] # 0
                              => b = BrowserOf[t]
                        /\ call'[d].pc \in {"sent", "claim"} => call'[d].login = 0
                        /\ FailsForGoodReason(d)'
      BY DEF Carried
    <3>1. Refreshing(d) /\ call'[d].of = call[d].of /\ call'[d].tab = call[d].tab
      BY <2>3, <2>4, <2>6
    <3>2. call[d].of # s /\ (call[d].of # 0 => call[d].of \in Made)
      BY <2>2, <3>1 DEF HoldersInv, Carried
    <3>3. call'[d].pc \in {"sent", "claim"} => call'[d].login = 0
      BY <2>3, <2>4, <3>1 DEF HoldersInv, Carried
    <3>4. FailsForGoodReason(d)'
      <4>1. CASE d = c
        BY <2>2, <2>3, <4>1 DEF FailsForGoodReason
      <4>2. CASE d # c
        <5>1. FailsForGoodReason(d) /\ call'[d] = call[d]
          BY <2>4, <3>1, <4>2 DEF HoldersInv, Carried
        <5>2. QED
          BY <2>1, <3>2, <5>1 DEF FailsForGoodReason, Live
      <4>3. QED
        BY <4>1, <4>2
    <3>5. \A e \in Slots : Granted(e)' => call'[e].made # call'[d].of
      BY <2>3, <2>5, <3>1, <3>2 DEF HoldersInv, Carried
    <3>6. QED
      BY <2>1, <3>1, <3>2, <3>3, <3>4, <3>5 DEF HoldersInv, Carried
  <2>9. Spent'
    <3> SUFFICES ASSUME NEW r \in Made', NEW t \in Tabs, RotatedBy(r, t)'
                 PROVE  /\ \A d \in Slots : Granted(d)' => call'[d].made # r
                        /\ Renews(t, r)' \/ Forgets(t, r)'
      BY DEF Spent
    <3>1. r \in Made /\ r # s /\ RotatedBy(r, t)
      BY <2>1 DEF RotatedBy
    <3>2. \A d \in Slots : Granted(d)' => call'[d].made # r
      BY <2>3, <2>5, <3>1 DEF HoldersInv, Spent
    <3>3. Renews(t, r) => Renews(t, r)'
      BY <2>3, <2>4, <2>6 DEF Renews, Awaited, Slots
    <3>4. Forgets(t, r) => Forgets(t, r)'
      BY <2>3, <2>4, <2>6 DEF Forgets, Awaited, Slots
    <3>5. QED
      BY <3>1, <3>2, <3>3, <3>4 DEF HoldersInv, Spent
  <2>10. QED
    BY <2>7, <2>8, <2>9 DEF HoldersInv
<1>5. QED
  BY <1>3, <1>4

LEMMA ResetHolders ==
    ASSUME ServerOK, HoldersInv, NEW c \in Slots, Reset(c), UNCHANGED <<cookie, broken>>
    PROVE  HoldersInv'
<1> USE DEF ServerOK
<1>1. call[c] # NoCall /\ call[c].kind = "reset" /\ call[c] \in CallRows
  BY CallRow DEF Reset, InFlight
<1>2. RowsQuiet
  BY QuietRows DEF Reset, EndAll
<1>3. CASE Answer(c, 0)
  <2>1. Now(c, call'[c]) /\ call'[c].kind = "reset"
    BY <1>1, <1>3, Zeros, AnsweredFields
  <2>2. QED
    BY <1>1, <1>2, <2>1, OtherSlot DEF Refreshing, GrantStays, Granted
<1>4. CASE call' = Overtake(c, "close")
  <2>1. /\ call'[c] = [call[c] EXCEPT !.pc = "close", !.made = 1]
        /\ \A d \in Slots : d # c => \/ call'[d] = call[d]
                                     \/ /\ call[d] # NoCall
                                        /\ call'[d] = [call[d] EXCEPT !.late = TRUE]
    BY <1>4 DEF Overtake
  <2>2. call'[c].kind = "reset"
    BY <1>1, <2>1 DEF CallRows
  <2>3. \A d \in Slots : GrantStays(d) /\ CarryStays(d) /\ (d \in Tabs => RenewStays(d))
    <3> SUFFICES ASSUME NEW d \in Slots
                 PROVE  GrantStays(d) /\ CarryStays(d) /\ (d \in Tabs => RenewStays(d))
      OBVIOUS
    <3>1. CASE d = c
      BY <1>1, <2>2, <3>1 DEF GrantStays, Granted, CarryStays, Refreshing, RenewStays, Renews,
         Awaited
    <3>2. CASE call'[d] = call[d]
      BY <1>2, <3>2, SlotStays
    <3>3. CASE call[d] # NoCall /\ call'[d] = [call[d] EXCEPT !.late = TRUE]
      <4>1. call[d] \in CallRows
        BY <3>3, CallRow
      <4>2. /\ call'[d].kind = call[d].kind /\ call'[d].tab = call[d].tab
            /\ call'[d].of = call[d].of /\ call'[d].made = call[d].made
            /\ call'[d].login = call[d].login /\ call'[d].pc = call[d].pc
            /\ call'[d] \in CallRows /\ call'[d] # NoCall
        BY <3>3, <4>1, NoCallIsNone DEF CallRows
      <4>4. \A r \in Made : Live(r)' => Live(r)
        BY <1>2 DEF Live, RowsQuiet
      <4>5. FailsForGoodReason(d) => FailsForGoodReason(d)'
        BY <1>2, <4>2, <4>4 DEF FailsForGoodReason, Live, RowsQuiet
      <4>6. CarryStays(d)
        BY <3>3, <4>2, <4>5 DEF CarryStays, Refreshing, HoldersInv, Carried
      <4>7. GrantStays(d) /\ RenewStays(d)
        BY <3>3, <4>2 DEF GrantStays, Granted, RenewStays, Renews, Awaited, Refreshing
      <4>8. QED
        BY <4>6, <4>7
    <3>4. QED
      BY <2>1, <3>1, <3>2, <3>3
  <2>4. QED
    BY <1>2, <2>3, HoldersKept DEF Slots
<1>5. QED
  BY <1>3, <1>4 DEF Reset

LEMMA ServerHolders ==
    ASSUME SessionInv, ServerOK, WaitsInv, HoldersInv, NEW c \in Slots, ServerContinue(c),
           UNCHANGED <<cookie, broken>>
    PROVE  HoldersInv'
<1> USE DEF ServerOK
<1>1. CASE Logout(c) \/ ResetClose(c)
  <2>1. /\ call[c] # NoCall /\ call[c].kind \in {"logout", "reset"} /\ RowsQuiet
    BY <1>1, QuietRows DEF Logout, ResetClose, InFlight, rows
  <2>2. Now(c, call'[c]) /\ call'[c].kind = call[c].kind
    BY <1>1, <2>1, Zeros, AnsweredFields DEF Logout, ResetClose
  <2>3. QED
    BY <2>1, <2>2, OtherSlot DEF Refreshing, GrantStays, Granted
<1>2. CASE ResetCheck(c)
  <2>1. /\ call[c] # NoCall /\ call[c].kind = "reset" /\ RowsQuiet
    BY <1>2, QuietRows DEF ResetCheck, InFlight, rows
  <2>2. Now(c, call'[c]) /\ call'[c].kind = call[c].kind
    <3>1. "act" \in Pcs
      BY DEF Pcs
    <3>2. QED
      BY <1>2, <2>1, <3>1, Zeros, Going, AnsweredFields DEF ResetCheck, SameRequest
  <2>3. QED
    BY <2>1, <2>2, OtherSlot DEF Refreshing, GrantStays, Granted
<1>3. CASE LogoutAll(c) \/ BlockClose(c)
  <2>1. Done(c) /\ RowsQuiet /\ ~Refreshing(c)
    BY <1>3, QuietRows DEF LogoutAll, BlockClose, InFlight, Refreshing, EndAll, rows
  <2>2. QED
    BY <2>1, OverSlot
<1>4. QED
  BY <1>1, <1>2, <1>3, LoginHolders, RefreshCheckHolders, ClaimHolders, CreateHolders,
     ResetHolders DEF ServerContinue

LEMMA ElsewhereHolders ==
    ASSUME ServerOK, HoldersInv, Elsewhere, UNCHANGED <<cookie, broken>> PROVE HoldersInv'
<1> USE DEF ServerOK
<1>1. RowsQuiet
  BY QuietRows DEF Elsewhere, Expire, RequestReset, LogoutAllStart, Block, Unblock, EndAll, rows
<1>2. CASE UNCHANGED call
  BY <1>1, <1>2, SlotStays, HoldersKept DEF Slots
<1>3. ASSUME NEW c \in Calls, LogoutAllStart(c) \/ Block(c) PROVE HoldersInv'
  <2>1. /\ c \in Slots /\ Now(c, call'[c]) /\ call[c] = NoCall
        /\ call'[c].kind \in {"logoutAll", "block"}
    BY <1>3 DEF LogoutAllStart, Block, Send, Request, Slots, Now, CallsOK
  <2>2. QED
    BY <1>1, <2>1, OtherSlot DEF Refreshing, GrantStays, Granted
<1>4. QED
  BY <1>2, <1>3 DEF Elsewhere, Expire, RequestReset, Unblock

-----------------------------------------------------------------------------
(* The pages hand sessions over.                                           *)

\* The answer that brings a session puts it into the cookie of its browser.
LEMMA CookieSet ==
    ASSUME TypesOK, WaitsInv, HoldersInv, NEW c \in Slots, NEW t \in Tabs, Granted(c),
           call[c].tab = t, SetCookie(t, call[c].made), Done(c), UNCHANGED <<session, broken>>
    PROVE  HoldersInv'
<1> USE DEF TypesOK, ServerOK
<1>1. /\ call'[c] = NoCall /\ \A d \in Slots : d # c => call'[d] = call[d]
  BY Ending DEF Now
<1>2. PICK b0 \in Browsers : b0 = BrowserOf[t]
  BY DEF Browsers
<1>3. PICK m \in Made : m = call[c].made /\ m # 0
  BY DEF HoldersInv, OneHolder, Granted
<1>4. cookie'[b0] = m /\ \A b \in Browsers : b # b0 => cookie'[b] = cookie[b]
  BY <1>2, <1>3 DEF SetCookie, PagesOK, Browsers
<1>5. \A d \in Slots : Granted(d)' => d # c /\ Granted(d) /\ call'[d].made = call[d].made
  BY <1>1 DEF Granted
<1>6. \A d \in Slots : Refreshing(d)' => d # c /\ Refreshing(d) /\ call'[d] = call[d]
  BY <1>1 DEF Refreshing
<1>7. Made' = Made /\ \A r : Live(r)' <=> Live(r)
  BY DEF Made, Live
<1>8. /\ \A b \in Browsers : cookie[b] # m
      /\ \A d \in Slots : Granted(d) /\ d # c => call[d].made # m
      /\ \A d \in Slots : Refreshing(d) => call[d].of # m
  BY <1>3 DEF HoldersInv, OneHolder, Carried
<1>9. OneHolder'
  BY <1>3, <1>4, <1>5, <1>7, <1>8 DEF HoldersInv, OneHolder
<1>10. Carried'
  <2> SUFFICES ASSUME NEW d \in Slots, Refreshing(d)'
               PROVE  /\ call'[d].of # 0 => call'[d].of \in Made'
                      /\ \A e \in Slots : Granted(e)' => call'[e].made # call'[d].of
                      /\ \A u \in Tabs, b \in Browsers :
                            call'[d].tab = u /\ cookie'[b] = call'[d].of /\ cookie'[b] # 0
                            => b = BrowserOf[u]
                      /\ call'[d].pc \in {"sent", "claim"} => call'[d].login = 0
                      /\ FailsForGoodReason(d)'
    BY DEF Carried
  <2>1. Refreshing(d) /\ call'[d] = call[d] /\ call[d].of # m
    BY <1>6, <1>8
  <2>2. FailsForGoodReason(d)'
    BY <1>7, <2>1 DEF HoldersInv, Carried, FailsForGoodReason, Live
  <2>3. \A u \in Tabs, b \in Browsers :
           call'[d].tab = u /\ cookie'[b] = call'[d].of /\ cookie'[b] # 0 => b = BrowserOf[u]
    BY <1>4, <2>1 DEF HoldersInv, Carried
  <2>4. \A e \in Slots : Granted(e)' => call'[e].made # call'[d].of
    BY <1>5, <2>1 DEF HoldersInv, Carried
  <2>5. QED
    BY <1>7, <2>1, <2>2, <2>3, <2>4 DEF HoldersInv, Carried
<1>11. Spent'
  <2> SUFFICES ASSUME NEW r \in Made, NEW u \in Tabs, RotatedBy(r, u)'
               PROVE  /\ \A d \in Slots : Granted(d)' => call'[d].made # r
                      /\ Renews(u, r)' \/ Forgets(u, r)'
    BY <1>7 DEF Spent
  <2>1. /\ RotatedBy(r, u) /\ r # m /\ \A d \in Slots : Granted(d)' => call'[d].made # r
        /\ Renews(u, r) \/ Forgets(u, r)
    BY <1>3, <1>5 DEF RotatedBy, HoldersInv, Spent
  <2>2. CASE Forgets(u, r)
    <3>1. Awaited(u)' => Awaited(u) /\ call'[u] = call[u]
      BY <1>6 DEF Awaited, Slots
    <3>2. Forgets(u, r)'
      BY <1>4, <2>1, <2>2, <3>1 DEF Forgets
    <3>3. QED
      BY <2>1, <3>2
  <2>3. CASE Renews(u, r) /\ u # c
    <3>1. call'[u] = call[u]
      BY <1>1, <2>3 DEF Slots
    <3>2. QED
      BY <2>1, <2>3, <3>1 DEF Renews, Awaited, Refreshing
  <2>4. CASE Renews(u, r) /\ u = c
    <3>1. Refreshing(c) /\ call[c].of = r /\ u = t
      BY <2>4 DEF Renews, Awaited
    <3>2. \A b \in Browsers : cookie[b] = r => b = b0
      <4>1. r # 0
        BY DEF RowsOK, Ids
      <4>2. QED
        BY <1>2, <3>1, <4>1 DEF HoldersInv, Carried
    <3>3. \A b \in Browsers : cookie'[b] # r
      BY <1>4, <2>1, <3>2
    <3>4. ~Awaited(u)'
      BY <1>1, <2>4 DEF Awaited, Refreshing
    <3>5. QED
      BY <2>1, <3>3, <3>4 DEF Forgets
  <2>5. QED
    BY <2>1, <2>2, <2>3, <2>4
<1>12. QED
  BY <1>9, <1>10, <1>11 DEF HoldersInv

\* A page sends the session of its browser's cookie to be refreshed.
LEMMA RefreshSent ==
    ASSUME TypesOK, HoldersInv, NEW t \in Tabs, Refresh(t),
           UNCHANGED <<session, cookie, broken>>
    PROVE  HoldersInv'
<1> USE DEF TypesOK, ServerOK
<1>1. RowsQuiet
  BY DEF RowsQuiet, Made
<1>2. CASE UNCHANGED call
  BY <1>1, <1>2, SlotStays, HoldersKept DEF Slots
<1>3. CASE Send(t, t, "refresh", Cookie(t))
  <2>1. t \in Slots /\ "refresh" \in Kinds /\ Fitting("refresh", Cookie(t))
    BY Cookies, SessionBounds DEF Slots, Kinds, Fitting
  <2>2. /\ Now(t, call'[t]) /\ call[t] = NoCall /\ call'[t] \in CallRows
        /\ call'[t] = Request(t, "refresh", Cookie(t))
    BY <1>3, <2>1, Requesting
  <2>3. /\ call'[t].kind = "refresh" /\ call'[t].tab = t /\ call'[t].pc = "sent"
        /\ call'[t].of = Cookie(t) /\ call'[t].made = 0 /\ call'[t].login = 0
    BY <2>2 DEF Request
  <2>4. PICK b0 \in Browsers : b0 = BrowserOf[t] /\ Cookie(t) = cookie[b0]
    BY DEF Browsers, Cookie
  <2>5. \A d \in Slots : d # t => call'[d] = call[d]
    BY <2>2 DEF Now
  <2>6. \A d \in Slots : Granted(d)' => Granted(d) /\ call'[d].made = call[d].made
    BY <2>3, <2>5 DEF Granted
  <2>7. Made' = Made /\ \A r : Live(r)' <=> Live(r)
    BY DEF Made, Live
  <2>8. OneHolder'
    BY <2>6, <2>7 DEF HoldersInv, OneHolder
  <2>9. Carried'
    <3> SUFFICES ASSUME NEW d \in Slots, Refreshing(d)'
                 PROVE  /\ call'[d].of # 0 => call'[d].of \in Made'
                        /\ \A e \in Slots : Granted(e)' => call'[e].made # call'[d].of
                        /\ \A u \in Tabs, b \in Browsers :
                              call'[d].tab = u /\ cookie'[b] = call'[d].of /\ cookie'[b] # 0
                              => b = BrowserOf[u]
                        /\ call'[d].pc \in {"sent", "claim"} => call'[d].login = 0
                        /\ FailsForGoodReason(d)'
      BY DEF Carried
    <3>1. CASE d = t
      <4>1. /\ cookie[b0] # 0 => cookie[b0] \in Made
            /\ \A e \in Slots : Granted(e) => call[e].made # cookie[b0]
            /\ \A b \in Browsers : cookie[b] = cookie[b0] /\ cookie[b] # 0 => b = b0
        BY DEF HoldersInv, OneHolder
      <4>2. FailsForGoodReason(d)'
        BY <2>3, <3>1 DEF FailsForGoodReason
      <4>3. QED
        BY <2>3, <2>4, <2>6, <2>7, <3>1, <4>1, <4>2
    <3>2. CASE d # t
      <4>1. Refreshing(d) /\ call'[d] = call[d]
        BY <2>5, <3>2 DEF Refreshing
      <4>2. FailsForGoodReason(d)'
        BY <2>7, <4>1 DEF HoldersInv, Carried, FailsForGoodReason, Live
      <4>3. QED
        BY <2>6, <2>7, <4>1, <4>2 DEF HoldersInv, Carried
    <3>3. QED
      BY <3>1, <3>2
  <2>10. Spent'
    <3> SUFFICES ASSUME NEW r \in Made, NEW u \in Tabs, RotatedBy(r, u)'
                 PROVE  /\ \A d \in Slots : Granted(d)' => call'[d].made # r
                        /\ Renews(u, r)' \/ Forgets(u, r)'
      BY <2>7 DEF Spent
    <3>1. /\ \A d \in Slots : Granted(d)' => call'[d].made # r
          /\ Renews(u, r) \/ Forgets(u, r)
      BY <2>6 DEF RotatedBy, HoldersInv, Spent
    <3>2. CASE u = t
      <4>1. Forgets(u, r)
        BY <2>2, <3>1, <3>2 DEF Renews, Awaited, Refreshing
      <4>2. Forgets(u, r)'
        BY <2>3, <2>4, <3>2, <4>1 DEF Forgets
      <4>3. QED
        BY <3>1, <4>2
    <3>3. CASE u # t
      <4>1. call'[u] = call[u]
        BY <2>5, <3>3 DEF Slots
      <4>2. QED
        BY <3>1, <4>1 DEF Renews, Forgets, Awaited, Refreshing
    <3>4. QED
      BY <3>2, <3>3
  <2>11. QED
    BY <2>8, <2>9, <2>10 DEF HoldersInv
<1>4. QED
  BY <1>2, <1>3 DEF Refresh

LEMMA PageHolders ==
    ASSUME TypesOK, HoldersInv, NEW t \in Tabs,
           \/ QueryContinue(t) \/ SocketContinue(t) \/ \E o \in Ops : OpStart(t, o)
    PROVE  HoldersInv'
<1> USE DEF TypesOK, ServerOK
<1>1. UNCHANGED <<session, cookie, broken>>
  BY DEF QueryContinue, QueryServed, SocketContinue, SocketServed, OpStart, Server, rows
<1>2. CASE UNCHANGED call
  BY <1>1, <1>2, SlotStays, HoldersKept DEF RowsQuiet, Made, Slots
<1>3. CASE Refresh(t)
  BY <1>1, <1>3, RefreshSent
<1>4. QED
  BY <1>2, <1>3 DEF QueryContinue, QueryServed, SocketContinue, SocketServed, OpStart, Server

LEMMA AnswerHolders ==
    ASSUME TypesOK, WaitsInv, HoldersInv, NEW c \in Slots, PageContinue(c) \/ Lose(c)
    PROVE  HoldersInv'
<1> USE DEF TypesOK, ServerOK
<1>1. Done(c) /\ call[c] # NoCall /\ UNCHANGED session
  BY DEF PageContinue, RefreshOk, RefreshNo, LoginAnswered, LogoutSettled, ResetAnswered,
     Unheard, Lose, Answered, InFlight, rows
<1> PICK t \in Tabs \cup {Tabless} : call[c].tab = t
  BY <1>1, CallRow DEF CallRows
<1>2. CASE RefreshOk(c) \/ (LoginAnswered(c) /\ call[c].made # 0)
  <2>1. t \in Tabs /\ Granted(c) /\ SetCookie(t, call[c].made) /\ UNCHANGED broken
    BY <1>2 DEF RefreshOk, LoginAnswered, Answered, InFlight, Granted
  <2>2. QED
    BY <1>1, <2>1, CookieSet
<1>3. CASE ~(RefreshOk(c) \/ (LoginAnswered(c) /\ call[c].made # 0))
  <2>1. UNCHANGED cookie \/ (t \in Tabs /\ SetCookie(t, 0))
    BY <1>3 DEF PageContinue, RefreshNo, LoginAnswered, LogoutSettled, ResetAnswered,
       Unheard, Lose, Answered, pageVars
  <2>2. broken \subseteq broken'
    BY <1>3 DEF PageContinue, RefreshNo, LoginAnswered, LogoutSettled, ResetAnswered,
       Unheard, Lose, pageVars
  <2>3. RowsQuiet
    BY <1>1, <2>1, <2>2 DEF RowsQuiet, SetCookie, PagesOK, Browsers, Made
  <2>4. Refreshing(c) /\ call[c].login # 0 /\ call[c].tab \in Tabs
        /\ call[c].pc \in {"create", "answered"} => call[c].of \in broken'
    <3>1. Refreshing(c) /\ call[c].login # 0 => call[c].of # 0
      BY DEF CallsOK, CallsFit, Refreshing
    <3>2. QED
      BY <1>3, <3>1, NoTabIsTabless
         DEF PageContinue, RefreshNo, LoginAnswered, LogoutSettled, ResetAnswered, Unheard, Lose,
             Answered, InFlight, Refreshing
  <2>5. QED
    BY <1>1, <2>3, <2>4, OverSlot
<1>4. QED
  BY <1>2, <1>3

LEMMA StartHolders ==
    ASSUME TypesOK, HoldersInv, NEW c \in Calls, NEW t \in Tabs,
           \/ \E p \in 0..password : LoginStart(c, t, p)
           \/ \E p \in Requested : ResetStart(c, t, p)
           \/ LogoutStart(c, t)
    PROVE  HoldersInv'
<1> USE DEF TypesOK, ServerOK
<1>1. /\ c \in Slots /\ call[c] = NoCall /\ Now(c, call'[c]) /\ call'[c].made = 0
      /\ call'[c].kind \in {"login", "reset", "logout"}
  BY DEF LoginStart, ResetStart, LogoutStart, Send, Request, Slots, Now, CallsOK
<1>2. RowsQuiet
  BY DEF LoginStart, ResetStart, LogoutStart, RowsQuiet, Made, rows, pageVars
<1>3. QED
  BY <1>1, <1>2, OtherSlot DEF Refreshing, GrantStays, Granted

\* The requests of the old page go on without it, one of them in another slot.
LEMMA ReloadHolders ==
    ASSUME TypesOK, WaitsInv, HoldersInv, NEW t \in Tabs, Reload(t) PROVE HoldersInv'
<1> USE DEF TypesOK, ServerOK
<1> DEFINE ours == {c \in Slots : call[c] # NoCall /\ call[c].tab = t}
<1>1. PICK c \in Calls :
         /\ call[t] # NoCall => call[c] = NoCall
         /\ call' = [d \in Slots |->
                IF d = t THEN NoCall
                ELSE IF d = c /\ call[t] # NoCall THEN [call[t] EXCEPT !.tab = Tabless]
                ELSE IF d \in ours THEN [call[d] EXCEPT !.tab = Tabless] ELSE call[d]]
  BY DEF Reload
<1>2. t \in Slots /\ c \in Slots /\ Tabs \subseteq Slots
  BY DEF Slots
<1> DEFINE from == [d \in Slots |-> IF d = c /\ call[t] # NoCall THEN t ELSE d]
           Same(x, y) == /\ x.kind = y.kind /\ x.of = y.of /\ x.made = y.made
                         /\ x.login = y.login /\ x.pc = y.pc
<1>3. \A d \in Slots : call[d] # NoCall =>
         LET moved == [call[d] EXCEPT !.tab = Tabless] IN
         moved # NoCall /\ moved.tab = Tabless /\ Same(moved, call[d])
  <2> SUFFICES ASSUME NEW d \in Slots, call[d] # NoCall
               PROVE  LET moved == [call[d] EXCEPT !.tab = Tabless] IN
                      moved # NoCall /\ moved.tab = Tabless /\ Same(moved, call[d])
    OBVIOUS
  <2>1. call[d] \in CallRows
    BY CallRow
  <2>2. [call[d] EXCEPT !.tab = Tabless] \in CallRows
    BY <2>1 DEF CallRows
  <2>3. QED
    BY <2>1, <2>2, NoCallIsNone DEF CallRows
<1>4. ASSUME NEW d \in Slots, call'[d] # NoCall
      PROVE  /\ d # t /\ from[d] \in Slots /\ call[from[d]] # NoCall
             /\ Same(call'[d], call[from[d]])
             /\ call'[d].tab = Tabless \/ (call'[d] = call[d] /\ from[d] = d)
  <2>1. d # t
    BY <1>1, <1>2, <1>4
  <2>2. CASE d = c /\ call[t] # NoCall
    <3>1. from[d] = t /\ call'[d] = [call[t] EXCEPT !.tab = Tabless]
      BY <1>1, <2>1, <2>2
    <3>2. QED
      BY <1>2, <1>3, <2>1, <2>2, <3>1
  <2>3. CASE ~(d = c /\ call[t] # NoCall)
    <3>1. from[d] = d /\ call'[d] = IF d \in ours THEN [call[d] EXCEPT !.tab = Tabless] ELSE call[d]
      BY <1>1, <2>1, <2>3
    <3>2. QED
      BY <1>3, <1>4, <2>1, <3>1
  <2>4. QED
    BY <2>2, <2>3
<1>5. \A d, e \in Slots : call'[d] # NoCall /\ call'[e] # NoCall /\ from[d] = from[e] => d = e
  BY <1>4
<1>6. \A u \in Tabs : u # t /\ Awaited(u) => call'[u] = call[u]
  BY <1>1, <1>2 DEF Awaited, Refreshing
<1>7. call'[t] = NoCall
  BY <1>1, <1>2
<1>8. \A d \in Slots : Refreshing(d) /\ call[d].tab = t /\ call[d].of # 0 => call[d].of \in broken'
  BY DEF Reload, Refreshing
<1>9. /\ UNCHANGED <<session, cookie>> /\ broken \subseteq broken'
      /\ Made' = Made /\ \A r : Live(r)' <=> Live(r)
  BY DEF Reload, Made, Live
<1> HIDE DEF from, ours
<1>10. \A d \in Slots : Granted(d)' =>
          /\ from[d] \in Slots /\ Granted(from[d]) /\ call'[d].made = call[from[d]].made
          /\ call'[d] # NoCall
  BY <1>4 DEF Granted
<1>11. \A d \in Slots : Refreshing(d)' =>
          /\ from[d] \in Slots /\ Refreshing(from[d]) /\ Same(call'[d], call[from[d]])
          /\ call'[d].tab = Tabless \/ (call'[d] = call[d] /\ from[d] = d)
  BY <1>4 DEF Refreshing
<1> HIDE DEF Same
<1>12. OneHolder'
  BY <1>5, <1>9, <1>10 DEF HoldersInv, OneHolder
<1>13. Carried'
  <2> SUFFICES ASSUME NEW d \in Slots, Refreshing(d)'
               PROVE  /\ call'[d].of # 0 => call'[d].of \in Made'
                      /\ \A e \in Slots : Granted(e)' => call'[e].made # call'[d].of
                      /\ \A u \in Tabs, b \in Browsers :
                            call'[d].tab = u /\ cookie'[b] = call'[d].of /\ cookie'[b] # 0
                            => b = BrowserOf[u]
                      /\ call'[d].pc \in {"sent", "claim"} => call'[d].login = 0
                      /\ FailsForGoodReason(d)'
    BY DEF Carried
  <2>1. PICK f \in Slots : f = from[d] /\ Refreshing(f) /\ Same(call'[d], call[f])
    BY <1>11
  <2>2. /\ call[f].of # 0 => call[f].of \in Made
        /\ \A e \in Slots : Granted(e) => call[e].made # call[f].of
        /\ call[f].pc \in {"sent", "claim"} => call[f].login = 0
        /\ FailsForGoodReason(f)
    BY <2>1 DEF HoldersInv, Carried
  <2>3. FailsForGoodReason(d)'
    BY <1>9, <2>1, <2>2 DEF FailsForGoodReason, Same, Live
  <2>4. \A u \in Tabs, b \in Browsers :
           call'[d].tab = u /\ cookie'[b] = call'[d].of /\ cookie'[b] # 0 => b = BrowserOf[u]
    BY <1>9, <1>11, <2>1, NoTabIsTabless DEF HoldersInv, Carried
  <2>5. \A e \in Slots : Granted(e)' => call'[e].made # call'[d].of
    BY <1>10, <2>1, <2>2 DEF Same
  <2>6. QED
    BY <1>9, <2>1, <2>2, <2>3, <2>4, <2>5 DEF Same
<1>14. Spent'
  <2> SUFFICES ASSUME NEW r \in Made, NEW u \in Tabs, RotatedBy(r, u)'
               PROVE  /\ \A d \in Slots : Granted(d)' => call'[d].made # r
                      /\ Renews(u, r)' \/ Forgets(u, r)'
    BY <1>9 DEF Spent
  <2>1. RotatedBy(r, u) /\ r \notin broken' /\ r # 0
    BY <1>9 DEF RotatedBy, RowsOK, Ids
  <2>2. /\ \A d \in Slots : Granted(d)' => call'[d].made # r
        /\ Renews(u, r) \/ Forgets(u, r)
    BY <1>10, <2>1 DEF HoldersInv, Spent
  <2>3. CASE u = t
    <3>1. Forgets(u, r)
      BY <1>2, <1>8, <2>1, <2>2, <2>3 DEF Renews, Awaited
    <3>2. Forgets(u, r)'
      BY <1>7, <1>9, <2>3, <3>1 DEF Forgets, Awaited, Refreshing
    <3>3. QED
      BY <2>2, <3>2
  <2>4. CASE u # t /\ Renews(u, r)
    <3>1. call'[u] = call[u]
      BY <1>6, <2>4 DEF Renews
    <3>2. QED
      BY <2>2, <2>4, <3>1 DEF Renews, Awaited, Refreshing
  <2>5. CASE u # t /\ Forgets(u, r)
    <3>1. Awaited(u)' => Awaited(u) /\ call'[u] = call[u]
      BY <1>2, <1>11, NoTabIsTabless DEF Awaited
    <3>2. Forgets(u, r)'
      BY <1>9, <2>5, <3>1 DEF Forgets
    <3>3. QED
      BY <2>2, <3>2
  <2>6. QED
    BY <2>2, <2>3, <2>4, <2>5
<1>15. QED
  BY <1>12, <1>13, <1>14 DEF HoldersInv

LEMMA HoldersNext ==
    SessionInv /\ TypesOK /\ WaitsInv /\ HoldersInv /\ [Next]_vars => HoldersInv'
<1> SUFFICES ASSUME SessionInv, TypesOK, WaitsInv, HoldersInv, [Next]_vars PROVE HoldersInv'
  OBVIOUS
<1>1. CASE UNCHANGED vars
  <2>1. UNCHANGED <<call, session, cookie, broken>>
    BY <1>1 DEF vars, serverVars, pageVars, rows
  <2>2. RowsQuiet /\ RowsOK
    BY <2>1 DEF RowsQuiet, Made, TypesOK, ServerOK
  <2>3. QED
    BY <2>1, <2>2, SlotStays, HoldersKept DEF Slots
<1>2. ASSUME NEW c \in Slots, Server(ServerContinue(c)) \/ PageContinue(c) \/ Lose(c)
      PROVE  HoldersInv'
  BY <1>2, ServerHolders, AnswerHolders DEF Server, TypesOK
<1>3. CASE Server(Elsewhere)
  BY <1>3, ElsewhereHolders DEF Server, TypesOK
<1>4. QED
  BY <1>1, <1>2, <1>3, StartHolders, PageHolders, ReloadHolders DEF Next

LEMMA HoldersInit == Init => HoldersInv
<1> SUFFICES ASSUME Init PROVE HoldersInv
  OBVIOUS
<1>1. /\ Made = {} /\ \A b \in Browsers : cookie[b] = 0
      /\ \A c \in Slots : ~Granted(c) /\ ~Refreshing(c)
  BY DEF Init, SessionsInit, Made, Browsers, Granted, Refreshing
<1>2. QED
  BY <1>1 DEF HoldersInv, OneHolder, Carried, Spent

\* No page is signed out by its own refresh: one that fails carried a session
\* that was ended on purpose, that another tab rotated, or whose rotation was
\* lost on the way (auth-api.ts shares one refresh among the callers of a page;
\* auth.service.ts refresh revokes the session of the token it was given).
THEOREM NoSelfSignOut == Spec => []NoPageSignsItselfOut
<1>1. TypesOK /\ WaitsInv /\ HoldersInv => NoPageSignsItselfOut
  <2> SUFFICES ASSUME TypesOK, WaitsInv, HoldersInv, NEW c \in Slots, Answered(c, "refresh"),
                      call[c].made = 0, call[c].login = 0, call[c].of # 0
               PROVE  LET s == call[c].of IN
                      \/ session[s].ended = "purpose" \/ s \in broken
                      \/ session[s].by # call[c].tab
    BY DEF NoPageSignsItselfOut
  <2>1. Refreshing(c) /\ call[c].pc = "answered" /\ call[c].tab \in Tabs /\ c = call[c].tab
    BY DEF Answered, InFlight, Refreshing, WaitsInv, RefreshesInPlace
  <2>2. PICK s \in Made : s = call[c].of
    BY <2>1 DEF HoldersInv, Carried
  <2>3. ~Live(s)
    BY <2>1, <2>2 DEF HoldersInv, Carried, FailsForGoodReason
  <2>4. session[s].ended \in {"rotated", "purpose"}
    BY <2>2, <2>3 DEF Live, TypesOK, ServerOK, RowsOK, SessionRows
  <2>5. c \in Tabs /\ ~Renews(c, s) /\ ~Forgets(c, s)
    BY <2>1, <2>2 DEF Renews, Forgets, Awaited
  <2>6. ~RotatedBy(s, c)
    BY <2>5 DEF HoldersInv, Spent
  <2>7. QED
    BY <2>1, <2>2, <2>4, <2>6 DEF RotatedBy
<1>2. QED
  BY <1>1, SessionInvInit, SessionInvNext, TypesInit, TypesNext, WaitsInit, WaitsNext,
     HoldersInit, HoldersNext, PTL DEF Spec
====
