--------------------------- MODULE AccountsProofs ---------------------------
(***************************************************************************)
(* Theorems about Accounts for any people, addresses and requests: one     *)
(* bonus for an address confirmed, how the last administrator can go, how  *)
(* often a code can be guessed, and whose the journal is.                  *)
(***************************************************************************)
EXTENDS Accounts, FiniteSetTheorems, SequenceTheorems, TLAPS

Fields == {"email", "role", "active", "verified"}

\* What is sent, if it says something of a field, says what fits it.
Fits(dto) ==
    /\ "email" \in DOMAIN dto => dto.email \in Addresses
    /\ "role" \in DOMAIN dto => dto.role \in {"USER", "ADMIN"}
    /\ "active" \in DOMAIN dto => dto.active \in BOOLEAN
    /\ "verified" \in DOMAIN dto => dto.verified \in BOOLEAN

AccountRows == [state: {"new", "here", "gone"}, is: UserFields]

AccountsTypes ==
    /\ account \in [People -> AccountRows] /\ awarded \in [People -> Nat]
    /\ form.open => form.has \in UserFields /\ form.of \in People
    /\ request = [r \in Requests |-> request[r]]
    /\ \A r \in Requests :
         /\ request[r].pc \in {"verified", "update", "delete"} => request[r].of \in People
         /\ request[r].pc = "update" => Fits(request[r].dto) /\ request[r].current \in UserFields

\* Whoever got the bonus has the key of it in the journal, until he is deleted
\* with it, and comes back no more.
BonusIsKeyed ==
    \A u \in People :
        \/ awarded[u] = 0
        \/ awarded[u] = 1 /\ (account[u].state = "gone" \/ Key("verified", u, u) \in keys)

AccountsInv == AccountsTypes /\ BonusIsKeyed

-----------------------------------------------------------------------------
(* What updates make of the fields.                                        *)

LEMMA FieldsAre == ASSUME NEW x \in UserFields PROVE DOMAIN x = Fields
BY DEF UserFields, Fields

LEMMA FieldsFit == ASSUME NEW x \in UserFields PROVE Fits(x)
BY DEF UserFields, Fits

LEMMA MadeOfFields ==
    ASSUME NEW y, y = [f \in Fields |-> y[f]], y.email \in Addresses,
           y.role \in {"USER", "ADMIN"}, y.active \in BOOLEAN, y.verified \in BOOLEAN
    PROVE  y \in UserFields
<1>1. y = [email |-> y.email, role |-> y.role, active |-> y.active, verified |-> y.verified]
  BY DEF Fields
<1>2. QED
  BY <1>1 DEF UserFields

LEMMA MergeFits ==
    ASSUME NEW x \in UserFields, NEW dto, Fits(dto)
    PROVE  Fits([f \in DOMAIN x |-> IF f \in DOMAIN dto THEN dto[f] ELSE x[f]])
BY FieldsAre DEF Fits, UserFields

LEMMA ChangesFit == \A dto \in Changes : Fits(dto)
<1>1. \A dto \in [role: {"USER", "ADMIN"}] : Fits(dto)
  BY DEF Fits
<1>2. \A dto \in [active: BOOLEAN] : Fits(dto)
  BY DEF Fits
<1>3. \A dto \in [verified: BOOLEAN] : Fits(dto)
  BY DEF Fits
<1>4. \A dto \in [email: Addresses] : Fits(dto)
  BY DEF Fits
<1>5. QED
  BY <1>1, <1>2, <1>3, <1>4 DEF Changes

-----------------------------------------------------------------------------
(* The invariant.                                                          *)

LEMMA AccountsInvInit == AccountsInit => AccountsInv
<1> SUFFICES ASSUME AccountsInit PROVE AccountsInv
  OBVIOUS
<1>1. /\ [email |-> HomeAddress, role |-> "ADMIN", active |-> TRUE, verified |-> TRUE] \in UserFields
      /\ Blank \in UserFields
  BY AccountsAssumption DEF UserFields, Blank
<1>2. account \in [People -> AccountRows]
  BY <1>1 DEF AccountsInit, Row, AccountRows
<1>3. awarded \in [People -> Nat] /\ BonusIsKeyed
  BY DEF AccountsInit, BonusIsKeyed
<1>4. /\ form.open = FALSE /\ request = [r \in Requests |-> request[r]]
      /\ \A r \in Requests : request[r].pc = "idle"
  BY DEF AccountsInit, NoForm, NotServed
<1>5. QED
  BY <1>2, <1>3, <1>4 DEF AccountsInv, AccountsTypes

\* Nobody who was deleted comes back, and keys stay.
LEMMA BonusStays ==
    ASSUME AccountsInv, UNCHANGED awarded, keys \subseteq keys',
           \A u \in People : account[u].state = "gone" => account'[u].state = "gone"
    PROVE  BonusIsKeyed'
BY DEF AccountsInv, BonusIsKeyed

\* A request that is over, or one that does not touch accounts, has no types.
LEMMA RequestOver ==
    ASSUME AccountsInv, NEW r \in Requests, NEW now,
           request' = [request EXCEPT ![r] = now],
           now.pc \in {"verified", "update", "delete"} => now.of \in People,
           now.pc = "update" => Fits(now.dto) /\ now.current \in UserFields
    PROVE  /\ request' = [q \in Requests |-> request'[q]] /\ request'[r] = now
           /\ \A q \in Requests :
                /\ request'[q].pc \in {"verified", "update", "delete"}
                      => request'[q].of \in People
                /\ request'[q].pc = "update"
                      => Fits(request'[q].dto) /\ request'[q].current \in UserFields
BY DEF AccountsInv, AccountsTypes

LEMMA AddSteps ==
    ASSUME AccountsInv, NEW u \in People, NEW e \in Addresses, NEW role \in {"USER", "ADMIN"},
           NEW v \in BOOLEAN, account[u].state = "new", AddAccount(u, e, role, v),
           UNCHANGED <<form, request, awarded>>
    PROVE  AccountsInv'
<1> DEFINE fields == [email |-> e, role |-> role, active |-> TRUE, verified |-> v]
<1>1. fields \in UserFields
  BY DEF UserFields
<1> HIDE DEF fields
<1>2. \/ UNCHANGED <<account, keys>>
      \/ account' = [account EXCEPT ![u] = Row("here", fields)] /\ keys \subseteq keys'
  BY DEF AddAccount, fields
<1>3. Row("here", fields) \in AccountRows
  BY <1>1 DEF Row, AccountRows
<1>4. /\ account' \in [People -> AccountRows] /\ keys \subseteq keys'
      /\ \A w \in People : account[w].state = "gone" => account'[w].state = "gone"
  BY <1>2, <1>3 DEF AccountsInv, AccountsTypes
<1>5. QED
  BY <1>4, BonusStays DEF AccountsInv, AccountsTypes

LEMMA RequestSteps ==
    ASSUME AccountsInv, NEW r \in Requests, UNCHANGED <<account, keys, form, awarded>>,
           \/ CountWrong(r)
           \/ \E u \in People, right \in BOOLEAN : Verify(r, u, right)
           \/ \E a, u \in People : Delete(r, a, u)
    PROVE  AccountsInv'
<1>1. ASSUME NEW now, request' = [request EXCEPT ![r] = now],
             now.pc \in {"verified", "update", "delete"} => now.of \in People,
             now.pc # "update"
      PROVE  AccountsInv'
  BY <1>1, RequestOver, BonusStays DEF AccountsInv, AccountsTypes
<1>2. CASE CountWrong(r)
  <2>1. request' = [request EXCEPT ![r] = NotServed]
    BY <1>2 DEF CountWrong
  <2>2. NotServed.pc = "idle"
    BY DEF NotServed
  <2>3. QED
    BY <1>1, <2>1, <2>2
<1>3. ASSUME NEW u \in People, NEW right \in BOOLEAN, Verify(r, u, right)
      PROVE  AccountsInv'
  <2> DEFINE i == Latest(u)
             dead == codes[u][i].wrong >= AttemptLimit
             now == [pc |-> IF right /\ ~dead THEN "verified" ELSE "wrong", of |-> u, code |-> i]
  <2>1. request' = [request EXCEPT ![r] = now]
    BY <1>3 DEF Verify
  <2>2. now.of = u /\ now.pc # "update"
    OBVIOUS
  <2> HIDE DEF now
  <2>3. QED
    BY <1>1, <2>1, <2>2
<1>4. ASSUME NEW a \in People, NEW u \in People, Delete(r, a, u)
      PROVE  AccountsInv'
  <2> DEFINE now == [pc |-> "delete", of |-> u, confirmed |-> account[u].is.email]
  <2>1. request' = [request EXCEPT ![r] = now]
    BY <1>4 DEF Delete
  <2>2. now.of = u /\ now.pc # "update"
    OBVIOUS
  <2> HIDE DEF now
  <2>3. QED
    BY <1>1, <2>1, <2>2
<1>5. QED
  BY <1>2, <1>3, <1>4

LEMMA UpdateSteps ==
    ASSUME AccountsInv, NEW r \in Requests, NEW a, NEW u \in People, NEW dto, Fits(dto),
           Update(r, a, u, dto), UNCHANGED <<account, keys, awarded>>,
           form' = form \/ form' = NoForm
    PROVE  AccountsInv'
<1> DEFINE now == [pc |-> "update", of |-> u, dto |-> dto, current |-> account[u].is]
<1>1. request' = [request EXCEPT ![r] = now]
  BY DEF Update
<1>2. now.of = u /\ now.dto = dto /\ now.current \in UserFields
  BY DEF AccountsInv, AccountsTypes, AccountRows
<1> HIDE DEF now
<1>3. form'.open => form'.has \in UserFields /\ form'.of \in People
  BY DEF AccountsInv, AccountsTypes, NoForm
<1>4. QED
  BY <1>1, <1>2, <1>3, RequestOver, BonusStays DEF AccountsInv, AccountsTypes

LEMMA VerifySteps ==
    ASSUME AccountsInv, NEW r \in Requests, VerifyCommit(r)
    PROVE  AccountsInv'
<1> DEFINE u == request[r].of
           key == Key("verified", u, u)
<1> USE DEF AccountsInv
<1>1. u \in People
  BY DEF VerifyCommit, AccountsTypes
<1>2. request' = [request EXCEPT ![r] = NotServed] /\ NotServed.pc = "idle" /\ form' = form
  BY DEF VerifyCommit, NotServed
<1>3. CASE Here(u) /\ key \notin keys
  <2>1. /\ account' = [account EXCEPT ![u].is.verified = TRUE]
        /\ keys' = keys \cup {key} /\ awarded' = [awarded EXCEPT ![u] = @ + 1]
    BY <1>3 DEF VerifyCommit
  <2>2. [account[u].is EXCEPT !.verified = TRUE] \in UserFields
    <3>1. \A x \in UserFields : [x EXCEPT !.verified = TRUE] \in UserFields
      BY DEF UserFields
    <3>2. QED
      BY <1>1, <3>1 DEF AccountsTypes, AccountRows
  <2>3. [account[u] EXCEPT !.is = [account[u].is EXCEPT !.verified = TRUE]] \in AccountRows
    BY <1>1, <2>2 DEF AccountsTypes, AccountRows
  <2>4. account' \in [People -> AccountRows] /\ awarded' \in [People -> Nat]
    BY <1>1, <2>1, <2>3 DEF AccountsTypes
  <2>5. \A w \in People : account'[w].state = account[w].state
    BY <1>1, <2>1 DEF AccountsTypes, AccountRows
  <2>6. awarded[u] = 0 /\ account[u].state # "gone"
    BY <1>1, <1>3 DEF BonusIsKeyed, Here
  <2>7. awarded'[u] = 1 /\ \A w \in People \ {u} : awarded'[w] = awarded[w]
    BY <1>1, <2>1, <2>6 DEF AccountsTypes
  <2> HIDE DEF u
  <2>8. BonusIsKeyed'
    <3>1. \A w : Key("verified", w, w)' = Key("verified", w, w)
      BY DEF Key
    <3>2. key \in keys' /\ keys \subseteq keys'
      BY <2>1
    <3> HIDE DEF key
    <3>3. \A w \in People : w = u => Key("verified", w, w) = key
      BY DEF key
    <3>4. QED
      BY <2>5, <2>7, <3>1, <3>2, <3>3 DEF BonusIsKeyed
  <2>9. QED
    BY <1>2, <2>4, <2>8, RequestOver DEF AccountsTypes
<1>4. CASE ~(Here(u) /\ key \notin keys)
  BY <1>2, <1>4, RequestOver, BonusStays DEF VerifyCommit, AccountsTypes
<1>5. QED
  BY <1>3, <1>4

\* The fields an update leaves.
LEMMA UpdatedFields ==
    ASSUME AccountsInv, NEW r \in Requests, UpdateCommit(r)
    PROVE  LET u == request[r].of
               dto == request[r].dto IN
           \/ account' = account
           \/ /\ ~(IsAdmin(request[r].current) /\ Demotes(dto) /\ LastAdmin)
              /\ \E now \in UserFields :
                   /\ account' = [account EXCEPT ![u].is = now]
                   /\ now.role = IF "role" \in DOMAIN dto THEN dto.role ELSE account[u].is.role
                   /\ now.active = IF "active" \in DOMAIN dto THEN dto.active
                                   ELSE account[u].is.active
<1> DEFINE u == request[r].of
           dto == request[r].dto
           current == request[r].current
           moved == "email" \in DOMAIN dto /\ dto.email # current.email
           says(f, was) == IF f \in DOMAIN dto THEN dto[f]
                           ELSE IF f = "verified" /\ moved THEN FALSE ELSE was
           was == account[u].is
           now == [f \in DOMAIN was |-> says(f, was[f])]
<1>1. u \in People /\ was \in UserFields /\ Fits(dto)
  BY DEF UpdateCommit, AccountsInv, AccountsTypes, AccountRows
<1>2. now = [f \in Fields |-> says(f, was[f])]
  BY <1>1, FieldsAre
<1>3. now = [f \in Fields |-> now[f]]
  BY <1>2
<1>4. /\ now.email \in Addresses /\ now.verified \in BOOLEAN
      /\ now.role = IF "role" \in DOMAIN dto THEN dto.role ELSE was.role
      /\ now.active = IF "active" \in DOMAIN dto THEN dto.active ELSE was.active
  BY <1>1, <1>2 DEF Fits, UserFields, Fields
<1>5. now \in UserFields
  <2>1. now.role \in {"USER", "ADMIN"} /\ now.active \in BOOLEAN
    BY <1>1, <1>4 DEF Fits, UserFields
  <2> HIDE DEF now
  <2>2. QED
    BY <1>3, <1>4, <2>1, MadeOfFields
<1>6. \/ account' = account
      \/ /\ ~(IsAdmin(current) /\ Demotes(dto) /\ LastAdmin)
         /\ account' = [account EXCEPT ![u].is = now]
  BY <1>1 DEF UpdateCommit, AccountsInv, AccountsTypes
<1> HIDE DEF now
<1>7. QED
  BY <1>4, <1>5, <1>6

LEMMA CommitSteps ==
    ASSUME AccountsInv, NEW r \in Requests, UpdateCommit(r)
    PROVE  AccountsInv'
<1> USE DEF AccountsInv
<1>1. /\ request' = [request EXCEPT ![r] = NotServed] /\ NotServed.pc = "idle"
      /\ UNCHANGED <<keys, form, awarded>>
  BY DEF UpdateCommit, NotServed
<1>2. request[r].of \in People
  BY DEF UpdateCommit, AccountsTypes
<1>3. /\ account' \in [People -> AccountRows]
      /\ \A w \in People : account'[w].state = account[w].state
  <2>1. ASSUME NEW now \in UserFields, account' = [account EXCEPT ![request[r].of].is = now]
        PROVE  /\ account' \in [People -> AccountRows]
               /\ \A w \in People : account'[w].state = account[w].state
    BY <1>2, <2>1 DEF AccountsTypes, AccountRows
  <2>2. QED
    BY <2>1, UpdatedFields DEF AccountsTypes
<1>4. QED
  BY <1>1, <1>3, RequestOver, BonusStays DEF AccountsTypes

LEMMA DeleteSteps ==
    ASSUME AccountsInv, NEW r \in Requests, DeleteCommit(r)
    PROVE  AccountsInv'
<1> DEFINE u == request[r].of
<1> USE DEF AccountsInv
<1>1. /\ request' = [request EXCEPT ![r] = NotServed] /\ NotServed.pc = "idle"
      /\ UNCHANGED <<form, awarded>>
  BY DEF DeleteCommit, NotServed
<1>2. u \in People
  BY DEF DeleteCommit, AccountsTypes
<1>3. CASE UNCHANGED <<account, keys>>
  BY <1>1, <1>3, RequestOver, BonusStays DEF AccountsTypes
<1>4. CASE /\ account' = [account EXCEPT ![u] = Row("gone", Blank)]
           /\ keys' = {k \in keys : k.owner # u}
  <2>1. Row("gone", Blank) \in AccountRows
    BY AccountsAssumption DEF Row, Blank, AccountRows, UserFields
  <2>2. account' \in [People -> AccountRows]
    BY <1>2, <1>4, <2>1 DEF AccountsTypes
  <2>3. account'[u].state = "gone" /\ \A w \in People \ {u} : account'[w] = account[w]
    BY <1>2, <1>4 DEF AccountsTypes, Row
  <2>4. \A w \in People \ {u} : Key("verified", w, w) \in keys => Key("verified", w, w) \in keys'
    BY <1>4 DEF Key
  <2>5. BonusIsKeyed'
    <3> SUFFICES ASSUME NEW w \in People
                 PROVE  \/ awarded'[w] = 0
                        \/ /\ awarded'[w] = 1
                           /\ account'[w].state = "gone" \/ Key("verified", w, w) \in keys'
      BY DEF BonusIsKeyed, Key
    <3>1. CASE w = u
      BY <1>1, <2>3, <3>1 DEF BonusIsKeyed
    <3>2. CASE w # u
      BY <1>1, <2>3, <2>4, <3>2 DEF BonusIsKeyed
    <3>3. QED
      BY <3>1, <3>2
  <2>6. QED
    BY <1>1, <2>2, <2>5, RequestOver DEF AccountsTypes
<1>5. QED
  BY <1>3, <1>4 DEF DeleteCommit

LEMMA FormSteps ==
    ASSUME AccountsInv, NEW a \in People, NEW u \in People, OpenForm(a, u)
    PROVE  AccountsInv'
<1>1. form'.has \in UserFields /\ form'.of = u
  BY DEF OpenForm, AccountsInv, AccountsTypes, AccountRows
<1>2. UNCHANGED <<account, keys, request, awarded>>
  BY DEF OpenForm
<1>3. QED
  BY <1>1, <1>2, BonusStays DEF AccountsInv, AccountsTypes

LEMMA AccountsInvNext == AccountsInv /\ [AccountsNext]_accountsVars => AccountsInv'
<1> SUFFICES ASSUME AccountsInv, [AccountsNext]_accountsVars PROVE AccountsInv'
  OBVIOUS
<1>1. CASE UNCHANGED accountsVars
  BY <1>1, BonusStays DEF accountsVars, AccountsInv, AccountsTypes
<1>2. ASSUME NEW u \in People, NEW e \in Addresses, Register(u, e) PROVE AccountsInv'
  BY <1>2, AddSteps DEF Register
<1>3. ASSUME NEW u \in People, Resend(u) \/ Expire(u) PROVE AccountsInv'
  BY <1>3, BonusStays DEF Resend, Expire, AccountsInv, AccountsTypes
<1>4. ASSUME NEW a \in People, NEW u \in People, NEW e \in Addresses,
             NEW role \in {"USER", "ADMIN"}, NEW v \in BOOLEAN, AdminCreates(a, u, e, role, v)
      PROVE  AccountsInv'
  BY <1>4, AddSteps DEF AdminCreates
<1>5. ASSUME NEW r \in Requests, Commits(r) PROVE AccountsInv'
  <2>1. CASE CountWrong(r)
    BY <2>1, RequestSteps DEF CountWrong
  <2>2. QED
    BY <1>5, <2>1, VerifySteps, CommitSteps, DeleteSteps DEF Commits
<1>6. ASSUME NEW r \in Requests, NEW u \in People, NEW right \in BOOLEAN, Verify(r, u, right)
      PROVE  AccountsInv'
  BY <1>6, RequestSteps DEF Verify
<1>7. ASSUME NEW r \in Requests, NEW a \in People, NEW u \in People, Delete(r, a, u)
      PROVE  AccountsInv'
  BY <1>7, RequestSteps DEF Delete
<1>8. ASSUME NEW r \in Requests, NEW dto \in Changes, SaveForm(r, dto) PROVE AccountsInv'
  <2> DEFINE all == [f \in DOMAIN form.has |-> IF f \in DOMAIN dto THEN dto[f] ELSE form.has[f]]
  <2>1. form.has \in UserFields /\ form.of \in People
    BY <1>8 DEF SaveForm, AccountsInv, AccountsTypes
  <2>2. Fits(all)
    BY <2>1, ChangesFit, MergeFits
  <2>3. Update(r, form.by, form.of, all) /\ UNCHANGED <<account, keys, awarded>> /\ form' = NoForm
    BY <1>8 DEF SaveForm
  <2> HIDE DEF all
  <2>4. QED
    BY <2>1, <2>2, <2>3, UpdateSteps
<1>9. ASSUME NEW r \in Requests, NEW a \in People, NEW u \in People, NEW dto \in Changes,
             Patch(r, a, u, dto)
      PROVE  AccountsInv'
  BY <1>9, ChangesFit, UpdateSteps DEF Patch
<1>10. QED
  BY <1>1, <1>2, <1>3, <1>4, <1>5, <1>6, <1>7, <1>8, <1>9, FormSteps DEF AccountsNext

\* However often the address of an account is verified, taken back by an
\* administrator and verified again, it earns one bonus (auth.service.ts
\* verifyEmail, admin.service.ts updateUser and deleteUser).
THEOREM OneEmailBonus == AccountsSpec => []EmailBonusOnce
<1>1. AccountsInv => EmailBonusOnce
  BY DEF AccountsInv, AccountsTypes, BonusIsKeyed, EmailBonusOnce
<1>2. QED
  BY <1>1, AccountsInvInit, AccountsInvNext, PTL DEF AccountsSpec

-----------------------------------------------------------------------------
(* The last administrator.                                                 *)

TheLastOneFell ==
    \E r \in Requests : request[r].pc = "update" /\ ~IsAdmin(request[r].current)
                        /\ request'[r] = NotServed

LEMMA OnlyOne == ASSUME NEW u, Admins = {u} PROVE LastAdmin
<1>1. Cardinality({u}) = 1
  BY FS_Singleton
<1>2. QED
  BY <1>1 DEF LastAdmin

\* An account that stays as it is keeps its administrator.
LEMMA AdminsStay ==
    ASSUME NEW S \in SUBSET People,
           \A w \in S : /\ account'[w].state = account[w].state
                        /\ account'[w].is.role = account[w].is.role
                        /\ account'[w].is.active = account[w].is.active
    PROVE  Admins \cap S \subseteq Admins'
BY DEF Admins, Here, IsAdmin

LEMMA UpdateFells ==
    ASSUME AccountsInv, NEW r \in Requests, UpdateCommit(r), Admins # {}, Admins' = {}
    PROVE  TheLastOneFell
<1> DEFINE u == request[r].of
           dto == request[r].dto
<1>1. u \in People /\ Fits(dto) /\ request[r].pc = "update" /\ request'[r] = NotServed
  BY DEF UpdateCommit, AccountsInv, AccountsTypes
<1>2. account' # account
  BY AdminsStay DEF Admins
<1>3. PICK now \in UserFields :
         /\ ~(IsAdmin(request[r].current) /\ Demotes(dto) /\ LastAdmin)
         /\ account' = [account EXCEPT ![u].is = now]
         /\ now.role = IF "role" \in DOMAIN dto THEN dto.role ELSE account[u].is.role
         /\ now.active = IF "active" \in DOMAIN dto THEN dto.active ELSE account[u].is.active
  BY <1>2, UpdatedFields
<1>4. /\ account'[u].is = now /\ account'[u].state = account[u].state
      /\ \A w \in People \ {u} : account'[w] = account[w]
  BY <1>1, <1>3 DEF AccountsInv, AccountsTypes, AccountRows
<1>5. Admins = {u}
  BY <1>4, AdminsStay DEF Admins
<1>6. Demotes(dto)
  <2>1. SUFFICES ASSUME ~Demotes(dto) PROVE FALSE
    OBVIOUS
  <2>2. account[u].is.role = "ADMIN" /\ account[u].is.active /\ account[u].state = "here"
    BY <1>5 DEF Admins, IsAdmin, Here
  <2>3. now.role = "ADMIN"
    BY <1>1, <1>3, <2>1, <2>2 DEF Demotes, Says, Fits
  <2>4. now.active = TRUE
    <3>1. CASE "active" \in DOMAIN dto
      BY <1>1, <1>3, <2>1, <3>1 DEF Demotes, Says, Fits
    <3>2. CASE "active" \notin DOMAIN dto
      BY <1>3, <2>2, <3>2 DEF UserFields
    <3>3. QED
      BY <3>1, <3>2
  <2>5. QED
    BY <1>1, <1>4, <2>2, <2>3, <2>4 DEF Admins, Here, IsAdmin
<1>7. QED
  BY <1>1, <1>3, <1>5, <1>6, OnlyOne DEF TheLastOneFell

LEMMA DeleteKeepsOne ==
    ASSUME AccountsInv, NEW r \in Requests, DeleteCommit(r), Admins # {}
    PROVE  Admins' # {}
<1> DEFINE u == request[r].of
<1>1. SUFFICES ASSUME Admins' = {} PROVE FALSE
  OBVIOUS
<1>2. /\ account' = [account EXCEPT ![u] = Row("gone", Blank)]
      /\ ~(IsAdmin(account[u].is) /\ LastAdmin)
  BY <1>1, AdminsStay DEF DeleteCommit, Admins
<1>3. \A w \in People \ {u} : account'[w] = account[w]
  BY <1>2 DEF AccountsInv, AccountsTypes
<1>4. Admins = {u}
  BY <1>1, <1>3, AdminsStay DEF Admins
<1>5. IsAdmin(account[u].is)
  BY <1>4 DEF Admins
<1>6. QED
  BY <1>2, <1>4, <1>5, OnlyOne

LEMMA LastAdminStep ==
    AccountsInv /\ [AccountsNext]_accountsVars
        => [Admins # {} /\ Admins' = {} => TheLastOneFell]_accountsVars
<1> SUFFICES ASSUME AccountsInv, AccountsNext, Admins # {}, Admins' = {}
             PROVE  TheLastOneFell
  OBVIOUS
<1> USE DEF AccountsInv
<1>1. account' # account
  BY AdminsStay DEF Admins
<1>2. ASSUME NEW u \in People, NEW e \in Addresses, NEW role, NEW v, account[u].state = "new",
             AddAccount(u, e, role, v)
      PROVE  FALSE
  <2>1. \A w \in People \ {u} : account'[w] = account[w]
    BY <1>2 DEF AddAccount, AccountsTypes
  <2>2. u \notin Admins
    BY <1>2 DEF Admins, Here
  <2>3. Admins \cap (People \ {u}) \subseteq Admins'
    BY <2>1, AdminsStay
  <2>4. QED
    BY <2>2, <2>3 DEF Admins
<1>3. ASSUME NEW r \in Requests, VerifyCommit(r)
      PROVE  FALSE
  <2>1. request[r].of \in People
    BY <1>3 DEF VerifyCommit, AccountsTypes
  <2>2. account' = [account EXCEPT ![request[r].of].is.verified = TRUE]
    BY <1>1, <1>3 DEF VerifyCommit
  <2>3. \A x \in UserFields : /\ [x EXCEPT !.verified = TRUE].role = x.role
                              /\ [x EXCEPT !.verified = TRUE].active = x.active
    BY DEF UserFields
  <2>4. \A w \in People : /\ account'[w].state = account[w].state
                          /\ account'[w].is.role = account[w].is.role
                          /\ account'[w].is.active = account[w].is.active
    BY <2>1, <2>2, <2>3 DEF AccountsTypes, AccountRows
  <2>5. QED
    BY <2>4, AdminsStay DEF Admins
<1>4. QED
  BY <1>1, <1>2, <1>3, UpdateFells, DeleteKeepsOne
     DEF AccountsNext, Register, Resend, Expire, AdminCreates, OpenForm, Commits, CountWrong,
         Verify, Delete, SaveForm, Patch

\* The last active administrator goes only by an update that had read the
\* account before it became one, however updates, deletions and forms interleave
\* (admin.service.ts updateUser and deleteUser).
THEOREM LastAdminTheorem == AccountsSpec => LastAdminFalls
<1>1. LastAdminFalls
        <=> [][Admins # {} /\ Admins' = {} => TheLastOneFell]_accountsVars
  BY DEF LastAdminFalls, TheLastOneFell
<1>2. QED
  BY <1>1, AccountsInvInit, AccountsInvNext, LastAdminStep, PTL DEF AccountsSpec

-----------------------------------------------------------------------------
(* The codes.  A wrong code is compared first and counted later; what is   *)
(* not counted yet is a request under way.                                 *)

CodeRows == [to: Addresses, wrong: 0..AttemptLimit, tried: Nat, open: BOOLEAN]
CodesTyped ==
    /\ codes \in [People -> Seq(CodeRows)]
    /\ \A r \in Requests : request[r].pc = "wrong" => request[r].of \in People

Uncounted(u, i) ==
    {r \in Requests : request[r].pc = "wrong" /\ request[r].of = u /\ request[r].code = i}
Counted ==
    \A u \in People : \A i \in DOMAIN codes[u] :
        /\ codes[u][i].tried < AttemptLimit + Cardinality(Requests)
        /\ codes[u][i].wrong < AttemptLimit
              => codes[u][i].tried <= codes[u][i].wrong + Cardinality(Uncounted(u, i))
CodesInv == CodesTyped /\ Counted

LEMMA UncountedFinite ==
    ASSUME NEW u, NEW i
    PROVE  /\ IsFiniteSet(Uncounted(u, i)) /\ Cardinality(Uncounted(u, i)) \in Nat
           /\ Cardinality(Uncounted(u, i)) <= Cardinality(Requests)
           /\ Cardinality(Requests) \in Nat
<1>1. Uncounted(u, i) \subseteq Requests
  BY DEF Uncounted
<1>2. QED
  BY <1>1, FS_Subset, FS_CardinalityType, AccountsAssumption

\* No code was compared and none was counted; there may be new ones.
CodesKept ==
    \A u \in People : \A i \in DOMAIN codes'[u] :
        \/ /\ i \in DOMAIN codes[u] /\ codes'[u][i].wrong = codes[u][i].wrong
           /\ codes'[u][i].tried = codes[u][i].tried
        \/ codes'[u][i].wrong = 0 /\ codes'[u][i].tried = 0
RequestsKept == \A u \in People : \A i \in Nat : Uncounted(u, i)' = Uncounted(u, i)

LEMMA CountedStays ==
    ASSUME CodesTyped, CodesTyped', Counted, CodesKept, RequestsKept PROVE Counted'
<1> SUFFICES ASSUME NEW u \in People, NEW i \in DOMAIN codes'[u]
             PROVE  /\ codes'[u][i].tried < AttemptLimit + Cardinality(Requests)
                    /\ codes'[u][i].wrong < AttemptLimit
                          => codes'[u][i].tried
                                <= codes'[u][i].wrong + Cardinality(Uncounted(u, i)')
  BY DEF Counted
<1>1. i \in Nat /\ codes'[u] \in Seq(CodeRows)
  BY DEF CodesTyped
<1>2. Uncounted(u, i)' = Uncounted(u, i)
  BY <1>1 DEF RequestsKept
<1>3. CASE i \in DOMAIN codes[u] /\ codes'[u][i].wrong = codes[u][i].wrong
           /\ codes'[u][i].tried = codes[u][i].tried
  BY <1>2, <1>3 DEF Counted
<1>4. CASE codes'[u][i].wrong = 0 /\ codes'[u][i].tried = 0
  BY <1>2, <1>4, UncountedFinite, AccountsAssumption
<1>5. QED
  BY <1>3, <1>4 DEF CodesKept

\* One request changes, before and after none that waits to be counted.
LEMMA OneRequest ==
    ASSUME AccountsInv, CodesTyped, NEW r \in Requests, NEW now, now.pc # "wrong",
           request[r].pc # "wrong", request' = [request EXCEPT ![r] = now]
    PROVE  /\ RequestsKept
           /\ \A q \in Requests : request'[q].pc = "wrong" => request'[q].of \in People
<1>1. request'[r] = now /\ \A q \in Requests : q # r => request'[q] = request[q]
  BY DEF AccountsInv, AccountsTypes
<1>2. QED
  BY <1>1 DEF RequestsKept, Uncounted, CodesTyped

LEMMA RequestsSame ==
    ASSUME CodesTyped, UNCHANGED request
    PROVE  /\ RequestsKept
           /\ \A q \in Requests : request'[q].pc = "wrong" => request'[q].of \in People
BY DEF RequestsKept, Uncounted, CodesTyped

LEMMA CodesSame ==
    ASSUME CodesTyped, UNCHANGED codes
    PROVE  CodesKept /\ codes' \in [People -> Seq(CodeRows)]
BY DEF CodesKept, CodesTyped

\* A field of one code is set.
Becomes(u, i, now) == codes' = [codes EXCEPT ![u] = [@ EXCEPT ![i] = now]]
Closes(u, i) == codes' = [codes EXCEPT ![u][i].open = FALSE]

LEMMA OneCode ==
    ASSUME CodesTyped, NEW u \in People, NEW i, NEW now,
           i \in DOMAIN codes[u] => now \in CodeRows, Becomes(u, i, now)
    PROVE  /\ codes' \in [People -> Seq(CodeRows)]
           /\ \A v \in People : DOMAIN codes'[v] = DOMAIN codes[v]
           /\ \A v \in People : \A j \in DOMAIN codes[v] :
                  codes'[v][j] = IF v = u /\ j = i THEN now ELSE codes[v][j]
<1>1. /\ codes'[u] = [codes[u] EXCEPT ![i] = now]
      /\ \A v \in People : v # u => codes'[v] = codes[v]
      /\ codes' = [v \in People |-> codes'[v]]
  BY DEF CodesTyped, Becomes
<1>2. codes[u] \in Seq(CodeRows)
  BY DEF CodesTyped
<1>3. /\ codes'[u] \in Seq(CodeRows) /\ DOMAIN codes'[u] = DOMAIN codes[u]
      /\ \A j \in DOMAIN codes[u] : codes'[u][j] = IF j = i THEN now ELSE codes[u][j]
  <2>1. CASE i \in DOMAIN codes[u]
    <3>1. i \in 1..Len(codes[u]) /\ now \in CodeRows
      BY <1>2, <2>1
    <3>2. [codes[u] EXCEPT ![i] = now] \in Seq(CodeRows)
      BY <1>2, <3>1, ExceptSeq
    <3>3. QED
      BY <1>1, <3>2
  <2>2. CASE i \notin DOMAIN codes[u]
    <3>1. codes[u] = [j \in DOMAIN codes[u] |-> codes[u][j]]
      BY <1>2
    <3>2. codes'[u] = [j \in DOMAIN codes[u] |-> codes[u][j]]
      BY <1>1, <2>2
    <3>3. QED
      BY <1>2, <2>2, <3>1, <3>2
  <2>3. QED
    BY <2>1, <2>2
<1>4. QED
  BY <1>1, <1>3 DEF CodesTyped

LEMMA Closed ==
    ASSUME CodesTyped, NEW u \in People, NEW i, Closes(u, i)
    PROVE  CodesKept /\ codes' \in [People -> Seq(CodeRows)]
<1> DEFINE now == [codes[u][i] EXCEPT !.open = FALSE]
<1>1. Becomes(u, i, now)
  BY DEF CodesTyped, Becomes, Closes
<1>2. i \in DOMAIN codes[u] => codes[u][i] \in CodeRows
  BY DEF CodesTyped
<1>3. i \in DOMAIN codes[u] => /\ now \in CodeRows /\ now.wrong = codes[u][i].wrong
                               /\ now.tried = codes[u][i].tried
  BY <1>2 DEF CodeRows
<1> HIDE DEF now
<1>4. i \in DOMAIN codes[u] => now \in CodeRows
  BY <1>3
<1>5. /\ codes' \in [People -> Seq(CodeRows)]
      /\ \A v \in People : DOMAIN codes'[v] = DOMAIN codes[v]
      /\ \A v \in People : \A j \in DOMAIN codes[v] :
             codes'[v][j] = IF v = u /\ j = i THEN now ELSE codes[v][j]
  BY <1>1, <1>4, OneCode
<1>6. QED
  BY <1>3, <1>5 DEF CodesKept

LEMMA NewCode ==
    ASSUME NEW e \in Addresses
    PROVE  Code(e) \in CodeRows /\ Code(e).wrong = 0 /\ Code(e).tried = 0
BY AccountsAssumption DEF Code, CodeRows

\* A code is compared: whoever is wrong waits to be counted.
LEMMA VerifyCounts ==
    ASSUME AccountsInv, CodesInv, NEW r \in Requests, NEW u \in People, NEW right \in BOOLEAN,
           Verify(r, u, right)
    PROVE  CodesInv'
<1> USE DEF AccountsInv, CodesInv
<1> DEFINE i == Latest(u)
           dead == codes[u][i].wrong >= AttemptLimit
           wrong == ~right \/ dead
           asked == [pc |-> IF right /\ ~dead THEN "verified" ELSE "wrong", of |-> u, code |-> i]
           now == [codes[u][i] EXCEPT !.tried = IF right \/ dead THEN @ ELSE @ + 1]
<1>1. PICK k : k = i
  OBVIOUS
<1>2. /\ request' = [request EXCEPT ![r] = asked] /\ request[r].pc = "idle"
      /\ Becomes(u, k, now)
  BY <1>1 DEF Verify, CodesTyped, NotServed, Becomes
<1>3. /\ asked.of = u /\ asked.code = k
      /\ asked.pc = IF wrong THEN "wrong" ELSE "verified"
  BY <1>1
<1>4. k \in DOMAIN codes[u] => /\ now \in CodeRows /\ now.wrong = codes[u][k].wrong
                               /\ now.tried = IF right \/ dead THEN codes[u][k].tried
                                              ELSE codes[u][k].tried + 1
  <2>1. k \in DOMAIN codes[u] => codes[u][k] \in CodeRows
    BY DEF CodesTyped
  <2>2. QED
    BY <1>1, <2>1 DEF CodeRows
<1>5. dead <=> codes[u][k].wrong >= AttemptLimit
  BY <1>1
<1> HIDE DEF asked, now, dead, i
<1>6. /\ codes' \in [People -> Seq(CodeRows)]
      /\ \A v \in People : DOMAIN codes'[v] = DOMAIN codes[v]
      /\ \A v \in People : \A j \in DOMAIN codes[v] :
             codes'[v][j] = IF v = u /\ j = k THEN now ELSE codes[v][j]
  BY <1>2, <1>4, OneCode
<1>7. request'[r] = asked /\ \A q \in Requests : q # r => request'[q] = request[q]
  BY <1>2 DEF AccountsTypes
<1>8. CodesTyped'
  BY <1>3, <1>6, <1>7 DEF CodesTyped
<1>9. /\ Uncounted(u, k)' = IF wrong THEN Uncounted(u, k) \cup {r} ELSE Uncounted(u, k)
      /\ r \notin Uncounted(u, k)
      /\ \A v, j : v # u \/ j # k => Uncounted(v, j)' = Uncounted(v, j)
  BY <1>2, <1>3, <1>7 DEF Uncounted
<1>10. /\ Cardinality(Uncounted(u, k) \cup {r}) = Cardinality(Uncounted(u, k)) + 1
       /\ Cardinality(Uncounted(u, k)) \in Nat
  BY <1>9, UncountedFinite, FS_AddElement
<1>11. Cardinality(Uncounted(u, k) \cup {r}) <= Cardinality(Requests)
  <2>1. Uncounted(u, k) \cup {r} \subseteq Requests
    BY DEF Uncounted
  <2>2. QED
    BY <2>1, FS_Subset, AccountsAssumption
<1>12. ASSUME NEW v \in People, NEW j \in DOMAIN codes[v]
       PROVE  /\ codes'[v][j].tried < AttemptLimit + Cardinality(Requests)
              /\ codes'[v][j].wrong < AttemptLimit
                    => codes'[v][j].tried <= codes'[v][j].wrong + Cardinality(Uncounted(v, j)')
  <2>1. CASE v # u \/ j # k
    BY <1>6, <1>9, <1>12, <2>1 DEF Counted
  <2>2. CASE v = u /\ j = k
    <3> DEFINE w == codes[u][k].wrong  t == codes[u][k].tried
    <3>1. codes'[v][j] = now /\ now.wrong = w /\ w \in Nat /\ t \in Nat /\ w <= AttemptLimit
      <4>1. codes[u][k] \in CodeRows
        BY <1>12, <2>2 DEF CodesTyped
      <4>2. w \in Nat /\ t \in Nat /\ w <= AttemptLimit
        BY <4>1, AccountsAssumption DEF CodeRows
      <4>3. QED
        BY <1>4, <1>6, <1>12, <2>2, <4>2
    <3>2. /\ t < AttemptLimit + Cardinality(Requests)
          /\ w < AttemptLimit => t <= w + Cardinality(Uncounted(u, k))
      BY <1>12, <2>2 DEF Counted
    <3>3. now.tried = IF right \/ dead THEN t ELSE t + 1
      BY <1>4, <1>12, <2>2
    <3> HIDE DEF w, t
    <3>4. CASE right \/ dead
      <4>1. /\ Cardinality(Uncounted(v, j)') \in Nat
            /\ Cardinality(Uncounted(v, j)') >= Cardinality(Uncounted(u, k))
        <5>1. Uncounted(v, j)' = Uncounted(u, k) \/ Uncounted(v, j)' = Uncounted(u, k) \cup {r}
          BY <1>9, <2>2
        <5>2. PICK x : x = Cardinality(Uncounted(u, k))
          OBVIOUS
        <5>3. PICK W : W = Uncounted(v, j)'
          OBVIOUS
        <5>4. x \in Nat /\ (Cardinality(W) = x \/ Cardinality(W) = x + 1)
          BY <1>10, <5>1, <5>2, <5>3
        <5>5. Cardinality(W) \in Nat /\ Cardinality(W) >= x
          BY <5>4
        <5>6. QED
          BY <5>2, <5>3, <5>5
      <4>2. QED
        BY <2>2, <3>1, <3>2, <3>3, <3>4, <4>1, UncountedFinite
    <3>5. CASE ~(right \/ dead)
      <4>1. w < AttemptLimit
        BY <1>5, <3>1, <3>5, AccountsAssumption DEF w
      <4>2. Cardinality(Uncounted(v, j)') = Cardinality(Uncounted(u, k)) + 1
        BY <1>9, <1>10, <2>2, <3>5
      <4>3. t + 1 <= w + (Cardinality(Uncounted(u, k)) + 1)
        BY <3>1, <3>2, <4>1, UncountedFinite
      <4>4. t + 1 < AttemptLimit + Cardinality(Requests)
        BY <1>10, <1>11, <3>1, <4>1, <4>3, UncountedFinite, AccountsAssumption
      <4>5. QED
        BY <3>1, <3>3, <3>5, <4>2, <4>3, <4>4
    <3>6. QED
      BY <3>4, <3>5
  <2>3. QED
    BY <2>1, <2>2
<1>13. Counted'
  BY <1>6, <1>12 DEF Counted
<1>14. QED
  BY <1>8, <1>13

\* It is counted: the code has one wrong more, and one request waits less.
LEMMA CountCounts ==
    ASSUME AccountsInv, CodesInv, NEW r \in Requests, CountWrong(r) PROVE CodesInv'
<1> USE DEF AccountsInv, CodesInv
<1>1. PICK u, k : u = request[r].of /\ k = request[r].code
  OBVIOUS
<1>2. u \in People /\ request[r].pc = "wrong"
  BY <1>1 DEF CountWrong, CodesTyped
<1> DEFINE now == [codes[u][k] EXCEPT !.wrong = IF @ < AttemptLimit THEN @ + 1 ELSE @]
<1>3. /\ request' = [request EXCEPT ![r] = NotServed]
      /\ IF codes[u] = <<>> THEN codes' = codes ELSE Becomes(u, k, now)
  BY <1>1, <1>2 DEF CountWrong, CodesTyped, Becomes
<1>4. request'[r] = NotServed /\ \A q \in Requests : q # r => request'[q] = request[q]
  BY <1>3 DEF AccountsTypes
<1>5. NotServed.pc = "idle"
  BY DEF NotServed
<1>6. /\ Uncounted(u, k)' = Uncounted(u, k) \ {r} /\ r \in Uncounted(u, k)
      /\ \A v, j : v # u \/ j # k => Uncounted(v, j)' = Uncounted(v, j)
  BY <1>1, <1>2, <1>4, <1>5 DEF Uncounted
<1>7. PICK W : W = Uncounted(u, k)'
  OBVIOUS
<1>8. /\ Cardinality(W) \in Nat /\ Cardinality(Uncounted(u, k)) \in Nat
      /\ Cardinality(Uncounted(u, k)) = Cardinality(W) + 1
  <2>1. IsFiniteSet(Uncounted(u, k)) /\ Cardinality(Uncounted(u, k)) \in Nat
    BY UncountedFinite
  <2>2. IsFiniteSet(W) /\ Cardinality(W) = Cardinality(Uncounted(u, k)) - 1
    BY <1>6, <1>7, <2>1, FS_RemoveElement
  <2>3. Cardinality(W) \in Nat
    BY <2>2, FS_CardinalityType
  <2>4. QED
    BY <2>1, <2>2, <2>3
<1>9. k \in DOMAIN codes[u] =>
        /\ now \in CodeRows /\ now.tried = codes[u][k].tried
        /\ now.wrong = IF codes[u][k].wrong < AttemptLimit THEN codes[u][k].wrong + 1
                       ELSE codes[u][k].wrong
  <2>1. k \in DOMAIN codes[u] => codes[u][k] \in CodeRows
    BY <1>2 DEF CodesTyped
  <2>2. QED
    BY <2>1, AccountsAssumption DEF CodeRows
<1> HIDE DEF now
<1>10. CASE codes[u] = <<>>
  <2>1. codes' = codes
    BY <1>3, <1>10
  <2>2. CodesTyped'
    BY <1>4, <1>5, <2>1 DEF CodesTyped
  <2>3. ASSUME NEW v \in People, NEW j \in DOMAIN codes[v]
        PROVE  Uncounted(v, j)' = Uncounted(v, j)
    BY <1>6, <1>10, <2>3
  <2>4. QED
    BY <2>1, <2>2, <2>3 DEF Counted
<1>11. CASE codes[u] # <<>>
  <2>1. /\ codes' \in [People -> Seq(CodeRows)]
        /\ \A v \in People : DOMAIN codes'[v] = DOMAIN codes[v]
        /\ \A v \in People : \A j \in DOMAIN codes[v] :
               codes'[v][j] = IF v = u /\ j = k THEN now ELSE codes[v][j]
    BY <1>2, <1>3, <1>9, <1>11, OneCode
  <2>2. CodesTyped'
    BY <1>4, <1>5, <2>1 DEF CodesTyped
  <2>3. ASSUME NEW v \in People, NEW j \in DOMAIN codes[v]
        PROVE  /\ codes'[v][j].tried < AttemptLimit + Cardinality(Requests)
               /\ codes'[v][j].wrong < AttemptLimit
                     => codes'[v][j].tried
                           <= codes'[v][j].wrong + Cardinality(Uncounted(v, j)')
    <3>1. CASE v # u \/ j # k
      BY <1>6, <2>1, <2>3, <3>1 DEF Counted
    <3>2. CASE v = u /\ j = k
      <4> DEFINE w == codes[u][k].wrong  t == codes[u][k].tried
      <4>1. w \in Nat /\ t \in Nat
        <5>1. codes[u][k] \in CodeRows
          BY <2>3, <3>2 DEF CodesTyped
        <5>2. QED
          BY <5>1, AccountsAssumption DEF CodeRows
      <4>2. /\ t < AttemptLimit + Cardinality(Requests)
            /\ w < AttemptLimit => t <= w + Cardinality(Uncounted(u, k))
        BY <2>3, <3>2 DEF Counted
      <4>3. codes'[v][j] = now /\ now.tried = t
            /\ now.wrong = IF w < AttemptLimit THEN w + 1 ELSE w
        BY <1>9, <2>1, <2>3, <3>2
      <4>4. Uncounted(v, j)' = W
        BY <1>7, <3>2
      <4> HIDE DEF w, t
      <4>5. now.wrong < AttemptLimit => t <= now.wrong + Cardinality(W)
        BY <1>8, <4>1, <4>2, <4>3, AccountsAssumption
      <4>6. QED
        BY <4>2, <4>3, <4>4, <4>5
    <3>3. QED
      BY <3>1, <3>2
  <2>4. Counted'
    BY <2>1, <2>3 DEF Counted
  <2>5. QED
    BY <2>2, <2>4
<1>12. QED
  BY <1>10, <1>11

\* An account has no codes, or one more that nobody tried.
Renews(u, now) ==
    \A i \in DOMAIN now : \/ i \in DOMAIN codes[u] /\ now[i] = codes[u][i]
                          \/ now[i].wrong = 0 /\ now[i].tried = 0

LEMMA CodesReplaced ==
    ASSUME CodesTyped, NEW u \in People, NEW now \in Seq(CodeRows),
           codes' = [codes EXCEPT ![u] = now], Renews(u, now)
    PROVE  CodesKept /\ codes' \in [People -> Seq(CodeRows)]
BY DEF CodesKept, CodesTyped, Renews

LEMMA CodesGone ==
    ASSUME CodesTyped, NEW u \in People, codes' = [codes EXCEPT ![u] = <<>>]
    PROVE  CodesKept /\ codes' \in [People -> Seq(CodeRows)]
<1>1. <<>> \in Seq(CodeRows) /\ DOMAIN <<>> = {}
  OBVIOUS
<1>2. QED
  BY <1>1, CodesReplaced DEF Renews

LEMMA CodeSent ==
    ASSUME CodesTyped, NEW u \in People, NEW e \in Addresses,
           codes' = [codes EXCEPT ![u] = Append(@, Code(e))]
    PROVE  CodesKept /\ codes' \in [People -> Seq(CodeRows)]
<1>1. codes[u] \in Seq(CodeRows) /\ Code(e) \in CodeRows
      /\ Code(e).wrong = 0 /\ Code(e).tried = 0
  BY NewCode DEF CodesTyped
<1>2. PICK now : now = Append(codes[u], Code(e))
  OBVIOUS
<1>3. now \in Seq(CodeRows) /\ Renews(u, now)
  BY <1>1, <1>2 DEF Renews
<1>4. codes' = [codes EXCEPT ![u] = now]
  BY <1>2
<1>5. QED
  BY <1>3, <1>4, CodesReplaced

LEMMA FirstCode ==
    ASSUME CodesTyped, NEW u \in People, NEW e \in Addresses,
           codes' = [codes EXCEPT ![u] = <<Code(e)>>]
    PROVE  CodesKept /\ codes' \in [People -> Seq(CodeRows)]
<1>1. Code(e) \in CodeRows /\ Code(e).wrong = 0 /\ Code(e).tried = 0
  BY NewCode
<1>2. PICK now : now = <<Code(e)>>
  OBVIOUS
<1>3. now \in Seq(CodeRows) /\ Renews(u, now)
  BY <1>1, <1>2 DEF Renews
<1>4. codes' = [codes EXCEPT ![u] = now]
  BY <1>2
<1>5. QED
  BY <1>3, <1>4, CodesReplaced

LEMMA CodesInvInit == AccountsInit => CodesInv
<1> SUFFICES ASSUME AccountsInit PROVE CodesInv
  OBVIOUS
<1>1. <<>> \in Seq(CodeRows) /\ DOMAIN <<>> = {}
  OBVIOUS
<1>2. \A u \in People : codes[u] = <<>>
  BY DEF AccountsInit
<1>3. codes \in [People -> Seq(CodeRows)]
  BY <1>1 DEF AccountsInit
<1>4. \A r \in Requests : request[r].pc # "wrong"
  BY DEF AccountsInit, NotServed
<1>5. QED
  BY <1>1, <1>2, <1>3, <1>4 DEF CodesInv, CodesTyped, Counted

\* What the other steps do to the codes, and to the requests that wait.
LEMMA CodesInvKept ==
    ASSUME CodesInv, CodesKept /\ codes' \in [People -> Seq(CodeRows)],
           /\ RequestsKept
           /\ \A q \in Requests : request'[q].pc = "wrong" => request'[q].of \in People
    PROVE  CodesInv'
<1>1. CodesTyped'
  BY DEF CodesTyped
<1>2. QED
  BY <1>1, CountedStays DEF CodesInv

LEMMA CodesInvNext == AccountsInv /\ CodesInv /\ [AccountsNext]_accountsVars => CodesInv'
<1> SUFFICES ASSUME AccountsInv, CodesInv, [AccountsNext]_accountsVars PROVE CodesInv'
  OBVIOUS
<1> USE DEF CodesInv
<1>1. CASE UNCHANGED accountsVars
  BY <1>1, CodesSame, RequestsSame, CodesInvKept DEF accountsVars
<1>2. ASSUME NEW u \in People, NEW e \in Addresses, Register(u, e) PROVE CodesInv'
  <2>1. UNCHANGED request
    BY <1>2 DEF Register
  <2>2. CodesKept /\ codes' \in [People -> Seq(CodeRows)]
    BY <1>2, CodesSame, FirstCode DEF Register
  <2>3. QED
    BY <2>1, <2>2, RequestsSame, CodesInvKept
<1>3. ASSUME NEW u \in People, Resend(u) PROVE CodesInv'
  <2>1. UNCHANGED request /\ codes' = [codes EXCEPT ![u] = Append(@, Code(account[u].is.email))]
    BY <1>3 DEF Resend
  <2>2. account[u].is.email \in Addresses
    BY DEF AccountsInv, AccountsTypes, AccountRows, UserFields
  <2>3. QED
    BY <2>1, <2>2, CodeSent, RequestsSame, CodesInvKept
<1>4. ASSUME NEW u \in People, Expire(u) PROVE CodesInv'
  <2>1. UNCHANGED request /\ \E i : Closes(u, i)
    BY <1>4 DEF Expire, Closes
  <2>2. QED
    BY <2>1, Closed, RequestsSame, CodesInvKept
<1>5. ASSUME NEW a \in People, NEW u \in People, NEW e \in Addresses,
             NEW role \in {"USER", "ADMIN"}, NEW v \in BOOLEAN, AdminCreates(a, u, e, role, v)
      PROVE  CodesInv'
  BY <1>5, CodesSame, RequestsSame, CodesInvKept DEF AdminCreates
<1>6. ASSUME NEW r \in Requests, VerifyCommit(r) PROVE CodesInv'
  <2>1. request' = [request EXCEPT ![r] = NotServed] /\ request[r].pc = "verified"
        /\ NotServed.pc # "wrong"
    BY <1>6 DEF VerifyCommit, NotServed
  <2>2. request[r].of \in People
    BY <2>1 DEF AccountsInv, AccountsTypes
  <2>3. UNCHANGED codes \/ Closes(request[r].of, request[r].code)
    BY <1>6 DEF VerifyCommit, Closes
  <2>4. QED
    BY <2>1, <2>2, <2>3, CodesSame, Closed, OneRequest, CodesInvKept
<1>7. ASSUME NEW r \in Requests, UpdateCommit(r) PROVE CodesInv'
  <2>1. request' = [request EXCEPT ![r] = NotServed] /\ request[r].pc = "update"
        /\ NotServed.pc # "wrong" /\ UNCHANGED codes
    BY <1>7 DEF UpdateCommit, NotServed
  <2>2. QED
    BY <2>1, CodesSame, OneRequest, CodesInvKept
<1>8. ASSUME NEW r \in Requests, DeleteCommit(r) PROVE CodesInv'
  <2>1. request' = [request EXCEPT ![r] = NotServed] /\ request[r].pc = "delete"
        /\ NotServed.pc # "wrong"
    BY <1>8 DEF DeleteCommit, NotServed
  <2>2. request[r].of \in People
    BY <2>1 DEF AccountsInv, AccountsTypes
  <2>3. UNCHANGED codes \/ codes' = [codes EXCEPT ![request[r].of] = <<>>]
    BY <1>8 DEF DeleteCommit
  <2>4. QED
    BY <2>1, <2>2, <2>3, CodesSame, CodesGone, OneRequest, CodesInvKept
<1>9. ASSUME NEW r \in Requests, NEW now, now.pc # "wrong", request[r] = NotServed,
             request' = [request EXCEPT ![r] = now], UNCHANGED codes
      PROVE  CodesInv'
  <2>1. request[r].pc # "wrong"
    BY <1>9 DEF NotServed
  <2>2. QED
    BY <1>9, <2>1, CodesSame, OneRequest, CodesInvKept
<1>10. ASSUME NEW r \in Requests, NEW a, NEW u, Delete(r, a, u) PROVE CodesInv'
  BY <1>9, <1>10 DEF Delete
<1>11. ASSUME NEW r \in Requests, NEW a, NEW u, NEW dto, Update(r, a, u, dto), UNCHANGED codes
       PROVE  CodesInv'
  BY <1>9, <1>11 DEF Update
<1>12. ASSUME NEW a \in People, NEW u \in People, OpenForm(a, u) PROVE CodesInv'
  BY <1>12, CodesSame, RequestsSame, CodesInvKept DEF OpenForm
<1>13. ASSUME NEW r \in Requests, NEW dto, SaveForm(r, dto) PROVE CodesInv'
  BY <1>11, <1>13 DEF SaveForm
<1>14. ASSUME NEW r \in Requests, NEW a, NEW u, NEW dto, Patch(r, a, u, dto) PROVE CodesInv'
  BY <1>11, <1>14 DEF Patch
<1>15. QED
  BY <1>1, <1>2, <1>3, <1>4, <1>5, <1>6, <1>7, <1>8, <1>10, <1>12, <1>13, <1>14,
     VerifyCounts, CountCounts DEF AccountsNext, Commits

\* A code is compared with fewer wrong ones than the limit and the requests
\* there can be, whatever the order in which they are counted (auth.service.ts
\* verifyEmail, which compares first and counts after).
THEOREM GuessesAreBounded == AccountsSpec => []GuessesBounded
<1>1. CodesInv => GuessesBounded
  BY DEF CodesInv, Counted, GuessesBounded
<1>2. AccountsInit => AccountsInv /\ CodesInv
  BY AccountsInvInit, CodesInvInit
<1>3. AccountsInv /\ CodesInv /\ [AccountsNext]_accountsVars => (AccountsInv /\ CodesInv)'
  BY AccountsInvNext, CodesInvNext
<1>4. QED
  BY <1>1, <1>2, <1>3, PTL DEF AccountsSpec

-----------------------------------------------------------------------------
(* The journal: what it keeps is of accounts there are.                    *)

KeysOwned == \A k \in keys : k.owner \in People /\ Here(k.owner)

\* Who was here stays here, and what is new in the journal is of somebody here.
LEMMA OwnersStay ==
    ASSUME KeysOwned, \A u \in People : Here(u) => Here(u)',
           \A k \in keys' \ keys : k.owner \in People /\ Here(k.owner)'
    PROVE  KeysOwned'
BY DEF KeysOwned, Here

LEMMA AddOwned ==
    ASSUME AccountsInv, KeysOwned, NEW u \in People, NEW e \in Addresses, NEW role, NEW v,
           account[u].state = "new", AddAccount(u, e, role, v)
    PROVE  KeysOwned'
<1>1. CASE Taken(e) \/ Welcome(e)
  BY <1>1, OwnersStay DEF AddAccount, Here
<1>2. CASE ~(Taken(e) \/ Welcome(e))
  <2>1. /\ account'[u].state = "here" /\ \A x \in People : x # u => account'[x] = account[x]
        /\ \A k \in keys' \ keys : k.owner = u
    BY <1>2 DEF AddAccount, Row, Key, AccountsInv, AccountsTypes
  <2>2. QED
    BY <2>1, OwnersStay DEF Here
<1>3. QED
  BY <1>1, <1>2

LEMMA KeysOwnedNext ==
    ASSUME AccountsInv, KeysOwned, [AccountsNext]_accountsVars PROVE KeysOwned'
<1>1. ASSUME UNCHANGED <<account, keys>> PROVE KeysOwned'
  BY <1>1 DEF KeysOwned, Here
<1>2. ASSUME NEW u \in People, NEW e \in Addresses, Register(u, e) PROVE KeysOwned'
  BY <1>2, AddOwned DEF Register
<1>3. ASSUME NEW a \in People, NEW u \in People, NEW e \in Addresses,
             NEW role \in {"USER", "ADMIN"}, NEW v \in BOOLEAN, AdminCreates(a, u, e, role, v)
      PROVE  KeysOwned'
  BY <1>3, AddOwned DEF AdminCreates
<1>4. ASSUME NEW r \in Requests, VerifyCommit(r) PROVE KeysOwned'
  <2>1. PICK u : u = request[r].of
    OBVIOUS
  <2>2. u \in People
    BY <1>4, <2>1 DEF VerifyCommit, AccountsInv, AccountsTypes
  <2>3. CASE UNCHANGED <<account, keys>>
    BY <1>1, <2>3
  <2>4. CASE /\ Here(u) /\ account' = [account EXCEPT ![u].is.verified = TRUE]
             /\ keys' = keys \cup {Key("verified", u, u)}
    <3>1. /\ \A x \in People : account'[x].state = account[x].state
          /\ \A k \in keys' \ keys : k.owner = u
      BY <2>2, <2>4 DEF Key, AccountsInv, AccountsTypes, AccountRows
    <3>2. QED
      BY <2>2, <2>4, <3>1, OwnersStay DEF Here
  <2>5. QED
    BY <1>4, <2>1, <2>3, <2>4 DEF VerifyCommit
<1>5. ASSUME NEW r \in Requests, UpdateCommit(r) PROVE KeysOwned'
  <2>1. PICK u : u = request[r].of
    OBVIOUS
  <2>2. UNCHANGED keys /\ (UNCHANGED account \/ \E is : account' = [account EXCEPT ![u].is = is])
    BY <1>5, <2>1 DEF UpdateCommit
  <2>3. \A x \in People : account'[x].state = account[x].state
    BY <2>2 DEF AccountsInv, AccountsTypes, AccountRows
  <2>4. QED
    BY <2>2, <2>3 DEF KeysOwned, Here
<1>6. ASSUME NEW r \in Requests, DeleteCommit(r) PROVE KeysOwned'
  <2>1. PICK u : u = request[r].of
    OBVIOUS
  <2>2. CASE UNCHANGED <<account, keys>>
    BY <1>1, <2>2
  <2>3. CASE /\ account' = [account EXCEPT ![u] = Row("gone", Blank)]
             /\ keys' = {k \in keys : k.owner # u}
    <3>1. \A x \in People : x # u => account'[x] = account[x]
      BY <2>3 DEF AccountsInv, AccountsTypes
    <3>2. QED
      BY <2>3, <3>1 DEF KeysOwned, Here
  <2>4. QED
    BY <1>6, <2>1, <2>2, <2>3 DEF DeleteCommit
<1>7. QED
  BY <1>1, <1>2, <1>3, <1>4, <1>5, <1>6
     DEF AccountsNext, accountsVars, Commits, Resend, Expire, OpenForm, Verify, Delete,
         SaveForm, Patch, CountWrong

\* Accounts, codes and the journal stay what they are, and everything that is
\* in the journal belongs to an account there is (deleteUser of
\* admin.service.ts, which takes the account's part of it along).
THEOREM AccountsStayTyped == AccountsSpec => []AccountsTypeOK
<1> DEFINE All == AccountsInv /\ CodesInv /\ KeysOwned
<1>1. All => AccountsTypeOK
  <2> SUFFICES ASSUME All PROVE AccountsTypeOK
    OBVIOUS
  <2>1. ASSUME NEW u \in People, NEW i \in DOMAIN codes[u] PROVE codes[u][i] \in CodeRows
    BY <2>1 DEF CodesInv, CodesTyped
  <2>2. ASSUME NEW u \in People
        PROVE  account[u].state \in {"new", "here", "gone"} /\ account[u].is \in UserFields
    BY <2>2 DEF AccountsInv, AccountsTypes, AccountRows
  <2>3. QED
    BY <2>1, <2>2 DEF AccountsTypeOK, KeysOwned, CodeRows
<1>2. AccountsInit => All
  <2>1. AccountsInit => KeysOwned
    BY DEF AccountsInit, KeysOwned
  <2>2. QED
    BY <2>1, AccountsInvInit, CodesInvInit
<1>3. All /\ [AccountsNext]_accountsVars => All'
  BY AccountsInvNext, CodesInvNext, KeysOwnedNext
<1>4. QED
  BY <1>1, <1>2, <1>3, PTL DEF AccountsSpec
=============================================================================
