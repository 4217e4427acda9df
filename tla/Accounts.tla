------------------------------ MODULE Accounts ------------------------------
(***************************************************************************)
(* The accounts themselves: registration and the confirmation of an e-mail *)
(* address by code (auth.service), the administrators who edit and delete  *)
(* accounts (admin.service behind roles.guard) and the form they edit them *)
(* with (AdminUsers).                                                      *)
(*                                                                         *)
(* An update reads the account before its transaction and a verification   *)
(* its code before its own: each is two steps here.  The transactions are  *)
(* serializable.                                                           *)
(***************************************************************************)
EXTENDS Naturals, Sequences, FiniteSets

CONSTANTS
    People,         \* ids of accounts
    FirstAdmin,     \* the seeded administrator
    Addresses,      \* e-mail addresses
    HomeAddress,    \* the one of FirstAdmin
    Requests,       \* requests being served
    AttemptLimit,   \* wrong codes before a code is dead (5 in the code)
    MaxCodes,       \* bound: codes sent to an account
    MaxMade         \* bound: requests made

ASSUME AccountsAssumption ==
    /\ FirstAdmin \in People /\ HomeAddress \in Addresses
    /\ AttemptLimit \in Nat \ {0} /\ {MaxCodes, MaxMade} \subseteq Nat
    /\ IsFiniteSet(Requests)

VARIABLES
    account,    \* the rows of User: "new" and "gone" ones have no address
    codes,      \* per account: its ContactVerification rows, oldest first
    keys,       \* idempotency keys of the bonuses in PointTransaction
    form,       \* the form of AdminUsers that is open: by whom, for whom, with what
    request,    \* requests being served
    made,       \* how many requests have been made
    awarded,    \* history: e-mail bonuses an account got
    refused     \* history: an address was refused as taken and nobody had it

accountsVars == <<account, codes, keys, form, request, made, awarded, refused>>

UserFields == [email: Addresses, role: {"USER", "ADMIN"}, active: BOOLEAN, verified: BOOLEAN]
Row(state, fields) == [state |-> state, is |-> fields]
Blank == [email |-> HomeAddress, role |-> "USER", active |-> FALSE, verified |-> FALSE]
Here(u) == account[u].state = "here"
Active(u) == Here(u) /\ account[u].is.active
IsAdmin(f) == f.role = "ADMIN" /\ f.active
Admins == {u \in People : Here(u) /\ IsAdmin(account[u].is)}
Taken(e) == \E u \in People : Here(u) /\ account[u].is.email = e

Welcome(e) == \E k \in keys : k.type = "welcome" /\ k.of = e
Key(type, of, u) == [type |-> type, of |-> of, owner |-> u]

Make == made < MaxMade /\ made' = made + 1

NoForm == [open |-> FALSE]
NotServed == [pc |-> "idle"]
Code(e) == [to |-> e, wrong |-> 0, tried |-> 0, open |-> TRUE]

AccountsInit ==
    /\ account = [u \in People |-> IF u = FirstAdmin
           THEN Row("here", [email |-> HomeAddress, role |-> "ADMIN", active |-> TRUE,
                             verified |-> TRUE])
           ELSE Row("new", Blank)]
    /\ codes = [u \in People |-> <<>>] /\ keys = {}
    /\ form = NoForm /\ request = [r \in Requests |-> NotServed] /\ made = 0
    /\ awarded = [u \in People |-> 0] /\ refused = FALSE

-----------------------------------------------------------------------------
(* Registration, and the codes.                                            *)

\* The unique keys decide: the address, and the journal's welcome:<address>.
AddAccount(u, e, role, verified) ==
    IF Taken(e) \/ Welcome(e)
    THEN /\ refused' = (refused \/ ~Taken(e))
         /\ UNCHANGED <<account, keys>>
    ELSE /\ account' = [account EXCEPT ![u] = Row("here",
               [email |-> e, role |-> role, active |-> TRUE, verified |-> verified])]
         /\ keys' = keys \cup {Key("welcome", e, u)}
         /\ UNCHANGED refused

\* register, with issueEmailVerification after the transaction.
Register(u, e) ==
    /\ account[u].state = "new"
    /\ AddAccount(u, e, "USER", FALSE)
    /\ codes' = IF account'[u].state = "here" THEN [codes EXCEPT ![u] = <<Code(e)>>] ELSE codes
    /\ UNCHANGED <<form, request, made, awarded>>

\* createUser of the administrator.
AdminCreates(a, u, e, role, verified) ==
    /\ a \in Admins /\ account[u].state = "new" /\ Make
    /\ AddAccount(u, e, role, verified)
    /\ UNCHANGED <<codes, form, request, awarded>>

\* resendEmailVerification.
Resend(u) ==
    /\ Make /\ Active(u) /\ ~account[u].is.verified /\ Len(codes[u]) < MaxCodes
    /\ codes' = [codes EXCEPT ![u] = Append(@, Code(account[u].is.email))]
    /\ UNCHANGED <<account, keys, form, request, awarded, refused>>

OpenCodes(u) == {i \in DOMAIN codes[u] : codes[u][i].open}
Latest(u) == CHOOSE i \in OpenCodes(u) : \A j \in OpenCodes(u) : j <= i

\* Codes live for 15 minutes.
Expire(u) ==
    /\ OpenCodes(u) # {}
    /\ LET i == CHOOSE k \in OpenCodes(u) : \A j \in OpenCodes(u) : k <= j IN
       codes' = [codes EXCEPT ![u][i].open = FALSE]
    /\ UNCHANGED <<account, keys, form, request, made, awarded, refused>>

\* Faulty variant: the limit is not looked at.
VerifyUnlimited(r, u, right) ==
    /\ request[r] = NotServed /\ Make /\ Active(u) /\ OpenCodes(u) # {}
    /\ LET i == Latest(u) IN
       /\ codes' = [codes EXCEPT ![u][i].tried =
                       IF right \/ @ > AttemptLimit + Cardinality(Requests) THEN @ ELSE @ + 1]
       /\ request' = [request EXCEPT ![r] =
                       [pc |-> IF right THEN "verified" ELSE "wrong", of |-> u, code |-> i]]
    /\ UNCHANGED <<account, keys, form, awarded, refused>>

\* verifyEmail: the latest code, read and compared.
Verify(r, u, right) ==
    /\ request[r] = NotServed /\ Make /\ Active(u) /\ OpenCodes(u) # {}
    /\ LET i == Latest(u)
           dead == codes[u][i].wrong >= AttemptLimit IN
       /\ codes' = [codes EXCEPT ![u][i].tried = IF right \/ dead THEN @ ELSE @ + 1]
       /\ request' = [request EXCEPT ![r] =
              [pc |-> IF right /\ ~dead THEN "verified" ELSE "wrong", of |-> u, code |-> i]]
    /\ UNCHANGED <<account, keys, form, awarded, refused>>

\* The attempt is counted after it was compared (up to the limit: more changes nothing).
CountWrong(r) ==
    /\ request[r].pc = "wrong"
    /\ LET u == request[r].of IN
       codes' = IF codes[u] = <<>> THEN codes
                ELSE [codes EXCEPT ![u][request[r].code].wrong =
                         IF @ < AttemptLimit THEN @ + 1 ELSE @]
    /\ request' = [request EXCEPT ![r] = NotServed]
    /\ UNCHANGED <<account, keys, form, made, awarded, refused>>

\* Faulty variant: the bonus has no key of its own.
VerifyKeyless(r) ==
    /\ request[r].pc = "verified"
    /\ LET u == request[r].of IN
       IF Here(u)
       THEN /\ account' = [account EXCEPT ![u].is.verified = TRUE]
            /\ codes' = [codes EXCEPT ![u][request[r].code].open = FALSE]
            /\ awarded' = [awarded EXCEPT ![u] = @ + 1]
       ELSE UNCHANGED <<account, codes, awarded>>
    /\ request' = [request EXCEPT ![r] = NotServed]
    /\ UNCHANGED <<keys, form, made, refused>>

\* The transaction: the address the account has by now is verified, and the
\* bonus has the key email-verified:<id>.  If there is one, nothing is done.
VerifyCommit(r) ==
    /\ request[r].pc = "verified"
    /\ LET u == request[r].of
           key == Key("verified", u, u) IN
       IF Here(u) /\ key \notin keys
       THEN /\ account' = [account EXCEPT ![u].is.verified = TRUE]
            /\ codes' = [codes EXCEPT ![u][request[r].code].open = FALSE]
            /\ keys' = keys \cup {key}
            /\ awarded' = [awarded EXCEPT ![u] = @ + 1]
       ELSE UNCHANGED <<account, codes, keys, awarded>>
    /\ request' = [request EXCEPT ![r] = NotServed]
    /\ UNCHANGED <<form, made, refused>>

-----------------------------------------------------------------------------
(* Administrators.  What is sent may have some of the fields only.         *)

Changes == [role: {"USER", "ADMIN"}] \cup [active: BOOLEAN] \cup [verified: BOOLEAN]
           \cup [email: Addresses]
Says(dto, field, value) == field \in DOMAIN dto /\ dto[field] = value
Demotes(dto) == Says(dto, "role", "USER") \/ Says(dto, "active", FALSE)

\* openEdit: the form has the whole account.
OpenForm(a, u) ==
    /\ a \in Admins /\ Here(u) /\ ~form.open
    /\ form' = [open |-> TRUE, by |-> a, of |-> u, has |-> account[u].is]
    /\ UNCHANGED <<account, codes, keys, request, made, awarded, refused>>

\* The guard of the roles, the account as it is (userDetails), the refusals.
Update(r, a, u, dto) ==
    /\ request[r] = NotServed /\ Make
    /\ a \in Admins /\ Here(u)
    /\ ~(a = u /\ Demotes(dto))
    /\ request' = [request EXCEPT ![r] = [pc |-> "update", of |-> u, dto |-> dto,
                                          current |-> account[u].is]]

Patch(r, a, u, dto) ==
    /\ Update(r, a, u, dto)
    /\ UNCHANGED <<account, codes, keys, form, awarded, refused>>

\* saveEdit sends every field, changed or not.
SaveForm(r, dto) ==
    /\ form.open /\ form' = NoForm
    /\ Update(r, form.by, form.of,
              [f \in DOMAIN form.has |-> IF f \in DOMAIN dto THEN dto[f] ELSE form.has[f]])
    /\ UNCHANGED <<account, codes, keys, awarded, refused>>

LastAdmin == Cardinality(Admins) < 2

\* Faulty variant: the administrators are not counted.
UpdateUncounted(r) ==
    /\ request[r].pc = "update"
    /\ LET u == request[r].of  dto == request[r].dto IN
       account' = IF ~Here(u) THEN account
                  ELSE [account EXCEPT ![u].is = [f \in DOMAIN @ |->
                            IF f \in DOMAIN dto THEN dto[f] ELSE @[f]]]
    /\ request' = [request EXCEPT ![r] = NotServed]
    /\ UNCHANGED <<codes, keys, form, made, awarded, refused>>

\* The transaction.  What was read before it decides whether administrators
\* are counted, and whether a new address is an unverified one.
UpdateCommit(r) ==
    /\ request[r].pc = "update"
    /\ LET u == request[r].of
           dto == request[r].dto
           current == request[r].current
           moved == "email" \in DOMAIN dto /\ dto.email # current.email
           says(f, was) == IF f \in DOMAIN dto THEN dto[f]
                           ELSE IF f = "verified" /\ moved THEN FALSE ELSE was
           lasts == IsAdmin(current) /\ Demotes(dto) /\ LastAdmin
           clash == "email" \in DOMAIN dto
                    /\ \E v \in People \ {u} : Here(v) /\ account[v].is.email = dto.email IN
       account' = IF ~Here(u) \/ lasts \/ clash THEN account
                  ELSE [account EXCEPT ![u].is = [f \in DOMAIN @ |-> says(f, @[f])]]
    /\ request' = [request EXCEPT ![r] = NotServed]
    /\ UNCHANGED <<codes, keys, form, made, awarded, refused>>

\* deleteUser: the guard, with the address its confirmation repeats.
Delete(r, a, u) ==
    /\ request[r] = NotServed /\ Make
    /\ a \in Admins /\ Here(u) /\ a # u
    /\ request' = [request EXCEPT ![r] = [pc |-> "delete", of |-> u,
                                          confirmed |-> account[u].is.email]]
    /\ UNCHANGED <<account, codes, keys, form, awarded, refused>>

\* The transaction takes the account's part of the journal with it.
DeleteCommit(r) ==
    /\ request[r].pc = "delete"
    /\ LET u == request[r].of IN
       IF /\ Here(u) /\ account[u].is.email = request[r].confirmed
          /\ ~(IsAdmin(account[u].is) /\ LastAdmin)
       THEN /\ account' = [account EXCEPT ![u] = Row("gone", Blank)]
            /\ codes' = [codes EXCEPT ![u] = <<>>]
            /\ keys' = {k \in keys : k.owner # u}
       ELSE UNCHANGED <<account, codes, keys>>
    /\ request' = [request EXCEPT ![r] = NotServed]
    /\ UNCHANGED <<form, made, awarded, refused>>

Commits(r) == CountWrong(r) \/ VerifyCommit(r) \/ UpdateCommit(r) \/ DeleteCommit(r)

AccountsNext ==
    \/ \E u \in People, e \in Addresses : Register(u, e)
    \/ \E u \in People : Resend(u) \/ Expire(u)
    \/ \E a, u \in People, e \in Addresses, role \in {"USER", "ADMIN"}, v \in BOOLEAN :
           AdminCreates(a, u, e, role, v)
    \/ \E a, u \in People : OpenForm(a, u)
    \/ \E r \in Requests :
         \/ Commits(r)
         \/ \E u \in People, right \in BOOLEAN : Verify(r, u, right)
         \/ \E a, u \in People : Delete(r, a, u)
         \/ \E dto \in Changes : SaveForm(r, dto) \/ \E a, u \in People : Patch(r, a, u, dto)

AccountsSpec == AccountsInit /\ [][AccountsNext]_accountsVars

-----------------------------------------------------------------------------
(* Properties.                                                             *)

AccountsTypeOK ==
    /\ \A u \in People :
         /\ account[u].state \in {"new", "here", "gone"} /\ account[u].is \in UserFields
         /\ \A i \in DOMAIN codes[u] :
              codes[u][i] \in [to: Addresses, wrong: 0..AttemptLimit, tried: Nat, open: BOOLEAN]
    /\ \A k \in keys : k.owner \in People /\ Here(k.owner)

\* However often the address of an account is verified, taken back by an
\* administrator and verified again, it earns one bonus.
EmailBonusOnce == \A u \in People : awarded[u] <= 1

\* A code is compared with no more wrong ones than the limit, and the requests
\* that were under way when it was reached.
GuessesBounded ==
    \A u \in People : \A i \in DOMAIN codes[u] :
        codes[u][i].tried < AttemptLimit + Cardinality(Requests)

\* The last active administrator goes only by an update that had read the
\* account before it became one.
LastAdminFalls ==
    [][Admins # {} /\ Admins' = {} =>
         \E r \in Requests : request[r].pc = "update" /\ ~IsAdmin(request[r].current)
                             /\ request'[r] = NotServed]_accountsVars

\* There is always an active administrator (admin.service.ts:117, refusing to
\* switch off the last one).
AdminRemains == Admins # {}

\* An address is refused as taken only if an account has it
\* (auth.service.ts:73).
RefusedOnlyIfTaken == ~refused

\* The right code verifies (docs/local-manual-testing-plan.md, AUTH-03).
RightCodeVerifies ==
    [][\A r \in Requests : request[r].pc = "verified" /\ request'[r] = NotServed
            /\ Here(request[r].of) => account'[request[r].of].is.verified]_accountsVars
=============================================================================
