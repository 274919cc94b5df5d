------------------------------ MODULE Accounts ------------------------------
(***************************************************************************)
(* How accounts come to be and are found: register_user, the lookups and   *)
(* the failure counter of login_user up to an accepted password (both in   *)
(* src/src/features/auth/service.rs; Sessions goes on from there), and     *)
(* resolve_recipient_user of src/src/features/users/service.rs.            *)
(*                                                                         *)
(* Phones are strings: registration and login only trim them, so different *)
(* spellings of one number are different phones, and one may read like an  *)
(* account number.  Only the lookup of a recipient normalises; Normal maps *)
(* a string to what normalize_phone makes of it.  Names, passwords and     *)
(* PINs are left out; a password is right or wrong.  No code sets a user's *)
(* status, so every user is active.                                        *)
(***************************************************************************)
EXTENDS Integers, FiniteSets

CONSTANTS
    Registrations,      \* requests to register; also the ids of the users they make
    Phones,
    AccountNumbers,     \* drawn at random by generate_account_number
    Normal,             \* normalize_phone
    LoginPhone,         \* the counter lf:<phone> that the attempts share
    Attempts,           \* login requests in flight
    MAX_LOGIN_FAILURES,
    MaxAttempts,        \* bound on the attempts of a behaviour
    Nobody

Ids == Phones \cup AccountNumbers               \* what a payer may type

ASSUME AccountsAssumption ==
    /\ Normal \in [Ids -> Ids]
    /\ \A i \in Ids : Normal[Normal[i]] = Normal[i]
    /\ LoginPhone \in Phones
    /\ MAX_LOGIN_FAILURES \in Nat \ {0}
    /\ MaxAttempts \in Nat
    /\ IsFiniteSet(Attempts)
    /\ AccountNumbers # {}
    /\ Nobody \notin Registrations

VARIABLES
    users,              \* committed rows of users
    funded,             \* users with committed balance, ledger and tx_history rows
    reg,                \* the registrations
    failures, ttl,      \* lf:<LoginPhone>, 0 when the key is absent
    pc,                 \* the login attempts
    made,               \* attempts made
    faulted,            \* some Redis command of a login failed or was never sent
    expire_lost         \* an EXPIRE was, and none has arrived since

regVars == <<users, funded, reg>>
faultVars == <<faulted, expire_lost>>
loginVars == <<failures, ttl, pc, made, faultVars>>
vars == <<regVars, loginVars>>

TypeOK ==
    /\ users \subseteq [id : Registrations, phone : Phones, account : AccountNumbers]
    /\ funded \subseteq Registrations
    /\ reg \in [Registrations ->
                  [step : {"idle", "checked", "inserted", "funded", "done"}, phone : Phones,
                   account : AccountNumbers, answer : {"none", "created", "conflict", "error"}]]
    /\ failures \in Nat
    /\ ttl \in BOOLEAN
    /\ pc \in [Attempts -> {"idle", "get", "fetch", "verify", "incr", "expire", "del"}]
    /\ made \in 0..MaxAttempts
    /\ faulted \in BOOLEAN
    /\ expire_lost \in BOOLEAN

Init ==
    /\ users = {}
    /\ funded = {}
    /\ reg = [r \in Registrations |->
                [step |-> "idle", phone |-> LoginPhone,
                 account |-> CHOOSE n \in AccountNumbers : TRUE, answer |-> "none"]]
    /\ failures = 0
    /\ ttl = FALSE
    /\ pc = [a \in Attempts |-> "idle"]
    /\ made = 0
    /\ faulted = FALSE
    /\ expire_lost = FALSE
-----------------------------------------------------------------------------
(* register_user.                                                          *)
Advance(r, step, answer) == reg' = [reg EXCEPT ![r].step = step, ![r].answer = answer]

User(r) == [id |-> r, phone |-> reg[r].phone, account |-> reg[r].account]
Same(u, v) == u.phone = v.phone \/ u.account = v.account

Registered(phone) == \E u \in users : u.phone = phone

(* The early duplicate check takes no lock.                                *)
CheckPhone(r) ==
    /\ reg[r].step = "idle"
    /\ \E p \in Phones, n \in AccountNumbers :
        reg' = [reg EXCEPT ![r] =
                  IF Registered(p)
                  THEN [@ EXCEPT !.step = "done", !.answer = "conflict"]
                  ELSE [@ EXCEPT !.step = "checked", !.phone = p, !.account = n]]
    /\ UNCHANGED <<users, funded, loginVars>>

Holds(r) == reg[r].step \in {"inserted", "funded"}

InsertUser_Autocommit(r) ==                     \* mutant: executed outside the transaction
    /\ reg[r].step = "checked"
    /\ ~\E u \in users : Same(u, User(r))
    /\ users' = users \cup {User(r)}
    /\ Advance(r, "inserted", "none")
    /\ UNCHANGED <<funded, loginVars>>

(* The INSERT waits for an open registration with the same phone or        *)
(* account number to end, and fails with 500 if that one committed.        *)
InsertUser(r) ==
    /\ reg[r].step = "checked"
    /\ ~\E q \in Registrations : Holds(q) /\ Same(User(q), User(r))
    /\ IF \E u \in users : Same(u, User(r))
       THEN Advance(r, "done", "error")
       ELSE Advance(r, "inserted", "none")
    /\ UNCHANGED <<users, funded, loginVars>>

(* The INSERTs of balance, ledger, tx_history and event wait for nobody    *)
(* and are seen by nobody.                                                 *)
FundAccount(r) ==
    /\ reg[r].step = "inserted"
    /\ Advance(r, "funded", "none")
    /\ UNCHANGED <<users, funded, loginVars>>

(* COMMIT; the answer may still be lost on its way.                        *)
CommitRegistration(r) ==
    /\ reg[r].step = "funded"
    /\ users' = users \cup {User(r)}
    /\ funded' = funded \cup {r}
    /\ \E answer \in {"created", "error"} : Advance(r, "done", answer)
    /\ UNCHANGED loginVars

(* Any statement fails, or the server stops: ROLLBACK.                     *)
FailRegistration(r) ==
    /\ reg[r].step \in {"checked", "inserted", "funded"}
    /\ Advance(r, "done", "error")
    /\ UNCHANGED <<users, funded, loginVars>>
-----------------------------------------------------------------------------
(* login_user, for one phone: the counters of different phones are         *)
(* different keys.                                                         *)
Goto(a, step) == pc' = [pc EXCEPT ![a] = step]

Login(a) ==
    /\ pc[a] = "idle"
    /\ made < MaxAttempts
    /\ made' = made + 1
    /\ Goto(a, "get")
    /\ UNCHANGED <<regVars, failures, ttl, faultVars>>

GetFailures_OneMore(a) ==                       \* mutant: > for >=
    /\ pc[a] = "get"
    /\ Goto(a, IF failures > MAX_LOGIN_FAILURES THEN "idle" ELSE "fetch")
    /\ UNCHANGED <<regVars, failures, ttl, made, faultVars>>

(* A failing GET reads as zero.                                            *)
GetFailures(a) ==
    /\ pc[a] = "get"
    /\ \/ /\ Goto(a, IF failures >= MAX_LOGIN_FAILURES THEN "idle" ELSE "fetch")
          /\ faulted' = faulted
       \/ /\ Goto(a, "fetch")
          /\ faulted' = TRUE
    /\ UNCHANGED <<regVars, failures, ttl, made, expire_lost>>

(* A phone without an account counts as a failure too.                     *)
FetchUser(a) ==
    /\ pc[a] = "fetch"
    /\ Goto(a, IF Registered(LoginPhone) THEN "verify" ELSE "incr")
    /\ UNCHANGED <<regVars, failures, ttl, made, faultVars>>

VerifyPassword(a) ==
    /\ pc[a] = "verify"
    /\ \E step \in {"del", "incr"} : Goto(a, step)
    /\ UNCHANGED <<regVars, failures, ttl, made, faultVars>>

IncrFailures_NoExpire(a) ==                     \* mutant: no EXPIRE for an unknown phone
    /\ pc[a] = "incr"
    /\ failures' = failures + 1
    /\ Goto(a, IF Registered(LoginPhone) THEN "expire" ELSE "idle")
    /\ UNCHANGED <<regVars, ttl, made, faultVars>>

(* Of an unknown phone or for a wrong password: the same two commands.     *)
IncrFailures(a) ==
    /\ pc[a] = "incr"
    /\ \/ failures' = failures + 1 /\ faulted' = faulted
       \/ failures' = failures /\ faulted' = TRUE
    /\ Goto(a, "expire")
    /\ UNCHANGED <<regVars, ttl, made, expire_lost>>

(* EXPIRE on an absent key does nothing.                                   *)
ExpireFailures(a) ==
    /\ pc[a] = "expire"
    /\ \/ ttl' = (failures > 0) /\ faulted' = faulted /\ expire_lost' = FALSE
       \/ ttl' = ttl /\ faulted' = TRUE /\ expire_lost' = TRUE
    /\ Goto(a, "idle")
    /\ UNCHANGED <<regVars, failures, made>>

DelFailures_Decr(a) ==                          \* mutant: DECR for DEL
    /\ pc[a] = "del"
    /\ failures' = failures - 1
    /\ Goto(a, "idle")
    /\ UNCHANGED <<regVars, ttl, made, faultVars>>

(* Success clears the counter; the session is made next.                   *)
DelFailures(a) ==
    /\ pc[a] = "del"
    /\ \/ failures' = 0 /\ ttl' = FALSE /\ faulted' = faulted /\ expire_lost' = FALSE
       \/ UNCHANGED <<failures, ttl, expire_lost>> /\ faulted' = TRUE
    /\ Goto(a, "idle")
    /\ UNCHANGED <<regVars, made>>

DropLogin(a) ==
    /\ pc[a] # "idle"
    /\ faulted' = TRUE
    /\ expire_lost' = (expire_lost \/ pc[a] = "expire")
    /\ Goto(a, "idle")
    /\ UNCHANGED <<regVars, failures, ttl, made>>

(* LOCKOUT_DURATION_SECS after the last EXPIRE.                            *)
Timeout ==
    /\ ttl
    /\ failures' = 0
    /\ ttl' = FALSE
    /\ expire_lost' = FALSE
    /\ UNCHANGED <<regVars, pc, made, faulted>>

Next ==
    \/ \E r \in Registrations : CheckPhone(r) \/ InsertUser(r) \/ FundAccount(r)
                                 \/ CommitRegistration(r) \/ FailRegistration(r)
    \/ \E a \in Attempts : Login(a) \/ GetFailures(a) \/ FetchUser(a) \/ VerifyPassword(a)
                            \/ IncrFailures(a) \/ ExpireFailures(a) \/ DelFailures(a)
                            \/ DropLogin(a)
    \/ Timeout

Spec == Init /\ [][Next]_vars
-----------------------------------------------------------------------------
(* resolve_recipient_user: account number, then normalised phone, then the *)
(* phone as typed, in the order of its ORDER BY.  Its first lookup, by the *)
(* UUID of a user, never finds one for a member of Ids: no phone or        *)
(* account number the schema holds is as long as a UUID.                   *)
Rank_RawPhone(u, i) ==                          \* mutant: ORDER BY without the two matches
    IF u.account = i \/ u.phone = i THEN 1 ELSE IF u.phone = Normal[i] THEN 2 ELSE 4

Rank(u, i) ==
    IF u.account = i THEN (IF u.phone = Normal[i] THEN 0 ELSE 1)
    ELSE IF u.phone = Normal[i] THEN 2
    ELSE IF u.phone = i THEN 3 ELSE 4

Resolve(i) ==
    LET found == {u \in users : Rank(u, i) < 4} IN
    IF found = {} THEN Nobody
    ELSE (CHOOSE u \in found : \A v \in found : Rank(u, i) <= Rank(v, i)).id
-----------------------------------------------------------------------------
(* Registrations that race on a phone or an account number leave one       *)
(* account each at most, with all its rows or with none, and a user who is *)
(* told that the account was created has it.                               *)
AccountsAreWhole ==
    /\ \A u, v \in users : Same(u, v) => u = v
    /\ funded = {u.id : u \in users}
    /\ \A r \in Registrations : reg[r].answer = "created" => r \in funded

(* However the guesses race and whether or not the phone is registered or  *)
(* becomes so meanwhile, the failures counted before a lockout exceed the  *)
(* limit by at most the attempts in flight beside the one that reached it. *)
Deciding == {a \in Attempts : pc[a] \in {"fetch", "verify", "incr"}}

LoginGuessesBounded ==
    ~faulted =>
        failures + Cardinality(Deciding) <= MAX_LOGIN_FAILURES - 1 + Cardinality(Attempts)

(* A counter that is not zero has a TTL or is about to get one, for a     *)
(* phone without an account too, unless the EXPIRE was lost; the next      *)
(* failure sends another, so what was lost before that does not matter.    *)
LoginCounterWillExpire ==
    failures > 0 => ttl \/ expire_lost \/ \E a \in Attempts : pc[a] = "expire"

(* Whom an identifier reaches changes only when somebody registers exactly *)
(* its normalised phone, or draws it as account number, and never away     *)
(* from the account whose number it is.  A payer who retries with the same *)
(* identifier otherwise pays the same person.                              *)
ResolutionIsStable ==
    [][\A i \in Ids : Resolve(i) \notin {Nobody, Resolve(i)'} =>
          /\ ~\E u \in users : u.account = i
          /\ \E u \in users' \ users : u.id = Resolve(i)' /\ (u.phone = Normal[i] \/ u.account = i)
          /\ \A u \in users : u.id = Resolve(i) /\ u.phone = Normal[i] =>
                \E v \in users' \ users : v.account = i]_vars
=============================================================================
