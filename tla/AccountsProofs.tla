--------------------------- MODULE AccountsProofs ---------------------------
(***************************************************************************)
(* What the account promises rest on, for any number of registrations,     *)
(* phones, logins and any limit: the rows of the users table, committed or *)
(* being inserted, differ in phone and in account number.                  *)
(***************************************************************************)
EXTENDS Accounts, FiniteSetTheorems, TLAPS

(* A committed row is the one its registration inserted.                   *)
RowsInv == \A u \in users : reg[u.id].step = "done" /\ u = User(u.id)

(* The UNIQUE indexes, over open transactions too.                         *)
HoldersInv ==
    \A r \in Registrations : Holds(r) =>
        /\ \A q \in Registrations : Holds(q) /\ Same(User(q), User(r)) => q = r
        /\ \A u \in users : ~Same(u, User(r))

RegInv == RowsInv /\ HoldersInv /\ AccountsAreWhole

LoginInv == LoginGuessesBounded /\ LoginCounterWillExpire

AccountsInv == TypeOK /\ RegInv /\ LoginInv

(* Before any registration or login there is nothing to hold.              *)
LEMMA AccountsInit == Init => AccountsInv
<1> SUFFICES ASSUME Init PROVE AccountsInv
  OBVIOUS
<1>1. TypeOK
  <2>1. /\ users = {} /\ funded = {} /\ ttl \in BOOLEAN /\ faulted \in BOOLEAN
        /\ expire_lost \in BOOLEAN
    BY DEF Init
  <2>2. (CHOOSE n \in AccountNumbers : TRUE) \in AccountNumbers
    BY AccountsAssumption
  <2>3. reg \in [Registrations ->
                  [step : {"idle", "checked", "inserted", "funded", "done"}, phone : Phones,
                   account : AccountNumbers, answer : {"none", "created", "conflict", "error"}]]
    BY <2>2, AccountsAssumption DEF Init
  <2>4. pc \in [Attempts -> {"idle", "get", "fetch", "verify", "incr", "expire", "del"}]
    BY DEF Init
  <2>5. failures \in Nat /\ made \in 0..MaxAttempts
    BY AccountsAssumption DEF Init
  <2>6. QED
    BY <2>1, <2>3, <2>4, <2>5 DEF TypeOK
<1>2. RegInv
  BY DEF Init, RegInv, RowsInv, HoldersInv, Holds, AccountsAreWhole
<1>3. Deciding = {} /\ failures = 0
  BY DEF Init, Deciding
<1>4. IsFiniteSet(Attempts) /\ MAX_LOGIN_FAILURES \in Nat \ {0}
  BY AccountsAssumption
<1>5. Cardinality(Attempts) \in Nat /\ Cardinality(Deciding) = 0
  BY <1>3, <1>4, FS_CardinalityType, FS_EmptySet
<1>6. LoginInv
  BY <1>3, <1>4, <1>5 DEF LoginInv, LoginGuessesBounded, LoginCounterWillExpire
<1>7. QED
  BY <1>1, <1>2, <1>6 DEF AccountsInv

(* The steps of a registration, and those of a login.                      *)
RegStep(r) ==
    CheckPhone(r) \/ InsertUser(r) \/ FundAccount(r) \/ CommitRegistration(r) \/ FailRegistration(r)
LoginStep(a) ==
    \/ Login(a) \/ GetFailures(a) \/ FetchUser(a) \/ VerifyPassword(a) \/ IncrFailures(a)
    \/ ExpireFailures(a) \/ DelFailures(a) \/ DropLogin(a)
-----------------------------------------------------------------------------
(* What a step does to the record of its registration.                     *)
LEMMA RegTypes ==
    ASSUME TypeOK, NEW r \in Registrations, RegStep(r)
    PROVE  TypeOK'
<1> DEFINE Rec == [step : {"idle", "checked", "inserted", "funded", "done"}, phone : Phones,
                   account : AccountNumbers, answer : {"none", "created", "conflict", "error"}]
<1>1. reg \in [Registrations -> Rec] /\ reg[r] \in Rec
  BY DEF TypeOK
<1>2. reg' \in [Registrations -> Rec]
  <2>1. CASE CheckPhone(r)
    <3>1. PICK p \in Phones, n \in AccountNumbers :
            reg' = [reg EXCEPT ![r] =
                      IF Registered(p)
                      THEN [@ EXCEPT !.step = "done", !.answer = "conflict"]
                      ELSE [@ EXCEPT !.step = "checked", !.phone = p, !.account = n]]
      BY <2>1 DEF CheckPhone
    <3>2. QED
      BY <1>1, <3>1
  <2>2. CASE ~CheckPhone(r)
    <3>1. PICK step \in {"inserted", "funded", "done"}, ans \in {"none", "created", "error"} :
            reg' = [reg EXCEPT ![r].step = step, ![r].answer = ans]
      BY <2>2 DEF RegStep, InsertUser, FundAccount, CommitRegistration, FailRegistration, Advance
    <3>2. QED
      BY <1>1, <3>1
  <2>3. QED
    BY <2>1, <2>2
<1>3. /\ users' \subseteq [id : Registrations, phone : Phones, account : AccountNumbers]
      /\ funded' \subseteq Registrations
  <2>1. User(r) \in [id : Registrations, phone : Phones, account : AccountNumbers]
    BY <1>1 DEF User
  <2>2. users' \in {users, users \cup {User(r)}} /\ funded' \in {funded, funded \cup {r}}
    BY DEF RegStep, CheckPhone, InsertUser, FundAccount, CommitRegistration, FailRegistration
  <2>3. QED
    BY <2>1, <2>2 DEF TypeOK
<1>4. UNCHANGED loginVars
  BY DEF RegStep, CheckPhone, InsertUser, FundAccount, CommitRegistration, FailRegistration
<1>5. QED
  BY <1>2, <1>3, <1>4 DEF TypeOK, loginVars, faultVars

(* A step of r leaves the other registrations alone, and every row of the  *)
(* table but the one that COMMIT adds.                                     *)
LEMMA OtherRegistrations ==
    ASSUME TypeOK, NEW r \in Registrations, RegStep(r)
    PROVE  /\ \A q \in Registrations : q # r => reg'[q] = reg[q]
           /\ \A q \in Registrations : q # r => User(q)' = User(q) /\ (Holds(q)' <=> Holds(q))
<1>1. \A q \in Registrations : q # r => reg'[q] = reg[q]
  BY DEF RegStep, CheckPhone, InsertUser, FundAccount, CommitRegistration, FailRegistration,
         Advance, TypeOK
<1>2. QED
  BY <1>1 DEF User, Holds

(* A step of a registration keeps the registrations consistent.            *)
LEMMA RegSteps ==
    ASSUME TypeOK, RegInv, NEW r \in Registrations, RegStep(r)
    PROVE  RegInv'
<1>1. /\ \A q \in Registrations : q # r => reg'[q] = reg[q]
      /\ \A q \in Registrations : q # r => User(q)' = User(q) /\ (Holds(q)' <=> Holds(q))
  BY OtherRegistrations
<1>2. /\ reg[r].step # "done"
      /\ \A u \in users : u.id \in Registrations /\ u.id # r
  BY DEF RegStep, CheckPhone, InsertUser, FundAccount, CommitRegistration, FailRegistration,
         RegInv, RowsInv, TypeOK
<1>3. CASE CheckPhone(r) \/ FailRegistration(r)
  <2>1. ~Holds(r)' /\ reg'[r].answer \in {reg[r].answer, "conflict", "error"}
    <3>1. CASE CheckPhone(r)
      <4>1. PICK p \in Phones, n \in AccountNumbers :
              reg'[r] = IF Registered(p)
                        THEN [reg[r] EXCEPT !.step = "done", !.answer = "conflict"]
                        ELSE [reg[r] EXCEPT !.step = "checked", !.phone = p, !.account = n]
        BY <3>1 DEF CheckPhone, TypeOK
      <4>2. /\ reg'[r].step \in {"done", "checked"}
            /\ reg'[r].answer \in {reg[r].answer, "conflict"}
        BY <4>1 DEF TypeOK
      <4>3. QED
        BY <4>2 DEF Holds
    <3>2. CASE FailRegistration(r)
      BY <3>2 DEF FailRegistration, Advance, Holds, TypeOK
    <3>3. QED
      BY <1>3, <3>1, <3>2
  <2>2. UNCHANGED <<users, funded>>
    BY <1>3 DEF CheckPhone, FailRegistration
  <2>3. QED
    BY <1>1, <1>2, <2>1, <2>2 DEF RegInv, RowsInv, HoldersInv, AccountsAreWhole
<1>4. CASE InsertUser(r) \/ FundAccount(r)
  <2>1. /\ User(r)' = User(r)
        /\ reg'[r].answer \in {"none", "error"}
        /\ UNCHANGED <<users, funded>>
    BY <1>4 DEF InsertUser, FundAccount, Advance, User, TypeOK
  <2>2. Holds(r)' => /\ \A q \in Registrations : Holds(q) /\ Same(User(q), User(r)) => q = r
                     /\ \A u \in users : ~Same(u, User(r))
    BY <1>4 DEF InsertUser, FundAccount, Advance, Holds, TypeOK, RegInv, HoldersInv
  <2>3. RowsInv'
    BY <1>1, <1>2, <2>1 DEF RegInv, RowsInv
  <2>4. HoldersInv'
    BY <1>1, <2>1, <2>2 DEF RegInv, HoldersInv, Same
  <2>5. AccountsAreWhole'
    BY <1>1, <2>1 DEF RegInv, AccountsAreWhole
  <2>6. QED
    BY <2>3, <2>4, <2>5 DEF RegInv
<1>5. CASE CommitRegistration(r)
  <2>1. /\ User(r)' = User(r) /\ User(r).id = r
        /\ Holds(r) /\ ~Holds(r)' /\ reg'[r].step = "done"
        /\ users' = users \cup {User(r)}
        /\ funded' = funded \cup {r}
    BY <1>5 DEF CommitRegistration, Advance, User, Holds, TypeOK
  <2>2. RowsInv'
    BY <1>1, <1>2, <2>1 DEF RegInv, RowsInv
  <2>3. HoldersInv'
    BY <1>1, <2>1 DEF RegInv, HoldersInv, Same
  <2>4. AccountsAreWhole'
    BY <1>1, <2>1 DEF RegInv, HoldersInv, AccountsAreWhole, Same
  <2>5. QED
    BY <2>2, <2>3, <2>4 DEF RegInv
<1>6. QED
  BY <1>3, <1>4, <1>5 DEF RegStep
-----------------------------------------------------------------------------
(* A login keeps its variables to their types.                             *)
LEMMA LoginTypes ==
    ASSUME TypeOK, NEW a \in Attempts, LoginStep(a)
    PROVE  TypeOK'
<1>1. UNCHANGED regVars
  BY DEF LoginStep, Login, GetFailures, FetchUser, VerifyPassword, IncrFailures, ExpireFailures,
         DelFailures, DropLogin
<1>2. pc' \in [Attempts -> {"idle", "get", "fetch", "verify", "incr", "expire", "del"}]
  BY DEF LoginStep, Login, GetFailures, FetchUser, VerifyPassword, IncrFailures, ExpireFailures,
         DelFailures, DropLogin, Goto, TypeOK
<1>3. failures' \in Nat
  BY DEF LoginStep, Login, GetFailures, FetchUser, VerifyPassword, IncrFailures, ExpireFailures,
         DelFailures, DropLogin, TypeOK
<1>4. made' \in 0..MaxAttempts
  BY AccountsAssumption
  DEF LoginStep, Login, GetFailures, FetchUser, VerifyPassword, IncrFailures, ExpireFailures,
      DelFailures, DropLogin, TypeOK
<1>5. ttl' \in BOOLEAN
  <2>1. (failures > 0) \in BOOLEAN
    OBVIOUS
  <2>2. QED
    BY <2>1 DEF LoginStep, Login, GetFailures, FetchUser, VerifyPassword, IncrFailures,
                ExpireFailures, DelFailures, DropLogin, TypeOK
<1>6. faulted' \in BOOLEAN /\ expire_lost' \in BOOLEAN
  BY DEF faultVars, LoginStep, Login, GetFailures, FetchUser, VerifyPassword, IncrFailures,
         ExpireFailures, DelFailures, DropLogin, TypeOK
<1>7. QED
  BY <1>1, <1>2, <1>3, <1>4, <1>5, <1>6 DEF TypeOK, regVars

(* The set of attempts still to be decided, and how a step changes it.     *)
LEMMA DecidingType ==
    /\ IsFiniteSet(Deciding)
    /\ Cardinality(Deciding) \in Nat
    /\ Cardinality(Attempts) \in Nat
    /\ Cardinality(Deciding) <= Cardinality(Attempts)
<1>1. IsFiniteSet(Attempts) /\ Deciding \in SUBSET Attempts
  BY AccountsAssumption DEF Deciding
<1>2. IsFiniteSet(Deciding) /\ Cardinality(Deciding) <= Cardinality(Attempts)
  BY <1>1, FS_Subset
<1>3. QED
  BY <1>1, <1>2, FS_CardinalityType

(* When no attempt joins the deciding ones they are no more than before.   *)
LEMMA DecidingShrinks ==
    ASSUME Deciding' \subseteq Deciding
    PROVE  Cardinality(Deciding)' \in Nat /\ Cardinality(Deciding)' <= Cardinality(Deciding)
<1>1. IsFiniteSet(Deciding) /\ Deciding' \in SUBSET Deciding
  BY DecidingType
<1>2. IsFiniteSet(Deciding') /\ Cardinality(Deciding') <= Cardinality(Deciding)
  BY <1>1, FS_Subset
<1>3. QED
  BY <1>2, FS_CardinalityType

(* An attempt is let in below the limit, when all the others may have been *)
(* let in before; after that each failure counted uses up one of them.     *)
LEMMA LoginBounded ==
    ASSUME TypeOK, LoginInv, NEW a \in Attempts, LoginStep(a)
    PROVE  LoginGuessesBounded'
<1> USE AccountsAssumption, DecidingType DEF TypeOK
<1> SUFFICES ASSUME ~faulted'
             PROVE  failures' + Cardinality(Deciding)'
                        <= MAX_LOGIN_FAILURES - 1 + Cardinality(Attempts)
  BY DEF LoginGuessesBounded
<1>1. /\ failures \in Nat /\ MAX_LOGIN_FAILURES \in Nat \ {0}
      /\ Cardinality(Attempts) \in Nat /\ Cardinality(Deciding) \in Nat
  OBVIOUS
<1>2. ~faulted
  BY DEF faultVars, LoginStep, Login, GetFailures, FetchUser, VerifyPassword, IncrFailures,
         ExpireFailures, DelFailures, DropLogin
<1>3. failures + Cardinality(Deciding) <= MAX_LOGIN_FAILURES - 1 + Cardinality(Attempts)
  BY <1>2 DEF LoginInv, LoginGuessesBounded
<1>4. CASE GetFailures(a) /\ failures < MAX_LOGIN_FAILURES
  <2>1. failures' = failures
    BY <1>4 DEF GetFailures
  <2>2. IsFiniteSet(Attempts) /\ Deciding' \in SUBSET Attempts
    BY DEF Deciding
  <2>3. IsFiniteSet(Deciding') /\ Cardinality(Deciding') <= Cardinality(Attempts)
    BY <2>2, FS_Subset
  <2>4. Cardinality(Deciding') \in Nat
    BY <2>3, FS_CardinalityType
  <2>5. QED
    BY ONLY <1>1, <1>4, <2>1, <2>3, <2>4
<1>5. CASE IncrFailures(a)
  <2>1. failures' = failures + 1
    BY <1>2, <1>5 DEF IncrFailures
  <2>2. a \in Deciding /\ Deciding' = Deciding \ {a}
    BY <1>5 DEF IncrFailures, Goto, Deciding
  <2>3. IsFiniteSet(Deciding') /\ Cardinality(Deciding') = Cardinality(Deciding) - 1
    BY <2>2, FS_RemoveElement
  <2>4. QED
    BY ONLY <1>1, <1>3, <2>1, <2>3
<1>6. CASE ~IncrFailures(a) /\ ~(GetFailures(a) /\ failures < MAX_LOGIN_FAILURES)
  <2>1. failures' \in {failures, 0}
    BY <1>6 DEF LoginStep, Login, GetFailures, FetchUser, VerifyPassword, ExpireFailures,
                DelFailures, DropLogin
  <2>2. Deciding' \subseteq Deciding
    BY <1>2, <1>6 DEF LoginStep, Login, GetFailures, FetchUser, VerifyPassword, ExpireFailures,
                      DelFailures, DropLogin, Goto, Deciding
  <2>3. Cardinality(Deciding)' \in Nat /\ Cardinality(Deciding)' <= Cardinality(Deciding)
    BY <2>2, DecidingShrinks
  <2>4. QED
    BY ONLY <1>1, <1>3, <2>1, <2>3
<1>7. QED
  BY <1>4, <1>5, <1>6

(* A counted failure is followed by EXPIRE, unless that is lost; nothing   *)
(* takes a TTL back but the end of the counter.                            *)
LEMMA LoginExpires ==
    ASSUME TypeOK, LoginInv, NEW a \in Attempts, LoginStep(a)
    PROVE  LoginCounterWillExpire'
<1> USE DEF TypeOK, LoginInv, LoginCounterWillExpire, Goto, faultVars
<1>1. CASE Login(a) \/ GetFailures(a) \/ FetchUser(a) \/ VerifyPassword(a)
  BY <1>1 DEF Login, GetFailures, FetchUser, VerifyPassword
<1>2. CASE IncrFailures(a)
  BY <1>2 DEF IncrFailures
<1>3. CASE ExpireFailures(a)
  BY <1>3 DEF ExpireFailures
<1>4. CASE DelFailures(a)
  BY <1>4 DEF DelFailures
<1>5. CASE DropLogin(a)
  <2>1. UNCHANGED <<failures, ttl>> /\ expire_lost' = (expire_lost \/ pc[a] = "expire")
    BY <1>5 DEF DropLogin
  <2>2. \A b \in Attempts : b # a => pc'[b] = pc[b]
    BY <1>5 DEF DropLogin
  <2>3. QED
    BY <2>1, <2>2
<1>6. QED
  BY <1>1, <1>2, <1>3, <1>4, <1>5 DEF LoginStep
-----------------------------------------------------------------------------
(* Every step keeps the invariant.                                         *)
LEMMA AccountsSteps == AccountsInv /\ [Next]_vars => AccountsInv'
<1> SUFFICES ASSUME AccountsInv, [Next]_vars PROVE AccountsInv'
  OBVIOUS
<1> USE DEF AccountsInv
<1>1. ASSUME NEW r \in Registrations, RegStep(r)
      PROVE  AccountsInv'
  <2>1. UNCHANGED loginVars
    BY <1>1 DEF RegStep, CheckPhone, InsertUser, FundAccount, CommitRegistration, FailRegistration
  <2>2. LoginInv'
    BY <2>1 DEF LoginInv, LoginGuessesBounded, LoginCounterWillExpire, Deciding, loginVars,
                faultVars
  <2>3. QED
    BY <1>1, <2>2, RegTypes, RegSteps
<1>2. ASSUME UNCHANGED regVars
      PROVE  RegInv'
  BY <1>2 DEF regVars, RegInv, RowsInv, HoldersInv, AccountsAreWhole, Holds, User
<1>3. ASSUME NEW a \in Attempts, LoginStep(a)
      PROVE  AccountsInv'
  <2>1. UNCHANGED regVars
    BY <1>3 DEF LoginStep, Login, GetFailures, FetchUser, VerifyPassword, IncrFailures,
                ExpireFailures, DelFailures, DropLogin
  <2>2. QED
    BY <1>2, <1>3, <2>1, LoginTypes, LoginBounded, LoginExpires DEF LoginInv
<1>4. CASE Timeout
  <2>1. TypeOK' /\ UNCHANGED regVars
    BY <1>4 DEF Timeout, TypeOK, regVars
  <2>2. Deciding' \subseteq Deciding /\ failures' = 0
    BY <1>4 DEF Timeout, Deciding
  <2>3. Cardinality(Deciding)' \in Nat /\ Cardinality(Deciding)' <= Cardinality(Deciding)
    BY <2>2, DecidingShrinks
  <2>4. LoginInv'
    BY <2>2, <2>3, DecidingType, AccountsAssumption
    DEF LoginInv, LoginGuessesBounded, LoginCounterWillExpire
  <2>5. QED
    BY <1>2, <2>1, <2>4
<1>5. CASE UNCHANGED vars
  <2>1. UNCHANGED <<users, funded, reg, failures, ttl, pc, made, faulted, expire_lost>>
    BY <1>5 DEF vars, regVars, loginVars, faultVars
  <2>2. QED
    BY <1>2, <2>1 DEF regVars, TypeOK, LoginInv, LoginGuessesBounded, LoginCounterWillExpire,
                      Deciding
<1>6. QED
  BY <1>1, <1>3, <1>4, <1>5 DEF Next, RegStep, LoginStep

(* So it holds in every state.                                             *)
LEMMA AccountsInvariance == Spec => []AccountsInv
BY AccountsInit, AccountsSteps, PTL DEF Spec

(* The users, the counters and the open requests of registration and login *)
(* keep to their types in every interleaving.                              *)
THEOREM AccountTypes == Spec => []TypeOK
<1>1. AccountsInv => TypeOK
  BY DEF AccountsInv
<1>2. QED
  BY <1>1, AccountsInvariance, PTL

(* Registrations that race on a phone or an account number leave one       *)
(* account each at most, whole or not at all, and "created" is true.       *)
THEOREM AccountsWhole == Spec => []AccountsAreWhole
<1>1. AccountsInv => AccountsAreWhole
  BY DEF AccountsInv, RegInv
<1>2. QED
  BY <1>1, AccountsInvariance, PTL

(* The failed logins counted for a phone before its lockout exceed the     *)
(* limit by at most the attempts in flight beside the one that reached it. *)
THEOREM LoginGuesses == Spec => []LoginGuessesBounded
<1>1. AccountsInv => LoginGuessesBounded
  BY DEF AccountsInv, LoginInv
<1>2. QED
  BY <1>1, AccountsInvariance, PTL

(* A failure counter that is not zero expires, or is about to be told to,  *)
(* unless an EXPIRE was lost and none has arrived since.                   *)
THEOREM LoginCounterExpires == Spec => []LoginCounterWillExpire
<1>1. AccountsInv => LoginCounterWillExpire
  BY DEF AccountsInv, LoginInv
<1>2. QED
  BY <1>1, AccountsInvariance, PTL
-----------------------------------------------------------------------------
(* Whom an identifier reaches among the users U: a match of least rank.    *)
Found(U, i) == {u \in U : Rank(u, i) < 4}
Best(U, i) == CHOOSE u \in Found(U, i) : \A v \in Found(U, i) : Rank(u, i) <= Rank(v, i)

(* The rank of a match, column by column.                                  *)
LEMMA RankCases ==
    ASSUME NEW u, NEW i
    PROVE  /\ Rank(u, i) \in 0..4
           /\ Rank(u, i) \in {0, 1} <=> u.account = i
           /\ Rank(u, i) \in {0, 2} => u.phone = Normal[i]
           /\ Rank(u, i) = 2 <=> u.account # i /\ u.phone = Normal[i]
           /\ Rank(u, i) = 3 => u.phone = i
BY DEF Rank

(* What the query returns is a match of the least rank.                    *)
LEMMA BestIsLeast ==
    ASSUME NEW U, NEW i, Found(U, i) # {}
    PROVE  Best(U, i) \in Found(U, i) /\ \A v \in Found(U, i) : Rank(Best(U, i), i) <= Rank(v, i)
<1> DEFINE Least(u) == \A v \in Found(U, i) : Rank(u, i) <= Rank(v, i)
<1>1. \A u \in Found(U, i) : Rank(u, i) \in {0, 1, 2, 3}
  BY RankCases DEF Found
<1>2. \E u \in Found(U, i) : Least(u)
  <2>1. CASE \E u \in Found(U, i) : Rank(u, i) = 0
    BY <1>1, <2>1
  <2>2. CASE (\A u \in Found(U, i) : Rank(u, i) # 0) /\ \E u \in Found(U, i) : Rank(u, i) = 1
    BY <1>1, <2>2
  <2>3. CASE /\ \A u \in Found(U, i) : Rank(u, i) \notin {0, 1}
             /\ \E u \in Found(U, i) : Rank(u, i) = 2
    BY <1>1, <2>3
  <2>4. CASE \A u \in Found(U, i) : Rank(u, i) \notin {0, 1, 2}
    BY <1>1, <2>4
  <2>5. QED
    BY <2>1, <2>2, <2>3, <2>4
<1>3. QED
  BY <1>2 DEF Best

(* Users of one rank for one identifier share a phone or an account number. *)
LEMMA EqualRanks ==
    ASSUME NEW u, NEW v, NEW i, Rank(u, i) = Rank(v, i), Rank(u, i) < 4
    PROVE  Same(u, v)
<1>1. Rank(u, i) \in {0, 1, 2, 3}
  BY RankCases
<1>2. QED
  BY <1>1, RankCases DEF Same

(* The account that takes an identifier over is the new one, and it takes  *)
(* it over by a match that no older account has.                           *)
LEMMA TakeOver ==
    ASSUME AccountsInv, NEW r \in Registrations, CommitRegistration(r), AccountsAreWhole',
           NEW i \in Ids, Found(users, i) # {}, Best(users', i).id # Best(users, i).id
    PROVE  /\ ~\E u \in users : u.account = i
           /\ \E u \in users' \ users : /\ u.id = Best(users', i).id
                                        /\ u.phone = Normal[i] \/ u.account = i
           /\ \A u \in users : u.id = Best(users, i).id /\ u.phone = Normal[i] =>
                 \E v \in users' \ users : v.account = i
<1> DEFINE old == Best(users, i)
           new == Best(users', i)
<1>1. users' = users \cup {User(r)}
  BY DEF CommitRegistration
<1>2. /\ old \in Found(users, i)
      /\ \A v \in Found(users, i) : Rank(old, i) <= Rank(v, i)
  BY BestIsLeast
<1>3. Found(users, i) \subseteq Found(users', i)
  BY <1>1 DEF Found
<1>4. /\ new \in Found(users', i)
      /\ \A v \in Found(users', i) : Rank(new, i) <= Rank(v, i)
  BY <1>2, <1>3, BestIsLeast
<1>5. \A u, v \in users' : Same(u, v) => u = v
  BY DEF AccountsAreWhole
<1>6. old \in users /\ new \in users' /\ old \in users' /\ new # old
  BY <1>1, <1>2, <1>4 DEF Found
<1>7. Rank(new, i) <= Rank(old, i) /\ Rank(old, i) < 4 /\ Rank(new, i) < 4
  BY <1>2, <1>3, <1>4 DEF Found
<1>8. Rank(new, i) < Rank(old, i)
  <2>1. ~Same(new, old)
    BY <1>5, <1>6
  <2>2. Rank(new, i) # Rank(old, i)
    BY <1>7, <2>1, EqualRanks
  <2>3. QED
    BY <1>7, <2>2, RankCases
<1>9. new \in users' \ users
  <2>1. ASSUME new \in users PROVE FALSE
    <3>1. new \in Found(users, i)
      BY <1>7, <2>1 DEF Found
    <3>2. QED
      BY <1>2, <1>8, <3>1, RankCases
  <2>2. QED
    BY <1>6, <2>1
<1>10. ASSUME NEW u \in users, u.account = i PROVE FALSE
  <2>1. Rank(u, i) \in {0, 1} /\ u \in Found(users, i)
    BY <1>10, RankCases DEF Found
  <2>2. Rank(old, i) \in {0, 1} /\ Rank(new, i) \in {0, 1}
    BY <1>2, <1>8, <2>1, RankCases
  <2>3. new.account = i
    BY <2>2, RankCases
  <2>4. QED
    BY <1>1, <1>5, <1>6, <1>9, <1>10, <2>3 DEF Same
<1>11. Rank(new, i) \in {0, 1, 2}
  BY <1>7, <1>8, RankCases
<1>12. new.phone = Normal[i] \/ new.account = i
  BY <1>11, RankCases
<1>13. ASSUME NEW u \in users, u.id = old.id, u.phone = Normal[i]
       PROVE  new.account = i
  <2>1. u = old
    BY <1>6, <1>13 DEF AccountsInv, RegInv, RowsInv
  <2>2. Rank(old, i) = 2
    BY <1>10, <1>13, <2>1, RankCases
  <2>3. Rank(new, i) \in {0, 1}
    BY <1>8, <1>11, <2>2
  <2>4. QED
    BY <2>3, RankCases
<1>14. QED
  BY <1>9, <1>10, <1>12, <1>13

(* A payer who repeats an identifier pays the same person, unless somebody *)
(* has since registered exactly what the identifier stands for.            *)
THEOREM ResolutionStable == Spec => ResolutionIsStable
<1> DEFINE Stable(i) ==
      Resolve(i) \notin {Nobody, Resolve(i)'} =>
          /\ ~\E u \in users : u.account = i
          /\ \E u \in users' \ users : u.id = Resolve(i)' /\ (u.phone = Normal[i] \/ u.account = i)
          /\ \A u \in users : u.id = Resolve(i) /\ u.phone = Normal[i] =>
                \E v \in users' \ users : v.account = i
<1>1. ASSUME AccountsInv, AccountsInv', [Next]_vars, NEW i \in Ids
      PROVE  Stable(i)
  <2>1. /\ Resolve(i) = IF Found(users, i) = {} THEN Nobody ELSE Best(users, i).id
        /\ Resolve(i)' = IF Found(users', i) = {} THEN Nobody ELSE Best(users', i).id
    BY DEF Resolve, Found, Best
  <2>2. CASE users' = users
    BY <2>1, <2>2
  <2>3. CASE users' # users
    <3>1. PICK r \in Registrations : CommitRegistration(r)
      BY <1>1, <2>3 DEF Next, vars, regVars, CheckPhone, InsertUser, FundAccount, FailRegistration,
                        Login, GetFailures, FetchUser, VerifyPassword, IncrFailures,
                        ExpireFailures, DelFailures, DropLogin, Timeout
    <3>2. AccountsAreWhole'
      BY <1>1 DEF AccountsInv, RegInv
    <3>3. users \subseteq users'
      BY <3>1 DEF CommitRegistration
    <3>4. Found(users, i) \subseteq Found(users', i)
      BY <3>3 DEF Found
    <3>5. QED
      BY <1>1, <2>1, <3>1, <3>2, <3>4, TakeOver
  <2>4. QED
    BY <2>2, <2>3
<1>2. AccountsInv /\ AccountsInv' /\ [Next]_vars => [\A i \in Ids : Stable(i)]_vars
  BY <1>1
<1>3. QED
  BY <1>2, AccountsInvariance, PTL DEF Spec, ResolutionIsStable
=============================================================================
