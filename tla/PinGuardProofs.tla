--------------------------- MODULE PinGuardProofs ---------------------------
(***************************************************************************)
(* What the PIN counter and the PIN check promise, for any limit and any   *)
(* number of attempts in flight.                                           *)
(***************************************************************************)
EXTENDS PinGuard, FiniteSetTheorems, TLAPS

(* The PIN of the users row is one of those in force since any attempt     *)
(* began, and so is the one whose hash an attempt has fetched.             *)
FetchedIsCurrent ==
    \A a \in Attempts :
        /\ pin_hash \in in_force[a]
        /\ pc[a] = "verify" => fetched[a] \in in_force[a]

PinInv == TypeOK /\ FetchedIsCurrent /\ AcceptedPinIsCurrent /\ GuessesBounded
-----------------------------------------------------------------------------
(* The set of attempts still to be decided, and how a step changes it.     *)
LEMMA DecidingType ==
    /\ IsFiniteSet(Deciding)
    /\ Cardinality(Deciding) \in Nat
    /\ Cardinality(Attempts) \in Nat
    /\ Cardinality(Deciding) <= Cardinality(Attempts)
<1>1. IsFiniteSet(Attempts)
  BY PinAssumption
<1>2. Deciding \in SUBSET Attempts
  BY DEF Deciding
<1>3. IsFiniteSet(Deciding) /\ Cardinality(Deciding) <= Cardinality(Attempts)
  BY <1>1, <1>2, FS_Subset
<1>4. QED
  BY <1>1, <1>3, FS_CardinalityType

(* When no attempt joins the deciding ones they are no more than before.   *)
LEMMA DecidingShrinks ==
    ASSUME Deciding' \subseteq Deciding
    PROVE  Cardinality(Deciding)' \in Nat /\ Cardinality(Deciding)' <= Cardinality(Deciding)
<1>1. IsFiniteSet(Deciding) /\ Deciding' \in SUBSET Deciding
  BY DecidingType
<1>2. IsFiniteSet(Deciding') /\ Cardinality(Deciding') <= Cardinality(Deciding)
  BY <1>1, FS_Subset
<1>3. QED
  BY <1>2, FS_CardinalityType

(* An attempt that passes the check is one more to decide.                 *)
LEMMA DecidingJoin ==
    ASSUME NEW a \in Attempts, a \notin Deciding, Deciding' = Deciding \cup {a}
    PROVE  /\ Cardinality(Deciding)' \in Nat
           /\ Cardinality(Deciding)' <= Cardinality(Attempts)
<1>1. IsFiniteSet(Attempts) /\ Deciding' \in SUBSET Attempts
  BY PinAssumption DEF Deciding
<1>2. IsFiniteSet(Deciding') /\ Cardinality(Deciding') <= Cardinality(Attempts)
  BY <1>1, FS_Subset
<1>3. QED
  BY <1>2, FS_CardinalityType

(* An attempt that has decided is one fewer.                               *)
LEMMA DecidingLeave ==
    ASSUME NEW a \in Attempts, a \in Deciding, Deciding' = Deciding \ {a}
    PROVE  /\ Cardinality(Deciding)' \in Nat
           /\ Cardinality(Deciding)' = Cardinality(Deciding) - 1
<1>1. IsFiniteSet(Deciding)
  BY DecidingType
<1>2. /\ IsFiniteSet(Deciding')
      /\ Cardinality(Deciding') = Cardinality(Deciding) - 1
  BY <1>1, FS_RemoveElement
<1>3. QED
  BY <1>2, FS_CardinalityType
-----------------------------------------------------------------------------
(* The invariant holds before the first attempt.                           *)
LEMMA PinInit == Init => PinInv
<1> SUFFICES ASSUME Init PROVE PinInv
  OBVIOUS
<1>1. TypeOK
  <2>1. [kind |-> "pay", given |-> FirstPin, new |-> FirstPin] \in Calls
    BY PinAssumption DEF Calls
  <2>2. request \in [Attempts -> Calls]
    BY <2>1 DEF Init
  <2>3. /\ ttl \in BOOLEAN /\ faulted \in BOOLEAN /\ expire_lost \in BOOLEAN
        /\ in_force \in [Attempts -> SUBSET Pins]
    BY PinAssumption DEF Init
  <2>4. failures \in Nat /\ made \in 0..MaxAttempts
    BY PinAssumption DEF Init
  <2>5. /\ pin_hash \in Pins
        /\ pc \in [Attempts -> PinSteps]
        /\ fetched \in [Attempts -> Pins]
    BY PinAssumption DEF Init, PinSteps
  <2>6. QED
    BY <2>2, <2>3, <2>4, <2>5 DEF TypeOK
<1>2. FetchedIsCurrent /\ AcceptedPinIsCurrent
  BY DEF Init, FetchedIsCurrent, AcceptedPinIsCurrent
<1>3. GuessesBounded
  BY DecidingType, PinAssumption DEF Init, GuessesBounded
<1>4. QED
  BY <1>1, <1>2, <1>3 DEF PinInv

(* Every step keeps the variables to their types.                          *)
LEMMA PinTypes ==
    ASSUME TypeOK, Next
    PROVE  TypeOK'
<1> USE PinAssumption DEF TypeOK, Goto, PinSteps, faultVars
<1>1. CASE Timeout
  BY <1>1 DEF Timeout
<1>2. ASSUME NEW a \in Attempts, Call(a)
      PROVE  TypeOK'
  BY <1>2 DEF Call
<1>3. ASSUME NEW a \in Attempts, GetFailures(a) \/ FetchHash(a) \/ Verify(a) \/ Drop(a)
      PROVE  TypeOK'
  BY <1>3 DEF GetFailures, FetchHash, Verify, Drop
<1>4. ASSUME NEW a \in Attempts, IncrFailures(a) \/ ExpireFailures(a) \/ DelFailures(a)
      PROVE  TypeOK'
  <2>1. pc' \in [Attempts -> PinSteps]
    BY <1>4 DEF IncrFailures, ExpireFailures, DelFailures
  <2>2. failures' \in Nat
    BY <1>4 DEF IncrFailures, ExpireFailures, DelFailures
  <2>3. ttl' \in BOOLEAN
    <3>1. (failures > 0) \in BOOLEAN
      OBVIOUS
    <3>2. QED
      BY <1>4, <3>1 DEF IncrFailures, ExpireFailures, DelFailures
  <2>4. faulted' \in BOOLEAN /\ expire_lost' \in BOOLEAN
    BY <1>4 DEF IncrFailures, ExpireFailures, DelFailures
  <2>5. UNCHANGED <<pin_hash, request, fetched, made, in_force>>
    BY <1>4 DEF IncrFailures, ExpireFailures, DelFailures
  <2>6. QED
    BY <2>1, <2>2, <2>3, <2>4, <2>5
<1>5. ASSUME NEW a \in Attempts, UpdatePin(a)
      PROVE  TypeOK'
  <2>1. request[a].new \in Pins
    BY DEF Calls
  <2>2. in_force' \in [Attempts -> SUBSET Pins]
    BY <1>5, <2>1 DEF UpdatePin
  <2>3. QED
    BY <1>5, <2>1, <2>2 DEF UpdatePin
<1>6. QED
  BY <1>1, <1>2, <1>3, <1>4, <1>5 DEF Next, Step

(* A replacement of the PIN adds to what was in force for every attempt.   *)
LEMMA PinCurrent ==
    ASSUME PinInv, Next
    PROVE  FetchedIsCurrent' /\ AcceptedPinIsCurrent'
<1> USE DEF PinInv, TypeOK, FetchedIsCurrent, AcceptedPinIsCurrent, Goto
<1>1. CASE Timeout
  BY <1>1 DEF Timeout
<1>2. ASSUME NEW a \in Attempts, Call(a)
      PROVE  FetchedIsCurrent' /\ AcceptedPinIsCurrent'
  BY <1>2 DEF Call
<1>3. ASSUME NEW a \in Attempts, GetFailures(a) \/ FetchHash(a) \/ Verify(a) \/ Drop(a)
      PROVE  FetchedIsCurrent' /\ AcceptedPinIsCurrent'
  BY <1>3 DEF GetFailures, FetchHash, Verify, Drop
<1>4. ASSUME NEW a \in Attempts, IncrFailures(a) \/ ExpireFailures(a) \/ DelFailures(a)
      PROVE  FetchedIsCurrent' /\ AcceptedPinIsCurrent'
  BY <1>4 DEF IncrFailures, ExpireFailures, DelFailures
<1>5. ASSUME NEW a \in Attempts, UpdatePin(a)
      PROVE  FetchedIsCurrent' /\ AcceptedPinIsCurrent'
  BY <1>5 DEF UpdatePin
<1>6. QED
  BY <1>1, <1>2, <1>3, <1>4, <1>5 DEF Next, Step

(* An attempt is let in below the limit, when all the others may have been *)
(* let in before; after that each failure counted uses up one of them.     *)
LEMMA PinBounded ==
    ASSUME PinInv, Next
    PROVE  GuessesBounded'
<1> USE PinAssumption, DecidingType DEF PinInv, TypeOK
<1> SUFFICES ASSUME ~faulted'
             PROVE  failures' + Cardinality(Deciding)'
                        <= MAX_PIN_FAILURES - 1 + Cardinality(Attempts)
  BY DEF GuessesBounded
<1>1. CASE Timeout
  <2>1. Deciding' \subseteq Deciding /\ failures' = 0
    BY <1>1 DEF Timeout, Deciding
  <2>2. QED
    BY <2>1, DecidingShrinks
<1>2. ASSUME NEW a \in Attempts, GetFailures(a)
      PROVE  failures' + Cardinality(Deciding)' <= MAX_PIN_FAILURES - 1 + Cardinality(Attempts)
  <2>1. failures' = failures /\ ~faulted
    BY <1>2 DEF GetFailures, faultVars
  <2>2. CASE failures >= MAX_PIN_FAILURES
    <3>1. Deciding' \subseteq Deciding
      BY <1>2, <2>2 DEF GetFailures, Goto, Deciding
    <3>2. QED
      BY <2>1, <3>1, DecidingShrinks DEF GuessesBounded
  <2>3. CASE failures < MAX_PIN_FAILURES
    <3>1. a \notin Deciding /\ Deciding' = Deciding \cup {a}
      BY <1>2, <2>3 DEF GetFailures, Goto, Deciding
    <3>2. /\ Cardinality(Deciding)' \in Nat
          /\ Cardinality(Deciding)' <= Cardinality(Attempts)
      BY <3>1, DecidingJoin
    <3>3. failures \in Nat /\ MAX_PIN_FAILURES \in Nat /\ Cardinality(Attempts) \in Nat
      OBVIOUS
    <3>4. QED
      BY ONLY <2>1, <2>3, <3>2, <3>3
  <2>4. QED
    BY <2>2, <2>3
<1>3. ASSUME NEW a \in Attempts, IncrFailures(a)
      PROVE  failures' + Cardinality(Deciding)' <= MAX_PIN_FAILURES - 1 + Cardinality(Attempts)
  <2>1. failures' = failures + 1 /\ ~faulted
    BY <1>3 DEF IncrFailures
  <2>2. a \in Deciding /\ Deciding' = Deciding \ {a}
    BY <1>3 DEF IncrFailures, Goto, Deciding
  <2>3. /\ Cardinality(Deciding)' \in Nat
        /\ Cardinality(Deciding)' = Cardinality(Deciding) - 1
    BY <2>2, DecidingLeave
  <2>4. failures + Cardinality(Deciding) <= MAX_PIN_FAILURES - 1 + Cardinality(Attempts)
    BY <2>1 DEF GuessesBounded
  <2>5. QED
    BY <2>1, <2>3, <2>4
<1>4. ASSUME NEW a \in Attempts, DelFailures(a)
      PROVE  failures' + Cardinality(Deciding)' <= MAX_PIN_FAILURES - 1 + Cardinality(Attempts)
  <2>1. Deciding' \subseteq Deciding /\ failures' = 0
    BY <1>4 DEF DelFailures, Goto, Deciding
  <2>2. QED
    BY <2>1, DecidingShrinks
<1>5. ASSUME NEW a \in Attempts,
             Call(a) \/ FetchHash(a) \/ Verify(a) \/ ExpireFailures(a) \/ UpdatePin(a) \/ Drop(a)
      PROVE  failures' + Cardinality(Deciding)' <= MAX_PIN_FAILURES - 1 + Cardinality(Attempts)
  <2>1. failures' = failures /\ ~faulted
    BY <1>5 DEF Call, FetchHash, Verify, ExpireFailures, UpdatePin, Drop, faultVars
  <2>2. Deciding' \subseteq Deciding
    BY <1>5 DEF Call, FetchHash, Verify, ExpireFailures, UpdatePin, Drop, Goto, Deciding
  <2>3. QED
    BY <2>1, <2>2, DecidingShrinks DEF GuessesBounded
<1>6. QED
  BY <1>1, <1>2, <1>3, <1>4, <1>5 DEF Next, Step
-----------------------------------------------------------------------------
(* The invariant holds in every state.                                     *)
LEMMA PinInvariance == Spec => []PinInv
<1>1. PinInv /\ [Next]_vars => PinInv'
  <2>1. CASE UNCHANGED vars
    BY <2>1 DEF vars, faultVars, PinInv, TypeOK, FetchedIsCurrent, AcceptedPinIsCurrent,
                GuessesBounded, Deciding
  <2>2. CASE Next
    BY <2>2, PinTypes, PinCurrent, PinBounded DEF PinInv
  <2>3. QED
    BY <2>1, <2>2
<1>2. QED
  BY <1>1, PinInit, PTL DEF Spec

(* The counter, the user row and the attempts keep to their types in every *)
(* interleaving of attempts, changes of the PIN and the lockout.           *)
THEOREM PinTypeCorrect == Spec => []TypeOK
<1>1. PinInv => TypeOK
  BY DEF PinInv
<1>2. QED
  BY <1>1, PinInvariance, PTL

(* The wrong PINs counted before a lockout exceed the limit by at most the *)
(* attempts in flight beside the one that reached it.                      *)
THEOREM PinGuessesBounded == Spec => []GuessesBounded
<1>1. PinInv => GuessesBounded
  BY DEF PinInv
<1>2. QED
  BY <1>1, PinInvariance, PTL

(* enforce_user_pin accepts the PIN in force, or one that change_pin or    *)
(* reset_pin replaced while the request was under way; never an older one. *)
THEOREM PinAcceptedIsCurrent == Spec => []AcceptedPinIsCurrent
<1>1. PinInv => AcceptedPinIsCurrent
  BY DEF PinInv
<1>2. QED
  BY <1>1, PinInvariance, PTL
=============================================================================
