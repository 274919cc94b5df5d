------------------------------ MODULE PinGuard ------------------------------
(***************************************************************************)
(* enforce_user_pin (src/src/core/pin.rs) for one user whose PIN is tried  *)
(* by several requests at once, with the two operations that replace the   *)
(* PIN (change_pin and reset_pin of src/src/features/auth/service.rs).     *)
(* Every Redis command and every SQL statement is a step of its own.  The  *)
(* failure counter is a Redis key: absent reads as zero, INCR keeps the    *)
(* key's TTL, EXPIRE is a second command, DEL removes key and TTL.         *)
(***************************************************************************)
EXTENDS Integers, FiniteSets

CONSTANTS
    Attempts,           \* requests in flight
    Pins,               \* PINs anybody may enter or choose
    FirstPin,           \* the PIN set at registration
    MAX_PIN_FAILURES,
    MaxAttempts         \* bound on the attempts of a behaviour

ASSUME PinAssumption ==
    /\ FirstPin \in Pins
    /\ MAX_PIN_FAILURES \in Nat \ {0}
    /\ MaxAttempts \in Nat
    /\ IsFiniteSet(Attempts)

VARIABLES
    failures,           \* the value of pf:<user>, 0 when the key is absent
    ttl,                \* the key has a TTL
    pin_hash,           \* the PIN the users row verifies
    pc, request, fetched,
    made,               \* attempts made
    in_force,           \* PINs that were in force since an attempt began
    faulted,            \* some Redis command failed or was never sent
    expire_lost         \* an EXPIRE was, and none has arrived since

faultVars == <<faulted, expire_lost>>
vars == <<failures, ttl, pin_hash, pc, request, fetched, made, in_force, faultVars>>

(* pay stands for every caller that goes on elsewhere once the PIN is good. *)
Calls == [kind : {"pay"}, given : Pins, new : {FirstPin}]
            \cup [kind : {"change"}, given : Pins, new : Pins]
            \cup [kind : {"reset"}, given : {FirstPin}, new : Pins]
PinSteps == {"idle", "get", "fetch", "verify", "incr", "expire", "del", "update"}

TypeOK ==
    /\ failures \in Nat
    /\ ttl \in BOOLEAN
    /\ pin_hash \in Pins
    /\ pc \in [Attempts -> PinSteps]
    /\ request \in [Attempts -> Calls]
    /\ fetched \in [Attempts -> Pins]
    /\ made \in 0..MaxAttempts
    /\ in_force \in [Attempts -> SUBSET Pins]
    /\ faulted \in BOOLEAN
    /\ expire_lost \in BOOLEAN

Init ==
    /\ failures = 0
    /\ ttl = FALSE
    /\ pin_hash = FirstPin
    /\ pc = [a \in Attempts |-> "idle"]
    /\ request = [a \in Attempts |-> [kind |-> "pay", given |-> FirstPin, new |-> FirstPin]]
    /\ fetched = [a \in Attempts |-> FirstPin]
    /\ made = 0
    /\ in_force = [a \in Attempts |-> {FirstPin}]
    /\ faulted = FALSE
    /\ expire_lost = FALSE

Goto(a, step) == pc' = [pc EXCEPT ![a] = step]

(* reset_pin asks for the login password instead, verified before here.    *)
Call(a) ==
    /\ pc[a] = "idle"
    /\ made < MaxAttempts
    /\ made' = made + 1
    /\ \E c \in Calls :
        /\ request' = [request EXCEPT ![a] = c]
        /\ Goto(a, IF c.kind = "reset" THEN "update" ELSE "get")
    /\ in_force' = [in_force EXCEPT ![a] = {pin_hash}]
    /\ UNCHANGED <<failures, ttl, pin_hash, fetched, faultVars>>

GetFailures_OneMore(a) ==                       \* mutant: > for >=
    /\ pc[a] = "get"
    /\ Goto(a, IF failures > MAX_PIN_FAILURES THEN "idle" ELSE "fetch")
    /\ UNCHANGED <<failures, ttl, pin_hash, request, fetched, made, in_force, faultVars>>

(* A failing GET reads as zero, so a failure lets a locked user through.   *)
GetFailures(a) ==
    /\ pc[a] = "get"
    /\ \/ /\ Goto(a, IF failures >= MAX_PIN_FAILURES THEN "idle" ELSE "fetch")
          /\ faulted' = faulted
       \/ /\ Goto(a, "fetch")
          /\ faulted' = TRUE
    /\ UNCHANGED <<failures, ttl, pin_hash, request, fetched, made, in_force, expire_lost>>

FetchHash_Cached(a) ==                          \* mutant: hash of an earlier attempt reused
    /\ pc[a] = "fetch"
    /\ fetched' \in {fetched, [fetched EXCEPT ![a] = pin_hash]}
    /\ Goto(a, "verify")
    /\ UNCHANGED <<failures, ttl, pin_hash, request, made, in_force, faultVars>>

FetchHash(a) ==
    /\ pc[a] = "fetch"
    /\ fetched' = [fetched EXCEPT ![a] = pin_hash]
    /\ Goto(a, "verify")
    /\ UNCHANGED <<failures, ttl, pin_hash, request, made, in_force, faultVars>>

Verify(a) ==
    /\ pc[a] = "verify"
    /\ Goto(a, IF request[a].given = fetched[a] THEN "del" ELSE "incr")
    /\ UNCHANGED <<failures, ttl, pin_hash, request, fetched, made, in_force, faultVars>>

IncrFailures_NoExpire(a) ==                     \* mutant: EXPIRE forgotten
    /\ pc[a] = "incr"
    /\ failures' = failures + 1
    /\ Goto(a, "idle")
    /\ UNCHANGED <<ttl, pin_hash, request, fetched, made, in_force, faultVars>>

IncrFailures(a) ==
    /\ pc[a] = "incr"
    /\ \/ failures' = failures + 1 /\ faulted' = faulted
       \/ failures' = failures /\ faulted' = TRUE
    /\ Goto(a, "expire")
    /\ UNCHANGED <<ttl, pin_hash, request, fetched, made, in_force, expire_lost>>

(* EXPIRE on an absent key does nothing.  Whether the answer is 422 or 429 *)
(* no longer matters to anyone else.                                       *)
ExpireFailures(a) ==
    /\ pc[a] = "expire"
    /\ \/ ttl' = (failures > 0) /\ faulted' = faulted /\ expire_lost' = FALSE
       \/ ttl' = ttl /\ faulted' = TRUE /\ expire_lost' = TRUE
    /\ Goto(a, "idle")
    /\ UNCHANGED <<failures, pin_hash, request, fetched, made, in_force>>

DelFailures_Decr(a) ==                          \* mutant: DECR for DEL
    /\ pc[a] = "del"
    /\ failures' = failures - 1
    /\ Goto(a, IF request[a].kind = "change" THEN "update" ELSE "idle")
    /\ UNCHANGED <<ttl, pin_hash, request, fetched, made, in_force, faultVars>>

(* Success clears the counter, whatever it has become since it was read.   *)
DelFailures(a) ==
    /\ pc[a] = "del"
    /\ \/ failures' = 0 /\ ttl' = FALSE /\ faulted' = faulted /\ expire_lost' = FALSE
       \/ UNCHANGED <<failures, ttl, expire_lost>> /\ faulted' = TRUE
    /\ Goto(a, IF request[a].kind = "change" THEN "update" ELSE "idle")
    /\ UNCHANGED <<pin_hash, request, fetched, made, in_force>>

(* change_pin and reset_pin write the new hash unconditionally.            *)
UpdatePin(a) ==
    /\ pc[a] = "update"
    /\ pin_hash' = request[a].new
    /\ in_force' = [b \in Attempts |-> in_force[b] \cup {request[a].new}]
    /\ Goto(a, "idle")
    /\ UNCHANGED <<failures, ttl, request, fetched, made, faultVars>>

(* The handler is dropped: client gone, database error, server stopped.    *)
Drop(a) ==
    /\ pc[a] # "idle"
    /\ faulted' = TRUE
    /\ expire_lost' = (expire_lost \/ pc[a] = "expire")
    /\ Goto(a, "idle")
    /\ UNCHANGED <<failures, ttl, pin_hash, request, fetched, made, in_force>>

(* PIN_LOCKOUT_SECONDS after the last EXPIRE, Redis removes the key.       *)
Timeout ==
    /\ ttl
    /\ failures' = 0
    /\ ttl' = FALSE
    /\ expire_lost' = FALSE
    /\ UNCHANGED <<pin_hash, pc, request, fetched, made, in_force, faulted>>

Step(a) ==
    \/ GetFailures(a) \/ FetchHash(a) \/ Verify(a) \/ IncrFailures(a)
    \/ ExpireFailures(a) \/ DelFailures(a) \/ UpdatePin(a)

Next == Timeout \/ \E a \in Attempts : Call(a) \/ Step(a) \/ Drop(a)

Spec == Init /\ [][Next]_vars

(* Redis expires a key whose TTL is over; the runtime polls ready tasks.   *)
FairSpec == Spec /\ WF_vars(Timeout) /\ \A a \in Attempts : WF_vars(Step(a))
-----------------------------------------------------------------------------
(* However many attempts race past the check, the counter, and with it the *)
(* wrong PINs tried before a lockout, exceeds the limit by at most the     *)
(* attempts that were in flight beside the one that reached it.            *)
Deciding == {a \in Attempts : pc[a] \in {"fetch", "verify", "incr"}}

GuessesBounded ==
    ~faulted => failures + Cardinality(Deciding) <= MAX_PIN_FAILURES - 1 + Cardinality(Attempts)

(* A PIN that is accepted, for a payment or for a change, was in force at  *)
(* some moment since the request began.  Nothing is locked between reading *)
(* the hash and acting on it, so it may have been replaced meanwhile; one  *)
(* that was replaced before the request began is never accepted.           *)
AcceptedPinIsCurrent ==
    \A a \in Attempts :
        pc[a] = "del" \/ (pc[a] = "update" /\ request[a].kind = "change")
            => request[a].given \in in_force[a]

(* A lockout ends (15 minutes after the last wrong PIN), whatever was lost *)
(* before: every wrong PIN sends EXPIRE anew.  Only when those since the   *)
(* last EXPIRE to arrive were lost, and no TTL is left of an earlier one,  *)
(* does the key stay for ever, for who is locked out sends no EXPIRE.      *)
LockoutEnds ==
    failures >= MAX_PIN_FAILURES ~> failures < MAX_PIN_FAILURES \/ (expire_lost /\ ~ttl)
=============================================================================
