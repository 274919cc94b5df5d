----------------------------- MODULE RateLimit -----------------------------
(***************************************************************************)
(* check_sliding_window_rate_limit (src/src/core/ratelimit.rs) for one key *)
(* rl:<scope>:<user>.  A request reads the clock, then a first Redis       *)
(* transaction drops what is older than the window and counts the rest,    *)
(* and, if there is room, a second one adds the request and renews the     *)
(* TTL of the key.  Others run between the three, and each is late by some *)
(* time.  Redis failing means being let in.                                *)
(*                                                                         *)
(* Time is kept as ages: an entry or a clock reading of age n was made n   *)
(* ticks ago.  zset[n] is the number of entries of age n.                  *)
(***************************************************************************)
EXTENDS Integers, FiniteSets, Functions

CONSTANTS
    Callers,            \* requests in flight of one user in one scope
    max_requests,
    Window,             \* window_seconds
    Slack,              \* the 5 seconds the key lives longer
    MaxDelay            \* bound on the time from reading the clock to being let in

ASSUME RateLimitAssumption ==
    /\ IsFiniteSet(Callers)
    /\ max_requests \in Nat \ {0}
    /\ Window \in Nat \ {0}
    /\ Slack \in Nat
    /\ MaxDelay \in Nat

VARIABLES
    zset,
    ttl,                \* ticks the key has left, 0 when it is absent
    call,               \* call[c]: the step of a request and the age of its clock reading
    admitted,           \* requests let in, by age of their clock reading
    refused,            \* ages of the clock readings of the requests refused at this tick
    faulted             \* a command failed, or a request was dropped half-way

vars == <<zset, ttl, call, admitted, refused, faulted>>

(* No request counts an entry older than this.                             *)
Ages == 0 .. Window + MaxDelay
None == [n \in Ages |-> 0]
Count(f, S) == SumFunctionOnSet(f, S)
Younger(n) == {k \in Ages : k < n}

TypeOK ==
    /\ zset \in [Ages -> 0 .. max_requests - 1 + Cardinality(Callers)]
    /\ ttl \in 0 .. Window + Slack
    /\ (ttl = 0) => (zset = None)
    /\ call \in [Callers -> [step : {"idle", "read", "counted"}, age : 0 .. MaxDelay]]
    /\ admitted \in [Ages -> Nat]
    /\ refused \subseteq 0 .. MaxDelay
    /\ faulted \in BOOLEAN

Idle == [step |-> "idle", age |-> 0]

Init ==
    /\ zset = None
    /\ ttl = 0
    /\ call = [c \in Callers |-> Idle]
    /\ admitted = None
    /\ refused = {}
    /\ faulted = FALSE

(* let now_ms = Utc::now().                                                *)
ReadClock(c) ==
    /\ call[c].step = "idle"
    /\ call' = [call EXCEPT ![c] = [step |-> "read", age |-> 0]]
    /\ UNCHANGED <<zset, ttl, admitted, refused, faulted>>

(* Left in, counted as from its clock reading.  After a fault nothing is   *)
(* promised any more, and the books are closed.                            *)
Admit(c) ==
    IF faulted' THEN admitted' = None ELSE admitted' = [admitted EXCEPT ![call[c].age] = @ + 1]

(* ZREMRANGEBYSCORE 0 .. now - window, both ends included.                 *)
Purged_Late(age) ==                             \* mutant: lower end of the window kept
    [n \in Ages |-> IF n > Window + age THEN 0 ELSE zset[n]]

Purged(age) == [n \in Ages |-> IF n >= Window + age THEN 0 ELSE zset[n]]

CountWindow_OneMore(c) ==                       \* mutant: > for >=
    /\ call[c].step = "read"
    /\ LET kept == Purged(call[c].age) IN
       /\ Count(kept, Ages) <= max_requests
       /\ zset' = kept
       /\ ttl' = IF kept = None THEN 0 ELSE ttl
       /\ faulted' = faulted
       /\ call' = [call EXCEPT ![c].step = "counted"]
       /\ Admit(c)
       /\ refused' = refused

CountWindow_AddRefused(c) ==                    \* mutant: refused requests are added too
    /\ call[c].step = "read"
    /\ faulted' = faulted
    /\ LET kept == Purged(call[c].age) IN
       IF Count(kept, Ages) >= max_requests
       THEN /\ call' = [call EXCEPT ![c] = Idle]
            /\ zset' = [kept EXCEPT ![call[c].age] = IF @ < max_requests THEN @ + 1 ELSE @]
            /\ ttl' = Window + Slack
            /\ refused' = refused \cup {call[c].age}
            /\ admitted' = admitted
       ELSE /\ call' = [call EXCEPT ![c].step = "counted"]
            /\ zset' = kept
            /\ ttl' = IF kept = None THEN 0 ELSE ttl
            /\ Admit(c)
            /\ refused' = refused

(* Purge and ZCARD, in one transaction.  A full window refuses the request *)
(* and forgets it.  An error lets it in, unrecorded.                       *)
CountWindow(c) ==
    /\ call[c].step = "read"
    /\ LET kept == Purged(call[c].age) IN
       /\ zset' = kept
       /\ ttl' = IF kept = None THEN 0 ELSE ttl
       /\ faulted' = faulted
       /\ \/ /\ Count(kept, Ages) >= max_requests
             /\ call' = [call EXCEPT ![c] = Idle]
             /\ refused' = refused \cup {call[c].age}
             /\ admitted' = admitted
          \/ /\ Count(kept, Ages) < max_requests
             /\ call' = [call EXCEPT ![c].step = "counted"]
             /\ refused' = refused
             /\ Admit(c)

CountFails(c) ==
    /\ call[c].step = "read"
    /\ faulted' = TRUE
    /\ call' = [call EXCEPT ![c] = Idle]
    /\ Admit(c)
    /\ UNCHANGED <<zset, ttl, refused>>

AddEntry_TtlOnce(c) ==                          \* mutant: EXPIRE only when the key is new
    /\ call[c].step = "counted"
    /\ zset' = [zset EXCEPT ![call[c].age] = @ + 1]
    /\ ttl' = IF ttl = 0 THEN Window + Slack ELSE ttl
    /\ call' = [call EXCEPT ![c] = Idle]
    /\ UNCHANGED <<admitted, refused, faulted>>

(* ZADD and EXPIRE, in one transaction.                                    *)
AddEntry(c) ==
    /\ call[c].step = "counted"
    /\ zset' = [zset EXCEPT ![call[c].age] = @ + 1]
    /\ ttl' = Window + Slack
    /\ call' = [call EXCEPT ![c] = Idle]
    /\ UNCHANGED <<admitted, refused, faulted>>

(* An error of the second transaction is ignored; a dropped handler does   *)
(* not come to it.                                                         *)
LoseEntry(c) ==
    /\ call[c].step = "counted"
    /\ faulted' = TRUE
    /\ call' = [call EXCEPT ![c] = Idle]
    /\ admitted' = None
    /\ UNCHANGED <<zset, ttl, refused>>

DropCall(c) ==
    /\ call[c].step = "read"
    /\ call' = [call EXCEPT ![c] = Idle]
    /\ UNCHANGED <<zset, ttl, admitted, refused, faulted>>

Older(f) == [n \in Ages |-> IF n = 0 THEN 0 ELSE f[n - 1]]

(* Time passes; a key whose TTL is over goes with all its entries.         *)
Tick ==
    /\ \A c \in Callers : call[c].step # "idle" => call[c].age < MaxDelay
    /\ call' = [c \in Callers |-> IF call[c].step = "idle" THEN Idle
                                  ELSE [call[c] EXCEPT !.age = @ + 1]]
    /\ ttl' = IF ttl = 0 \/ Older(zset) = None THEN 0 ELSE ttl - 1
    /\ zset' = IF ttl' = 0 THEN None ELSE Older(zset)
    /\ admitted' = Older(admitted)
    /\ refused' = {}
    /\ UNCHANGED faulted

Step(c) == CountWindow(c) \/ AddEntry(c)

Next ==
    \/ \E c \in Callers : ReadClock(c) \/ Step(c) \/ CountFails(c) \/ LoseEntry(c) \/ DropCall(c)
    \/ Tick

Spec == Init /\ [][Next]_vars

(* Time passes, and the runtime polls ready tasks.                         *)
FairSpec == Spec /\ WF_vars(Tick) /\ \A c \in Callers : WF_vars(Step(c))
-----------------------------------------------------------------------------
(* Of the requests that arrived in any span as long as the window, no more *)
(* are let in than the limit and the other requests that were in flight,   *)
(* although counting and adding are two transactions, clock readings are   *)
(* late, and the key expires as a whole.  A span that has ended can gain   *)
(* those who read the clock in it and were overtaken: when they count, the *)
(* key may have been purged, so that each comes on top.  After MaxDelay    *)
(* ticks a span gains nobody, so the spans of all ages are bounded.        *)
Span(n) == {k \in Ages : n <= k /\ k < n + Window}

AdmissionsBounded ==
    ~faulted =>
        /\ Count(admitted, Span(0)) <= max_requests - 1 + Cardinality(Callers)
        /\ \A n \in 1 .. MaxDelay :
              Count(admitted, Span(n)) <= max_requests - 1 + 2 * Cardinality(Callers)

(* Nobody is refused but for requests that were let in: a full window      *)
(* before the arrival of the refused request, or after it.  What was       *)
(* refused does not count against the user.                                *)
RefusalsAreEarned ==
    ~faulted => \A age \in refused : Count(admitted, Younger(Window + age)) >= max_requests

(* A full window has room again, however often a refused client asks       *)
(* meanwhile.                                                              *)
Full == Count(zset, Younger(Window)) >= max_requests
RoomReturns == Full ~> ~Full
=============================================================================
