-------------------------- MODULE RateLimitProofs --------------------------
(***************************************************************************)
(* The rate limiter lets in no more than it may and refuses only for a     *)
(* full window, for every limit, window, slack, delay and set of callers.  *)
(* The invariant compares three books, entry age by entry age: what was    *)
(* let in, what the key in Redis holds, and what is let in but not yet     *)
(* added to the key.                                                       *)
(***************************************************************************)
EXTENDS RateLimit, SumTheorems

(* Requests that were let in and have still to add their entry.            *)
Pending == {c \in Callers : call[c].step = "counted"}
PendingOf(n) == {c \in Pending : call[c].age = n}

Types ==
    /\ zset \in [Ages -> Nat]
    /\ ttl \in 0 .. Window + Slack
    /\ (ttl = 0) => (zset = None)
    /\ call \in [Callers -> [step : {"idle", "read", "counted"}, age : 0 .. MaxDelay]]
    /\ admitted \in [Ages -> Nat]
    /\ refused \subseteq 0 .. MaxDelay
    /\ faulted \in BOOLEAN

(* An entry is added only after a count below the limit: what is in the    *)
(* key and on its way to it exceeds it by the others in flight at most.    *)
Room == Count(zset, Ages) + Cardinality(Pending) <= max_requests - 1 + Cardinality(Callers)

(* The key outlives every entry it holds by what is left of the window.    *)
Alive == \A n \in Ages : zset[n] > 0 => ttl >= Window + Slack - n

(* Short of a fault the key and the pending requests account for everyone  *)
(* let in within the window; beyond it entries may have been purged.       *)
Books ==
    ~faulted => \A n \in Ages :
        /\ zset[n] + Cardinality(PendingOf(n)) <= admitted[n]
        /\ n < Window => zset[n] + Cardinality(PendingOf(n)) = admitted[n]

LimitInv == Types /\ Room /\ Alive /\ Books /\ RefusalsAreEarned
-----------------------------------------------------------------------------
(* There are finitely many ages, and a clock reading has one of them.      *)
LEMMA AgesFacts ==
    /\ IsFiniteSet(Ages)
    /\ \A S \in SUBSET Ages : IsFiniteSet(S)
    /\ 0 .. MaxDelay \subseteq Ages
    /\ \A n \in Ages : n \in Nat
<1>1. Window + MaxDelay \in Nat /\ MaxDelay \in Nat /\ MaxDelay <= Window + MaxDelay
  BY RateLimitAssumption
<1>2. PICK z, t : z = 0 /\ t = Window + MaxDelay
  OBVIOUS
<1>3. z \in Int /\ t \in Int
  BY <1>1, <1>2
<1>4. IsFiniteSet(z .. t)
  BY <1>3, FS_Interval
<1>5. IsFiniteSet(Ages)
  BY <1>2, <1>4 DEF Ages
<1>6. 0 .. MaxDelay \subseteq Ages /\ \A n \in Ages : n \in Nat
  BY <1>1 DEF Ages
<1>7. QED
  BY <1>5, <1>6, FS_Subset

(* However few, the pending requests can be counted.                       *)
LEMMA PendingFacts ==
    /\ IsFiniteSet(Pending)
    /\ Cardinality(Pending) \in Nat /\ Cardinality(Callers) \in Nat
    /\ Cardinality(Pending) <= Cardinality(Callers)
    /\ \A n : IsFiniteSet(PendingOf(n)) /\ Cardinality(PendingOf(n)) \in Nat
<1>1. Pending \in SUBSET Callers /\ \A n : PendingOf(n) \in SUBSET Callers
  BY DEF Pending, PendingOf
<1>2. IsFiniteSet(Callers)
  BY RateLimitAssumption
<1>3. QED
  BY <1>1, <1>2, FS_Subset, FS_CardinalityType

(* A window of small counts has a small total.                             *)
LEMMA CountFacts ==
    ASSUME NEW f \in [Ages -> Nat], NEW S \in SUBSET Ages
    PROVE  /\ Count(f, S) \in Nat
           /\ Count(f, S) <= Count(f, Ages)
           /\ \A g \in [Ages -> Nat] : (\A n \in S : g[n] <= f[n]) => Count(g, S) <= Count(f, S)
<1>1. IsFiniteSet(S) /\ IsFiniteSet(Ages)
  BY AgesFacts
<1>2. /\ SumFunctionOnSet(f, S) \in Nat
      /\ SumFunctionOnSet(f, S) <= SumFunctionOnSet(f, Ages)
  BY <1>1, SumMonotonic
<1>3. ASSUME NEW g \in [Ages -> Nat], \A n \in S : g[n] <= f[n]
      PROVE  SumFunctionOnSet(g, S) <= SumFunctionOnSet(f, S)
  <2>1. S \in SUBSET S /\ \A n \in S : f[n] \in Nat /\ g[n] \in Nat
    OBVIOUS
  <2>2. QED
    BY <1>1, <1>3, <2>1, SumMonotonic
<1>4. QED
  BY <1>2, <1>3 DEF Count

(* One entry more makes one more in all.                                   *)
LEMMA CountAdd ==
    ASSUME NEW f \in [Ages -> Nat], NEW a \in Ages
    PROVE  Count([f EXCEPT ![a] = @ + 1], Ages) = Count(f, Ages) + 1
<1>1. PICK g, d, h, S : g = [f EXCEPT ![a] = @ + 1] /\ d = 1 /\ h = f /\ S = Ages
  OBVIOUS
<1>2. IsFiniteSet(S) /\ a \in S
  BY <1>1, AgesFacts
<1>3. d \in Int /\ g[a] = h[a] + d
  BY <1>1
<1>4. \A n \in S : h[n] \in Int
  BY <1>1
<1>5. \A n \in S \ {a} : g[n] = h[n]
  BY <1>1
<1>6. SumFunctionOnSet(g, S) = SumFunctionOnSet(h, S) + d
  BY <1>2, <1>3, <1>4, <1>5, SumChange
<1>7. QED
  BY <1>1, <1>6 DEF Count

(* Growing older, entries only leave at the far end.                       *)
LEMMA OlderCount ==
    ASSUME NEW f \in [Ages -> Nat]
    PROVE  Older(f) \in [Ages -> Nat] /\ Count(Older(f), Ages) <= Count(f, Ages)
<1> DEFINE top == Window + MaxDelay
           g == Older(f)
           Fails(k) == Count(g, 0 .. k) # Count(f, 0 .. (k - 1))
           Bad == {k \in 0 .. top : Fails(k)}
<1>1. top \in Nat /\ Ages = 0 .. top
  BY RateLimitAssumption DEF Ages
<1>2. g \in [Ages -> Nat] /\ g[0] = 0 /\ \A n \in Ages : n # 0 => g[n] = f[n - 1]
  BY <1>1 DEF Older
<1> HIDE DEF top, g
<1>3. Bad = {}
  <2> SUFFICES ASSUME Bad # {} PROVE FALSE
    OBVIOUS
  <2>1. Bad \subseteq Nat /\ \A k \in 0 .. top : k \in Bad <=> Fails(k)
    BY <1>1
  <2> HIDE DEF Bad
  <2>2. PICK k \in Bad : \A m \in Bad : <<m, k>> \notin OpToRel(<, Nat)
    BY <2>1, NatLessThanWellFounded, WFMin
  <2>3. \A m \in Bad : ~(m < k)
    BY <2>1, <2>2 DEF OpToRel
  <2>4. k \in 0 .. top /\ Fails(k)
    BY <1>1, <2>1 DEF Bad
  <2>5. CASE k = 0
    <3>1. 0 .. k = {} \cup {0} /\ 0 .. (k - 1) = {} /\ 0 \in Ages
      BY <1>1, <2>5
    <3>2. IsFiniteSet({}) /\ 0 \notin {} /\ \A n \in {} \cup {0} : g[n] \in Int
      BY <1>2, <3>1, FS_EmptySet
    <3>3. SumFunctionOnSet(g, {} \cup {0}) = g[0] + SumFunctionOnSet(g, {})
      BY <3>2, SumAdd
    <3>4. SumFunctionOnSet(g, {}) = 0 /\ SumFunctionOnSet(f, {}) = 0
      BY SumEmpty
    <3>5. Count(g, 0 .. k) = 0 /\ Count(f, 0 .. (k - 1)) = 0
      <4>1. Count(f, 0 .. (k - 1)) = Count(f, {}) /\ Count(g, 0 .. k) = Count(g, {} \cup {0})
        BY <3>1
      <4>2. QED
        BY <1>2, <3>3, <3>4, <4>1 DEF Count
    <3>6. QED
      BY <2>4, <3>5
  <2>6. CASE k # 0
    <3> DEFINE i == k - 1
    <3>1. /\ i \in 0 .. top /\ i < k /\ i \in Ages /\ k \in Ages
          /\ 0 .. k = (0 .. i) \cup {k} /\ k \notin 0 .. i
          /\ 0 .. i = (0 .. (i - 1)) \cup {i} /\ i \notin 0 .. (i - 1)
      BY <1>1, <2>4, <2>6
    <3>2. Count(g, 0 .. i) = Count(f, 0 .. (i - 1))
      BY <2>1, <2>3, <3>1
    <3> HIDE DEF i
    <3>3. /\ IsFiniteSet(0 .. i) /\ IsFiniteSet(0 .. (i - 1))
          /\ \A n \in (0 .. i) \cup {k} : g[n] \in Int
          /\ \A n \in (0 .. (i - 1)) \cup {i} : f[n] \in Int
      <4>1. (0 .. i) \cup {k} \subseteq Ages /\ (0 .. (i - 1)) \cup {i} \subseteq Ages
        BY <1>1, <3>1
      <4>2. 0 .. i \in SUBSET Ages /\ 0 .. (i - 1) \in SUBSET Ages
        BY <4>1
      <4>3. IsFiniteSet(0 .. i) /\ IsFiniteSet(0 .. (i - 1))
        BY <4>2, AgesFacts
      <4>4. \A n \in Ages : g[n] \in Int /\ f[n] \in Int
        BY <1>2
      <4>5. QED
        BY <4>1, <4>3, <4>4
    <3>4. SumFunctionOnSet(g, (0 .. i) \cup {k}) = g[k] + SumFunctionOnSet(g, 0 .. i)
      BY <3>1, <3>3, SumAdd
    <3>5. SumFunctionOnSet(f, (0 .. (i - 1)) \cup {i}) = f[i] + SumFunctionOnSet(f, 0 .. (i - 1))
      BY <3>1, <3>3, SumAdd
    <3>6. g[k] = f[i]
      BY <1>2, <2>6, <3>1 DEF i
    <3>7. Count(g, 0 .. k) = Count(f, 0 .. i)
      BY <3>1, <3>2, <3>4, <3>5, <3>6 DEF Count
    <3>8. QED
      BY <2>4, <3>7 DEF i
  <2>7. QED
    BY <2>5, <2>6
<1>4. ~Fails(top)
  BY <1>1, <1>3
<1>5. 0 .. (top - 1) \in SUBSET Ages
  BY <1>1
<1>6. Count(g, Ages) <= Count(f, Ages)
  BY <1>1, <1>4, <1>5, CountFacts
<1>7. QED
  BY <1>2, <1>6 DEF g

(* A count of nothing is zero.                                             *)
LEMMA NoneCounts == None \in [Ages -> Nat] /\ Count(None, Ages) = 0
<1>1. \A n \in Ages : None[n] = 0
  BY DEF None
<1>2. PICK z : z = 0
  OBVIOUS
<1>3. z \in Int /\ IsFiniteSet(Ages) /\ \A n \in Ages : None[n] = z
  BY <1>1, <1>2, AgesFacts
<1>4. SumFunctionOnSet(None, Ages) = Cardinality(Ages) * z
  BY <1>3, SumConstant
<1>5. Cardinality(Ages) \in Nat
  BY <1>3, FS_CardinalityType
<1>6. QED
  BY <1>2, <1>4, <1>5 DEF Count, None

(* A purge only takes entries away, and none younger than the window.      *)
LEMMA PurgeFacts ==
    ASSUME Types, NEW age \in 0 .. MaxDelay
    PROVE  /\ Purged(age) \in [Ages -> Nat]
           /\ \A n \in Ages : Purged(age)[n] <= zset[n]
           /\ \A n \in Ages : Purged(age)[n] > 0 => Purged(age)[n] = zset[n]
           /\ \A n \in Ages : n < Window + age => Purged(age)[n] = zset[n]
           /\ \A n \in Ages : n >= Window + age => Purged(age)[n] = 0
           /\ Count(Purged(age), Ages) <= Count(zset, Ages)
           /\ Count(Purged(age), Ages) = Count(zset, Younger(Window + age))
<1> DEFINE kept == Purged(age)
           young == Younger(Window + age)
<1>1. /\ kept \in [Ages -> Nat]
      /\ \A n \in Ages : kept[n] <= zset[n]
      /\ \A n \in Ages : kept[n] > 0 => kept[n] = zset[n]
      /\ \A n \in Ages : n < Window + age => kept[n] = zset[n]
      /\ \A n \in Ages : n >= Window + age => kept[n] = 0
  BY RateLimitAssumption, AgesFacts DEF Types, Purged
<1>2. zset \in [Ages -> Nat] /\ young \in SUBSET Ages /\ IsFiniteSet(Ages) /\ IsFiniteSet(young)
  BY AgesFacts DEF Types, Younger
<1>3. \A n \in young : kept[n] = zset[n]
  BY <1>1 DEF Younger
<1>4. \A n \in Ages \ young : kept[n] = 0
  BY <1>1, AgesFacts, RateLimitAssumption DEF Younger
<1> HIDE DEF kept, young
<1>5. Count(kept, Ages) <= Count(zset, Ages)
  BY <1>1, <1>2, CountFacts
<1>6. SumFunctionOnSet(kept, Ages) = SumFunctionOnSet(kept, young)
  <2>1. \A n \in Ages : kept[n] \in Int
    BY <1>1
  <2>2. QED
    BY <1>2, <1>4, <2>1, SumZeros
<1>7. SumFunctionOnSet(kept, young) = SumFunctionOnSet(zset, young)
  BY <1>2, <1>3, SumAgree
<1>8. Count(kept, Ages) = Count(zset, young)
  BY <1>6, <1>7 DEF Count
<1>9. QED
  BY <1>1, <1>5, <1>8 DEF kept, young
-----------------------------------------------------------------------------
(* A step of one request leaves the others pending or not as they were.    *)
LEMMA OthersPending ==
    ASSUME Types, Types', NEW c \in Callers, \A d \in Callers \ {c} : call'[d] = call[d]
    PROVE  /\ Pending' \ {c} = Pending \ {c}
           /\ \A n \in Ages : PendingOf(n)' \ {c} = PendingOf(n) \ {c}
BY DEF Pending, PendingOf

(* A request that is not pending before or after changes nothing.          *)
LEMMA PendingStays ==
    ASSUME Types, Types', NEW c \in Callers, \A d \in Callers \ {c} : call'[d] = call[d],
           call[c].step # "counted", call'[c].step # "counted"
    PROVE  Pending' = Pending /\ \A n \in Ages : PendingOf(n)' = PendingOf(n)
<1>1. c \notin Pending /\ c \notin Pending'
  BY DEF Pending
<1>2. \A n \in Ages : c \notin PendingOf(n) /\ c \notin PendingOf(n)'
  BY <1>1 DEF PendingOf
<1>3. Pending' = Pending
  BY <1>1, OthersPending
<1>4. ASSUME NEW n \in Ages PROVE PendingOf(n)' = PendingOf(n)
  <2>1. PendingOf(n)' \ {c} = PendingOf(n) \ {c}
    BY OthersPending
  <2>2. QED
    BY <1>2, <2>1
<1>5. QED
  BY <1>3, <1>4

(* One that is let in joins those of its age.                              *)
LEMMA PendingJoins ==
    ASSUME Types, Types', NEW c \in Callers, \A d \in Callers \ {c} : call'[d] = call[d],
           call[c].step # "counted", call'[c].step = "counted", call'[c].age = call[c].age
    PROVE  /\ Cardinality(Pending') = Cardinality(Pending) + 1
           /\ \A n \in Ages : Cardinality(PendingOf(n)')
                = Cardinality(PendingOf(n)) + (IF n = call[c].age THEN 1 ELSE 0)
<1>1. Pending' = Pending \cup {c} /\ c \notin Pending
  BY OthersPending DEF Pending
<1>2. Cardinality(Pending') = Cardinality(Pending) + 1
  BY <1>1, PendingFacts, FS_AddElement
<1>3. ASSUME NEW n \in Ages
      PROVE  Cardinality(PendingOf(n)')
                = Cardinality(PendingOf(n)) + (IF n = call[c].age THEN 1 ELSE 0)
  <2>1. c \notin PendingOf(n) /\ (c \in PendingOf(n)' <=> n = call[c].age)
    BY <1>1 DEF PendingOf
  <2>2. PendingOf(n)' \ {c} = PendingOf(n) \ {c}
    BY OthersPending
  <2>3. IsFiniteSet(PendingOf(n)) /\ Cardinality(PendingOf(n)) \in Nat
    BY PendingFacts
  <2>4. CASE n = call[c].age
    <3>1. PendingOf(n)' = PendingOf(n) \cup {c}
      BY <2>1, <2>2, <2>4
    <3>2. QED
      BY <2>1, <2>3, <2>4, <3>1, FS_AddElement
  <2>5. CASE n # call[c].age
    <3>1. PendingOf(n)' = PendingOf(n)
      BY <2>1, <2>2, <2>5
    <3>2. QED
      BY <2>3, <2>5, <3>1
  <2>6. QED
    BY <2>4, <2>5
<1>4. QED
  BY <1>2, <1>3

(* One that adds or loses its entry leaves them.                           *)
LEMMA PendingLeaves ==
    ASSUME Types, Types', NEW c \in Callers, \A d \in Callers \ {c} : call'[d] = call[d],
           call[c].step = "counted", call'[c].step # "counted"
    PROVE  /\ Cardinality(Pending') = Cardinality(Pending) - 1
           /\ \A n \in Ages : Cardinality(PendingOf(n)')
                = Cardinality(PendingOf(n)) - (IF n = call[c].age THEN 1 ELSE 0)
<1>1. Pending' = Pending \ {c} /\ c \in Pending
  BY OthersPending DEF Pending
<1>2. Cardinality(Pending') = Cardinality(Pending) - 1
  BY <1>1, PendingFacts, FS_RemoveElement
<1>3. ASSUME NEW n \in Ages
      PROVE  Cardinality(PendingOf(n)')
                = Cardinality(PendingOf(n)) - (IF n = call[c].age THEN 1 ELSE 0)
  <2>1. c \notin PendingOf(n)' /\ (c \in PendingOf(n) <=> n = call[c].age)
    BY <1>1 DEF PendingOf
  <2>2. PendingOf(n)' \ {c} = PendingOf(n) \ {c}
    BY OthersPending
  <2>3. IsFiniteSet(PendingOf(n)) /\ Cardinality(PendingOf(n)) \in Nat
    BY PendingFacts
  <2>4. CASE n = call[c].age
    <3>1. PendingOf(n)' = PendingOf(n) \ {c} /\ c \in PendingOf(n)
      BY <2>1, <2>2, <2>4
    <3>2. Cardinality(PendingOf(n) \ {c}) = Cardinality(PendingOf(n)) - 1
      BY <2>3, <3>1, FS_RemoveElement
    <3>3. QED
      BY <2>4, <3>1, <3>2
  <2>5. CASE n # call[c].age
    <3>1. PendingOf(n)' = PendingOf(n)
      BY <2>1, <2>2, <2>5
    <3>2. QED
      BY <2>3, <2>5, <3>1
  <2>6. QED
    BY <2>4, <2>5
<1>4. QED
  BY <1>2, <1>3

(* As time passes the pending stay pending, a tick older.                  *)
LEMMA PendingAges ==
    ASSUME Types, Types', Tick
    PROVE  /\ Pending' = Pending
           /\ PendingOf(0)' = {}
           /\ \A n \in Ages : n # 0 => PendingOf(n)' = PendingOf(n - 1)
<1>1. \A c \in Callers : call[c].step # "idle" =>
        call'[c].step = call[c].step /\ call'[c].age = call[c].age + 1
  BY DEF Tick, Types
<1>2. \A c \in Callers : call[c].step = "idle" => call'[c].step = "idle"
  BY DEF Tick, Types, Idle
<1>3. Pending' = Pending
  BY <1>1, <1>2 DEF Pending, Types
<1>4. \A c \in Callers : call[c].age \in Nat
  BY RateLimitAssumption DEF Types
<1>5. \A c \in Pending : call'[c].age = call[c].age + 1 /\ call[c].age \in Nat
  BY <1>1, <1>4 DEF Pending
<1>6. PendingOf(0)' = {}
  BY <1>3, <1>5 DEF PendingOf
<1>7. \A n \in Ages : n # 0 => PendingOf(n)' = PendingOf(n - 1)
  BY <1>3, <1>5, AgesFacts DEF PendingOf
<1>8. QED
  BY <1>3, <1>6, <1>7
-----------------------------------------------------------------------------
(* Every value stays in its range.                                         *)
LEMMA TypesStep == Types /\ [Next]_vars => Types'
<1> SUFFICES ASSUME Types, [Next]_vars PROVE Types'
  OBVIOUS
<1>1. ASSUME NEW c \in Callers
      PROVE  /\ call[c].age \in 0 .. MaxDelay /\ call[c].age \in Ages
             /\ Idle \in [step : {"idle", "read", "counted"}, age : 0 .. MaxDelay]
  BY RateLimitAssumption, AgesFacts DEF Types, Idle
<1>2. None \in [Ages -> Nat] /\ Window + Slack \in Nat \ {0}
  BY NoneCounts, RateLimitAssumption
<1>3. ASSUME NEW c \in Callers
      PROVE  /\ [admitted EXCEPT ![call[c].age] = @ + 1] \in [Ages -> Nat]
             /\ [zset EXCEPT ![call[c].age] = @ + 1] \in [Ages -> Nat]
  BY <1>1 DEF Types
<1>4. ASSUME NEW c \in Callers, ReadClock(c) \/ DropCall(c) PROVE Types'
  <2>1. [step |-> "read", age |-> 0] \in [step : {"idle", "read", "counted"}, age : 0 .. MaxDelay]
    BY RateLimitAssumption
  <2>2. call' \in [Callers -> [step : {"idle", "read", "counted"}, age : 0 .. MaxDelay]]
    BY <1>1, <1>4, <2>1 DEF Types, ReadClock, DropCall
  <2>3. UNCHANGED <<zset, ttl, admitted, refused, faulted>>
    BY <1>4 DEF ReadClock, DropCall
  <2>4. QED
    BY <2>2, <2>3 DEF Types
<1>5. CASE \E c \in Callers : CountFails(c) \/ LoseEntry(c)
  BY <1>1, <1>2, <1>5 DEF Types, CountFails, LoseEntry, Admit
<1>6. CASE \E c \in Callers : AddEntry(c)
  BY <1>1, <1>2, <1>3, <1>6 DEF Types, AddEntry
<1>7. ASSUME NEW c \in Callers, CountWindow(c) PROVE Types'
  <2> DEFINE kept == Purged(call[c].age)
  <2>1. kept \in [Ages -> Nat]
    BY <1>1, PurgeFacts
  <2>2. ttl = 0 => kept = None
    BY <1>1, RateLimitAssumption DEF Types, Purged, None
  <2>3. call' \in [Callers -> [step : {"idle", "read", "counted"}, age : 0 .. MaxDelay]]
    BY <1>1, <1>7 DEF Types, CountWindow
  <2>4. admitted' \in [Ages -> Nat]
    BY <1>2, <1>3, <1>7 DEF Types, CountWindow, Admit
  <2>5. refused' \subseteq 0 .. MaxDelay /\ faulted' \in BOOLEAN
    BY <1>1, <1>7 DEF Types, CountWindow
  <2>6. zset' = kept /\ ttl' = IF kept = None THEN 0 ELSE ttl
    BY <1>7 DEF CountWindow
  <2> HIDE DEF kept
  <2>7. ttl' \in 0 .. Window + Slack /\ (ttl' = 0 => zset' = None)
    BY <1>2, <2>1, <2>2, <2>6 DEF Types
  <2>8. QED
    BY <2>1, <2>3, <2>4, <2>5, <2>6, <2>7 DEF Types
<1>8. CASE Tick
  <2>1. Older(zset) \in [Ages -> Nat] /\ Older(admitted) \in [Ages -> Nat]
    BY OlderCount DEF Types
  <2>2. ttl' \in 0 .. Window + Slack
    <3>1. ttl \in 0 .. Window + Slack /\ (ttl' = 0 \/ (ttl # 0 /\ ttl' = ttl - 1))
      BY <1>8 DEF Types, Tick
    <3>2. QED
      BY <1>2, <3>1
  <2>3. zset' \in [Ages -> Nat] /\ (ttl' = 0 => zset' = None)
    BY <1>2, <1>8, <2>1 DEF Tick
  <2>4. call' \in [Callers -> [step : {"idle", "read", "counted"}, age : 0 .. MaxDelay]]
    <3>1. ASSUME NEW c \in Callers
          PROVE  call'[c] \in [step : {"idle", "read", "counted"}, age : 0 .. MaxDelay]
      <4>1. CASE call[c].step = "idle"
        BY <1>1, <1>8, <4>1 DEF Tick
      <4>2. CASE call[c].step # "idle"
        <5>1. call[c].age + 1 \in 0 .. MaxDelay
          BY <1>1, <1>8, <4>2, RateLimitAssumption DEF Tick
        <5>2. QED
          BY <1>8, <4>2, <5>1 DEF Tick, Types
      <4>3. QED
        BY <4>1, <4>2
    <3>2. QED
      BY <1>8, <3>1 DEF Tick
  <2>5. QED
    BY <1>8, <2>1, <2>2, <2>3, <2>4 DEF Types, Tick
<1>9. CASE UNCHANGED vars
  BY <1>9 DEF vars, Types
<1>10. QED
  BY <1>4, <1>5, <1>6, <1>7, <1>8, <1>9 DEF Next, Step

(* A step of one request touches no other.                                 *)
LEMMA OneAtATime ==
    ASSUME Types, NEW c \in Callers,
           ReadClock(c) \/ Step(c) \/ CountFails(c) \/ LoseEntry(c) \/ DropCall(c)
    PROVE  \A d \in Callers \ {c} : call'[d] = call[d]
BY DEF Types, ReadClock, Step, CountWindow, AddEntry, CountFails, LoseEntry, DropCall

(* A refusal stays earned as more are let in.                              *)
LEMMA StaysEarned ==
    ASSUME Types, Types', RefusalsAreEarned, refused' = refused, faulted' = faulted,
           \A n \in Ages : admitted'[n] >= admitted[n]
    PROVE  RefusalsAreEarned'
<1> SUFFICES ASSUME ~faulted', NEW age \in refused'
             PROVE  Count(admitted', Younger(Window + age)) >= max_requests
  BY DEF RefusalsAreEarned
<1> DEFINE young == Younger(Window + age)
<1>1. Count(admitted, young) >= max_requests
  BY DEF RefusalsAreEarned
<1>2. young \in SUBSET Ages
  BY DEF Younger
<1>3. admitted \in [Ages -> Nat] /\ admitted' \in [Ages -> Nat]
  BY DEF Types
<1>4. \A n \in young : admitted[n] <= admitted'[n]
  BY <1>2, <1>3
<1> HIDE DEF young
<1>5. Count(admitted, young) \in Nat /\ Count(admitted', young) \in Nat
  BY <1>2, <1>3, CountFacts
<1>6. Count(admitted, young) <= Count(admitted', young)
  BY <1>2, <1>3, <1>4, CountFacts
<1>7. QED
  BY <1>1, <1>5, <1>6, RateLimitAssumption DEF young

(* Steps that touch neither the key nor the pending requests.              *)
LEMMA ReadClockKeeps ==
    ASSUME LimitInv, Types', NEW c \in Callers, ReadClock(c) \/ DropCall(c)
    PROVE  LimitInv'
<1>1. call[c].step # "counted" /\ call'[c].step # "counted"
  BY DEF LimitInv, Types, ReadClock, DropCall, Idle
<1>2. UNCHANGED <<zset, ttl, admitted, refused, faulted>>
  BY DEF ReadClock, DropCall
<1>3. Pending' = Pending /\ \A n \in Ages : PendingOf(n)' = PendingOf(n)
  BY <1>1, OneAtATime, PendingStays DEF LimitInv
<1>4. Room' /\ Alive'
  BY <1>2, <1>3 DEF LimitInv, Room, Alive
<1>5. Books'
  BY <1>2, <1>3 DEF LimitInv, Books
<1>6. RefusalsAreEarned'
  BY <1>2 DEF LimitInv, RefusalsAreEarned
<1>7. QED
  BY <1>4, <1>5, <1>6 DEF LimitInv

(* The books are closed by a failing command or a dropped request.         *)
LEMMA FaultKeeps ==
    ASSUME LimitInv, Types', NEW c \in Callers, CountFails(c) \/ LoseEntry(c)
    PROVE  LimitInv'
<1>1. faulted' /\ UNCHANGED <<zset, ttl>> /\ call'[c].step = "idle"
  BY DEF LimitInv, Types, CountFails, LoseEntry, Idle
<1>2. Cardinality(Pending') <= Cardinality(Pending)
  <2>1. Pending' \subseteq Pending
    BY <1>1, OneAtATime, OthersPending DEF LimitInv, Pending
  <2>2. QED
    BY <2>1, PendingFacts, FS_Subset
<1>3. Room'
  <2>1. Cardinality(Pending) \in Nat /\ Cardinality(Pending') \in Nat
        /\ Cardinality(Callers) \in Nat /\ Count(zset, Ages) \in Nat
    <3>1. Pending' \in SUBSET Callers
      BY DEF Pending
    <3>2. QED
      BY <3>1, PendingFacts, FS_Subset, FS_CardinalityType, RateLimitAssumption, CountFacts
         DEF LimitInv, Types
  <2>2. QED
    BY <1>1, <1>2, <2>1, RateLimitAssumption DEF LimitInv, Room
<1>4. Alive' /\ Books' /\ RefusalsAreEarned'
  BY <1>1 DEF LimitInv, Alive, Books, RefusalsAreEarned
<1>5. QED
  BY <1>3, <1>4 DEF LimitInv

(* An added entry was pending, and renews the life of the key.             *)
LEMMA AddEntryKeeps ==
    ASSUME LimitInv, Types', NEW c \in Callers, AddEntry(c)
    PROVE  LimitInv'
<1> DEFINE a == call[c].age
<1>1. /\ a \in Ages /\ zset \in [Ages -> Nat] /\ admitted \in [Ages -> Nat]
      /\ zset' = [zset EXCEPT ![a] = @ + 1] /\ ttl' = Window + Slack
      /\ UNCHANGED <<admitted, refused, faulted>>
  BY AgesFacts DEF LimitInv, Types, AddEntry
<1>2. call[c].step = "counted" /\ call'[c].step # "counted"
  BY DEF LimitInv, Types, AddEntry, Idle
<1>3. /\ Cardinality(Pending') = Cardinality(Pending) - 1
      /\ \A n \in Ages : Cardinality(PendingOf(n)')
           = Cardinality(PendingOf(n)) - (IF n = a THEN 1 ELSE 0)
  BY <1>2, OneAtATime, PendingLeaves DEF LimitInv, Step
<1> HIDE DEF a
<1>4. \A n \in Ages : zset'[n] = zset[n] + (IF n = a THEN 1 ELSE 0)
  BY <1>1
<1>5. Room'
  <2>1. Count(zset', Ages) = Count(zset, Ages) + 1
    BY <1>1, CountAdd
  <2>2. Count(zset, Ages) \in Nat /\ Cardinality(Pending) \in Nat /\ Cardinality(Callers) \in Nat
    BY <1>1, CountFacts, PendingFacts
  <2>3. QED
    BY <1>3, <2>1, <2>2, RateLimitAssumption DEF LimitInv, Room
<1>6. Alive'
  BY <1>1, AgesFacts, RateLimitAssumption DEF Alive
<1>7. Books'
  <2>1. \A n \in Ages : Cardinality(PendingOf(n)) \in Nat /\ zset[n] \in Nat
    BY <1>1, PendingFacts
  <2>2. \A n \in Ages : zset'[n] + Cardinality(PendingOf(n)') = zset[n] + Cardinality(PendingOf(n))
    BY <1>3, <1>4, <2>1
  <2>3. QED
    BY <1>1, <2>2 DEF LimitInv, Books
<1>8. RefusalsAreEarned'
  BY <1>1 DEF LimitInv, RefusalsAreEarned
<1>9. QED
  BY <1>5, <1>6, <1>7, <1>8 DEF LimitInv

(* A purged and counted key: a full one refuses, one with room admits.     *)
LEMMA CountWindowKeeps ==
    ASSUME LimitInv, Types', NEW c \in Callers, CountWindow(c)
    PROVE  LimitInv'
<1> DEFINE a == call[c].age
           kept == Purged(a)
<1>1. /\ a \in 0 .. MaxDelay /\ a \in Ages /\ call[c].step = "read"
      /\ zset \in [Ages -> Nat] /\ admitted \in [Ages -> Nat]
      /\ zset' = kept /\ ttl' = (IF kept = None THEN 0 ELSE ttl) /\ faulted' = faulted
  BY AgesFacts DEF LimitInv, Types, CountWindow
<1>2. /\ kept \in [Ages -> Nat]
      /\ \A n \in Ages : kept[n] <= zset[n]
      /\ \A n \in Ages : kept[n] > 0 => kept[n] = zset[n]
      /\ \A n \in Ages : n < Window + a => kept[n] = zset[n]
      /\ Count(kept, Ages) <= Count(zset, Ages)
      /\ Count(kept, Ages) = Count(zset, Younger(Window + a))
  BY <1>1, PurgeFacts DEF LimitInv
<1>3. /\ Count(zset, Ages) \in Nat /\ Count(kept, Ages) \in Nat
      /\ Cardinality(Pending) \in Nat /\ Cardinality(Callers) \in Nat
      /\ \A n \in Ages : Cardinality(PendingOf(n)) \in Nat
      /\ \A n \in Ages : n < Window => n < Window + a
  BY <1>1, <1>2, CountFacts, PendingFacts, AgesFacts, RateLimitAssumption
<1>4. Alive'
  <2>1. ASSUME NEW n \in Ages, kept[n] > 0 PROVE ttl' >= Window + Slack - n
    <3>1. kept # None
      BY <2>1 DEF None
    <3>2. QED
      BY <1>1, <1>2, <2>1, <3>1 DEF LimitInv, Alive
  <2>2. QED
    BY <1>1, <2>1 DEF Alive
<1>5. CASE /\ Count(kept, Ages) >= max_requests
           /\ call' = [call EXCEPT ![c] = Idle]
           /\ refused' = refused \cup {a} /\ admitted' = admitted
  <2>1. Pending' = Pending /\ \A n \in Ages : PendingOf(n)' = PendingOf(n)
    <3>1. call[c].step # "counted" /\ call'[c].step # "counted"
      BY <1>1, <1>5 DEF LimitInv, Types, Idle
    <3>2. QED
      BY <3>1, OneAtATime, PendingStays DEF LimitInv, Step
  <2>2. Room'
    BY <1>1, <1>2, <1>3, <2>1, RateLimitAssumption DEF LimitInv, Room
  <2>3. Books'
    <3> SUFFICES ASSUME ~faulted', NEW n \in Ages
                 PROVE  /\ zset'[n] + Cardinality(PendingOf(n)') <= admitted'[n]
                        /\ n < Window => zset'[n] + Cardinality(PendingOf(n)') = admitted'[n]
      BY DEF Books
    <3>1. /\ zset[n] + Cardinality(PendingOf(n)) <= admitted[n]
          /\ n < Window => zset[n] + Cardinality(PendingOf(n)) = admitted[n]
      BY <1>1 DEF LimitInv, Books
    <3>2. kept[n] \in Nat /\ zset[n] \in Nat /\ admitted[n] \in Nat
      BY <1>1, <1>2
    <3> HIDE DEF kept
    <3>3. QED
      BY <1>1, <1>2, <1>3, <1>5, <2>1, <3>1, <3>2
  <2>4. ASSUME ~faulted PROVE Count(admitted, Younger(Window + a)) >= max_requests
    <3> DEFINE young == Younger(Window + a)
    <3>1. young \in SUBSET Ages
      BY DEF Younger
    <3>2. \A n \in Ages : zset[n] <= admitted[n]
      <4>1. \A n \in Ages : zset[n] + Cardinality(PendingOf(n)) <= admitted[n]
        BY <2>4 DEF LimitInv, Books
      <4>2. \A n \in Ages : zset[n] \in Nat /\ admitted[n] \in Nat
        BY <1>1
      <4>3. QED
        BY <1>3, <4>1, <4>2
    <3> HIDE DEF young
    <3>3. Count(zset, young) <= Count(admitted, young) /\ Count(admitted, young) \in Nat
      BY <1>1, <3>1, <3>2, CountFacts
    <3>4. Count(zset, young) >= max_requests /\ Count(zset, young) \in Nat
      BY <1>2, <1>3, <1>5 DEF young
    <3>5. QED
      BY <3>3, <3>4, RateLimitAssumption DEF young
  <2>5. RefusalsAreEarned'
    BY <1>1, <1>5, <2>4 DEF LimitInv, RefusalsAreEarned
  <2>6. QED
    BY <1>4, <2>2, <2>3, <2>5 DEF LimitInv
<1>6. CASE /\ Count(kept, Ages) < max_requests
           /\ call' = [call EXCEPT ![c].step = "counted"]
           /\ refused' = refused /\ Admit(c)
  <2>1. call[c].step # "counted" /\ call'[c].step = "counted" /\ call'[c].age = a
    BY <1>1, <1>6 DEF LimitInv, Types
  <2>2. \A n \in Ages : Cardinality(PendingOf(n)')
           = Cardinality(PendingOf(n)) + (IF n = a THEN 1 ELSE 0)
    BY <2>1, OneAtATime, PendingJoins DEF LimitInv, Step
  <2>3. ~faulted' => \A n \in Ages : admitted'[n] = admitted[n] + (IF n = a THEN 1 ELSE 0)
    BY <1>1, <1>6 DEF Admit
  <2>4. Room'
    <3>1. Pending' \in SUBSET Callers
      BY DEF Pending
    <3>2. Cardinality(Pending') <= Cardinality(Callers) /\ Cardinality(Pending') \in Nat
      BY <3>1, FS_Subset, FS_CardinalityType, RateLimitAssumption
    <3> HIDE DEF kept
    <3>3. QED
      BY <1>1, <1>3, <1>6, <3>2, RateLimitAssumption DEF Room
  <2>5. Books'
    <3> SUFFICES ASSUME ~faulted', NEW n \in Ages
                 PROVE  /\ zset'[n] + Cardinality(PendingOf(n)') <= admitted'[n]
                        /\ n < Window => zset'[n] + Cardinality(PendingOf(n)') = admitted'[n]
      BY DEF Books
    <3>1. /\ zset[n] + Cardinality(PendingOf(n)) <= admitted[n]
          /\ n < Window => zset[n] + Cardinality(PendingOf(n)) = admitted[n]
      BY <1>1 DEF LimitInv, Books
    <3>2. kept[n] \in Nat /\ zset[n] \in Nat /\ admitted[n] \in Nat
      BY <1>1, <1>2
    <3>3. zset'[n] = kept[n] /\ kept[n] <= zset[n] /\ (n < Window => kept[n] = zset[n])
      BY <1>1, <1>2, <1>3
    <3> HIDE DEF kept, a
    <3>4. QED
      BY <1>3, <2>2, <2>3, <3>1, <3>2, <3>3
  <2>6. RefusalsAreEarned'
    <3>1. CASE faulted'
      BY <3>1 DEF RefusalsAreEarned
    <3>2. CASE ~faulted'
      <4>1. \A n \in Ages : admitted'[n] >= admitted[n]
        BY <1>1, <2>3, <3>2
      <4>2. QED
        BY <1>1, <1>6, <4>1, StaysEarned DEF LimitInv
    <3>3. QED
      BY <3>1, <3>2
  <2>7. QED
    BY <1>4, <2>4, <2>5, <2>6 DEF LimitInv
<1>7. QED
  BY <1>5, <1>6 DEF CountWindow

(* As time passes entries grow older together with the admissions they     *)
(* stand for, and the key goes only when no entry is of the window.        *)
LEMMA TickKeeps ==
    ASSUME LimitInv, Types', Tick
    PROVE  LimitInv'
<1>1. /\ zset \in [Ages -> Nat] /\ admitted \in [Ages -> Nat]
      /\ ttl \in 0 .. Window + Slack /\ (ttl = 0 => zset = None)
      /\ Older(zset) \in [Ages -> Nat] /\ Count(Older(zset), Ages) <= Count(zset, Ages)
  BY OlderCount DEF LimitInv, Types
<1>2. /\ Pending' = Pending
      /\ PendingOf(0)' = {}
      /\ \A n \in Ages : n # 0 => PendingOf(n)' = PendingOf(n - 1)
  BY PendingAges DEF LimitInv
<1>3. Room'
  <2>1. Count(zset', Ages) <= Count(zset, Ages) /\ Count(zset', Ages) \in Nat
    <3>1. zset' = None \/ zset' = Older(zset)
      BY DEF Tick
    <3>2. Count(zset, Ages) \in Nat /\ Count(Older(zset), Ages) \in Nat
      BY <1>1, CountFacts
    <3>3. QED
      BY <1>1, <3>1, <3>2, NoneCounts
  <2>2. Count(zset, Ages) \in Nat /\ Cardinality(Pending) \in Nat /\ Cardinality(Callers) \in Nat
    BY <1>1, CountFacts, PendingFacts
  <2>3. QED
    BY <1>2, <2>1, <2>2, RateLimitAssumption DEF LimitInv, Room
<1>4. \A n \in Ages : n # 0 =>
        /\ n - 1 \in Ages /\ n - 1 \in Nat
        /\ Older(zset)[n] = zset[n - 1] /\ Older(admitted)[n] = admitted[n - 1]
  BY RateLimitAssumption DEF Ages, Older
<1>5. 0 \in Ages => Older(zset)[0] = 0 /\ Older(admitted)[0] = 0
  BY DEF Older
<1>6. Alive'
  <2> SUFFICES ASSUME NEW n \in Ages, zset'[n] > 0 PROVE ttl' >= Window + Slack - n
    BY DEF Alive
  <2>1. ttl' # 0 /\ zset' = Older(zset) /\ ttl' = ttl - 1
    BY DEF Tick, None
  <2>2. n # 0
    BY <1>5, <2>1
  <2>3. zset[n - 1] > 0 /\ n - 1 \in Ages
    BY <1>4, <2>1, <2>2
  <2>4. ttl >= Window + Slack - (n - 1)
    BY <2>3 DEF LimitInv, Alive
  <2>5. QED
    BY <1>1, <2>1, <2>4, AgesFacts, RateLimitAssumption
<1>7. Books'
  <2> SUFFICES ASSUME ~faulted', NEW n \in Ages
               PROVE  /\ zset'[n] + Cardinality(PendingOf(n)') <= admitted'[n]
                      /\ n < Window => zset'[n] + Cardinality(PendingOf(n)') = admitted'[n]
    BY DEF Books
  <2>1. ~faulted /\ admitted' = Older(admitted)
    BY DEF Tick
  <2>2. zset' = Older(zset) \/ zset' = None
    BY DEF Tick
  <2>3. CASE n = 0
    <3>1. zset'[n] = 0 /\ admitted'[n] = 0
      BY <1>5, <2>1, <2>2, <2>3 DEF None
    <3>2. Cardinality(PendingOf(n)') = 0
      BY <1>2, <2>3, FS_EmptySet
    <3>3. QED
      BY <3>1, <3>2
  <2>4. CASE n # 0
    <3> DEFINE m == n - 1
    <3>1. /\ m \in Ages /\ m \in Nat /\ n = m + 1
          /\ admitted'[n] = admitted[m] /\ PendingOf(n)' = PendingOf(m)
      BY <1>2, <1>4, <2>1, <2>4, AgesFacts
    <3>2. zset'[n] = zset[m] \/ zset'[n] = 0
      BY <1>4, <2>2, <2>4 DEF None
    <3>3. m < Window - 1 => zset'[n] = zset[m]
      <4>1. CASE ttl' # 0
        BY <1>4, <2>4, <4>1 DEF Tick
      <4>2. CASE ttl' = 0 /\ m < Window - 1
        <5>1. zset'[n] = 0
          BY <4>2 DEF Tick, None
        <5>2. CASE ttl = 0
          BY <1>1, <3>1, <5>1, <5>2 DEF None
        <5>3. CASE Older(zset) = None
          BY <1>4, <2>4, <5>1, <5>3 DEF None
        <5>4. CASE ttl = 1
          <6>1. ~ (zset[m] > 0)
            BY <3>1, <4>2, <5>4, RateLimitAssumption DEF LimitInv, Alive
          <6>2. zset[m] \in Nat
            BY <1>1, <3>1
          <6>3. QED
            BY <5>1, <6>1, <6>2
        <5>5. ttl = 0 \/ Older(zset) = None \/ ttl = 1
          BY <1>1, <4>2, RateLimitAssumption DEF Tick
        <5>6. QED
          BY <5>2, <5>3, <5>4, <5>5
      <4>3. QED
        BY <4>1, <4>2
    <3>4. /\ zset[m] + Cardinality(PendingOf(m)) <= admitted[m]
          /\ m < Window => zset[m] + Cardinality(PendingOf(m)) = admitted[m]
      BY <2>1, <3>1 DEF LimitInv, Books
    <3>5. zset[m] \in Nat /\ admitted[m] \in Nat /\ Cardinality(PendingOf(m)) \in Nat
      BY <1>1, <3>1, PendingFacts
    <3> HIDE DEF m
    <3>6. QED
      BY <3>1, <3>2, <3>3, <3>4, <3>5, RateLimitAssumption
  <2>5. QED
    BY <2>3, <2>4
<1>8. RefusalsAreEarned'
  BY DEF Tick, RefusalsAreEarned
<1>9. QED
  BY <1>3, <1>6, <1>7, <1>8 DEF LimitInv

(* The invariant holds before the first request.                           *)
LEMMA InitLimit == Init => LimitInv
<1> SUFFICES ASSUME Init PROVE LimitInv
  OBVIOUS
<1>1. Types
  <2>1. Idle \in [step : {"idle", "read", "counted"}, age : 0 .. MaxDelay]
    BY RateLimitAssumption DEF Idle
  <2>2. 0 \in 0 .. Window + Slack
    BY RateLimitAssumption
  <2>3. QED
    BY <2>1, <2>2, NoneCounts DEF Init, Types
<1>2. Pending = {} /\ \A n \in Ages : PendingOf(n) = {}
  BY DEF Init, Pending, PendingOf, Idle
<1>3. Room
  <2>1. Count(zset, Ages) = 0 /\ Cardinality(Pending) = 0
    BY <1>2, NoneCounts, FS_EmptySet DEF Init
  <2>2. QED
    BY <2>1, PendingFacts, RateLimitAssumption DEF Room
<1>4. Alive /\ RefusalsAreEarned
  BY DEF Init, Alive, RefusalsAreEarned, None
<1>5. Books
  <2>1. \A n \in Ages : zset[n] = 0 /\ admitted[n] = 0
    BY DEF Init, None
  <2>2. \A n \in Ages : Cardinality(PendingOf(n)) = 0
    BY <1>2, FS_EmptySet
  <2>3. QED
    BY <2>1, <2>2 DEF Books
<1>6. QED
  BY <1>1, <1>3, <1>4, <1>5 DEF LimitInv

(* Every step keeps it.                                                    *)
LEMMA LimitStep == LimitInv /\ [Next]_vars => LimitInv'
<1> SUFFICES ASSUME LimitInv, [Next]_vars PROVE LimitInv'
  OBVIOUS
<1>1. Types'
  BY TypesStep DEF LimitInv
<1>2. CASE \E c \in Callers :
              ReadClock(c) \/ Step(c) \/ CountFails(c) \/ LoseEntry(c) \/ DropCall(c)
  BY <1>1, <1>2, ReadClockKeeps, FaultKeeps, AddEntryKeeps, CountWindowKeeps DEF Step
<1>3. CASE Tick
  BY <1>1, <1>3, TickKeeps
<1>4. CASE UNCHANGED vars
  <2>1. Pending' = Pending /\ \A n : PendingOf(n)' = PendingOf(n)
    BY <1>4 DEF vars, Pending, PendingOf
  <2>2. Room' /\ Alive'
    BY <1>4, <2>1 DEF vars, LimitInv, Room, Alive
  <2>3. Books'
    BY <1>4, <2>1 DEF vars, LimitInv, Books
  <2>4. RefusalsAreEarned'
    BY <1>4 DEF vars, LimitInv, RefusalsAreEarned
  <2>5. QED
    BY <1>1, <2>2, <2>3, <2>4 DEF LimitInv
<1>5. QED
  BY <1>2, <1>3, <1>4 DEF Next

(* So it holds in every state.                                             *)
LEMMA LimitInvariance == Spec => []LimitInv
<1>1. QED
  BY InitLimit, LimitStep, PTL DEF Spec

(* Every value stays in its range; the key never holds more entries than   *)
(* the limit and the requests in flight allow.                             *)
THEOREM RateLimitTypes == Spec => []TypeOK
<1>1. ASSUME LimitInv PROVE TypeOK
  <2> DEFINE most == max_requests - 1 + Cardinality(Callers)
  <2>1. zset \in [Ages -> Nat] /\ IsFiniteSet(Ages)
    BY <1>1, AgesFacts DEF LimitInv, Types
  <2>2. Count(zset, Ages) <= most /\ most \in Nat
    <3>1. Count(zset, Ages) \in Nat /\ Cardinality(Pending) \in Nat /\ Cardinality(Callers) \in Nat
      BY <2>1, CountFacts, PendingFacts
    <3>2. QED
      BY <1>1, <3>1, RateLimitAssumption DEF LimitInv, Room
  <2> HIDE DEF most
  <2>3. ASSUME NEW n \in Ages PROVE zset[n] \in 0 .. most
    <3>1. Ages \ {n} \in SUBSET Ages /\ \A k \in Ages : zset[k] \in Int
      BY <2>1
    <3>2. Count(zset, Ages) = zset[n] + Count(zset, Ages \ {n})
      BY <2>1, <3>1, SumRemove DEF Count
    <3>3. Count(zset, Ages \ {n}) \in Nat /\ zset[n] \in Nat
      BY <2>1, <3>1, CountFacts
    <3>4. QED
      BY <2>2, <3>2, <3>3
  <2>4. zset \in [Ages -> 0 .. most]
    BY <2>1, <2>3
  <2>5. QED
    BY <1>1, <2>4 DEF LimitInv, Types, TypeOK, most
<1>2. QED
  BY <1>1, LimitInvariance, PTL

-----------------------------------------------------------------------------
(* The key and the pending requests account for all who were let in of a   *)
(* span.  A late request's purge can end this for a span that is over, and *)
(* so can the end of the key; then only those who read the clock in the    *)
(* span and have still to count can come on top.                           *)
Intact(n) == \A k \in Span(n) : zset[k] + Cardinality(PendingOf(k)) = admitted[k]
Late(n) == {c \in Callers : call[c].step = "read" /\ call[c].age \in Span(n)}
Bounded(n) ==
    Count(admitted, Span(n)) + Cardinality(Late(n)) <= max_requests - 1 + 2 * Cardinality(Callers)

Spans == ~faulted => \A n \in 1 .. MaxDelay : Intact(n) \/ Bounded(n)

(* What spans and late requests are.                                       *)
LEMMA SpanFacts ==
    ASSUME NEW n
    PROVE  /\ Span(n) \in SUBSET Ages /\ IsFiniteSet(Span(n))
           /\ IsFiniteSet(Late(n)) /\ Cardinality(Late(n)) \in Nat
           /\ Cardinality(Late(n)) <= Cardinality(Callers) /\ Cardinality(Callers) \in Nat
<1>1. Span(n) \in SUBSET Ages /\ Late(n) \in SUBSET Callers
  BY DEF Span, Late
<1>2. IsFiniteSet(Span(n))
  BY <1>1, AgesFacts
<1>3. QED
  BY <1>1, <1>2, RateLimitAssumption, FS_Subset, FS_CardinalityType

(* In a span that is accounted for, no more are let in than the key may    *)
(* hold and the requests in flight may add.                                *)
LEMMA IntactCount ==
    ASSUME LimitInv, NEW n, Intact(n)
    PROVE  Count(admitted, Span(n)) <= max_requests - 1 + Cardinality(Callers)
<1> DEFINE span == Span(n)
           pend == [k \in Ages |-> Cardinality(PendingOf(k))]
           age == [c \in Pending |-> call[c].age]
<1>1. zset \in [Ages -> Nat] /\ admitted \in [Ages -> Nat] /\ IsFiniteSet(Ages)
  BY AgesFacts DEF LimitInv, Types
<1>2. pend \in [Ages -> Nat]
  BY PendingFacts
<1>3. span \in SUBSET Ages /\ IsFiniteSet(span)
  BY SpanFacts
<1>4. \A k \in span : admitted[k] = zset[k] + pend[k]
  BY <1>3 DEF Intact
<1>5. Count(pend, Ages) = Cardinality(Pending)
  <2>1. age \in [Pending -> Ages]
    BY AgesFacts DEF LimitInv, Types, Pending
  <2>2. \A k : PendingOf(k) = {c \in Pending : age[c] = k}
    BY DEF PendingOf
  <2>3. pend = [k \in Ages |-> Cardinality({c \in Pending : age[c] = k})]
    BY <2>2
  <2> HIDE DEF age, pend
  <2>4. SumFunctionOnSet([k \in Ages |-> Cardinality({c \in Pending : age[c] = k})], Ages)
          = Cardinality(Pending)
    BY <1>1, <2>1, PendingFacts, SumOfCounts
  <2>5. QED
    BY <2>3, <2>4 DEF Count
<1> HIDE DEF span, pend
<1>6. Count(admitted, span) = Count(zset, span) + Count(pend, span)
  <2>1. \A k \in span : zset[k] \in Int /\ pend[k] \in Int /\ admitted[k] = zset[k] + pend[k]
    BY <1>1, <1>2, <1>3, <1>4
  <2>2. QED
    BY <1>3, <2>1, SumPlus DEF Count
<1>7. Count(zset, span) <= Count(zset, Ages) /\ Count(zset, span) \in Nat
  BY <1>1, <1>3, CountFacts
<1>8. Count(pend, span) <= Count(pend, Ages) /\ Count(pend, span) \in Nat
  BY <1>2, <1>3, CountFacts
<1>9. Count(zset, Ages) \in Nat /\ Cardinality(Pending) \in Nat /\ Cardinality(Callers) \in Nat
  BY <1>1, CountFacts, PendingFacts
<1>10. Count(zset, Ages) + Cardinality(Pending) <= max_requests - 1 + Cardinality(Callers)
  BY DEF LimitInv, Room
<1>11. QED
  BY <1>5, <1>6, <1>7, <1>8, <1>9, <1>10, RateLimitAssumption DEF span

(* The span that ends now is accounted for.                                *)
LEMMA NowIntact == LimitInv /\ ~faulted => Intact(0)
<1> SUFFICES ASSUME LimitInv, ~faulted, NEW k \in Span(0)
             PROVE  zset[k] + Cardinality(PendingOf(k)) = admitted[k]
  BY DEF Intact
<1>1. k \in Ages /\ k < Window
  BY AgesFacts, RateLimitAssumption DEF Span
<1>2. QED
  BY <1>1 DEF LimitInv, Books

(* When an account ends, all who are late together stay within the bound.  *)
LEMMA BrokenSpan ==
    ASSUME LimitInv, LimitInv', NEW n, NEW m, Intact(n),
           Count(admitted', Span(m)) <= Count(admitted, Span(n))
    PROVE  Bounded(m)'
<1>1. admitted \in [Ages -> Nat] /\ admitted' \in [Ages -> Nat]
  BY DEF LimitInv, Types
<1>2. Span(n) \in SUBSET Ages /\ Span(m) \in SUBSET Ages
  BY SpanFacts
<1>3. Count(admitted', Span(m)) \in Nat /\ Count(admitted, Span(n)) \in Nat
  BY <1>1, <1>2, CountFacts
<1>4. Count(admitted, Span(n)) <= max_requests - 1 + Cardinality(Callers)
  BY IntactCount
<1>5. Late(m)' \in SUBSET Callers
  BY DEF Late
<1>6. /\ Cardinality(Late(m)') \in Nat /\ Cardinality(Callers) \in Nat
      /\ Cardinality(Late(m)') <= Cardinality(Callers)
  BY <1>5, RateLimitAssumption, FS_Subset, FS_CardinalityType
<1>7. QED
  BY <1>3, <1>4, <1>6, RateLimitAssumption DEF Bounded

(* A span that is not accounted for stays bounded as long as who is let in *)
(* is no longer late.                                                      *)
LEMMA BoundedStays ==
    ASSUME Types, NEW n, Bounded(n), Late(n)' \in SUBSET Late(n), admitted' = admitted
    PROVE  Bounded(n)'
<1>1. IsFiniteSet(Late(n)) /\ Cardinality(Late(n)) \in Nat
  BY SpanFacts
<1>2. Cardinality(Late(n)') <= Cardinality(Late(n)) /\ Cardinality(Late(n)') \in Nat
  BY <1>1, FS_Subset, FS_CardinalityType
<1>3. Count(admitted, Span(n)) \in Nat /\ Cardinality(Callers) \in Nat
  BY SpanFacts, CountFacts DEF Types
<1>4. QED
  BY <1>1, <1>2, <1>3, RateLimitAssumption DEF Bounded

(* What a span holds moves on with it.                                     *)
Only(f, S) == [k \in Ages |-> IF k \in S THEN f[k] ELSE 0]

LEMMA OnlyCount ==
    ASSUME NEW f \in [Ages -> Nat], NEW S \in SUBSET Ages
    PROVE  Only(f, S) \in [Ages -> Nat] /\ Count(Only(f, S), Ages) = Count(f, S)
<1>1. PICK h : h = Only(f, S)
  OBVIOUS
<1>2. /\ h \in [Ages -> Nat]
      /\ \A k \in S : h[k] = f[k]
      /\ \A k \in Ages \ S : h[k] = 0
      /\ \A k \in Ages : h[k] \in Int
  BY <1>1 DEF Only
<1>3. IsFiniteSet(Ages) /\ IsFiniteSet(S)
  BY AgesFacts
<1>4. SumFunctionOnSet(h, Ages) = SumFunctionOnSet(h, S)
  BY <1>2, <1>3, SumZeros
<1>5. SumFunctionOnSet(h, S) = SumFunctionOnSet(f, S)
  BY <1>2, <1>3, SumAgree
<1>6. QED
  BY <1>1, <1>2, <1>4, <1>5 DEF Count

LEMMA OlderSpan ==
    ASSUME NEW f \in [Ages -> Nat], NEW n \in 1 .. MaxDelay
    PROVE  Count(Older(f), Span(n)) <= Count(f, Span(n - 1))
<1>1. n \in Nat /\ n > 0 /\ Window \in Nat /\ MaxDelay \in Nat
  BY RateLimitAssumption
<1>2. \A k \in Ages : k # 0 => k - 1 \in Ages /\ (k - 1 \in Span(n - 1) <=> k \in Span(n))
  BY <1>1 DEF Ages, Span
<1>3. 0 \notin Span(n)
  BY <1>1 DEF Span
<1>4. Span(n) \in SUBSET Ages /\ Span(n - 1) \in SUBSET Ages
  BY SpanFacts
<1>5. PICK h : h = Only(f, Span(n - 1))
  OBVIOUS
<1>6. Older(h) = Only(Older(f), Span(n))
  BY <1>2, <1>3, <1>5 DEF Older, Only
<1>7. Older(f) \in [Ages -> Nat]
  BY OlderCount
<1>8. h \in [Ages -> Nat] /\ Count(h, Ages) = Count(f, Span(n - 1))
  BY <1>4, <1>5, OnlyCount
<1>9. Count(Older(h), Ages) = Count(Older(f), Span(n))
  BY <1>4, <1>6, <1>7, OnlyCount
<1>10. Count(Older(h), Ages) <= Count(h, Ages)
  BY <1>8, OlderCount
<1>11. QED
  BY <1>8, <1>9, <1>10

(* A late count leaves a younger span alone, and may empty an older one    *)
(* that it does not belong to.                                             *)
LEMMA CountWindowSpans ==
    ASSUME LimitInv, LimitInv', ~faulted, NEW c \in Callers, CountWindow(c),
           NEW n \in 1 .. MaxDelay, Intact(n) \/ Bounded(n)
    PROVE  Intact(n)' \/ Bounded(n)'
<1> DEFINE a == call[c].age
           kept == Purged(a)
           add == IF call'[c].step = "counted" THEN 1 ELSE 0
<1>1. /\ Types /\ Types' /\ a \in 0 .. MaxDelay /\ a \in Ages
      /\ n \in Nat /\ a \in Nat /\ Window \in Nat
      /\ zset \in [Ages -> Nat] /\ admitted \in [Ages -> Nat] /\ admitted' \in [Ages -> Nat]
  BY AgesFacts, RateLimitAssumption DEF LimitInv, Types
<1>2. call[c].step = "read" /\ ~faulted' /\ zset' = kept
  BY DEF CountWindow
<1>3. \A k \in Ages : k < Window + a => kept[k] = zset[k]
  BY <1>1, PurgeFacts
<1>4. \A d \in Callers \ {c} : call'[d] = call[d]
  BY <1>1, OneAtATime DEF Step
<1>5. /\ call'[c].step # "read"
      /\ \A k \in Ages : Cardinality(PendingOf(k)')
            = Cardinality(PendingOf(k)) + (IF k = a THEN add ELSE 0)
      /\ \A k \in Ages : admitted'[k] = admitted[k] + (IF k = a THEN add ELSE 0)
  <2>1. \A k \in Ages : Cardinality(PendingOf(k)) \in Nat /\ admitted[k] \in Nat
    BY <1>1, PendingFacts
  <2>2. CASE call' = [call EXCEPT ![c] = Idle] /\ admitted' = admitted
    <3>1. call'[c].step = "idle"
      BY <1>1, <2>2 DEF Types, Idle
    <3>2. \A k \in Ages : PendingOf(k)' = PendingOf(k)
      BY <1>1, <1>2, <1>4, <3>1, PendingStays
    <3>3. QED
      BY <2>1, <2>2, <3>1, <3>2
  <2>3. CASE call' = [call EXCEPT ![c].step = "counted"] /\ Admit(c)
    <3>1. call'[c].step = "counted" /\ call'[c].age = a
      BY <1>1, <2>3 DEF Types
    <3>2. \A k \in Ages : Cardinality(PendingOf(k)')
             = Cardinality(PendingOf(k)) + (IF k = a THEN 1 ELSE 0)
      BY <1>1, <1>2, <1>4, <3>1, PendingJoins
    <3>3. \A k \in Ages : admitted'[k] = admitted[k] + (IF k = a THEN 1 ELSE 0)
      BY <1>1, <1>2, <2>3 DEF Admit
    <3>4. QED
      BY <3>1, <3>2, <3>3
  <2>4. QED
    BY <2>2, <2>3 DEF CountWindow
<1>6. /\ add \in {0, 1} /\ Span(n) \in SUBSET Ages
      /\ \A k \in Span(n) : admitted[k] \in Int /\ (k # a => admitted'[k] = admitted[k])
  <2>1. Span(n) \in SUBSET Ages
    BY SpanFacts
  <2>2. ASSUME NEW k \in Span(n)
        PROVE  admitted[k] \in Int /\ (k # a => admitted'[k] = admitted[k])
    <3>1. k \in Ages /\ admitted[k] \in Nat
      BY <1>1, <2>1
    <3>2. admitted'[k] = admitted[k] + (IF k = a THEN add ELSE 0)
      BY <1>5, <3>1
    <3> HIDE DEF a, add
    <3>3. QED
      BY <3>1, <3>2
  <2>3. QED
    BY <2>1, <2>2
<1>7. Late(n)' = Late(n) \ {c} /\ (c \in Late(n) <=> a \in Span(n))
  BY <1>2, <1>4, <1>5 DEF Late
<1> HIDE DEF a, kept, add
<1>8. CASE Intact(n) /\ n <= a
  <2>1. ASSUME NEW k \in Span(n)
        PROVE  zset'[k] + Cardinality(PendingOf(k)') = admitted'[k]
    <3>1. k \in Ages /\ k \in Nat /\ k < Window + a
      BY <1>1, <1>8, AgesFacts DEF Span
    <3>2. zset'[k] = zset[k] /\ zset[k] + Cardinality(PendingOf(k)) = admitted[k]
      BY <1>2, <1>3, <1>8, <3>1 DEF Intact
    <3>3. zset[k] \in Nat /\ Cardinality(PendingOf(k)) \in Nat /\ admitted[k] \in Nat
      BY <1>1, <3>1, PendingFacts
    <3>4. QED
      BY <1>5, <1>6, <3>1, <3>2, <3>3
  <2>2. QED
    BY <2>1 DEF Intact
<1>9. ASSUME a \notin Span(n) PROVE Count(admitted', Span(n)) = Count(admitted, Span(n))
  <2>1. \A k \in Span(n) : admitted'[k] = admitted[k]
    BY <1>6, <1>9
  <2>2. QED
    BY <2>1, SpanFacts, SumAgree DEF Count
<1>10. Count(admitted, Span(n)) \in Nat /\ Cardinality(Callers) \in Nat
  BY <1>1, <1>6, CountFacts, SpanFacts
<1>11. CASE Intact(n) /\ ~ (n <= a)
  <2>1. a \notin Span(n)
    BY <1>11 DEF Span
  <2>2. Count(admitted', Span(n)) <= Count(admitted, Span(n))
    BY <1>9, <1>10, <2>1
  <2>3. QED
    BY <1>11, <2>2, BrokenSpan
<1>12. CASE Bounded(n)
  <2>1. CASE a \notin Span(n)
    <3>1. Late(n)' = Late(n) /\ Count(admitted', Span(n)) = Count(admitted, Span(n))
      BY <1>7, <1>9, <2>1
    <3>2. QED
      BY <1>12, <3>1 DEF Bounded
  <2>2. CASE a \in Span(n)
    <3>1. Cardinality(Late(n)') = Cardinality(Late(n)) - 1 /\ Cardinality(Late(n)) \in Nat
      BY <1>7, <2>2, SpanFacts, FS_RemoveElement
    <3>2. Count(admitted', Span(n)) = Count(admitted, Span(n)) + add
      <4>1. PICK f, g, d, S : f = admitted /\ g = admitted' /\ d = add /\ S = Span(n)
        OBVIOUS
      <4>2. IsFiniteSet(S) /\ a \in S /\ d \in Int
        BY <1>6, <2>2, <4>1, SpanFacts
      <4>3. \A k \in S : f[k] \in Int
        BY <1>6, <4>1
      <4>4. g[a] = f[a] + d
        BY <1>1, <1>5, <4>1
      <4>5. \A k \in S \ {a} : g[k] = f[k]
        BY <1>6, <4>1
      <4>6. SumFunctionOnSet(g, S) = SumFunctionOnSet(f, S) + d
        BY <4>2, <4>3, <4>4, <4>5, SumChange
      <4>7. QED
        BY <4>1, <4>6 DEF Count
    <3>3. QED
      BY <1>6, <1>10, <1>12, <3>1, <3>2, RateLimitAssumption DEF Bounded
  <2>3. QED
    BY <2>1, <2>2
<1>13. QED
  BY <1>8, <1>11, <1>12

(* A tick makes of each span the next older one, and may end the key.      *)
LEMMA TickSpans ==
    ASSUME LimitInv, LimitInv', ~faulted, Tick, NEW n \in 1 .. MaxDelay,
           Intact(n - 1) \/ Bounded(n - 1)
    PROVE  Intact(n)' \/ Bounded(n)'
<1>1. /\ Types /\ Types' /\ n \in Nat /\ n > 0 /\ Window \in Nat /\ MaxDelay \in Nat
      /\ zset \in [Ages -> Nat] /\ admitted \in [Ages -> Nat]
      /\ admitted' = Older(admitted)
  BY RateLimitAssumption DEF LimitInv, Types, Tick
<1>2. Count(admitted', Span(n)) <= Count(admitted, Span(n - 1))
  BY <1>1, OlderSpan
<1>3. CASE Intact(n - 1) /\ zset' = Older(zset)
  <2>1. ASSUME NEW k \in Span(n)
        PROVE  zset'[k] + Cardinality(PendingOf(k)') = admitted'[k]
    <3>1. k \in Ages /\ k # 0 /\ k - 1 \in Span(n - 1)
      BY <1>1 DEF Span, Ages
    <3>2. PendingOf(k)' = PendingOf(k - 1)
      BY <1>1, <3>1, PendingAges
    <3>3. zset'[k] = zset[k - 1] /\ admitted'[k] = admitted[k - 1]
      BY <1>1, <1>3, <3>1 DEF Older
    <3>4. zset[k - 1] + Cardinality(PendingOf(k - 1)) = admitted[k - 1]
      BY <1>3, <3>1 DEF Intact
    <3>5. QED
      BY <3>2, <3>3, <3>4
  <2>2. QED
    BY <2>1 DEF Intact
<1>4. CASE Intact(n - 1) /\ zset' # Older(zset)
  BY <1>2, <1>4, BrokenSpan
<1>5. CASE Bounded(n - 1)
  <2>1. Late(n)' \in SUBSET Late(n - 1)
    <3>1. ASSUME NEW c \in Late(n)' PROVE c \in Late(n - 1)
      <4>1. c \in Callers /\ call'[c].step = "read" /\ call'[c].age \in Span(n)
        BY <3>1 DEF Late
      <4>2. call[c].step = "read" /\ call'[c].age = call[c].age + 1 /\ call[c].age \in Ages
        BY <1>1, <4>1, AgesFacts DEF Tick, Types, Idle
      <4>3. call[c].age \in Span(n - 1)
        BY <1>1, <4>1, <4>2, AgesFacts DEF Span
      <4>4. QED
        BY <4>1, <4>2, <4>3 DEF Late
    <3>2. QED
      BY <3>1
  <2>2. IsFiniteSet(Late(n - 1)) /\ Cardinality(Late(n - 1)) \in Nat /\ Cardinality(Callers) \in Nat
    BY SpanFacts
  <2>3. Cardinality(Late(n)') <= Cardinality(Late(n - 1)) /\ Cardinality(Late(n)') \in Nat
    BY <2>1, <2>2, FS_Subset, FS_CardinalityType
  <2>4. Count(admitted, Span(n - 1)) \in Nat /\ Count(admitted', Span(n)) \in Nat
    <3>1. admitted' \in [Ages -> Nat]
      BY <1>1 DEF Types
    <3>2. Span(n) \in SUBSET Ages /\ Span(n - 1) \in SUBSET Ages
      BY SpanFacts
    <3>3. QED
      BY <1>1, <3>1, <3>2, CountFacts
  <2>5. QED
    BY <1>2, <1>5, <2>2, <2>3, <2>4, RateLimitAssumption DEF Bounded
<1>6. QED
  BY <1>3, <1>4, <1>5

(* Every step keeps the bound of every span.                               *)
LEMMA SpansStep == LimitInv /\ LimitInv' /\ Spans /\ [Next]_vars => Spans'
<1> SUFFICES ASSUME LimitInv, LimitInv', Spans, [Next]_vars, ~faulted', NEW n \in 1 .. MaxDelay
             PROVE  Intact(n)' \/ Bounded(n)'
  BY DEF Spans
<1>1. Types /\ Types' /\ Span(n) \in SUBSET Ages /\ 0 \notin Span(n)
  BY SpanFacts DEF LimitInv, Span
<1>2. ~faulted
  BY DEF Next, Step, vars, ReadClock, CountWindow, AddEntry, CountFails, LoseEntry, DropCall, Tick
<1>3. Intact(n) \/ Bounded(n)
  BY <1>2 DEF Spans
<1>4. ASSUME NEW c \in Callers, ReadClock(c) \/ DropCall(c) PROVE Intact(n)' \/ Bounded(n)'
  <2>1. /\ call[c].step # "counted" /\ call'[c].step # "counted"
        /\ call'[c].step = "idle" \/ call'[c].age = 0
        /\ UNCHANGED <<zset, admitted>>
    BY <1>1, <1>4 DEF Types, ReadClock, DropCall, Idle
  <2>2. \A d \in Callers \ {c} : call'[d] = call[d]
    BY <1>1, <1>4, OneAtATime
  <2>3. \A k \in Ages : PendingOf(k)' = PendingOf(k)
    BY <1>1, <2>1, <2>2, PendingStays
  <2>4. Late(n)' \in SUBSET Late(n)
    BY <1>1, <2>1, <2>2 DEF Late
  <2>5. Intact(n) => Intact(n)'
    BY <1>1, <2>1, <2>3 DEF Intact
  <2>6. QED
    BY <1>1, <1>3, <2>1, <2>4, <2>5, BoundedStays
<1>5. ASSUME NEW c \in Callers, AddEntry(c) PROVE Intact(n)' \/ Bounded(n)'
  <2>1. /\ call[c].step = "counted" /\ call'[c].step = "idle" /\ admitted' = admitted
        /\ call[c].age \in Ages
        /\ \A k \in Ages : zset[k] \in Nat
        /\ \A k \in Ages : zset'[k] = zset[k] + (IF k = call[c].age THEN 1 ELSE 0)
    BY <1>1, <1>5, AgesFacts DEF Types, AddEntry, Idle
  <2>2. \A d \in Callers \ {c} : call'[d] = call[d]
    BY <1>1, <1>5, OneAtATime DEF Step
  <2>3. \A k \in Ages : /\ Cardinality(PendingOf(k)) \in Nat
                        /\ Cardinality(PendingOf(k)')
                             = Cardinality(PendingOf(k)) - (IF k = call[c].age THEN 1 ELSE 0)
    BY <1>1, <2>1, <2>2, PendingLeaves, PendingFacts
  <2>4. \A k \in Ages : zset'[k] + Cardinality(PendingOf(k)') = zset[k] + Cardinality(PendingOf(k))
    BY <2>1, <2>3
  <2>5. Intact(n) => Intact(n)'
    BY <1>1, <2>1, <2>4 DEF Intact
  <2>6. Late(n)' \in SUBSET Late(n)
    BY <2>1, <2>2 DEF Late
  <2>7. QED
    BY <1>1, <1>3, <2>1, <2>5, <2>6, BoundedStays
<1>6. ASSUME NEW c \in Callers, CountWindow(c) PROVE Intact(n)' \/ Bounded(n)'
  BY <1>2, <1>3, <1>6, CountWindowSpans
<1>7. CASE Tick
  <2>1. n = 1 \/ n - 1 \in 1 .. MaxDelay
    BY RateLimitAssumption
  <2>2. Intact(n - 1) \/ Bounded(n - 1)
    <3>1. CASE n = 1
      BY <1>2, <3>1, NowIntact
    <3>2. CASE n - 1 \in 1 .. MaxDelay
      BY <1>2, <3>2 DEF Spans
    <3>3. QED
      BY <2>1, <3>1, <3>2
  <2>3. QED
    BY <1>2, <1>7, <2>2, TickSpans
<1>8. CASE \E c \in Callers : CountFails(c) \/ LoseEntry(c)
  BY <1>8 DEF CountFails, LoseEntry
<1>9. CASE UNCHANGED vars
  BY <1>3, <1>9 DEF vars, Intact, Bounded, Late, PendingOf, Pending
<1>10. QED
  BY <1>4, <1>5, <1>6, <1>7, <1>8, <1>9 DEF Next, Step

(* The bounds hold before the first request.                               *)
LEMMA InitSpans == Init => Spans
<1> SUFFICES ASSUME Init, NEW n \in 1 .. MaxDelay PROVE Intact(n)
  BY DEF Spans
<1>1. \A k \in Ages : zset[k] = 0 /\ admitted[k] = 0 /\ PendingOf(k) = {}
  BY DEF Init, None, PendingOf, Pending, Idle
<1>2. \A k \in Ages : Cardinality(PendingOf(k)) = 0
  BY <1>1, FS_EmptySet
<1>3. QED
  BY <1>1, <1>2 DEF Intact, Span

(* The limit holds of every span as long as the window, up to the requests *)
(* in flight together; up to two rounds of them when the span is over.     *)
THEOREM Admissions == Spec => []AdmissionsBounded
<1>1. ASSUME LimitInv, Spans, ~faulted
      PROVE  /\ Count(admitted, Span(0)) <= max_requests - 1 + Cardinality(Callers)
             /\ \A n \in 1 .. MaxDelay :
                   Count(admitted, Span(n)) <= max_requests - 1 + 2 * Cardinality(Callers)
  <2>1. Count(admitted, Span(0)) <= max_requests - 1 + Cardinality(Callers)
    BY <1>1, NowIntact, IntactCount
  <2>2. ASSUME NEW n \in 1 .. MaxDelay
        PROVE  Count(admitted, Span(n)) <= max_requests - 1 + 2 * Cardinality(Callers)
    <3>1. admitted \in [Ages -> Nat]
      BY <1>1 DEF LimitInv, Types
    <3>2. /\ Count(admitted, Span(n)) \in Nat
          /\ Cardinality(Late(n)) \in Nat /\ Cardinality(Callers) \in Nat
      BY <3>1, SpanFacts, CountFacts
    <3>3. CASE Intact(n)
      <4>1. Count(admitted, Span(n)) <= max_requests - 1 + Cardinality(Callers)
        BY <1>1, <3>3, IntactCount
      <4>2. QED
        BY <3>2, <4>1, RateLimitAssumption
    <3>4. CASE Bounded(n)
      BY <3>2, <3>4, RateLimitAssumption DEF Bounded
    <3>5. QED
      BY <1>1, <3>3, <3>4 DEF Spans
  <2>3. QED
    BY <2>1, <2>2
<1>2. LimitInv /\ Spans => AdmissionsBounded
  BY <1>1 DEF AdmissionsBounded
<1>3. QED
  BY <1>2, LimitInvariance, InitSpans, SpansStep, PTL DEF Spec

(* A refusal means a full window of requests that were let in.             *)
THEOREM Refusals == Spec => []RefusalsAreEarned
<1>1. LimitInv => RefusalsAreEarned
  BY DEF LimitInv
<1>2. QED
  BY <1>1, LimitInvariance, PTL
=============================================================================
