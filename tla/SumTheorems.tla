---------------------------- MODULE SumTheorems ----------------------------
(***************************************************************************)
(* Facts about SumFunctionOnSet, the sum of f[x] over a finite set: the    *)
(* totals of balances, ledger rows, transfers and admitted requests are    *)
(* all written with it.  SumFunctionOnSet chooses an order of the elements *)
(* and recurs over the subsets; the facts below do not depend on the order. *)
(* Induction over subsets is by a minimal counterexample (SubsetMin).      *)
(***************************************************************************)
EXTENDS FiniteSetTheorems, TLAPS

(* A nonempty family of subsets of a finite set has a minimal member.      *)
LEMMA SubsetMin ==
    ASSUME NEW S, IsFiniteSet(S), NEW F \in SUBSET SUBSET S, F # {}
    PROVE  \E m \in F : \A t \in F : t \subseteq m => t = m
<1>1. IsWellFoundedOn(StrictSubsetOrdering(S), SUBSET S)
  BY FS_StrictSubsetOrderingWellFounded, FS_FiniteSubsetsOfFinite
<1>2. PICK m \in F : \A t \in F : <<t, m>> \notin StrictSubsetOrdering(S)
  BY <1>1, WFMin
<1>3. QED
  BY <1>2 DEF StrictSubsetOrdering
-----------------------------------------------------------------------------
(* The recursion that SumFunctionOnSet stands for.                         *)
Pick(s) == CHOOSE x \in s : TRUE
IsSum(g, f, S) ==
    g = [s \in SUBSET S |-> IF s = {} THEN 0 ELSE f[Pick(s)] + g[s \ {Pick(s)}]]
SumOf(f, S) == CHOOSE g : IsSum(g, f, S)

(* Pick(s) is one of s.                                                    *)
LEMMA PickType == \A s : s # {} => Pick(s) \in s
BY DEF Pick

(* SumFunctionOnSet is a solution of it, taken at the whole set.           *)
LEMMA SumIsSumOf ==
    ASSUME NEW f, NEW S
    PROVE  SumFunctionOnSet(f, S) = SumOf(f, S)[S]
BY DEF SumFunctionOnSet, FoldFunctionOnSet, MapThenFoldSet, SumOf, IsSum, Pick

(* The recursion unfolded once.                                            *)
LEMMA IsSumAt ==
    ASSUME NEW f, NEW S, NEW g, IsSum(g, f, S), NEW s \in SUBSET S
    PROVE  /\ s = {} => g[s] = 0
           /\ s # {} => g[s] = f[Pick(s)] + g[s \ {Pick(s)}]
BY DEF IsSum

(* Two solutions of the recursion agree wherever both are defined.         *)
LEMMA SumUnique ==
    ASSUME NEW f, NEW S, NEW T, IsFiniteSet(S),
           NEW g, IsSum(g, f, S), NEW h, IsSum(h, f, T)
    PROVE  \A s \in SUBSET (S \cap T) : g[s] = h[s]
<1> DEFINE Bad == {s \in SUBSET (S \cap T) : g[s] # h[s]}
<1>1. SUFFICES ASSUME Bad # {} PROVE FALSE
  OBVIOUS
<1>2. Bad \in SUBSET SUBSET S
  OBVIOUS
<1> HIDE DEF Bad
<1>3. PICK s \in Bad : \A t \in Bad : t \subseteq s => t = s
  BY <1>1, <1>2, SubsetMin
<1>4. s \in SUBSET S /\ s \in SUBSET T /\ g[s] # h[s]
  BY DEF Bad
<1>5. s # {}
  BY <1>4, IsSumAt
<1>6. g[s \ {Pick(s)}] = h[s \ {Pick(s)}]
  <2>1. s \ {Pick(s)} # s
    BY <1>5, PickType
  <2>2. s \ {Pick(s)} \notin Bad
    BY <1>3, <2>1
  <2>3. QED
    BY <2>2, <1>4 DEF Bad
<1>7. g[s] = f[Pick(s)] + g[s \ {Pick(s)}] /\ h[s] = f[Pick(s)] + h[s \ {Pick(s)}]
  BY <1>4, <1>5, IsSumAt
<1>8. QED
  BY <1>4, <1>6, <1>7

(* The recursion has a solution over every finite set.                     *)
LEMMA SumExists ==
    ASSUME NEW f, NEW S, IsFiniteSet(S)
    PROVE  IsSum(SumOf(f, S), f, S)
<1> DEFINE Bad == {T \in SUBSET S : ~ IsSum(SumOf(f, T), f, T)}
<1>1. SUFFICES ASSUME Bad # {} PROVE FALSE
  OBVIOUS
<1>2. Bad \in SUBSET SUBSET S
  OBVIOUS
<1> HIDE DEF Bad
<1>3. PICK T \in Bad : \A t \in Bad : t \subseteq T => t = T
  BY <1>1, <1>2, SubsetMin
<1>4. \A s \in SUBSET T : s # T => IsSum(SumOf(f, s), f, s)
  BY <1>3 DEF Bad
<1> DEFINE V(s) == SumOf(f, s)[s]
           h == [s \in SUBSET T |->
                    IF s = T THEN IF T = {} THEN 0 ELSE f[Pick(T)] + V(T \ {Pick(T)})
                    ELSE V(s)]
<1>5. ASSUME NEW s \in SUBSET T
      PROVE  h[s] = IF s = {} THEN 0 ELSE f[Pick(s)] + h[s \ {Pick(s)}]
  <2>1. s # {} => s \ {Pick(s)} # s /\ s \ {Pick(s)} # T /\ s \ {Pick(s)} \in SUBSET T
    BY PickType
  <2>2. CASE s = T
    BY <2>1, <2>2
  <2>3. CASE s # T /\ s = {}
    <3>1. IsSum(SumOf(f, s), f, s)
      BY <1>4, <2>3
    <3>2. V(s) = 0
      BY <2>3, <3>1, IsSumAt
    <3>3. QED
      BY <2>3, <3>2
  <2>4. CASE s # T /\ s # {}
    <3> DEFINE t == s \ {Pick(s)}
    <3>1. IsSum(SumOf(f, s), f, s) /\ IsSum(SumOf(f, t), f, t)
      BY <1>4, <2>1, <2>4
    <3>2. V(s) = f[Pick(s)] + SumOf(f, s)[t]
      BY <2>4, <3>1, IsSumAt
    <3>3. IsFiniteSet(s)
      BY <1>3, FS_Subset DEF Bad
    <3>4. t \in SUBSET (s \cap t)
      OBVIOUS
    <3>5. SumOf(f, s)[t] = V(t)
      <4> HIDE DEF t
      <4> QED BY <3>1, <3>3, <3>4, SumUnique
    <3>6. QED
      BY <2>1, <2>4, <3>2, <3>5
  <2>5. QED
    BY <2>2, <2>3, <2>4
<1>6. IsSum(h, f, T)
  <2>1. h = [s \in SUBSET T |-> h[s]]
    OBVIOUS
  <2> HIDE DEF h
  <2>2. QED
    BY <1>5, <2>1 DEF IsSum
<1> HIDE DEF h
<1>7. IsSum(SumOf(f, T), f, T)
  BY <1>6 DEF SumOf
<1>8. QED
  BY <1>3, <1>7 DEF Bad

(* The sum over the empty set is 0; otherwise some element comes first.    *)
LEMMA SumStep ==
    ASSUME NEW f, NEW S, IsFiniteSet(S)
    PROVE  /\ S = {} => SumFunctionOnSet(f, S) = 0
           /\ S # {} => /\ Pick(S) \in S
                        /\ SumFunctionOnSet(f, S)
                             = f[Pick(S)] + SumFunctionOnSet(f, S \ {Pick(S)})
<1>1. SumFunctionOnSet(f, S) = SumOf(f, S)[S] /\ IsSum(SumOf(f, S), f, S)
  BY SumIsSumOf, SumExists
<1>2. CASE S = {}
  BY <1>1, <1>2, IsSumAt
<1>3. CASE S # {}
  <2> DEFINE t == S \ {Pick(S)}
  <2>1. IsFiniteSet(t) /\ t \in SUBSET (S \cap t)
    BY FS_RemoveElement
  <2>2. SumFunctionOnSet(f, t) = SumOf(f, t)[t] /\ IsSum(SumOf(f, t), f, t)
    BY <2>1, SumIsSumOf, SumExists
  <2>3. SumOf(f, S)[t] = SumOf(f, t)[t]
    <3> HIDE DEF t
    <3> QED BY <1>1, <2>1, <2>2, SumUnique
  <2>4. SumOf(f, S)[S] = f[Pick(S)] + SumOf(f, S)[t]
    BY <1>1, <1>3, IsSumAt
  <2>5. QED
    BY <1>1, <1>3, <2>2, <2>3, <2>4, PickType
<1>4. QED
  BY <1>2, <1>3
-----------------------------------------------------------------------------
(* Nothing adds up to zero.                                                *)
LEMMA SumEmpty ==
    \A f : SumFunctionOnSet(f, {}) = 0
BY SumStep, FS_EmptySet

(* A sum of integers is an integer.                                        *)
LEMMA SumType ==
    ASSUME NEW S, IsFiniteSet(S), NEW f, \A x \in S : f[x] \in Int
    PROVE  SumFunctionOnSet(f, S) \in Int
<1> DEFINE V(s) == SumFunctionOnSet(f, s)
           Bad == {T \in SUBSET S : V(T) \notin Int}
<1>1. SUFFICES Bad = {}
  OBVIOUS
<1>2. \A T \in SUBSET S : T \in Bad <=> V(T) \notin Int
  OBVIOUS
<1>3. Bad \in SUBSET SUBSET S
  OBVIOUS
<1> HIDE DEF Bad
<1>4. SUFFICES ASSUME NEW T \in Bad, \A t \in Bad : t \subseteq T => t = T
               PROVE  FALSE
  BY <1>3, SubsetMin
<1>5. IsFiniteSet(T)
  BY <1>3, FS_Subset
<1>6. T # {}
  <2>1. T = {} => V(T) = 0
    BY SumEmpty
  <2>2. QED
    BY <1>2, <1>3, <2>1
<1>7. Pick(T) \in T /\ V(T) = f[Pick(T)] + V(T \ {Pick(T)})
  BY <1>5, <1>6, SumStep
<1>8. V(T \ {Pick(T)}) \in Int
  BY <1>2, <1>3, <1>4, <1>7
<1>9. QED
  BY <1>2, <1>3, <1>7, <1>8

(* Any element may be taken out first.                                     *)
LEMMA SumRemove ==
    ASSUME NEW S, IsFiniteSet(S), NEW f, \A y \in S : f[y] \in Int, NEW x \in S
    PROVE  SumFunctionOnSet(f, S) = f[x] + SumFunctionOnSet(f, S \ {x})
<1> DEFINE V(s) == SumFunctionOnSet(f, s)
           Fails(T) == \E y \in T : V(T) # f[y] + V(T \ {y})
           Bad == {T \in SUBSET S : Fails(T)}
<1>1. SUFFICES Bad = {}
  OBVIOUS
<1>2. \A T \in SUBSET S : T \in Bad <=> Fails(T)
  OBVIOUS
<1>3. Bad \in SUBSET SUBSET S
  OBVIOUS
<1> HIDE DEF Bad
<1>4. SUFFICES ASSUME NEW T \in Bad, \A t \in Bad : t \subseteq T => t = T
               PROVE  FALSE
  BY <1>3, SubsetMin
<1>5. PICK y \in T : V(T) # f[y] + V(T \ {y})
  BY <1>2, <1>3
<1> DEFINE c == Pick(T)
<1>6. IsFiniteSet(T)
  BY <1>3, FS_Subset
<1>7. c \in T /\ V(T) = f[c] + V(T \ {c})
  BY <1>5, <1>6, SumStep
<1> HIDE DEF c, V
<1>8. c # y
  BY <1>5, <1>7
<1>9. \A t \in SUBSET T : t # T => \A z \in t : V(t) = f[z] + V(t \ {z})
  BY <1>2, <1>3, <1>4
<1> DEFINE U == (T \ {y}) \ {c}
<1>10. V(T \ {c}) = f[y] + V(U) /\ V(T \ {y}) = f[c] + V(U)
  <2>1. V(T \ {c}) = f[y] + V((T \ {c}) \ {y}) /\ V(T \ {y}) = f[c] + V(U)
    BY <1>5, <1>7, <1>8, <1>9
  <2>2. (T \ {c}) \ {y} = U
    OBVIOUS
  <2>3. QED
    BY <2>1, <2>2
<1>11. V(U) \in Int
  BY <1>3, <1>6, FS_Subset, SumType DEF V
<1>12. f[c] \in Int /\ f[y] \in Int
  BY <1>3, <1>5, <1>7
<1> HIDE DEF U
<1>13. V(T) = f[y] + V(T \ {y})
  BY <1>7, <1>10, <1>11, <1>12
<1>14. QED
  BY <1>5, <1>13

(* A new element adds its value.                                           *)
LEMMA SumAdd ==
    ASSUME NEW S, IsFiniteSet(S), NEW x, x \notin S,
           NEW f, \A y \in S \cup {x} : f[y] \in Int
    PROVE  SumFunctionOnSet(f, S \cup {x}) = f[x] + SumFunctionOnSet(f, S)
<1>1. IsFiniteSet(S \cup {x}) /\ (S \cup {x}) \ {x} = S
  BY FS_AddElement
<1>2. QED
  BY <1>1, SumRemove

(* Only the values on the set count.                                       *)
LEMMA SumAgree ==
    ASSUME NEW S, IsFiniteSet(S), NEW f, NEW g, \A x \in S : f[x] = g[x]
    PROVE  SumFunctionOnSet(f, S) = SumFunctionOnSet(g, S)
<1> DEFINE V(s) == SumFunctionOnSet(f, s)
           W(s) == SumFunctionOnSet(g, s)
           Bad == {T \in SUBSET S : V(T) # W(T)}
<1>1. SUFFICES Bad = {}
  OBVIOUS
<1>2. \A T \in SUBSET S : T \in Bad <=> V(T) # W(T)
  OBVIOUS
<1>3. Bad \in SUBSET SUBSET S
  OBVIOUS
<1> HIDE DEF Bad
<1>4. SUFFICES ASSUME NEW T \in Bad, \A t \in Bad : t \subseteq T => t = T
               PROVE  FALSE
  BY <1>3, SubsetMin
<1>5. IsFiniteSet(T)
  BY <1>3, FS_Subset
<1>6. T # {}
  BY <1>2, <1>3, SumEmpty
<1>7. /\ Pick(T) \in T
      /\ V(T) = f[Pick(T)] + V(T \ {Pick(T)})
      /\ W(T) = g[Pick(T)] + W(T \ {Pick(T)})
  BY <1>5, <1>6, SumStep
<1>8. V(T \ {Pick(T)}) = W(T \ {Pick(T)}) /\ f[Pick(T)] = g[Pick(T)]
  BY <1>2, <1>3, <1>4, <1>7
<1>9. QED
  BY <1>2, <1>3, <1>7, <1>8

(* A change of d at one element changes the sum by d.                      *)
LEMMA SumChange ==
    ASSUME NEW S, IsFiniteSet(S), NEW f, NEW g, NEW x \in S, NEW d \in Int,
           \A y \in S : f[y] \in Int, g[x] = f[x] + d, \A y \in S \ {x} : g[y] = f[y]
    PROVE  SumFunctionOnSet(g, S) = SumFunctionOnSet(f, S) + d
<1>1. IsFiniteSet(S \ {x})
  BY FS_RemoveElement
<1>2. \A y \in S : g[y] \in Int
  OBVIOUS
<1>3. /\ SumFunctionOnSet(f, S) = f[x] + SumFunctionOnSet(f, S \ {x})
      /\ SumFunctionOnSet(g, S) = g[x] + SumFunctionOnSet(g, S \ {x})
  BY <1>2, SumRemove
<1>4. SumFunctionOnSet(g, S \ {x}) = SumFunctionOnSet(f, S \ {x})
  BY <1>1, SumAgree
<1>5. SumFunctionOnSet(f, S \ {x}) \in Int
  BY <1>1, SumType
<1>6. QED
  BY <1>3, <1>4, <1>5

(* The same value everywhere.                                              *)
LEMMA SumConstant ==
    ASSUME NEW S, IsFiniteSet(S), NEW f, NEW c \in Int, \A x \in S : f[x] = c
    PROVE  SumFunctionOnSet(f, S) = Cardinality(S) * c
<1> DEFINE V(s) == SumFunctionOnSet(f, s)
           Bad == {T \in SUBSET S : V(T) # Cardinality(T) * c}
<1>1. SUFFICES Bad = {}
  OBVIOUS
<1>2. \A T \in SUBSET S : T \in Bad <=> V(T) # Cardinality(T) * c
  OBVIOUS
<1>3. Bad \in SUBSET SUBSET S
  OBVIOUS
<1> HIDE DEF Bad
<1>4. SUFFICES ASSUME NEW T \in Bad, \A t \in Bad : t \subseteq T => t = T
               PROVE  FALSE
  BY <1>3, SubsetMin
<1>5. IsFiniteSet(T)
  BY <1>3, FS_Subset
<1>6. T # {}
  BY <1>2, <1>3, SumEmpty, FS_EmptySet
<1>7. Pick(T) \in T /\ V(T) = f[Pick(T)] + V(T \ {Pick(T)})
  BY <1>5, <1>6, SumStep
<1>8. V(T \ {Pick(T)}) = Cardinality(T \ {Pick(T)}) * c /\ f[Pick(T)] = c
  BY <1>2, <1>3, <1>4, <1>7
<1>9. Cardinality(T \ {Pick(T)}) = Cardinality(T) - 1 /\ Cardinality(T) \in Nat
  BY <1>5, <1>7, FS_RemoveElement, FS_CardinalityType
<1>10. \A n \in Nat : c + (n - 1) * c = n * c
  OBVIOUS
<1>11. QED
  BY <1>2, <1>3, <1>7, <1>8, <1>9, <1>10

(* Fewer and smaller values add up to no more; a sum of naturals is one.   *)
LEMMA SumMonotonic ==
    ASSUME NEW S, IsFiniteSet(S), NEW T \in SUBSET S, NEW f, NEW g,
           \A x \in S : f[x] \in Nat, \A x \in T : g[x] \in Nat /\ g[x] <= f[x]
    PROVE  /\ SumFunctionOnSet(f, S) \in Nat
           /\ SumFunctionOnSet(g, T) \in Nat
           /\ SumFunctionOnSet(g, T) <= SumFunctionOnSet(f, S)
<1> DEFINE V(s) == SumFunctionOnSet(f, s)
           W(s) == SumFunctionOnSet(g, s \cap T)
           Fails(s) == ~ (V(s) \in Nat /\ W(s) \in Nat /\ W(s) <= V(s))
           Bad == {s \in SUBSET S : Fails(s)}
<1>1. SUFFICES Bad = {}
  <2>1. S \cap T = T
    OBVIOUS
  <2>2. QED
    BY <2>1
<1>2. \A s \in SUBSET S : s \in Bad <=> Fails(s)
  OBVIOUS
<1>3. Bad \in SUBSET SUBSET S
  OBVIOUS
<1> HIDE DEF Bad
<1>4. SUFFICES ASSUME NEW s \in Bad, \A t \in Bad : t \subseteq s => t = s
               PROVE  FALSE
  BY <1>3, SubsetMin
<1> DEFINE x == Pick(s)
<1>5. IsFiniteSet(s) /\ IsFiniteSet(s \cap T)
  BY <1>3, FS_Subset
<1>6. s # {}
  <2>1. s = {} => V(s) = 0 /\ W(s) = 0
    BY SumEmpty
  <2>2. QED
    BY <1>2, <1>3, <2>1
<1>7. x \in s /\ V(s) = f[x] + V(s \ {x})
  BY <1>5, <1>6, SumStep
<1> HIDE DEF x
<1>8. V(s \ {x}) \in Nat /\ W(s \ {x}) \in Nat /\ W(s \ {x}) <= V(s \ {x})
  BY <1>2, <1>3, <1>4, <1>7
<1>9. CASE x \in T
  <2>1. (s \cap T) \ {x} = (s \ {x}) \cap T
    OBVIOUS
  <2>2. W(s) = g[x] + W(s \ {x})
    BY <1>5, <1>7, <1>9, <2>1, SumRemove
  <2>3. g[x] \in Nat /\ f[x] \in Nat /\ g[x] <= f[x]
    BY <1>3, <1>7, <1>9
  <2> HIDE DEF V, W
  <2>4. QED
    BY <1>2, <1>3, <1>7, <1>8, <2>2, <2>3
<1>10. CASE x \notin T
  <2>1. s \cap T = (s \ {x}) \cap T
    BY <1>10
  <2>2. W(s) = W(s \ {x})
    BY <2>1
  <2>3. f[x] \in Nat
    BY <1>3, <1>7
  <2> HIDE DEF V, W
  <2>4. QED
    BY <1>2, <1>3, <1>7, <1>8, <2>2, <2>3
<1>11. QED
  BY <1>9, <1>10

(* Zeros may be left out.                                                  *)
LEMMA SumZeros ==
    ASSUME NEW S, IsFiniteSet(S), NEW T \in SUBSET S, NEW f,
           \A x \in S : f[x] \in Int, \A x \in S \ T : f[x] = 0
    PROVE  SumFunctionOnSet(f, S) = SumFunctionOnSet(f, T)
<1> DEFINE V(s) == SumFunctionOnSet(f, s)
           Bad == {s \in SUBSET S : V(s) # V(s \cap T)}
<1>1. SUFFICES Bad = {}
  <2>1. S \cap T = T
    OBVIOUS
  <2>2. QED
    BY <2>1
<1>2. \A s \in SUBSET S : s \in Bad <=> V(s) # V(s \cap T)
  OBVIOUS
<1>3. Bad \in SUBSET SUBSET S
  OBVIOUS
<1> HIDE DEF Bad
<1>4. SUFFICES ASSUME NEW s \in Bad, \A t \in Bad : t \subseteq s => t = s
               PROVE  FALSE
  BY <1>3, SubsetMin
<1> DEFINE x == Pick(s)
<1>5. IsFiniteSet(s) /\ IsFiniteSet(s \cap T)
  BY <1>3, FS_Subset
<1>6. s # {}
  BY <1>2, <1>3
<1>7. x \in s /\ V(s) = f[x] + V(s \ {x})
  BY <1>5, <1>6, SumStep
<1> HIDE DEF x
<1>8. V(s \ {x}) = V((s \ {x}) \cap T)
  BY <1>2, <1>3, <1>4, <1>7
<1>9. CASE x \in T
  <2>1. (s \cap T) \ {x} = (s \ {x}) \cap T
    OBVIOUS
  <2>2. \A y \in s \cap T : f[y] \in Int
    BY <1>3
  <2>3. V(s \cap T) = f[x] + V((s \ {x}) \cap T)
    BY <1>5, <1>7, <1>9, <2>1, <2>2, SumRemove
  <2>4. QED
    BY <1>2, <1>3, <1>7, <1>8, <2>3
<1>10. CASE x \notin T
  <2>1. s \cap T = (s \ {x}) \cap T /\ f[x] = 0
    BY <1>3, <1>7, <1>10
  <2>2. V(s \ {x}) \in Int
    <3>1. IsFiniteSet(s \ {x}) /\ \A y \in s \ {x} : f[y] \in Int
      BY <1>3, <1>5, FS_RemoveElement
    <3>2. QED
      BY <3>1, SumType
  <2> HIDE DEF V
  <2>3. QED
    BY <1>2, <1>3, <1>7, <1>8, <2>1, <2>2
<1>11. QED
  BY <1>9, <1>10

(* The sum of two functions is summed part by part.                        *)
LEMMA SumPlus ==
    ASSUME NEW S, IsFiniteSet(S), NEW f, NEW g, NEW h,
           \A x \in S : f[x] \in Int /\ g[x] \in Int /\ h[x] = f[x] + g[x]
    PROVE  SumFunctionOnSet(h, S) = SumFunctionOnSet(f, S) + SumFunctionOnSet(g, S)
<1> DEFINE F(s) == SumFunctionOnSet(f, s)
           G(s) == SumFunctionOnSet(g, s)
           H(s) == SumFunctionOnSet(h, s)
           Bad == {T \in SUBSET S : H(T) # F(T) + G(T)}
<1>1. SUFFICES Bad = {}
  OBVIOUS
<1>2. \A T \in SUBSET S : T \in Bad <=> H(T) # F(T) + G(T)
  OBVIOUS
<1>3. Bad \in SUBSET SUBSET S
  OBVIOUS
<1> HIDE DEF Bad
<1>4. SUFFICES ASSUME NEW T \in Bad, \A t \in Bad : t \subseteq T => t = T
               PROVE  FALSE
  BY <1>3, SubsetMin
<1>5. IsFiniteSet(T)
  BY <1>3, FS_Subset
<1>6. T # {}
  <2>1. T = {} => F(T) = 0 /\ G(T) = 0 /\ H(T) = 0
    BY SumEmpty
  <2>2. QED
    BY <1>2, <1>3, <2>1
<1> DEFINE x == Pick(T)
           U == T \ {Pick(T)}
<1>7. x \in T /\ F(T) = f[x] + F(U) /\ G(T) = g[x] + G(U) /\ H(T) = h[x] + H(U)
  BY <1>5, <1>6, SumStep
<1>8. H(U) = F(U) + G(U)
  BY <1>2, <1>3, <1>4, <1>7
<1>9. f[x] \in Int /\ g[x] \in Int /\ h[x] = f[x] + g[x]
  BY <1>3, <1>7
<1>10. F(U) \in Int /\ G(U) \in Int
  <2>1. IsFiniteSet(U) /\ \A y \in U : f[y] \in Int /\ g[y] \in Int
    BY <1>3, <1>5, FS_RemoveElement
  <2> HIDE DEF U
  <2>2. QED
    BY <2>1, SumType
<1> HIDE DEF F, G, H, x, U
<1>11. QED
  BY <1>2, <1>3, <1>7, <1>8, <1>9, <1>10

(* The members of a set, counted by the value a function gives them.       *)
LEMMA SumOfCounts ==
    ASSUME NEW S, IsFiniteSet(S), NEW T, IsFiniteSet(T), NEW h \in [S -> T]
    PROVE  SumFunctionOnSet([t \in T |-> Cardinality({s \in S : h[s] = t})], T) = Cardinality(S)
<1> DEFINE N(R) == [t \in T |-> Cardinality({s \in R : h[s] = t})]
           V(R) == SumFunctionOnSet(N(R), T)
           Bad == {R \in SUBSET S : V(R) # Cardinality(R)}
<1>1. SUFFICES Bad = {}
  OBVIOUS
<1>2. \A R \in SUBSET S : R \in Bad <=> V(R) # Cardinality(R)
  OBVIOUS
<1>3. Bad \in SUBSET SUBSET S
  OBVIOUS
<1> HIDE DEF Bad
<1>4. SUFFICES ASSUME NEW R \in Bad, \A t \in Bad : t \subseteq R => t = R
               PROVE  FALSE
  BY <1>3, SubsetMin
<1>5. IsFiniteSet(R)
  BY <1>3, FS_Subset
<1>6. R # {}
  <2>1. ASSUME R = {} PROVE V(R) = 0 /\ Cardinality(R) = 0
    <3>1. \A t \in T : N(R)[t] = 0
      <4>1. \A t : {s \in R : h[s] = t} = {}
        BY <2>1
      <4>2. QED
        BY <4>1, FS_EmptySet
    <3> DEFINE n == N(R)
    <3>2. \A t \in T : n[t] = 0
      BY <3>1
    <3> HIDE DEF n
    <3>3. SumFunctionOnSet(n, T) = Cardinality(T) * 0
      BY <3>2, SumConstant
    <3>4. Cardinality(T) * 0 = 0
      BY FS_CardinalityType
    <3>5. QED
      BY <2>1, <3>3, <3>4, FS_EmptySet DEF n
  <2>2. QED
    BY <1>2, <1>3, <2>1
<1>7. PICK x : x \in R
  BY <1>6
<1> DEFINE Q == R \ {x}
           y == h[x]
<1>8. IsFiniteSet(Q) /\ Cardinality(Q) = Cardinality(R) - 1 /\ y \in T
  BY <1>3, <1>5, <1>7, FS_RemoveElement
<1>9. V(Q) = Cardinality(Q)
  BY <1>2, <1>3, <1>4, <1>7
<1>10. \A t \in T : N(Q)[t] \in Int
  <2>1. ASSUME NEW t \in T PROVE Cardinality({s \in Q : h[s] = t}) \in Nat
    <3>1. {s \in Q : h[s] = t} \in SUBSET Q
      OBVIOUS
    <3>2. IsFiniteSet({s \in Q : h[s] = t})
      BY <1>8, <3>1, FS_Subset
    <3>3. QED
      BY <3>2, FS_CardinalityType
  <2>2. QED
    BY <2>1
<1>11. N(R)[y] = N(Q)[y] + 1
  <2> DEFINE A == {s \in R : h[s] = y}
             B == {s \in Q : h[s] = y}
  <2>1. A = B \cup {x} /\ x \notin B /\ B \in SUBSET Q
    BY <1>7
  <2>2. IsFiniteSet(B)
    BY <1>8, <2>1, FS_Subset
  <2>3. N(R)[y] = Cardinality(A) /\ N(Q)[y] = Cardinality(B)
    BY <1>8
  <2> HIDE DEF A, B
  <2>4. Cardinality(A) = Cardinality(B) + 1
    BY <2>1, <2>2, FS_AddElement
  <2>5. QED
    BY <2>3, <2>4
<1>12. \A t \in T \ {y} : N(R)[t] = N(Q)[t]
  <2>1. ASSUME NEW t \in T \ {y} PROVE {s \in R : h[s] = t} = {s \in Q : h[s] = t}
    OBVIOUS
  <2>2. QED
    BY <2>1
<1>13. V(R) = V(Q) + 1
  <2>1. PICK n, m, z, d : n = N(R) /\ m = N(Q) /\ z = y /\ d = 1
    OBVIOUS
  <2>2. z \in T /\ d \in Int /\ n[z] = m[z] + d
    BY <1>8, <1>11, <2>1
  <2>3. \A t \in T \ {z} : n[t] = m[t]
    BY <1>12, <2>1
  <2>4. \A t \in T : m[t] \in Int
    BY <1>10, <2>1
  <2>5. SumFunctionOnSet(n, T) = SumFunctionOnSet(m, T) + d
    BY <2>2, <2>3, <2>4, SumChange
  <2>6. QED
    BY <2>1, <2>5
<1> HIDE DEF V, Q
<1>14. QED
  BY <1>2, <1>3, <1>5, <1>8, <1>9, <1>13, FS_CardinalityType
=============================================================================
