----------------------------- MODULE FoldLemmas -----------------------------
(***************************************************************************)
(* Lemmas about induction and sums that the components' proofs share.      *)
(* Induction is stated about a set of numbers, or of subsets, instead of   *)
(* an operator: the set's members are what has been shown so far.          *)
(***************************************************************************)
EXTENDS Integers, FiniteSetTheorems, Functions, TLAPS

LEMMA Smallest ==
    ASSUME NEW T \in SUBSET Nat, T # {}
    PROVE  \E x \in T : \A y \in T : x <= y
<1> DEFINE R == {ss \in Nat \X Nat : ss[1] < ss[2]}
<1>1. OpToRel(<, Nat) = R
  BY DEF OpToRel
<1>2. IsWellFoundedOn(R, Nat)
  BY <1>1, NatLessThanWellFounded
<1> HIDE DEF R
<1>3. PICK x \in T : \A y \in T : <<y, x>> \notin R
  BY <1>2, WFMin
<1>4. ASSUME NEW y \in T
      PROVE  x <= y
  <2>1. x \in Nat /\ y \in Nat /\ <<y, x>> \notin R
    BY <1>3
  <2> QED BY <2>1 DEF R
<1> QED BY <1>4

LEMMA NaturalsInSet ==
    ASSUME NEW T, 0 \in T, \A n \in Nat : n \in T => n + 1 \in T
    PROVE  Nat \subseteq T
<1> DEFINE out == {n \in Nat : n \notin T}
<1> SUFFICES ASSUME out # {} PROVE FALSE
  OBVIOUS
<1>1. PICK x \in out : \A y \in out : x <= y
  BY Smallest
<1>2. x \in Nat /\ x # 0 /\ x - 1 \in Nat /\ x - 1 \notin out
  BY <1>1
<1> QED BY <1>2

\* Min of the community modules, for numbers.
LEMMA MinOfNaturals ==
    ASSUME NEW T \in SUBSET Nat, T # {}
    PROVE  LET least == CHOOSE x \in T : \A y \in T : x =< y
           IN  least \in T /\ \A y \in T : least <= y
  BY Smallest

\* What holds of {} and survives the addition of an element holds of every
\* finite set: Q has the subsets of S it is known of.
LEMMA FiniteSetInSet ==
    ASSUME NEW S, IsFiniteSet(S), NEW Q, {} \in Q,
           \A T \in SUBSET S : \A x \in S \ T : T \in Q => T \cup {x} \in Q
    PROVE  \A T \in SUBSET S : T \in Q
<1> DEFINE sizes == {n \in Nat : \A T \in SUBSET S : Cardinality(T) = n => T \in Q}
<1>1. \A T \in SUBSET S : IsFiniteSet(T) /\ Cardinality(T) \in Nat
  BY FS_Subset, FS_CardinalityType
<1>2. 0 \in sizes
  BY <1>1, FS_EmptySet
<1>3. ASSUME NEW n \in Nat, n \in sizes
      PROVE  n + 1 \in sizes
  <2> SUFFICES ASSUME NEW T \in SUBSET S, Cardinality(T) = n + 1
               PROVE  T \in Q
    OBVIOUS
  <2>1. PICK x \in T : TRUE
    BY <1>1, FS_EmptySet
  <2>2. Cardinality(T \ {x}) = n
    <3>1. IsFiniteSet(T)
      BY <1>1
    <3>2. Cardinality(T \ {x}) = Cardinality(T) - 1
      BY <2>1, <3>1, FS_RemoveElement
    <3> QED BY <3>2
  <2>3. T \ {x} \in SUBSET S /\ x \in S \ (T \ {x}) /\ (T \ {x}) \cup {x} = T
    BY <2>1
  <2>4. T \ {x} \in Q
    BY <1>3, <2>2, <2>3
  <2> HIDE DEF sizes
  <2> QED BY <2>3, <2>4
<1>4. Nat \subseteq sizes
  <2> HIDE DEF sizes
  <2> QED BY <1>2, <1>3, NaturalsInSet
<1> QED BY <1>1, <1>4

-----------------------------------------------------------------------------
(* Sums of a function's values (SumFunctionOnSet of the community modules, *)
(* a fold whose order CHOOSE decides).                                     *)

Pick(s) == CHOOSE x \in s : TRUE

\* g sums w over the sets of domain D, which has what is left of each.
Sums(g, w, D) == g = [s \in D |-> IF s = {} THEN 0 ELSE w[Pick(s)] + g[s \ {Pick(s)}]]

LEMMA SumIsFold ==
    ASSUME NEW w, NEW S
    PROVE  SumFunctionOnSet(w, S) = (CHOOSE g : Sums(g, w, SUBSET S))[S]
  BY DEF SumFunctionOnSet, FoldFunctionOnSet, MapThenFoldSet, Sums, Pick

LEMMA PickIn ==
    ASSUME NEW s, s # {}
    PROVE  Pick(s) \in s
  BY DEF Pick

LEMMA SumsExist ==
    ASSUME NEW S, IsFiniteSet(S), NEW w
    PROVE  \E g : Sums(g, w, SUBSET S)
<1> DEFINE upTo(n) == {s \in SUBSET S : Cardinality(s) <= n}
           sizes == {n \in Nat : \E g : Sums(g, w, upTo(n))}
<1>1. \A s \in SUBSET S : IsFiniteSet(s) /\ Cardinality(s) \in Nat /\ Cardinality(s) <= Cardinality(S)
  BY FS_Subset, FS_CardinalityType
<1>2. ASSUME NEW s \in SUBSET S, s # {}
      PROVE  s \ {Pick(s)} \in SUBSET S /\ Cardinality(s \ {Pick(s)}) = Cardinality(s) - 1
  <2>1. IsFiniteSet(s) /\ Pick(s) \in s
    BY <1>1, <1>2, PickIn
  <2> QED BY <2>1, FS_RemoveElement
<1>3. 0 \in sizes
  <2>1. upTo(0) = {{}}
    <3>1. \A s \in SUBSET S : Cardinality(s) <= 0 <=> s = {}
      BY <1>1, FS_EmptySet
    <3> QED BY <3>1
  <2> DEFINE g == [s \in {{}} |-> 0]
  <2>2. Sums(g, w, {{}})
    BY DEF Sums
  <2> HIDE DEF g
  <2> QED BY <2>1, <2>2
<1>4. ASSUME NEW n \in Nat, n \in sizes
      PROVE  n + 1 \in sizes
  <2>1. PICK g : Sums(g, w, upTo(n))
    BY <1>4
  <2> DEFINE h == [s \in upTo(n + 1) |-> IF s = {} THEN 0 ELSE w[Pick(s)] + g[s \ {Pick(s)}]]
  <2>2. \A s \in upTo(n) : s \in upTo(n + 1) /\ h[s] = g[s]
    <3>1. \A s \in upTo(n) : s \in upTo(n + 1)
      BY <1>1
    <3>2. \A s \in upTo(n) : g[s] = IF s = {} THEN 0 ELSE w[Pick(s)] + g[s \ {Pick(s)}]
      BY <2>1 DEF Sums
    <3> HIDE DEF upTo
    <3> QED BY <3>1, <3>2
  <2>3. \A s \in upTo(n + 1) : s # {} => s \ {Pick(s)} \in upTo(n)
    BY <1>1, <1>2
  <2>4. Sums(h, w, upTo(n + 1))
    <3> HIDE DEF upTo
    <3>1. \A s \in upTo(n + 1) : h[s] = IF s = {} THEN 0 ELSE w[Pick(s)] + h[s \ {Pick(s)}]
      BY <2>2, <2>3
    <3>2. h = [s \in upTo(n + 1) |-> h[s]]
      OBVIOUS
    <3> HIDE DEF h
    <3> QED BY <3>1, <3>2 DEF Sums
  <2> HIDE DEF h, upTo
  <2> QED BY <2>4
<1>5. Cardinality(S) \in sizes
  <2>1. Nat \subseteq sizes
    <3> HIDE DEF sizes
    <3> QED BY <1>3, <1>4, NaturalsInSet
  <2> HIDE DEF sizes
  <2> QED BY <2>1, <1>1
<1>6. upTo(Cardinality(S)) = SUBSET S
  BY <1>1
<1> HIDE DEF upTo
<1> QED BY <1>5, <1>6

LEMMA SumsAgree ==
    ASSUME NEW S, IsFiniteSet(S), NEW T \in SUBSET S, NEW w, NEW g, NEW h,
           Sums(g, w, SUBSET S), Sums(h, w, SUBSET T)
    PROVE  \A s \in SUBSET T : g[s] = h[s]
<1> DEFINE sizes == {n \in Nat : \A s \in SUBSET T : Cardinality(s) = n => g[s] = h[s]}
<1>1. \A s \in SUBSET T : IsFiniteSet(s) /\ Cardinality(s) \in Nat /\ s \in SUBSET S
  BY FS_Subset, FS_CardinalityType
<1>2. ASSUME NEW s \in SUBSET T
      PROVE  /\ g[s] = IF s = {} THEN 0 ELSE w[Pick(s)] + g[s \ {Pick(s)}]
             /\ h[s] = IF s = {} THEN 0 ELSE w[Pick(s)] + h[s \ {Pick(s)}]
  BY <1>1 DEF Sums
<1>3. 0 \in sizes
  BY <1>1, <1>2, FS_EmptySet
<1>4. ASSUME NEW n \in Nat, n \in sizes
      PROVE  n + 1 \in sizes
  <2> SUFFICES ASSUME NEW s \in SUBSET T, Cardinality(s) = n + 1
               PROVE  g[s] = h[s]
    OBVIOUS
  <2>1. IsFiniteSet(s) /\ s # {}
    BY <1>1, FS_EmptySet
  <2>2. Pick(s) \in s
    BY <2>1, PickIn
  <2>3. Cardinality(s \ {Pick(s)}) = Cardinality(s) - 1
    BY <2>1, <2>2, FS_RemoveElement
  <2>4. g[s \ {Pick(s)}] = h[s \ {Pick(s)}]
    BY <1>4, <2>3
  <2> QED BY <1>2, <2>1, <2>4
<1>5. Nat \subseteq sizes
  <2> HIDE DEF sizes
  <2> QED BY <1>3, <1>4, NaturalsInSet
<1> QED BY <1>1, <1>5

SumsUp(g, w, S) == Sums(g, w, SUBSET S) /\ \A T \in SUBSET S : SumFunctionOnSet(w, T) = g[T]

LEMMA SumSums ==
    ASSUME NEW S, IsFiniteSet(S), NEW w
    PROVE  \E g : SumsUp(g, w, S)
<1>1. PICK g : Sums(g, w, SUBSET S)
  BY SumsExist
<1>2. ASSUME NEW T \in SUBSET S
      PROVE  SumFunctionOnSet(w, T) = g[T]
  <2>1. IsFiniteSet(T)
    BY FS_Subset
  <2> DEFINE h == CHOOSE g_1 : Sums(g_1, w, SUBSET T)
  <2>2. Sums(h, w, SUBSET T)
    BY <2>1, SumsExist
  <2>3. SumFunctionOnSet(w, T) = h[T]
    BY SumIsFold
  <2> HIDE DEF h
  <2> QED BY <1>1, <2>2, <2>3, SumsAgree
<1> QED BY <1>1, <1>2 DEF SumsUp

LEMMA SumType ==
    ASSUME NEW S, IsFiniteSet(S), NEW w \in [S -> Nat]
    PROVE  \A T \in SUBSET S : SumFunctionOnSet(w, T) \in Nat
<1>1. PICK g : SumsUp(g, w, S)
  BY SumSums
<1> DEFINE sizes == {n \in Nat : \A s \in SUBSET S : Cardinality(s) = n => g[s] \in Nat}
<1>2. \A s \in SUBSET S : IsFiniteSet(s) /\ Cardinality(s) \in Nat
  BY FS_Subset, FS_CardinalityType
<1>3. \A s \in SUBSET S : g[s] = IF s = {} THEN 0 ELSE w[Pick(s)] + g[s \ {Pick(s)}]
  BY <1>1 DEF Sums, SumsUp
<1>4. 0 \in sizes
  BY <1>2, <1>3, FS_EmptySet
<1>5. ASSUME NEW n \in Nat, n \in sizes
      PROVE  n + 1 \in sizes
  <2> SUFFICES ASSUME NEW s \in SUBSET S, Cardinality(s) = n + 1
               PROVE  g[s] \in Nat
    OBVIOUS
  <2>1. IsFiniteSet(s) /\ s # {}
    BY <1>2, FS_EmptySet
  <2>2. Pick(s) \in s
    BY <2>1, PickIn
  <2>3. Cardinality(s \ {Pick(s)}) = Cardinality(s) - 1
    BY <2>1, <2>2, FS_RemoveElement
  <2>4. g[s \ {Pick(s)}] \in Nat
    BY <1>5, <2>3
  <2> QED BY <1>3, <2>1, <2>2, <2>4
<1>6. Nat \subseteq sizes
  <2> HIDE DEF sizes
  <2> QED BY <1>4, <1>5, NaturalsInSet
<1> QED BY <1>1, <1>2, <1>6 DEF SumsUp

LEMMA SumEmpty ==
    ASSUME NEW w
    PROVE  SumFunctionOnSet(w, {}) = 0
<1>1. IsFiniteSet({})
  BY FS_EmptySet
<1>2. PICK g : SumsUp(g, w, {})
  BY <1>1, SumSums
<1> QED BY <1>2 DEF SumsUp, Sums

\* A sum is that of the values it adds.
LEMMA SumSame ==
    ASSUME NEW S, IsFiniteSet(S), NEW w, NEW v, \A x \in S : w[x] = v[x]
    PROVE  SumFunctionOnSet(w, S) = SumFunctionOnSet(v, S)
<1>1. PICK g : SumsUp(g, w, S)
  BY SumSums
<1>2. PICK h : SumsUp(h, v, S)
  BY SumSums
<1> DEFINE sizes == {n \in Nat : \A T \in SUBSET S : Cardinality(T) = n => g[T] = h[T]}
<1>3. \A T \in SUBSET S : IsFiniteSet(T) /\ Cardinality(T) \in Nat
  BY FS_Subset, FS_CardinalityType
<1>4. \A T \in SUBSET S : /\ g[T] = IF T = {} THEN 0 ELSE w[Pick(T)] + g[T \ {Pick(T)}]
                          /\ h[T] = IF T = {} THEN 0 ELSE v[Pick(T)] + h[T \ {Pick(T)}]
  BY <1>1, <1>2 DEF SumsUp, Sums
<1>5. 0 \in sizes
  BY <1>3, <1>4, FS_EmptySet
<1>6. ASSUME NEW n \in Nat, n \in sizes
      PROVE  n + 1 \in sizes
  <2> SUFFICES ASSUME NEW T \in SUBSET S, Cardinality(T) = n + 1
               PROVE  g[T] = h[T]
    OBVIOUS
  <2>1. IsFiniteSet(T) /\ T # {}
    BY <1>3, FS_EmptySet
  <2>2. Pick(T) \in T
    BY <2>1, PickIn
  <2>3. Cardinality(T \ {Pick(T)}) = Cardinality(T) - 1
    BY <2>1, <2>2, FS_RemoveElement
  <2>4. g[T \ {Pick(T)}] = h[T \ {Pick(T)}]
    BY <1>6, <2>3
  <2> QED BY <1>4, <2>1, <2>2, <2>4
<1>7. Nat \subseteq sizes
  <2> HIDE DEF sizes
  <2> QED BY <1>5, <1>6, NaturalsInSet
<1>8. g[S] = h[S]
  BY <1>3, <1>7
<1> QED BY <1>1, <1>2, <1>8 DEF SumsUp

\* The order does not matter: any element may be added last.
LEMMA SumRemove ==
    ASSUME NEW S, IsFiniteSet(S), NEW w \in [S -> Nat]
    PROVE  \A T \in SUBSET S : \A x \in T : SumFunctionOnSet(w, T) = w[x] + SumFunctionOnSet(w, T \ {x})
<1>1. PICK g : SumsUp(g, w, S)
  BY SumSums
<1>2. \A T \in SUBSET S : IsFiniteSet(T) /\ Cardinality(T) \in Nat
  BY FS_Subset, FS_CardinalityType
<1>3. \A T \in SUBSET S : g[T] = IF T = {} THEN 0 ELSE w[Pick(T)] + g[T \ {Pick(T)}]
  BY <1>1 DEF SumsUp, Sums
<1>4. \A T \in SUBSET S : g[T] \in Nat
  BY <1>1, SumType DEF SumsUp
<1> DEFINE sizes == {n \in Nat : \A T \in SUBSET S : Cardinality(T) = n => \A x \in T : g[T] = w[x] + g[T \ {x}]}
<1>5. 0 \in sizes
  BY <1>2, FS_EmptySet
<1>6. ASSUME NEW n \in Nat, n \in sizes
      PROVE  n + 1 \in sizes
  <2> SUFFICES ASSUME NEW T \in SUBSET S, Cardinality(T) = n + 1, NEW x \in T
               PROVE  g[T] = w[x] + g[T \ {x}]
    OBVIOUS
  <2> DEFINE p == Pick(T)
  <2>1. p \in T
    BY PickIn
  <2> HIDE DEF p
  <2>2. g[T] = w[p] + g[T \ {p}]
    BY <1>3, <2>1 DEF p
  <2>3. CASE p = x
    BY <2>2, <2>3
  <2>4. CASE p # x
    <3>1. Cardinality(T \ {p}) = n /\ Cardinality(T \ {x}) = n
      <4>1. IsFiniteSet(T)
        BY <1>2
      <4>2. Cardinality(T \ {p}) = Cardinality(T) - 1 /\ Cardinality(T \ {x}) = Cardinality(T) - 1
        BY <2>1, <4>1, FS_RemoveElement
      <4> QED BY <4>2
    <3>2. g[T \ {p}] = w[x] + g[(T \ {p}) \ {x}]
      BY <1>6, <2>4, <3>1
    <3>3. g[T \ {x}] = w[p] + g[(T \ {x}) \ {p}]
      BY <1>6, <2>1, <2>4, <3>1
    <3>4. (T \ {p}) \ {x} = (T \ {x}) \ {p}
      OBVIOUS
    <3>5. w[x] \in Nat /\ w[p] \in Nat /\ g[(T \ {x}) \ {p}] \in Nat
      BY <1>4, <2>1
    <3> QED BY <2>2, <3>2, <3>3, <3>4, <3>5
  <2> QED BY <2>3, <2>4
<1>7. Nat \subseteq sizes
  <2> HIDE DEF sizes
  <2> QED BY <1>5, <1>6, NaturalsInSet
<1>8. \A T \in SUBSET S : \A x \in T : g[T] = w[x] + g[T \ {x}]
  BY <1>2, <1>7
<1>9. \A T \in SUBSET S : \A x \in T : T \ {x} \in SUBSET S
  OBVIOUS
<1> QED BY <1>1, <1>8, <1>9 DEF SumsUp

\* Two functions that differ at one element at most.
LEMMA SumChange ==
    ASSUME NEW S, IsFiniteSet(S), NEW T \in SUBSET S, NEW w \in [S -> Nat], NEW v \in [S -> Nat],
           NEW x \in S, \A y \in S \ {x} : w[y] = v[y]
    PROVE  SumFunctionOnSet(v, T) =
              IF x \in T THEN SumFunctionOnSet(w, T) - w[x] + v[x] ELSE SumFunctionOnSet(w, T)
<1>1. IsFiniteSet(T) /\ IsFiniteSet(T \ {x})
  BY FS_Subset, FS_RemoveElement
<1>2. CASE x \notin T
  BY <1>1, <1>2, SumSame
<1>3. CASE x \in T
  <2>1. SumFunctionOnSet(w, T) = w[x] + SumFunctionOnSet(w, T \ {x})
    BY <1>3, SumRemove
  <2>2. SumFunctionOnSet(v, T) = v[x] + SumFunctionOnSet(v, T \ {x})
    BY <1>3, SumRemove
  <2>3. SumFunctionOnSet(w, T \ {x}) = SumFunctionOnSet(v, T \ {x})
    BY <1>1, SumSame
  <2>4. w[x] \in Nat /\ v[x] \in Nat /\ SumFunctionOnSet(w, T \ {x}) \in Nat
    BY SumType
  <2> QED BY <1>3, <2>1, <2>2, <2>3, <2>4
<1> QED BY <1>2, <1>3

\* A sum of sizes is at least that over a part.
LEMMA SumOfPart ==
    ASSUME NEW S, IsFiniteSet(S), NEW w \in [S -> Nat], NEW T \in SUBSET S, NEW U \in SUBSET T
    PROVE  SumFunctionOnSet(w, U) <= SumFunctionOnSet(w, T)
<1> DEFINE D == T \ U
           Q == {R \in SUBSET D : SumFunctionOnSet(w, U) <= SumFunctionOnSet(w, U \cup R)}
<1>1. \A R \in SUBSET S : SumFunctionOnSet(w, R) \in Nat
  BY SumType
<1>2. IsFiniteSet(D)
  BY FS_Subset
<1>3. {} \in Q
  <2>1. U \cup {} = U /\ U \in SUBSET S
    OBVIOUS
  <2> QED BY <1>1, <2>1
<1>4. ASSUME NEW R \in SUBSET D, NEW x \in D \ R, R \in Q
      PROVE  R \cup {x} \in Q
  <2> DEFINE V == U \cup (R \cup {x})
  <2>1. V \in SUBSET S /\ x \in V /\ V \ {x} = U \cup R
    OBVIOUS
  <2>2. SumFunctionOnSet(w, V) = w[x] + SumFunctionOnSet(w, U \cup R)
    BY <2>1, SumRemove
  <2>3. w[x] \in Nat /\ SumFunctionOnSet(w, U \cup R) \in Nat /\ SumFunctionOnSet(w, U) \in Nat
    BY <1>1, <2>1
  <2>4. SumFunctionOnSet(w, U) <= SumFunctionOnSet(w, U \cup R)
    BY <1>4
  <2>5. SumFunctionOnSet(w, U) <= SumFunctionOnSet(w, V)
    BY <2>2, <2>3, <2>4
  <2> QED BY <2>5
<1>5. D \in Q
  <2> HIDE DEF Q, D
  <2>1. \A R \in SUBSET D : R \in Q
    BY <1>2, <1>3, <1>4, FiniteSetInSet
  <2> QED BY <2>1
<1>6. U \cup D = T
  OBVIOUS
<1> QED BY <1>5, <1>6

LEMMA SumOfNone ==
    ASSUME NEW S, IsFiniteSet(S), NEW w, \A x \in S : w[x] = 0
    PROVE  SumFunctionOnSet(w, S) = 0
<1> DEFINE zero == [x \in S |-> 0]
           Q == {U \in SUBSET S : SumFunctionOnSet(zero, U) = 0}
<1>1. SumFunctionOnSet(w, S) = SumFunctionOnSet(zero, S)
  BY SumSame
<1>2. {} \in Q
  BY SumEmpty
<1>3. ASSUME NEW U \in SUBSET S, NEW x \in S \ U, U \in Q
      PROVE  U \cup {x} \in Q
  <2>1. zero \in [S -> Nat] /\ zero[x] = 0
    OBVIOUS
  <2>2. U \cup {x} \in SUBSET S /\ x \in U \cup {x} /\ (U \cup {x}) \ {x} = U
    OBVIOUS
  <2> HIDE DEF zero
  <2>3. SumFunctionOnSet(zero, U \cup {x}) = zero[x] + SumFunctionOnSet(zero, U)
    BY <2>1, <2>2, SumRemove
  <2>4. SumFunctionOnSet(zero, U) = 0
    BY <1>3
  <2>5. SumFunctionOnSet(zero, U \cup {x}) = 0
    BY <2>1, <2>3, <2>4
  <2> QED BY <2>5
<1>4. S \in Q
  <2> HIDE DEF Q
  <2>1. \A U \in SUBSET S : U \in Q
    BY <1>2, <1>3, FiniteSetInSet
  <2> QED BY <2>1
<1> HIDE DEF zero
<1> QED BY <1>1, <1>4
=============================================================================
