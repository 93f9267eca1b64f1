---------------------------- MODULE SumTheorems ----------------------------
(***************************************************************************)
(* SumFunctionOnSet, the sum of numbers over a finite set, as used by the  *)
(* ceilings of the executors, the budget of the book and the weights of    *)
(* the allocator: what it is for one element more or less, that it is      *)
(* monotone and linear, and that shares rounded down fit into the whole.   *)
(* Each is shown by taking a smallest set for which it would be false.     *)
(***************************************************************************)
EXTENDS Integers, FiniteSets, Functions, FiniteSetTheorems, WellFoundedInduction, TLAPS

(***************************************************************************)
(* Among the subsets of a finite set that have a property, one is smallest.*)
(* Taken of the subsets that lack what is to be shown, this is induction   *)
(* over finite sets, and needs no operator for the property.               *)
(***************************************************************************)
LEMMA Smallest ==
    ASSUME NEW S, IsFiniteSet(S), NEW C \in SUBSET (SUBSET S), C # {}
    PROVE  \E T \in C : \A U \in C : U \subseteq T => U = T
<1>1. IsWellFoundedOn(StrictSubsetOrdering(S), SUBSET S)
  BY FS_StrictSubsetOrderingWellFounded, FS_FiniteSubsetsOfFinite
<1>2. PICK T \in C : \A U \in C : <<U, T>> \notin StrictSubsetOrdering(S)
  BY <1>1, WFMin
<1>3. ASSUME NEW U \in C, U \subseteq T, U # T PROVE FALSE
  BY <1>2, <1>3 DEF StrictSubsetOrdering
<1> QED BY <1>3

-----------------------------------------------------------------------------
(* What SumFunctionOnSet iterates: a function of the subsets of S.         *)
Pick(s) == CHOOSE x \in s : TRUE

Fold(g, f, S) ==
    g = [s \in SUBSET S |-> IF s = {} THEN 0 ELSE f[Pick(s)] + g[s \ {Pick(s)}]]

(* The element that is folded in next is one of the set.                   *)
LEMMA PickIn == \A s : s # {} => Pick(s) \in s
BY DEF Pick

(* One step of the iteration.                                              *)
LEMMA FoldStep ==
    ASSUME NEW f, NEW S, NEW g, Fold(g, f, S)
    PROVE  /\ g[{}] = 0
           /\ \A s \in SUBSET S : s # {} => g[s] = f[Pick(s)] + g[s \ {Pick(s)}]
BY DEF Fold

(* Iterations over two sets agree on what the sets share.                  *)
LEMMA FoldUnique ==
    ASSUME NEW f, NEW S, NEW g, NEW T, NEW h, IsFiniteSet(S), Fold(g, f, S), Fold(h, f, T)
    PROVE  \A s \in SUBSET (S \cap T) : g[s] = h[s]
<1> DEFINE C == {s \in SUBSET S : s \subseteq T /\ g[s] # h[s]}
<1> SUFFICES ASSUME C # {} PROVE FALSE
  OBVIOUS
<1>1. PICK s \in C : \A u \in C : u \subseteq s => u = s
  <2> HIDE DEF C
  <2>1. C \in SUBSET (SUBSET S)
    BY DEF C
  <2> QED BY <2>1, Smallest
<1>2. s # {}
  BY FoldStep
<1>3. Pick(s) \in s
  BY <1>2, PickIn
<1>4. s \ {Pick(s)} \notin C
  BY <1>1, <1>3
<1>5. g[s \ {Pick(s)}] = h[s \ {Pick(s)}]
  BY <1>4
<1>6. g[s] = f[Pick(s)] + g[s \ {Pick(s)}]
  BY <1>2, FoldStep
<1>7. h[s] = f[Pick(s)] + h[s \ {Pick(s)}]
  BY <1>2, FoldStep
<1> QED BY <1>5, <1>6, <1>7

(* There is such a function, for any finite set.                            *)
LEMMA FoldExists ==
    ASSUME NEW f, NEW S, IsFiniteSet(S)
    PROVE  \E g : Fold(g, f, S)
<1> DEFINE C == {s \in SUBSET S : ~\E g : Fold(g, f, s)}
<1> SUFFICES ASSUME C # {} PROVE FALSE
  OBVIOUS
<1>1. PICK t \in C : \A u \in C : u \subseteq t => u = t
  <2> HIDE DEF C
  <2>1. C \in SUBSET (SUBSET S)
    BY DEF C
  <2> QED BY <2>1, Smallest
<1> DEFINE F(s) == CHOOSE g : Fold(g, f, s)
           G == [s \in SUBSET t |-> IF s = {} THEN 0
                                    ELSE f[Pick(s)] + F(s \ {Pick(s)})[s \ {Pick(s)}]]
<1>2. \A s \in SUBSET t : s # t => Fold(F(s), f, s)
  BY <1>1
<1>3. ASSUME NEW s \in SUBSET t, s # t PROVE G[s] = F(s)[s]
  <2>1. IsFiniteSet(s)
    BY FS_Subset
  <2>2. Fold(F(s), f, s)
    BY <1>2, <1>3
  <2>3. CASE s = {}
    BY <2>2, <2>3, FoldStep
  <2>4. CASE s # {}
    <3> DEFINE u == s \ {Pick(s)}
    <3>1. Pick(s) \in s
      BY <2>4, PickIn
    <3>2. u \in SUBSET t /\ u # t
      BY <3>1
    <3>3. Fold(F(u), f, u)
      BY <1>2, <3>2
    <3> HIDE DEF F
    <3>4. F(s)[u] = F(u)[u]
      BY <2>1, <2>2, <3>3, FoldUnique
    <3>5. F(s)[s] = f[Pick(s)] + F(s)[u]
      BY <2>2, <2>4, FoldStep
    <3> QED BY <2>4, <3>4, <3>5
  <2> QED BY <2>3, <2>4
<1> HIDE DEF F
<1>4. ASSUME NEW s \in SUBSET t, s # {}
      PROVE  G[s] = f[Pick(s)] + G[s \ {Pick(s)}]
  <2>1. Pick(s) \in s
    BY <1>4, PickIn
  <2>2. s \ {Pick(s)} \in SUBSET t /\ s \ {Pick(s)} # t
    BY <2>1
  <2>3. G[s] = f[Pick(s)] + F(s \ {Pick(s)})[s \ {Pick(s)}]
    BY <1>4
  <2> HIDE DEF G
  <2> QED BY <1>3, <2>2, <2>3
<1>5. G = [s \in SUBSET t |-> IF s = {} THEN 0 ELSE f[Pick(s)] + G[s \ {Pick(s)}]]
  <2> DEFINE H == [s \in SUBSET t |-> IF s = {} THEN 0 ELSE f[Pick(s)] + G[s \ {Pick(s)}]]
  <2>1. G = [s \in SUBSET t |-> G[s]]
    OBVIOUS
  <2>2. \A s \in SUBSET t : G[s] = IF s = {} THEN 0 ELSE f[Pick(s)] + G[s \ {Pick(s)}]
    BY <1>4
  <2> HIDE DEF G
  <2> QED BY <2>1, <2>2
<1>6. Fold(G, f, t)
  BY <1>5 DEF Fold
<1> QED BY <1>6

(* SumFunctionOnSet is one.                                                *)
LEMMA SumIsFold ==
    ASSUME NEW f, NEW S, IsFiniteSet(S)
    PROVE  \E g : Fold(g, f, S) /\ SumFunctionOnSet(f, S) = g[S]
<1> DEFINE g == CHOOSE h : h = [s \in SUBSET S |-> IF s = {} THEN 0 ELSE f[Pick(s)] + h[s \ {Pick(s)}]]
<1>1. PICK h : Fold(h, f, S)
  BY FoldExists
<1>2. h = [s \in SUBSET S |-> IF s = {} THEN 0 ELSE f[Pick(s)] + h[s \ {Pick(s)}]]
  BY <1>1 DEF Fold
<1>3. g = [s \in SUBSET S |-> IF s = {} THEN 0 ELSE f[Pick(s)] + g[s \ {Pick(s)}]]
  BY <1>2
<1>4. SumFunctionOnSet(f, S) = g[S]
  BY DEF SumFunctionOnSet, FoldFunctionOnSet, MapThenFoldSet, Pick
<1> QED BY <1>3, <1>4 DEF Fold

-----------------------------------------------------------------------------
(* The sum over no element, and over one element more.                     *)
THEOREM SumEmpty == \A f : SumFunctionOnSet(f, {}) = 0
BY SumIsFold, FoldStep, FS_EmptySet

(* The element that is folded in first, and the others.                    *)
LEMMA SumPick ==
    ASSUME NEW f, NEW S, IsFiniteSet(S), S # {}
    PROVE  SumFunctionOnSet(f, S) = f[Pick(S)] + SumFunctionOnSet(f, S \ {Pick(S)})
<1>1. PICK g : Fold(g, f, S) /\ SumFunctionOnSet(f, S) = g[S]
  BY SumIsFold
<1> DEFINE T == S \ {Pick(S)}
<1>2. IsFiniteSet(T)
  BY FS_Subset
<1>3. PICK h : Fold(h, f, T) /\ SumFunctionOnSet(f, T) = h[T]
  BY <1>2, SumIsFold
<1>4. h[T] = g[T]
  BY <1>1, <1>3, FoldUnique
<1>5. g[S] = f[Pick(S)] + g[T]
  BY <1>1, FoldStep
<1> QED BY <1>1, <1>3, <1>4, <1>5

(* Integers add up to an integer.                                          *)
THEOREM SumType ==
    ASSUME NEW f, NEW S, IsFiniteSet(S), \A x \in S : f[x] \in Int
    PROVE  SumFunctionOnSet(f, S) \in Int
<1> DEFINE C == {s \in SUBSET S : SumFunctionOnSet(f, s) \notin Int}
<1> SUFFICES ASSUME C # {} PROVE FALSE
  OBVIOUS
<1>1. PICK s \in C : \A u \in C : u \subseteq s => u = s
  <2> HIDE DEF C
  <2>1. C \in SUBSET (SUBSET S)
    BY DEF C
  <2> QED BY <2>1, Smallest
<1>2. s # {}
  BY SumEmpty
<1>3. Pick(s) \in s /\ IsFiniteSet(s)
  BY <1>2, PickIn, FS_Subset
<1>4. SumFunctionOnSet(f, s \ {Pick(s)}) \in Int
  BY <1>1, <1>3
<1>5. SumFunctionOnSet(f, s) = f[Pick(s)] + SumFunctionOnSet(f, s \ {Pick(s)})
  BY <1>2, <1>3, SumPick
<1> QED BY <1>3, <1>4, <1>5

(* Whichever element is taken out first.                                   *)
THEOREM SumRemove ==
    ASSUME NEW f, NEW S, IsFiniteSet(S), \A y \in S : f[y] \in Int, NEW x \in S
    PROVE  SumFunctionOnSet(f, S) = f[x] + SumFunctionOnSet(f, S \ {x})
<1> DEFINE Bad(s) == \E y \in s : SumFunctionOnSet(f, s) # f[y] + SumFunctionOnSet(f, s \ {y})
           C == {s \in SUBSET S : Bad(s)}
<1> SUFFICES ASSUME C # {} PROVE FALSE
  OBVIOUS
<1>1. PICK s \in C : \A u \in C : u \subseteq s => u = s
  <2> HIDE DEF C
  <2>1. C \in SUBSET (SUBSET S)
    BY DEF C
  <2> QED BY <2>1, Smallest
<1>2. PICK y \in s : SumFunctionOnSet(f, s) # f[y] + SumFunctionOnSet(f, s \ {y})
  OBVIOUS
<1> DEFINE c == Pick(s)
           T == s \ {c}
           U == s \ {y}
           R == (s \ {c}) \ {y}
<1>3. c \in s /\ IsFiniteSet(s) /\ IsFiniteSet(T) /\ IsFiniteSet(U) /\ IsFiniteSet(R)
  BY PickIn, FS_Subset
<1>4. SumFunctionOnSet(f, s) = f[c] + SumFunctionOnSet(f, T)
  BY <1>2, <1>3, SumPick
<1>5. y # c
  BY <1>2, <1>4
<1>6. T \notin C /\ U \notin C
  BY <1>1, <1>3
<1>7. SumFunctionOnSet(f, T) = f[y] + SumFunctionOnSet(f, R)
  BY <1>5, <1>6
<1>8. U \ {c} = R
  OBVIOUS
<1>9. SumFunctionOnSet(f, U) = f[c] + SumFunctionOnSet(f, R)
  BY <1>3, <1>5, <1>6, <1>8
<1>10. SumFunctionOnSet(f, R) \in Int /\ f[c] \in Int /\ f[y] \in Int
  BY <1>3, SumType
<1> QED BY <1>2, <1>4, <1>7, <1>9, <1>10

(* One element more.                                                       *)
THEOREM SumAdd ==
    ASSUME NEW f, NEW S, IsFiniteSet(S), NEW x, x \notin S, \A y \in S \cup {x} : f[y] \in Int
    PROVE  SumFunctionOnSet(f, S \cup {x}) = f[x] + SumFunctionOnSet(f, S)
<1>1. IsFiniteSet(S \cup {x}) /\ (S \cup {x}) \ {x} = S
  BY FS_AddElement
<1> QED BY <1>1, SumRemove

(* The sum over one element.                                               *)
THEOREM SumSingle ==
    ASSUME NEW f, NEW x, f[x] \in Int
    PROVE  SumFunctionOnSet(f, {x}) = f[x]
<1>1. SumFunctionOnSet(f, {} \cup {x}) = f[x] + SumFunctionOnSet(f, {})
  BY SumAdd, FS_EmptySet
<1>2. {} \cup {x} = {x}
  OBVIOUS
<1> QED BY <1>1, <1>2, SumEmpty

(* A sum of numbers that are not negative grows with the set and with the  *)
(* numbers.                                                                *)
THEOREM SumMonotone ==
    ASSUME NEW f, NEW g, NEW T, IsFiniteSet(T), NEW S \in SUBSET T,
           \A x \in S : f[x] \in Int /\ f[x] <= g[x],
           \A x \in T : g[x] \in Nat
    PROVE  SumFunctionOnSet(f, S) <= SumFunctionOnSet(g, T)
<1> DEFINE C == {t \in SUBSET T : ~(SumFunctionOnSet(f, S \cap t) <= SumFunctionOnSet(g, t))}
<1> SUFFICES ASSUME C # {} PROVE FALSE
  <2>1. T \notin C
    OBVIOUS
  <2>2. S \cap T = S
    OBVIOUS
  <2> QED BY <2>1, <2>2
<1>1. PICK t \in C : \A u \in C : u \subseteq t => u = t
  <2> HIDE DEF C
  <2>1. C \in SUBSET (SUBSET T)
    BY DEF C
  <2> QED BY <2>1, Smallest
<1>2. t # {}
  <2> SUFFICES ASSUME t = {} PROVE FALSE
    OBVIOUS
  <2>1. S \cap t = {}
    OBVIOUS
  <2> QED BY <2>1, SumEmpty
<1> DEFINE x == Pick(t)
           u == t \ {x}
<1>3. x \in t /\ IsFiniteSet(t) /\ IsFiniteSet(u) /\ IsFiniteSet(S \cap u) /\ IsFiniteSet(S \cap t)
  BY <1>2, PickIn, FS_Subset
<1>4. SumFunctionOnSet(g, t) = g[x] + SumFunctionOnSet(g, u)
  BY <1>2, <1>3, SumPick
<1>5. SumFunctionOnSet(f, S \cap u) <= SumFunctionOnSet(g, u)
  BY <1>1, <1>3
<1>6. SumFunctionOnSet(g, u) \in Int /\ SumFunctionOnSet(f, S \cap u) \in Int /\ g[x] \in Nat
  BY <1>3, SumType
<1>7. CASE x \notin S
  <2>1. S \cap t = S \cap u
    BY <1>7
  <2> HIDE DEF u, x
  <2> QED BY <1>4, <1>5, <1>6, <2>1
<1>8. CASE x \in S
  <2>1. (S \cap t) \ {x} = S \cap u /\ x \in S \cap t
    BY <1>3, <1>8
  <2> HIDE DEF u, x
  <2>2. SumFunctionOnSet(f, S \cap t) = f[x] + SumFunctionOnSet(f, S \cap u)
    BY <1>3, <2>1, SumRemove
  <2>3. f[x] \in Int /\ f[x] <= g[x]
    BY <1>8
  <2> QED BY <1>4, <1>5, <1>6, <2>2, <2>3
<1> QED BY <1>7, <1>8

(* Numbers that are not negative add up to one that is not.                *)
THEOREM SumNat ==
    ASSUME NEW f, NEW S, IsFiniteSet(S), \A x \in S : f[x] \in Nat
    PROVE  SumFunctionOnSet(f, S) \in Nat
<1>1. SumFunctionOnSet(f, {}) <= SumFunctionOnSet(f, S)
  BY SumMonotone
<1> QED BY <1>1, SumEmpty, SumType

(* A sum depends on the numbers in the set only.                           *)
THEOREM SumSame ==
    ASSUME NEW f, NEW g, NEW S, IsFiniteSet(S), \A x \in S : f[x] \in Nat /\ f[x] = g[x]
    PROVE  SumFunctionOnSet(f, S) = SumFunctionOnSet(g, S)
<1>1. SumFunctionOnSet(f, S) <= SumFunctionOnSet(g, S)
  BY SumMonotone
<1>2. SumFunctionOnSet(g, S) <= SumFunctionOnSet(f, S)
  BY SumMonotone
<1> QED BY <1>1, <1>2, SumType

(* The same amount more for each element.                                  *)
THEOREM SumShift ==
    ASSUME NEW f, NEW g, NEW c \in Int, NEW S, IsFiniteSet(S),
           \A x \in S : f[x] \in Int /\ g[x] = f[x] + c
    PROVE  SumFunctionOnSet(g, S) = SumFunctionOnSet(f, S) + Cardinality(S) * c
<1> DEFINE Right(s) == SumFunctionOnSet(g, s) = SumFunctionOnSet(f, s) + Cardinality(s) * c
           C == {s \in SUBSET S : ~Right(s)}
<1> SUFFICES ASSUME C # {} PROVE FALSE
  OBVIOUS
<1>1. PICK s \in C : \A u \in C : u \subseteq s => u = s
  <2> HIDE DEF C
  <2>1. C \in SUBSET (SUBSET S)
    BY DEF C
  <2> QED BY <2>1, Smallest
<1>2. s # {}
  <2> SUFFICES ASSUME s = {} PROVE Right(s)
    OBVIOUS
  <2>1. Cardinality(s) = 0 /\ SumFunctionOnSet(f, s) = 0 /\ SumFunctionOnSet(g, s) = 0
    BY SumEmpty, FS_EmptySet
  <2> QED BY <2>1
<1> DEFINE x == Pick(s)
           u == s \ {x}
<1>3. x \in s /\ IsFiniteSet(s) /\ IsFiniteSet(u)
  BY <1>2, PickIn, FS_Subset
<1>4. SumFunctionOnSet(f, s) = f[x] + SumFunctionOnSet(f, u)
  BY <1>2, <1>3, SumPick
<1>5. SumFunctionOnSet(g, s) = g[x] + SumFunctionOnSet(g, u)
  BY <1>2, <1>3, SumPick
<1>6. Right(u)
  BY <1>1, <1>3
<1>7. Cardinality(u) \in Nat /\ Cardinality(s) = Cardinality(u) + 1
  BY <1>3, FS_RemoveElement, FS_CardinalityType
<1>8. SumFunctionOnSet(f, u) \in Int /\ f[x] \in Int /\ g[x] = f[x] + c
  BY <1>3, SumType
<1>9. (Cardinality(u) + 1) * c = Cardinality(u) * c + c /\ Cardinality(u) * c \in Int
  <2> DEFINE k == Cardinality(u)
  <2>1. k \in Nat
    BY <1>7
  <2> HIDE DEF k
  <2> SUFFICES (k + 1) * c = k * c + c /\ k * c \in Int
    BY DEF k
  <2> QED BY <2>1, Z3
<1>10. SumFunctionOnSet(g, s) = SumFunctionOnSet(f, s) + Cardinality(s) * c
  <2> HIDE DEF x, u
  <2> QED BY <1>4, <1>5, <1>6, <1>7, <1>8, <1>9
<1> QED BY <1>10

(* Element by element the sum of two others.                               *)
THEOREM SumPlus ==
    ASSUME NEW f, NEW g, NEW h, NEW S, IsFiniteSet(S),
           \A x \in S : f[x] \in Int /\ g[x] \in Int /\ h[x] = f[x] + g[x]
    PROVE  SumFunctionOnSet(h, S) = SumFunctionOnSet(f, S) + SumFunctionOnSet(g, S)
<1> DEFINE Right(s) == SumFunctionOnSet(h, s) = SumFunctionOnSet(f, s) + SumFunctionOnSet(g, s)
           C == {s \in SUBSET S : ~Right(s)}
<1> SUFFICES ASSUME C # {} PROVE FALSE
  OBVIOUS
<1>1. PICK s \in C : \A u \in C : u \subseteq s => u = s
  <2> HIDE DEF C
  <2>1. C \in SUBSET (SUBSET S)
    BY DEF C
  <2> QED BY <2>1, Smallest
<1>2. s # {}
  <2> SUFFICES ASSUME s = {} PROVE Right(s)
    OBVIOUS
  <2> QED BY SumEmpty
<1> DEFINE x == Pick(s)
           u == s \ {x}
<1>3. x \in s /\ IsFiniteSet(s) /\ IsFiniteSet(u)
  BY <1>2, PickIn, FS_Subset
<1>4. /\ SumFunctionOnSet(f, s) = f[x] + SumFunctionOnSet(f, u)
      /\ SumFunctionOnSet(g, s) = g[x] + SumFunctionOnSet(g, u)
      /\ SumFunctionOnSet(h, s) = h[x] + SumFunctionOnSet(h, u)
  BY <1>2, <1>3, SumPick
<1>5. Right(u)
  BY <1>1, <1>3
<1>6. /\ SumFunctionOnSet(f, u) \in Int /\ SumFunctionOnSet(g, u) \in Int
      /\ f[x] \in Int /\ g[x] \in Int /\ h[x] = f[x] + g[x]
  BY <1>3, SumType
<1> HIDE DEF x, u
<1>7. Right(s)
  BY <1>4, <1>5, <1>6
<1> QED BY <1>7

(* The same multiple of each element.                                      *)
THEOREM SumScale ==
    ASSUME NEW f, NEW g, NEW c \in Int, NEW S, IsFiniteSet(S),
           \A x \in S : f[x] \in Int /\ g[x] = c * f[x]
    PROVE  SumFunctionOnSet(g, S) = c * SumFunctionOnSet(f, S)
<1> DEFINE Right(s) == SumFunctionOnSet(g, s) = c * SumFunctionOnSet(f, s)
           C == {s \in SUBSET S : ~Right(s)}
<1> SUFFICES ASSUME C # {} PROVE FALSE
  OBVIOUS
<1>1. PICK s \in C : \A u \in C : u \subseteq s => u = s
  <2> HIDE DEF C
  <2>1. C \in SUBSET (SUBSET S)
    BY DEF C
  <2> QED BY <2>1, Smallest
<1>2. s # {}
  <2> SUFFICES ASSUME s = {} PROVE Right(s)
    OBVIOUS
  <2> QED BY SumEmpty
<1> DEFINE x == Pick(s)
           u == s \ {x}
<1>3. x \in s /\ IsFiniteSet(s) /\ IsFiniteSet(u)
  BY <1>2, PickIn, FS_Subset
<1>4. /\ SumFunctionOnSet(f, s) = f[x] + SumFunctionOnSet(f, u)
      /\ SumFunctionOnSet(g, s) = g[x] + SumFunctionOnSet(g, u)
  BY <1>2, <1>3, SumPick
<1>5. Right(u)
  BY <1>1, <1>3
<1>6. /\ SumFunctionOnSet(f, u) \in Int /\ f[x] \in Int /\ g[x] = c * f[x]
  BY <1>3, SumType
<1> HIDE DEF x, u
<1>7. c * (f[x] + SumFunctionOnSet(f, u)) = c * f[x] + c * SumFunctionOnSet(f, u)
  BY <1>6
<1>8. Right(s)
  BY <1>4, <1>5, <1>6, <1>7
<1> QED BY <1>8

(* Elements that count nothing can be left out.                            *)
THEOREM SumOver ==
    ASSUME NEW f, NEW g, NEW T, IsFiniteSet(T), NEW S \in SUBSET T,
           \A x \in S : f[x] \in Nat /\ g[x] = f[x],
           \A x \in T \ S : g[x] = 0
    PROVE  SumFunctionOnSet(g, T) = SumFunctionOnSet(f, S)
<1>1. \A x \in T : g[x] \in Nat
  OBVIOUS
<1>2. IsFiniteSet(S)
  BY FS_Subset
<1>3. SumFunctionOnSet(f, S) <= SumFunctionOnSet(g, T)
  BY <1>1, SumMonotone
<1> DEFINE C == {t \in SUBSET T : ~(SumFunctionOnSet(g, t) <= SumFunctionOnSet(f, S \cap t))}
<1>4. C = {}
  <2> SUFFICES ASSUME C # {} PROVE FALSE
    OBVIOUS
  <2>1. PICK t \in C : \A u \in C : u \subseteq t => u = t
    <3> HIDE DEF C
    <3>1. C \in SUBSET (SUBSET T)
      BY DEF C
    <3> QED BY <3>1, Smallest
  <2>2. t # {}
    <3> SUFFICES ASSUME t = {} PROVE FALSE
      OBVIOUS
    <3>1. S \cap t = {}
      OBVIOUS
    <3> QED BY <3>1, SumEmpty
  <2> DEFINE x == Pick(t)
             u == t \ {x}
  <2>3. x \in t /\ IsFiniteSet(t) /\ IsFiniteSet(u) /\ IsFiniteSet(S \cap u) /\ IsFiniteSet(S \cap t)
    BY <2>2, PickIn, FS_Subset
  <2>4. SumFunctionOnSet(g, t) = g[x] + SumFunctionOnSet(g, u)
    BY <2>2, <2>3, SumPick
  <2>5. SumFunctionOnSet(g, u) <= SumFunctionOnSet(f, S \cap u)
    BY <2>1, <2>3
  <2>6. SumFunctionOnSet(g, u) \in Int /\ SumFunctionOnSet(f, S \cap u) \in Int
    BY <2>3, SumType
  <2>7. CASE x \notin S
    <3>1. S \cap t = S \cap u /\ g[x] = 0
      BY <2>3, <2>7
    <3>2. ~(SumFunctionOnSet(g, t) <= SumFunctionOnSet(f, S \cap t))
      OBVIOUS
    <3> HIDE DEF u, x, C
    <3>3. SumFunctionOnSet(g, t) = SumFunctionOnSet(g, u)
      BY <2>4, <2>6, <3>1
    <3> QED BY <2>5, <3>1, <3>2, <3>3
  <2>8. CASE x \in S
    <3>1. (S \cap t) \ {x} = S \cap u /\ x \in S \cap t /\ f[x] \in Int /\ g[x] = f[x]
      BY <2>3, <2>8
    <3> HIDE DEF u, x
    <3>2. SumFunctionOnSet(f, S \cap t) = f[x] + SumFunctionOnSet(f, S \cap u)
      BY <2>3, <3>1, SumRemove
    <3> QED BY <2>4, <2>5, <2>6, <3>1, <3>2
  <2> QED BY <2>7, <2>8
<1>5. SumFunctionOnSet(g, T) <= SumFunctionOnSet(f, S)
  <2>1. S \cap T = S /\ T \notin C
    BY <1>4
  <2> QED BY <2>1
<1> QED BY <1>1, <1>2, <1>3, <1>5, SumType

(* Shares of an amount, in proportion to the elements and each rounded     *)
(* down, come to no more than the amount.                                  *)
LEMMA SumShares ==
    ASSUME NEW f, NEW g, NEW a \in Nat, NEW b \in Nat \ {0}, NEW S, IsFiniteSet(S),
           \A x \in S : f[x] \in Nat /\ g[x] = (a * f[x]) \div b,
           SumFunctionOnSet(f, S) <= b
    PROVE  SumFunctionOnSet(g, S) <= a
<1> DEFINE F == SumFunctionOnSet(f, S)
           G == SumFunctionOnSet(g, S)
           af == [x \in S |-> a * f[x]]
           bg == [x \in S |-> b * g[x]]
<1>1. \A x \in S : g[x] \in Nat /\ b * g[x] <= a * f[x]
  <2> SUFFICES ASSUME NEW x \in S PROVE g[x] \in Nat /\ b * g[x] <= a * f[x]
    OBVIOUS
  <2> DEFINE m == a * f[x]
  <2>1. f[x] \in Nat /\ g[x] = m \div b
    OBVIOUS
  <2>2. m \in Nat
    BY <2>1
  <2> HIDE DEF m
  <2>3. m \div b \in Nat /\ b * (m \div b) <= m
    BY <2>2, Z3
  <2> QED BY <2>1, <2>3 DEF m
<1>2. \A x \in S : af[x] = a * f[x] /\ bg[x] = b * g[x] /\ af[x] \in Nat /\ bg[x] \in Nat
  <2> SUFFICES ASSUME NEW x \in S PROVE a * f[x] \in Nat /\ b * g[x] \in Nat
    OBVIOUS
  <2>1. f[x] \in Nat /\ g[x] \in Nat
    BY <1>1
  <2> HIDE DEF af, bg
  <2> QED BY <2>1
<1>3. F \in Nat /\ G \in Nat
  BY <1>1, SumNat
<1> HIDE DEF af, bg
<1>4. SumFunctionOnSet(af, S) = a * F
  BY <1>2, SumScale
<1>5. SumFunctionOnSet(bg, S) = b * G
  BY <1>1, <1>2, SumScale
<1>6. SumFunctionOnSet(bg, S) <= SumFunctionOnSet(af, S)
  BY <1>1, <1>2, SumMonotone
<1> HIDE DEF F, G
<1>7. b * G <= a * F /\ F <= b
  BY <1>4, <1>5, <1>6 DEF F
<1>8. a * F <= a * b
  BY <1>3, <1>7
<1>9. b * G <= b * a
  BY <1>3, <1>7, <1>8
<1>10. G <= a
  <2> SUFFICES ASSUME G >= a + 1 PROVE FALSE
    BY <1>3
  <2>1. b * G >= b * (a + 1)
    BY <1>3
  <2>2. b * (a + 1) = b * a + b
    OBVIOUS
  <2> QED BY <1>3, <1>9, <2>1, <2>2
<1> QED BY <1>10 DEF G

=============================================================================
