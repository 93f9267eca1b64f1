---------------------------- MODULE SizingProofs ----------------------------
(***************************************************************************)
(* Proofs about the allocator: about geometry, for any volatility, bin     *)
(* step and limit of bins; and, for any budget, candidates and ceilings,   *)
(* that a sleeve with money and a candidate is never left empty and that   *)
(* what its positions are told to take is never more than it has.          *)
(***************************************************************************)
EXTENDS Sizing, SumTheorems

(* Rounding the number of bins up covers what had to be covered. *)
LEMMA CeilDivCovers ==
    ASSUME NEW a \in Nat, NEW b \in Nat \ {0}
    PROVE  CeilDiv(a, b) \in Nat /\ CeilDiv(a, b) * b >= a
<1> DEFINE q == (a + b - 1) \div b
           r == (a + b - 1) % b
<1>1. a + b - 1 \in Nat
  OBVIOUS
<1>2. q \in Nat /\ r \in 0..(b - 1) /\ a + b - 1 = b * q + r
  BY <1>1, Z3
<1> HIDE DEF q, r
<1>3. b * q = q * b
  BY <1>2
<1>4. q * b >= a
  BY <1>2, <1>3
<1> QED BY <1>2, <1>4 DEF q, CeilDiv

(* A width that the limit of bins has not cut covers the sleeve's target.  *)
LEMMA WidthCovers ==
    ASSUME NEW s, NEW sigma \in Nat, NEW step \in Nat \ {0},
           Width(s, sigma, step) < MaxBins
    PROVE  /\ HalfWidth(Width(s, sigma, step), step) \in Nat
           /\ HalfWidth(Width(s, sigma, step), step) >= sigma * Target(s)
<1> DEFINE half == MaxOf(1, CeilDiv(sigma * Target(s), step))
<1>1. Target(s) \in Nat /\ sigma * Target(s) \in Nat
  BY DEF Target
<1>2. /\ CeilDiv(sigma * Target(s), step) \in Nat
      /\ CeilDiv(sigma * Target(s), step) * step >= sigma * Target(s)
  BY <1>1, CeilDivCovers
<1>3. half \in Nat /\ half >= CeilDiv(sigma * Target(s), step)
  BY <1>2 DEF MaxOf
<1>4. half * step >= CeilDiv(sigma * Target(s), step) * step
  <2> DEFINE c == CeilDiv(sigma * Target(s), step)
  <2>1. c \in Nat /\ half >= c
    BY <1>2, <1>3
  <2> HIDE DEF c, half
  <2> SUFFICES half * step >= c * step
    BY DEF c
  <2>2. half - c \in Nat /\ (half - c) * step \in Nat
    BY <1>3, <2>1
  <2>3. (half - c) * step = half * step - c * step
    BY <1>3, <2>1, Z3
  <2>4. half * step \in Nat /\ c * step \in Nat
    BY <1>3, <2>1
  <2> QED BY <2>2, <2>3, <2>4
<1> HIDE DEF half
<1>5. MaxBins \in Nat
  BY SizingAssumption
<1>6. Width(s, sigma, step) = 2 * half + 1
  BY <1>3, <1>5 DEF Width, MinOf, half
<1>7. (2 * half + 1) \div 2 = half
  BY <1>3, Z3
<1>8. HalfWidth(Width(s, sigma, step), step) = half * step
  BY <1>6, <1>7 DEF HalfWidth
<1>9. half * step \in Nat /\ CeilDiv(sigma * Target(s), step) * step \in Nat
  BY <1>2, <1>3
<1> QED BY <1>1, <1>2, <1>4, <1>8, <1>9

(* What one choice of geometry comes to. *)
LEMMA GeometryFits ==
    ASSUME Geometry
    PROVE  ShapeFromWidth'
<1>1. PICK s \in DOMAIN plans, sigma \in Sigmas, step \in Steps, thin \in BOOLEAN :
        geo' = [bins |-> Width(s, sigma, step),
                shape |-> Shape(Width(s, sigma, step), sigma, step, thin),
                sleeve |-> s, step |-> step]
  BY DEF Geometry
<1>2. sigma \in Nat /\ step \in Nat
  BY SizingAssumption
<1>3. CASE step # 0 /\ Width(s, sigma, step) < MaxBins
  <2> DEFINE hw == HalfWidth(Width(s, sigma, step), step)
             shape == Shape(Width(s, sigma, step), sigma, step, thin)
  <2>1. hw \in Nat /\ hw >= sigma * Target(s)
    BY <1>2, <1>3, WidthCovers
  <2>2. shape = IF thin /\ 2 * hw < 3 * sigma THEN "spot"
                ELSE IF 2 * hw >= 3 * sigma THEN "curve"
                ELSE IF 10 * hw >= 7 * sigma THEN "spot" ELSE "bidask"
    BY DEF Shape
  <2>3. geo'.shape = shape /\ geo'.sleeve = s
    BY <1>1
  <2> HIDE DEF hw, shape
  <2>4. CASE s = "core"
    <3>1. hw >= 2 * sigma
      BY <1>2, <2>1, <2>4 DEF Target
    <3>2. 2 * hw >= 3 * sigma
      BY <1>2, <2>1, <3>1
    <3>3. shape = "curve"
      BY <1>2, <2>1, <2>2, <3>2
    <3> QED BY <2>3, <3>3 DEF ShapeFromWidth
  <2>5. CASE s # "core"
    <3>1. hw >= sigma
      BY <1>2, <2>1, <2>5 DEF Target
    <3>2. 10 * hw >= 7 * sigma
      BY <1>2, <2>1, <3>1
    <3>3. shape # "bidask"
      BY <2>2, <3>2
    <3> QED BY <2>3, <2>5, <3>3 DEF ShapeFromWidth
  <2> QED BY <2>4, <2>5
<1>4. CASE ~(step # 0 /\ Width(s, sigma, step) < MaxBins)
  <2>1. geo'.bins = Width(s, sigma, step) /\ geo'.step = step
    BY <1>1
  <2> QED BY <1>4, <2>1 DEF ShapeFromWidth
<1> QED BY <1>3, <1>4

(* A core position that the limit of bins does not cut always concentrates *)
(* at its centre, and no position is spread to its edges.                  *)
THEOREM ShapeCorrect == Spec => []ShapeFromWidth
<1>1. Init => ShapeFromWidth
  BY DEF Init, ShapeFromWidth
<1>2. ShapeFromWidth /\ [Next]_vars => ShapeFromWidth'
  <2> SUFFICES ASSUME ShapeFromWidth, [Next]_vars PROVE ShapeFromWidth'
    OBVIOUS
  <2>1. CASE Geometry
    BY <2>1, GeometryFits
  <2>2. CASE geo' = geo
    BY <2>2 DEF ShapeFromWidth
  <2> QED
    BY <2>1, <2>2 DEF Next, vars, BeginSleeve, GiveUp, TooMany, Weigh, ClipTokens,
                      ClipPositions, Shrink, Settle
<1> QED BY <1>1, <1>2, PTL DEF Spec

-----------------------------------------------------------------------------
(***************************************************************************)
(* Nobody is left out for ever.  Counting down from what the sleeve can    *)
(* have, one position is the last that is tried; it has the whole weight,  *)
(* no ceiling trims it, and its money is above the floor.                  *)
(***************************************************************************)
Carries(s) == Usable(s) # << >> /\ SubBudget(s) >= Rent + Floor

Trying == pc \in {"tokens", "positions", "settle"}

TurnRight ==
    /\ book \in Books
    /\ turn \in 1..3
    /\ pc \in {"sleeve", "count", "tokens", "positions", "settle", "placed"}
    /\ pc = "placed" <=> turn = 3

CountRight ==
    pc = "count" \/ Trying =>
        /\ n \in 0..Len(Usable(Sleeve))
        /\ Carries(Sleeve) => n >= 1

WeightsRight ==
    Trying =>
        /\ n >= 1
        /\ Deployable(Sleeve, n) >= n * Floor
        /\ DOMAIN w = Chosen(Sleeve, n)
        /\ n = 1 => w = [i \in Chosen(Sleeve, 1) |-> Unit]

PlansRight ==
    /\ DOMAIN plans = {"core", "satellite"}
    /\ \A k \in 1..(turn - 1) : Carries(Sleeves[k]) => plans[Sleeves[k]] # NoPlan

NInv == TurnRight /\ CountRight /\ WeightsRight /\ PlansRight

(* The candidates of a sleeve, and the best of them. *)
Fit(s) == {i \in DOMAIN book.cands : book.cands[i].sleeve = s /\ book.cands[i].fit}

(* The definition of Usable, with the candidates named.                    *)
LEMMA UsableIs ==
    \A s : Usable(s) = [k \in 1..Cardinality(Fit(s)) |->
                         CHOOSE i \in Fit(s) :
                            Cardinality({j \in Fit(s) : Better(j, i)}) = k - 1]
BY DEF Usable, Fit

(* The candidates of a sleeve are finitely many, and ranked one by one.    *)
LEMMA FitFacts ==
    ASSUME book \in Books, NEW s
    PROVE  /\ IsFiniteSet(Fit(s)) /\ Cardinality(Fit(s)) \in Nat
           /\ \A i \in Fit(s) : i \in Nat /\ book.cands[i].kelly \in Nat \ {0}
           /\ Len(Usable(s)) = Cardinality(Fit(s))
           /\ Usable(s) = << >> <=> Cardinality(Fit(s)) = 0
<1>1. IsFiniteSet(DOMAIN book.cands) /\ DOMAIN book.cands \subseteq Nat
  BY SizingAssumption
<1>2. Fit(s) \in SUBSET DOMAIN book.cands
  BY DEF Fit
<1>3. IsFiniteSet(Fit(s)) /\ Cardinality(Fit(s)) \in Nat
  BY <1>1, <1>2, FS_Subset, FS_CardinalityType
<1>4. \A i \in Fit(s) : i \in Nat /\ book.cands[i].kelly \in Nat \ {0}
  BY <1>1, <1>2, SizingAssumption
<1> DEFINE c == Cardinality(Fit(s))
           f(k) == CHOOSE i \in Fit(s) : Cardinality({j \in Fit(s) : Better(j, i)}) = k - 1
<1>6. Usable(s) = [k \in 1..c |-> f(k)] /\ c \in Nat
  BY <1>3, UsableIs
<1> HIDE DEF c, f
<1>7. DOMAIN Usable(s) = 1..c
  BY <1>6
<1>8. Len(Usable(s)) = c
  BY <1>6
<1>9. Usable(s) = << >> <=> c = 0
  BY <1>6, <1>8
<1> QED BY <1>3, <1>4, <1>8, <1>9 DEF c

(* The best of the candidates is one of them.                              *)
LEMMA BestFits ==
    ASSUME book \in Books, NEW s, Usable(s) # << >>
    PROVE  Usable(s)[1] \in Fit(s)
<1> DEFINE F == Fit(s)
           up(i) == {j \in F : Better(j, i)}
           C == {up(i) : i \in F}
<1>1. /\ IsFiniteSet(F) /\ \A i \in F : i \in Nat /\ book.cands[i].kelly \in Nat
      /\ Cardinality(F) \in Nat /\ Cardinality(F) # 0
  BY FitFacts
<1>2. F # {}
  BY <1>1, FS_EmptySet
<1>3. PICK T \in C : \A U \in C : U \subseteq T => U = T
  <2>1. C # {} /\ C \in SUBSET (SUBSET F)
    BY <1>2
  <2> HIDE DEF C, F
  <2> QED BY <1>1, <2>1, Smallest
<1>4. PICK i \in F : T = up(i)
  OBVIOUS
<1>5. \A j, k \in F : Better(j, k) => ~Better(k, j)
  BY <1>1 DEF Better
<1>6. \A j, k, l \in F : Better(j, k) /\ Better(k, l) => Better(j, l)
  BY <1>1 DEF Better
<1>7. up(i) = {}
  <2> SUFFICES ASSUME NEW j \in F, Better(j, i) PROVE FALSE
    OBVIOUS
  <2>1. up(j) \subseteq up(i)
    BY <1>6
  <2>2. up(j) = up(i)
    BY <1>3, <1>4, <2>1
  <2>3. j \in up(j)
    BY <2>2
  <2> QED BY <1>5, <2>3
<1>8. Cardinality({j \in F : Better(j, i)}) = 1 - 1
  <2>1. {j \in F : Better(j, i)} = {}
    BY <1>7
  <2>2. Cardinality({}) = 1 - 1
    BY FS_EmptySet
  <2> QED BY <2>1, <2>2
<1> DEFINE f(k) == CHOOSE l \in F : Cardinality({j \in F : Better(j, l)}) = k - 1
<1>9. f(1) \in F
  BY <1>8
<1>10. Usable(s) = [k \in 1..Cardinality(F) |-> f(k)]
  BY UsableIs
<1>11. 1 \in 1..Cardinality(F)
  BY <1>1
<1> HIDE DEF f
<1> QED BY <1>9, <1>10, <1>11

(* A plan for one position takes the best candidate.                       *)
LEMMA OneChosen ==
    ASSUME NEW s
    PROVE  Chosen(s, 1) = {Usable(s)[1]}
BY DEF Chosen

(* One candidate has the whole weight, *)
LEMMA KellyOfOne ==
    ASSUME book \in Books, NEW s, Usable(s) # << >>
    PROVE  Kelly(Chosen(s, 1)) = [i \in Chosen(s, 1) |-> Unit]
<1> DEFINE x == Usable(s)[1]
           k == [i \in {x} |-> book.cands[i].kelly]
<1>1. x \in Fit(s)
  BY BestFits
<1>2. book.cands[x].kelly \in Nat \ {0}
  BY <1>1, FitFacts
<1> HIDE DEF x
<1>3. k[x] = book.cands[x].kelly
  OBVIOUS
<1> DEFINE q == book.cands[x].kelly
<1>4. SumFunctionOnSet(k, {x}) = q
  <2> HIDE DEF k
  <2>1. k[x] \in Int
    BY <1>2, <1>3
  <2> QED BY <1>3, <2>1, SumSingle
<1>5. (Unit * q) \div q = Unit
  <2>1. q \in Nat \ {0} /\ Unit \in Nat
    BY <1>2, SizingAssumption
  <2> HIDE DEF q
  <2> QED BY <2>1, Z3
<1>6. Kelly({x}) = [i \in {x} |-> (Unit * k[i]) \div SumFunctionOnSet(k, {x})]
  BY DEF Kelly, Total
<1>7. Kelly({x}) = [i \in {x} |-> Unit]
  BY <1>3, <1>4, <1>5, <1>6
<1> QED BY <1>7, OneChosen DEF x

(* and no ceiling trims it, by token or by position. *)
LEMMA ClipOfOne ==
    ASSUME NEW x, NEW v, v = [i \in {x} |-> Unit], NEW ceiling, ceiling = Unit
    PROVE  Clip(v, {{x}}, ceiling) = v
<1>1. Unit \in Nat /\ Unit # 0
  BY SizingAssumption
<1>2. DOMAIN v = {x} /\ v[x] = Unit
  OBVIOUS
<1>3. Total(v, {x}) = Unit
  BY <1>1, <1>2, SumSingle DEF Total
<1>4. Over(v, {{x}}, ceiling) = {}
  BY <1>1, <1>3 DEF Over
<1>5. Trimmed(v, {{x}}, ceiling) = v
  BY <1>4 DEF Trimmed
<1>6. Room(v, {{x}}, ceiling) = {x}
  BY <1>4 DEF Room
<1>7. Total(v, DOMAIN v) - Total(v, DOMAIN v) = 0
  BY <1>1, <1>2, <1>3
<1>8. Clip(v, {{x}}, ceiling) = Raised(v, 0, {x})
  BY <1>1, <1>3, <1>5, <1>6, <1>7 DEF Clip
<1>9. Raised(v, 0, {x}) = [i \in {x} |-> v[i] + (0 * v[i]) \div Total(v, {x})]
  BY <1>2 DEF Raised
<1>10. v[x] + (0 * v[x]) \div Total(v, {x}) = v[x]
  BY <1>1, <1>2, <1>3
<1> QED BY <1>2, <1>8, <1>9, <1>10

(* One position has one group, and no ceiling below the whole.             *)
LEMMA CapsOfOne ==
    ASSUME NEW x
    PROVE  /\ ByMint({x}) = {{x}} /\ Singles({x}) = {{x}}
           /\ TokenCap({x}) = Unit /\ PositionCap({x}) = Unit
<1>1. ByMint({x}) = {{x}} /\ Singles({x}) = {{x}}
  BY DEF ByMint, Singles
<1>2. Cardinality({x}) = 1 /\ Cardinality({{x}}) = 1
  BY FS_Singleton
<1>3. Unit \div 1 = Unit /\ MaxOf(TokenShare, Unit) = Unit /\ MaxOf(PositionShare, Unit) = Unit
  BY SizingAssumption DEF MaxOf
<1> QED BY <1>1, <1>2, <1>3 DEF TokenCap, PositionCap

(* A clip weighs the same candidates.                                      *)
LEMMA ClipDomain ==
    ASSUME NEW v, NEW groups, NEW ceiling
    PROVE  DOMAIN Clip(v, groups, ceiling) = DOMAIN v
<1> DEFINE t == Trimmed(v, groups, ceiling)
<1>1. DOMAIN t = DOMAIN v
  BY DEF Trimmed
<1> HIDE DEF t
<1>2. \A freed, room : DOMAIN Raised(t, freed, room) = DOMAIN t
  BY DEF Raised
<1>3. Clip(v, groups, ceiling) = t
      \/ \E freed, room : Clip(v, groups, ceiling) = Raised(t, freed, room)
  BY DEF Clip, t
<1> QED BY <1>1, <1>2, <1>3

(* Clipping drops nobody and leaves a single weight alone.                 *)
LEMMA ClipKeeps ==
    ASSUME NInv, Trying, ClipTokens \/ ClipPositions
    PROVE  /\ DOMAIN w' = DOMAIN w
           /\ n = 1 => w' = w
<1>1. PICK groups, ceiling :
        /\ w' = Clip(w, groups, ceiling)
        /\ \/ groups = ByMint(DOMAIN w) /\ ceiling = TokenCap(DOMAIN w)
           \/ groups = Singles(DOMAIN w) /\ ceiling = PositionCap(DOMAIN w)
  BY DEF ClipTokens, ClipPositions
<1>2. DOMAIN w' = DOMAIN w
  BY <1>1, ClipDomain
<1>3. ASSUME n = 1 PROVE w' = w
  <2> DEFINE x == Usable(Sleeve)[1]
  <2>1. w = [i \in {x} |-> Unit]
    BY <1>3, OneChosen DEF NInv, WeightsRight
  <2> HIDE DEF x
  <2>2. DOMAIN w = {x}
    BY <2>1
  <2>3. groups = {{x}} /\ ceiling = Unit
    BY <1>1, <2>2, CapsOfOne
  <2> QED BY <1>1, <2>1, <2>3, ClipOfOne
<1> QED BY <1>2, <1>3

(* A sleeve has no negative budget,                                        *)
LEMMA SubBudgetType ==
    ASSUME NInv, NEW s \in {"core", "satellite"}
    PROVE  Share[s] \in Nat /\ SubBudget(s) \in Nat
<1>1. Share[s] \in Nat
  BY SizingAssumption
<1>2. book.budget \in Nat /\ Cash \in Nat
  BY SizingAssumption DEF NInv, TurnRight
<1> DEFINE left == MaxOf(0, book.budget - Cash)
<1>3. left \in Nat
  BY <1>2 DEF MaxOf
<1> HIDE DEF left
<1>4. (left * Share[s]) \div 100 \in Nat
  BY <1>1, <1>3, Z3
<1> QED BY <1>1, <1>4 DEF SubBudget, left

(* nor has the one that is planned.                                        *)
LEMMA SleeveType ==
    ASSUME NInv, pc # "placed"
    PROVE  Share[Sleeve] \in Nat /\ SubBudget(Sleeve) \in Nat
<1>1. Sleeve \in {"core", "satellite"}
  BY DEF NInv, TurnRight, Sleeve, Sleeves
<1> QED BY <1>1, SubBudgetType

(* Its money is what can be deployed. *)
LEMMA OneAboveFloor ==
    ASSUME NInv, Trying, n = 1
    PROVE  BelowFloor = {}
<1> DEFINE x == Usable(Sleeve)[1]
           d == Deployable(Sleeve, 1)
<1>1. w = [i \in {x} |-> Unit] /\ d >= 1 * Floor
  BY OneChosen DEF NInv, WeightsRight
<1>2. d \in Int
  <2>1. SubBudget(Sleeve) \in Int
    BY SleeveType DEF NInv, TurnRight, Trying
  <2> QED BY <2>1, SizingAssumption DEF Deployable
<1> HIDE DEF x
<1>3. DOMAIN w = {x} /\ w[x] = Unit /\ Cardinality(DOMAIN w) = 1
  BY <1>1, FS_Singleton
<1>4. Usd(Sleeve, w, x) = (d * Unit) \div Unit
  BY <1>3 DEF Usd
<1> HIDE DEF d
<1>5. (d * Unit) \div Unit = d
  BY <1>2, SizingAssumption, Z3
<1>6. Usd(Sleeve, w, x) >= Floor
  BY <1>1, <1>4, <1>5, SizingAssumption
<1>7. Floor \in Int /\ Usd(Sleeve, w, x) \in Int
  BY <1>2, <1>4, <1>5, SizingAssumption
<1> QED BY <1>3, <1>6, <1>7 DEF BelowFloor

(* A sleeve that is done. *)
LEMMA ReturnKeeps ==
    ASSUME NInv, pc # "placed", NEW plan, Return(plan), UNCHANGED <<book, geo>>,
           Carries(Sleeve) => plan # NoPlan
    PROVE  NInv'
<1>1. turn \in 1..2 /\ Len(Sleeves) = 2
  BY DEF NInv, TurnRight, Sleeves
<1>2. /\ plans' = [plans EXCEPT ![Sleeve] = plan]
      /\ turn' = turn + 1 /\ book' = book
      /\ pc' = IF turn = 2 THEN "placed" ELSE "sleeve"
  BY <1>1 DEF Return
<1>3. TurnRight'
  BY <1>1, <1>2 DEF NInv, TurnRight
<1>4. CountRight' /\ WeightsRight'
  BY <1>2 DEF CountRight, WeightsRight, Trying
<1>5. \A s : Carries(s)' <=> Carries(s)
  BY <1>2 DEF Carries, Usable, SubBudget, Better
<1>6. /\ DOMAIN plans' = {"core", "satellite"}
      /\ \A k \in 1..turn : Carries(Sleeves[k]) => plans'[Sleeves[k]] # NoPlan
  <2>1. DOMAIN plans' = {"core", "satellite"} /\ Sleeve \in DOMAIN plans
    BY <1>1, <1>2 DEF NInv, PlansRight, Sleeve, Sleeves
  <2>2. ASSUME NEW k \in 1..turn, Carries(Sleeves[k]) PROVE plans'[Sleeves[k]] # NoPlan
    <3>1. CASE k = turn
      BY <1>2, <2>1, <2>2, <3>1 DEF Sleeve
    <3>2. CASE k # turn
      <4>1. k \in 1..(turn - 1) /\ Sleeves[k] # Sleeve /\ Sleeves[k] \in DOMAIN plans
        BY <1>1, <3>2 DEF Sleeve, Sleeves, NInv, PlansRight
      <4> QED BY <1>2, <2>1, <2>2, <4>1 DEF NInv, PlansRight
    <3> QED BY <3>1, <3>2
  <2> QED BY <2>1, <2>2
<1>7. PlansRight'
  BY <1>1, <1>2, <1>5, <1>6 DEF PlansRight
<1> QED BY <1>3, <1>4, <1>7 DEF NInv

(* Steps within a sleeve. *)
LEMMA WithinSleeve ==
    ASSUME NInv, UNCHANGED <<book, turn, plans>>
    PROVE  /\ PlansRight'
           /\ \A s : Carries(s)' <=> Carries(s)
           /\ \A s : Usable(s)' = Usable(s)
           /\ \A s, k : Deployable(s, k)' = Deployable(s, k) /\ Chosen(s, k)' = Chosen(s, k)
           /\ Sleeve' = Sleeve
<1>1. \A s : Usable(s)' = Usable(s) /\ SubBudget(s)' = SubBudget(s)
  BY DEF Usable, SubBudget, Better
<1>2. \A s : Carries(s)' <=> Carries(s)
  BY <1>1 DEF Carries
<1>3. \A s, k : Deployable(s, k)' = Deployable(s, k) /\ Chosen(s, k)' = Chosen(s, k)
  BY <1>1 DEF Deployable, Chosen
<1> QED BY <1>1, <1>2, <1>3 DEF NInv, PlansRight, Sleeve

(* The steps of a search for a plan keep its invariant.                    *)
LEMMA SleeveStep ==
    ASSUME NInv, BeginSleeve \/ TooMany \/ Weigh \/ ClipTokens \/ ClipPositions \/ Shrink
    PROVE  NInv'
<1>1. UNCHANGED <<book, turn, plans>>
  BY DEF BeginSleeve, TooMany, Weigh, ClipTokens, ClipPositions, Shrink
<1>2. /\ PlansRight'
      /\ Carries(Sleeve)' <=> Carries(Sleeve)
      /\ Usable(Sleeve)' = Usable(Sleeve)
      /\ \A k : /\ Deployable(Sleeve, k)' = Deployable(Sleeve, k)
                /\ Chosen(Sleeve, k)' = Chosen(Sleeve, k)
      /\ Sleeve' = Sleeve
  BY <1>1, WithinSleeve DEF Sleeve
<1>3. TurnRight'
  BY <1>1 DEF NInv, TurnRight, BeginSleeve, TooMany, Weigh, ClipTokens, ClipPositions, Shrink
<1> DEFINE s == Sleeve
           m == Len(Usable(s))
<1>4. book \in Books /\ m \in Nat /\ (Usable(s) # << >> => m >= 1)
  BY FitFacts DEF NInv, TurnRight
<1>5. Rent \in Nat /\ Floor \in Nat /\ Unit \in Nat /\ MaxPositions \in Nat
  BY SizingAssumption
<1>6. SubBudget(s) \in Int /\ \A k \in Nat : Deployable(s, k) \in Int
  <2>1. pc # "placed"
    BY DEF BeginSleeve, TooMany, Weigh, ClipTokens, ClipPositions, Shrink
  <2>2. SubBudget(s) \in Int
    BY <2>1, SleeveType
  <2> QED BY <1>5, <2>2 DEF Deployable
<1>7. ASSUME pc' = "count" \/ Trying', n' \in 0..m, Carries(s) => n' >= 1 PROVE CountRight'
  BY <1>2, <1>7 DEF CountRight
<1>8. CASE BeginSleeve
  <2>1. n' = MinOf(SleeveCount(s), m) /\ pc' = "count"
    BY <1>8 DEF BeginSleeve
  <2>2. SleeveCount(s) \in Nat /\ SleeveCount(s) >= 1
    <3>1. Share[s] \in Nat
      BY <1>8, SleeveType DEF BeginSleeve
    <3> DEFINE c == (MaxPositions * Share[s] + 50) \div 100
    <3>2. c \in Int
      BY <1>5, <3>1
    <3> HIDE DEF c
    <3> QED BY <3>2 DEF SleeveCount, MaxOf, c
  <2>3. n' \in 0..m /\ (m >= 1 => n' >= 1)
    BY <1>4, <2>1, <2>2 DEF MinOf
  <2>4. CountRight'
    BY <1>4, <1>7, <2>1, <2>3 DEF Carries
  <2>5. WeightsRight'
    BY <2>1 DEF WeightsRight, Trying
  <2> QED BY <1>2, <1>3, <2>4, <2>5 DEF NInv
<1>9. CASE TooMany
  <2>1. pc = "count" /\ n > 0 /\ Deployable(s, n) < n * Floor /\ n' = n - 1 /\ pc' = "count"
    BY <1>9 DEF TooMany
  <2>2. n \in 0..m
    BY <2>1 DEF NInv, CountRight
  <2>3. ASSUME Carries(s) PROVE n' >= 1
    <3>1. n # 1
      <4> SUFFICES ASSUME n = 1 PROVE FALSE
        OBVIOUS
      <4>1. SubBudget(s) - 1 * Rent < 1 * Floor
        BY <2>1 DEF Deployable
      <4> QED BY <1>5, <1>6, <2>3, <4>1 DEF Carries
    <3> QED BY <1>4, <2>1, <2>2, <3>1
  <2>4. CountRight'
    BY <1>4, <1>7, <2>1, <2>2, <2>3
  <2>5. WeightsRight'
    BY <2>1 DEF WeightsRight, Trying
  <2> QED BY <1>2, <1>3, <2>4, <2>5 DEF NInv
<1>10. CASE Weigh
  <2>1. /\ pc = "count" /\ n > 0 /\ Deployable(s, n) >= n * Floor
        /\ w' = Kelly(Chosen(s, n)) /\ pc' = "tokens" /\ n' = n
    BY <1>10 DEF Weigh
  <2>2. n \in 0..m /\ (Carries(s) => n >= 1)
    BY <2>1 DEF NInv, CountRight
  <2>3. CountRight'
    BY <1>7, <2>1, <2>2 DEF Trying
  <2>4. DOMAIN w' = Chosen(s, n)
    BY <2>1 DEF Kelly
  <2>5. ASSUME n = 1 PROVE w' = [i \in Chosen(s, 1) |-> Unit]
    <3>1. Usable(s) # << >>
      BY <1>4, <2>2, <2>5
    <3> QED BY <1>4, <2>1, <2>5, <3>1, KellyOfOne
  <2>6. WeightsRight'
    BY <1>2, <1>4, <2>1, <2>2, <2>4, <2>5 DEF WeightsRight, Trying
  <2> QED BY <1>2, <1>3, <2>3, <2>6 DEF NInv
<1>11. CASE ClipTokens \/ ClipPositions
  <2>1. Trying /\ Trying' /\ n' = n
    BY <1>11 DEF ClipTokens, ClipPositions, Trying
  <2>2. DOMAIN w' = DOMAIN w /\ (n = 1 => w' = w)
    BY <1>11, <2>1, ClipKeeps
  <2>3. /\ n \in 0..m /\ (Carries(s) => n >= 1)
        /\ n >= 1 /\ Deployable(s, n) >= n * Floor
        /\ DOMAIN w = Chosen(s, n)
        /\ n = 1 => w = [i \in Chosen(s, 1) |-> Unit]
    BY <2>1 DEF NInv, CountRight, WeightsRight
  <2>4. CountRight'
    BY <1>7, <2>1, <2>3
  <2>5. WeightsRight'
    BY <1>2, <2>1, <2>2, <2>3 DEF WeightsRight
  <2> QED BY <1>2, <1>3, <2>4, <2>5 DEF NInv
<1>12. CASE Shrink
  <2>1. pc = "settle" /\ BelowFloor # {} /\ n' = n - 1 /\ pc' = "count"
    BY <1>12 DEF Shrink
  <2>2. n \in 0..m /\ n >= 1 /\ n # 1
    BY <2>1, OneAboveFloor DEF NInv, CountRight, WeightsRight, Trying
  <2>3. CountRight'
    BY <1>4, <1>7, <2>1, <2>2
  <2>4. WeightsRight'
    BY <2>1 DEF WeightsRight, Trying
  <2> QED BY <1>2, <1>3, <2>3, <2>4 DEF NInv
<1> QED BY <1>8, <1>9, <1>10, <1>11, <1>12

(* Where the plan of a sleeve stands, whatever the candidates.             *)
THEOREM PlanInvariance == Spec => []NInv
<1>1. Init => NInv
  <2> SUFFICES ASSUME Init PROVE NInv
    OBVIOUS
  <2>1. TurnRight /\ CountRight /\ WeightsRight
    BY DEF Init, TurnRight, CountRight, WeightsRight, Trying
  <2>2. PlansRight
    BY DEF Init, PlansRight
  <2> QED BY <2>1, <2>2 DEF NInv
<1>2. NInv /\ [Next]_vars => NInv'
  <2> SUFFICES ASSUME NInv, [Next]_vars PROVE NInv'
    OBVIOUS
  <2>1. CASE BeginSleeve \/ TooMany \/ Weigh \/ ClipTokens \/ ClipPositions \/ Shrink
    BY <2>1, SleeveStep
  <2>2. CASE GiveUp
    <3>1. pc = "count" /\ n = 0 /\ Return(NoPlan) /\ UNCHANGED <<book, geo>>
      BY <2>2 DEF GiveUp
    <3>2. ~Carries(Sleeve)
      BY <3>1 DEF NInv, CountRight
    <3> QED BY <3>1, <3>2, ReturnKeeps
  <2>3. CASE Settle
    <3>1. /\ pc = "settle" /\ UNCHANGED <<book, geo>>
          /\ Return([weights |-> w, breaches |-> {i \in DOMAIN w : w[i] > PositionCap(DOMAIN w)}])
      BY <2>3 DEF Settle
    <3>2. n \in Nat /\ n >= 1 /\ DOMAIN w = Chosen(Sleeve, n)
      BY <3>1, FitFacts DEF NInv, TurnRight, CountRight, WeightsRight, Trying
    <3>3. Usable(Sleeve)[1] \in DOMAIN w
      BY <3>2 DEF Chosen
    <3>4. w # << >>
      BY <3>3
    <3>5. [weights |-> w, breaches |-> {i \in DOMAIN w : w[i] > PositionCap(DOMAIN w)}] # NoPlan
      BY <3>4 DEF NoPlan
    <3> QED BY <3>1, <3>5, ReturnKeeps
  <2>4. CASE Geometry \/ UNCHANGED vars
    <3>1. UNCHANGED <<book, turn, pc, n, w, plans>>
      BY <2>4 DEF Geometry, vars
    <3>2. /\ PlansRight' /\ Sleeve' = Sleeve
          /\ Carries(Sleeve)' <=> Carries(Sleeve)
          /\ Usable(Sleeve)' = Usable(Sleeve)
          /\ \A k : /\ Deployable(Sleeve, k)' = Deployable(Sleeve, k)
                    /\ Chosen(Sleeve, k)' = Chosen(Sleeve, k)
      BY <3>1, WithinSleeve DEF Sleeve
    <3> QED BY <3>1, <3>2 DEF NInv, TurnRight, CountRight, WeightsRight, Trying
  <2> QED BY <2>1, <2>2, <2>3, <2>4 DEF Next
<1> QED BY <1>1, <1>2, PTL DEF Spec

(* A sleeve that has the money for one position and a candidate places     *)
(* somebody.                                                               *)
THEOREM NeverEmptyCorrect == Spec => []NeverEmpty
<1>1. NInv => NeverEmpty
  <2> SUFFICES ASSUME NInv, pc = "placed", NEW s \in DOMAIN plans, Carries(s)
               PROVE  plans[s] # NoPlan
    BY DEF NeverEmpty, Carries
  <2>1. turn = 3 /\ (s = "core" \/ s = "satellite")
    BY DEF NInv, TurnRight, PlansRight
  <2>2. \A k \in 1..2 : Carries(Sleeves[k]) => plans[Sleeves[k]] # NoPlan
    BY <2>1 DEF NInv, PlansRight
  <2>3. Sleeves[1] = "core" /\ Sleeves[2] = "satellite"
    BY DEF Sleeves
  <2> QED BY <2>1, <2>2, <2>3
<1> QED BY <1>1, PlanInvariance, PTL

(***************************************************************************)
(* What a sleeve is told to spend never exceeds what it has.  A plan gives *)
(* everybody a share of the money that is left beside the rents; shares    *)
(* are rounded down, the ceilings take from some and give to others no     *)
(* more than was taken, and those that get it are there to get it.         *)
(***************************************************************************)
Spends(s) ==
    LET v == plans[s].weights
        D == DOMAIN v
    IN  SumFunctionOnSet([i \in D |-> Usd(s, v, i)], D) + Cardinality(D) * Rent

(* A plan and the rents of its positions stay within the sleeve's money.   *)
BudgetKept == \A s \in DOMAIN plans : plans[s] # NoPlan => Spends(s) <= SubBudget(s)

Shares(v) ==
    /\ \A i \in DOMAIN v : v[i] \in Nat
    /\ Total(v, DOMAIN v) <= Unit

Affordable(s, v) ==
    \E k \in 1..Len(Usable(s)) : DOMAIN v = Chosen(s, k) /\ Deployable(s, k) >= 0

SharesInv ==
    /\ Trying => Shares(w)
    /\ \A s \in DOMAIN plans : plans[s] # NoPlan =>
           Shares(plans[s].weights) /\ Affordable(s, plans[s].weights)

-----------------------------------------------------------------------------
(* The candidate at every rank is one of the sleeve's: ranks are distinct, *)
(* and there are as many as candidates.                                    *)
LEMMA RankedFits ==
    ASSUME book \in Books, NEW s, NEW k \in 1..Len(Usable(s))
    PROVE  /\ Usable(s)[k] \in Fit(s)
           /\ Cardinality({j \in Fit(s) : Better(j, Usable(s)[k])}) = k - 1
<1> DEFINE F == Fit(s)
           c == Cardinality(F)
           up(i) == {j \in F : Better(j, i)}
           rank == [i \in F |-> Cardinality(up(i))]
           others == (0..(c - 1)) \ {k - 1}
<1>1. /\ IsFiniteSet(F) /\ c \in Nat /\ Len(Usable(s)) = c
      /\ \A i \in F : i \in Nat /\ book.cands[i].kelly \in Nat
  BY FitFacts
<1>2. \A i, j \in F : i # j => Better(i, j) \/ Better(j, i)
  BY <1>1 DEF Better
<1>3. \A i, j, l \in F : Better(i, j) /\ Better(j, l) => Better(i, l)
  BY <1>1 DEF Better
<1>4. \A i \in F : ~Better(i, i)
  BY <1>1 DEF Better
<1>5. \A i \in F : IsFiniteSet(up(i)) /\ Cardinality(up(i)) \in Nat
  <2> SUFFICES ASSUME NEW i \in F PROVE IsFiniteSet(up(i)) /\ Cardinality(up(i)) \in Nat
    OBVIOUS
  <2>1. up(i) \in SUBSET F
    OBVIOUS
  <2> QED BY <1>1, <2>1, FS_Subset, FS_CardinalityType
<1>6. ASSUME NEW i \in F, NEW j \in F, Better(i, j)
      PROVE  Cardinality(up(i)) < Cardinality(up(j))
  <2>1. up(i) \cup {i} \subseteq up(j) /\ i \notin up(i)
    BY <1>3, <1>4, <1>6
  <2>2. Cardinality(up(i) \cup {i}) = Cardinality(up(i)) + 1
    BY <1>5, <2>1, FS_AddElement
  <2>3. Cardinality(up(i) \cup {i}) <= Cardinality(up(j))
    BY <1>5, <2>1, FS_Subset
  <2>4. Cardinality(up(i)) \in Nat /\ Cardinality(up(j)) \in Nat
    BY <1>5
  <2> HIDE DEF up, F
  <2> QED BY <2>2, <2>3, <2>4
<1>7. \A i \in F : Cardinality(up(i)) \in 0..(c - 1)
  <2> SUFFICES ASSUME NEW i \in F PROVE Cardinality(up(i)) \in 0..(c - 1)
    OBVIOUS
  <2>1. up(i) \in SUBSET F /\ up(i) # F
    BY <1>4
  <2>2. Cardinality(up(i)) <= c /\ Cardinality(up(i)) # c
    BY <1>1, <2>1, FS_Subset
  <2>3. Cardinality(up(i)) \in Nat
    BY <1>5
  <2> HIDE DEF up, F
  <2> QED BY <1>1, <2>2, <2>3
<1>8. \A i, j \in F : rank[i] = rank[j] => i = j
  <2> SUFFICES ASSUME NEW i \in F, NEW j \in F, i # j,
                      Cardinality(up(i)) = Cardinality(up(j))
               PROVE  FALSE
    OBVIOUS
  <2>1. Cardinality(up(i)) < Cardinality(up(j)) \/ Cardinality(up(j)) < Cardinality(up(i))
    BY <1>2, <1>6
  <2>2. Cardinality(up(i)) \in Nat
    BY <1>5
  <2> HIDE DEF up, F
  <2> QED BY <2>1, <2>2
<1>9. \E i \in F : Cardinality(up(i)) = k - 1
  <2> SUFFICES ASSUME \A i \in F : Cardinality(up(i)) # k - 1 PROVE FALSE
    OBVIOUS
  <2>1. rank \in [F -> others]
    BY <1>7
  <2>2. k - 1 \in 0..(c - 1) /\ IsFiniteSet(0..(c - 1)) /\ Cardinality(0..(c - 1)) = c
    <3> HIDE DEF c, F
    <3>1. 0 \in Int /\ c - 1 \in Int /\ k \in 1..c
      BY <1>1
    <3> QED BY <1>1, <3>1, FS_Interval
  <2>3. IsFiniteSet(others) /\ Cardinality(others) = c - 1
    <3> DEFINE I == 0..(c - 1)
    <3>1. IsFiniteSet(I) /\ k - 1 \in I /\ Cardinality(I) = c
      BY <2>2
    <3> HIDE DEF I
    <3>2. IsFiniteSet(I \ {k - 1}) /\ Cardinality(I \ {k - 1}) = c - 1
      BY <3>1, FS_RemoveElement
    <3> QED BY <3>2 DEF I
  <2> HIDE DEF rank, others, F
  <2>4. Cardinality(others) < Cardinality(F)
    BY <1>1, <2>3
  <2>5. \E i, j \in F : i # j /\ rank[i] = rank[j]
    BY <1>1, <2>1, <2>3, <2>4, FS_PigeonHole
  <2> QED BY <1>8, <2>5
<1> DEFINE f(m) == CHOOSE i \in F : Cardinality({j \in F : Better(j, i)}) = m - 1
<1>10. f(k) \in F /\ Cardinality(up(f(k))) = k - 1
  BY <1>9
<1>11. Usable(s) = [m \in 1..c |-> f(m)]
  BY UsableIs
<1>12. Usable(s)[k] = f(k)
  <2> HIDE DEF f, F
  <2> QED BY <1>1, <1>11
<1> QED BY <1>10, <1>12

(* The best k are k candidates of the sleeve.                              *)
LEMMA ChosenFits ==
    ASSUME book \in Books, NEW s, NEW k \in 0..Len(Usable(s))
    PROVE  /\ Chosen(s, k) \subseteq Fit(s)
           /\ IsFiniteSet(Chosen(s, k)) /\ Cardinality(Chosen(s, k)) = k
<1> DEFINE up(i) == {j \in Fit(s) : Better(j, i)}
           f == [m \in 1..k |-> Usable(s)[m]]
           C == Chosen(s, k)
<1>1. Len(Usable(s)) \in Nat /\ IsFiniteSet(Fit(s))
  BY FitFacts
<1>2. \A m \in 1..k : f[m] \in Fit(s) /\ Cardinality(up(f[m])) = m - 1
  BY <1>1, RankedFits
<1>3. C = {f[m] : m \in 1..k}
  BY DEF Chosen
<1>4. C \subseteq Fit(s)
  BY <1>2, <1>3
<1>5. IsFiniteSet(C)
  BY <1>1, <1>4, FS_Subset
<1>6. \A m, l \in 1..k : f[m] = f[l] => m = l
  <2> SUFFICES ASSUME NEW m \in 1..k, NEW l \in 1..k, f[m] = f[l] PROVE m = l
    OBVIOUS
  <2> HIDE DEF f, up
  <2>1. m - 1 = l - 1
    BY <1>2
  <2> QED BY <1>1, <2>1
<1>7. f \in Bijection(1..k, C)
  <2>1. f \in [1..k -> C] /\ \A y \in C : \E m \in 1..k : f[m] = y
    BY <1>3
  <2> HIDE DEF f, C
  <2> QED BY <1>6, <2>1 DEF Bijection, Injection, Surjection, IsInjective
<1>8. Cardinality(C) = k
  <2>1. IsFiniteSet(1..k) /\ Cardinality(1..k) = k
    BY <1>1, FS_Interval
  <2>2. ExistsBijection(1..k, C)
    BY <1>7 DEF ExistsBijection
  <2> HIDE DEF C
  <2> QED BY <2>1, <2>2, FS_Bijection
<1> QED BY <1>4, <1>5, <1>8

(* Weighing by Kelly shares out the whole at most.                         *)
LEMMA KellyShares ==
    ASSUME book \in Books, NEW s, NEW k \in 1..Len(Usable(s))
    PROVE  Shares(Kelly(Chosen(s, k)))
<1> DEFINE C == Chosen(s, k)
           q == [i \in C |-> book.cands[i].kelly]
           t == SumFunctionOnSet(q, C)
           v == [i \in C |-> (Unit * q[i]) \div t]
<1>1. /\ k \in 0..Len(Usable(s)) /\ k # 0
      /\ \A i \in Fit(s) : book.cands[i].kelly \in Nat \ {0}
  BY FitFacts
<1>2. C \subseteq Fit(s) /\ IsFiniteSet(C) /\ Cardinality(C) = k
  BY <1>1, ChosenFits
<1>3. C # {}
  BY <1>1, <1>2, FS_EmptySet
<1>4. \A i \in C : q[i] \in Nat \ {0}
  BY <1>1, <1>2
<1>5. v = Kelly(C)
  BY DEF Kelly, Total
<1> HIDE DEF C, q
<1>6. t \in Nat \ {0}
  <2>1. PICK i \in C : TRUE
    BY <1>3
  <2>2. SumFunctionOnSet(q, {i}) <= t
    BY <1>2, <1>4, SumMonotone
  <2>3. SumFunctionOnSet(q, {i}) = q[i] /\ q[i] \in Nat \ {0}
    <3>1. q[i] \in Int /\ q[i] \in Nat \ {0}
      BY <1>4
    <3> QED BY <3>1, SumSingle
  <2>4. t \in Nat
    BY <1>2, <1>4, SumNat
  <2> QED BY <2>2, <2>3, <2>4
<1>7. Unit \in Nat
  BY SizingAssumption
<1>8. DOMAIN v = C /\ \A i \in C : q[i] \in Nat /\ v[i] = (Unit * q[i]) \div t
  BY <1>4
<1> HIDE DEF v
<1>9. \A i \in C : v[i] \in Nat
  <2> SUFFICES ASSUME NEW i \in C PROVE v[i] \in Nat
    OBVIOUS
  <2> DEFINE m == Unit * q[i]
  <2>1. m \in Nat
    BY <1>7, <1>8
  <2> HIDE DEF m, t
  <2>2. m \div t \in Nat
    BY <1>6, <2>1, Z3
  <2> QED BY <1>8, <2>2 DEF m
<1>10. SumFunctionOnSet(v, C) <= Unit
  <2>1. SumFunctionOnSet(q, C) <= t
    BY <1>6
  <2> HIDE DEF t
  <2> QED BY <1>2, <1>6, <1>7, <1>8, <2>1, SumShares
<1> QED BY <1>5, <1>8, <1>9, <1>10 DEF Shares, Total, C

-----------------------------------------------------------------------------
(* Groups that share nobody: the pools of one token, and single pools.     *)
Apart(groups, D) ==
    /\ \A g \in groups : g \subseteq D
    /\ \A g, h \in groups : g \cap h # {} => g = h

(* Pools of one token, and single pools, are such groups.                  *)
LEMMA GroupsApart == \A D : Apart(ByMint(D), D) /\ Apart(Singles(D), D)
BY DEF Apart, ByMint, Singles

(* Ceilings are numbers.                                                   *)
LEMMA CapTypes ==
    ASSUME NEW D, IsFiniteSet(D), D # {}
    PROVE  TokenCap(D) \in Nat /\ PositionCap(D) \in Nat
<1>1. Unit \in Nat /\ TokenShare \in Nat /\ PositionShare \in Nat
  BY SizingAssumption
<1>2. ASSUME NEW S, IsFiniteSet(S), S # {} PROVE Unit \div Cardinality(S) \in Nat
  <2>1. Cardinality(S) \in Nat /\ Cardinality(S) # 0
    BY <1>2, FS_CardinalityType, FS_EmptySet
  <2> DEFINE c == Cardinality(S)
  <2> HIDE DEF c
  <2>2. c \in Nat \ {0}
    BY <2>1 DEF c
  <2>3. Unit \div c \in Nat
    BY <1>1, <2>2, Z3
  <2> QED BY <2>3 DEF c
<1>3. IsFiniteSet(ByMint(D)) /\ ByMint(D) # {}
  <2>1. ByMint(D) \in SUBSET (SUBSET D) /\ ByMint(D) # {}
    <3>1. ByMint(D) \in SUBSET (SUBSET D)
      BY GroupsApart DEF Apart
    <3>2. PICK d \in D : TRUE
      OBVIOUS
    <3>3. {j \in D : book.cands[j].mint = book.cands[d].mint} \in ByMint(D)
      BY DEF ByMint
    <3> QED BY <3>1, <3>3
  <2>2. IsFiniteSet(SUBSET D)
    BY FS_SUBSET
  <2> QED BY <2>1, <2>2, FS_Subset
<1>4. Unit \div Cardinality(D) \in Nat /\ Unit \div Cardinality(ByMint(D)) \in Nat
  BY <1>2, <1>3
<1> QED BY <1>1, <1>4 DEF TokenCap, PositionCap, MaxOf

(* A part of what somebody has, rounded up, is no more than all of it.     *)
LEMMA PartFits ==
    ASSUME NEW t \in Nat \ {0}, NEW c \in Nat, c <= t, NEW x \in Nat
    PROVE  ((t - c) * x + t - 1) \div t \in 0..x
<1> DEFINE m == (t - c) * x
           q == (m + t - 1) \div t
<1>1. m \in Nat /\ m <= t * x
  <2>1. (t - c) * x + c * x = t * x /\ c * x \in Nat /\ (t - c) * x \in Nat
    BY Z3
  <2> QED BY <2>1
<1> HIDE DEF m
<1>2. q \in Nat /\ t * q <= m + t - 1
  <2> DEFINE a == m + t - 1
  <2>1. a \in Nat
    BY <1>1
  <2> HIDE DEF a
  <2>2. a \div t \in Nat /\ t * (a \div t) <= a
    BY <2>1, Z3
  <2> QED BY <2>2 DEF a
<1> HIDE DEF q
<1>3. q <= x
  <2> SUFFICES ASSUME q >= x + 1 PROVE FALSE
    BY <1>2
  <2>1. t * q >= t * (x + 1)
    BY <1>2
  <2>2. t * (x + 1) = t * x + t /\ t * x \in Nat
    BY Z3
  <2>3. t * q \in Nat
    BY <1>2
  <2> QED BY <1>1, <1>2, <2>1, <2>2, <2>3
<1>4. q \in 0..x
  BY <1>2, <1>3
<1> QED BY <1>4 DEF q, m

(* Trimming takes from those above the ceiling only, and not more than     *)
(* they have.                                                              *)
LEMMA TrimmedFacts ==
    ASSUME NEW v, NEW groups, NEW ceiling \in Nat,
           IsFiniteSet(DOMAIN v), \A i \in DOMAIN v : v[i] \in Nat,
           Apart(groups, DOMAIN v)
    PROVE  LET T == Trimmed(v, groups, ceiling)
           IN  /\ DOMAIN T = DOMAIN v
               /\ \A i \in DOMAIN v : T[i] \in Nat /\ T[i] <= v[i]
               /\ \A i \in Room(v, groups, ceiling) : i \in DOMAIN v /\ T[i] = v[i]
<1> DEFINE T == Trimmed(v, groups, ceiling)
           O == Over(v, groups, ceiling)
           h(i) == CHOOSE g \in groups : i \in g
           cut(i) == ((Total(v, h(i)) - ceiling) * v[i] + Total(v, h(i)) - 1) \div Total(v, h(i))
<1>1. T = [i \in DOMAIN v |-> IF \A g \in O : i \notin g THEN v[i] ELSE v[i] - cut(i)]
  BY DEF Trimmed
<1>2. \A i \in DOMAIN v : (\A g \in O : i \notin g) => T[i] = v[i]
  <2> HIDE DEF T, O, cut
  <2> QED BY <1>1
<1>3. ASSUME NEW i \in DOMAIN v, NEW g \in O, i \in g
      PROVE  T[i] \in Nat /\ T[i] <= v[i]
  <2>1. g \in groups /\ Total(v, g) > ceiling
    BY DEF Over
  <2>2. h(i) \in groups /\ i \in h(i)
    BY <1>3, <2>1
  <2>3. h(i) = g
    BY <1>3, <2>1, <2>2 DEF Apart
  <2>4. g \subseteq DOMAIN v /\ IsFiniteSet(g)
    BY <2>1, FS_Subset DEF Apart
  <2>5. Total(v, g) \in Nat
    BY <2>4, SumNat DEF Total
  <2> DEFINE t == Total(v, g)
  <2>6. t \in Nat \ {0} /\ ceiling <= t /\ v[i] \in Nat
    BY <2>1, <2>5
  <2>7. ((t - ceiling) * v[i] + t - 1) \div t \in 0..v[i]
    <3> HIDE DEF t
    <3> QED BY <2>6, PartFits
  <2>8. cut(i) \in 0..v[i]
    BY <2>3, <2>7
  <2>9. T[i] = v[i] - cut(i)
    <3> HIDE DEF T, O, cut
    <3> QED BY <1>1, <1>3
  <2> HIDE DEF T, cut
  <2> QED BY <2>6, <2>8, <2>9
<1>4. \A i \in DOMAIN v : T[i] \in Nat /\ T[i] <= v[i]
  <2> SUFFICES ASSUME NEW i \in DOMAIN v PROVE T[i] \in Nat /\ T[i] <= v[i]
    OBVIOUS
  <2> HIDE DEF T, O
  <2>1. CASE \A g \in O : i \notin g
    BY <1>2, <2>1
  <2>2. CASE \E g \in O : i \in g
    BY <1>3, <2>2
  <2> QED BY <2>1, <2>2
<1>5. ASSUME NEW i \in Room(v, groups, ceiling) PROVE i \in DOMAIN v /\ T[i] = v[i]
  <2>1. PICK g \in groups : g \notin O /\ i \in g
    BY DEF Room
  <2>2. i \in DOMAIN v
    BY <2>1 DEF Apart
  <2>3. \A k \in O : i \notin k
    BY <2>1 DEF Apart, Over
  <2> HIDE DEF T, O
  <2> QED BY <1>2, <2>2, <2>3
<1>6. DOMAIN T = DOMAIN v
  BY DEF Trimmed
<1> QED BY <1>4, <1>5, <1>6

(* What a clip takes from some it gives to others, and not more than that. *)
LEMMA ClipShares ==
    ASSUME NEW v, NEW groups, NEW ceiling \in Nat,
           IsFiniteSet(DOMAIN v), Shares(v), Apart(groups, DOMAIN v)
    PROVE  Shares(Clip(v, groups, ceiling))
<1> DEFINE D == DOMAIN v
           T == Trimmed(v, groups, ceiling)
           R == Room(v, groups, ceiling)
           freed == Total(v, D) - Total(T, D)
           new == Clip(v, groups, ceiling)
<1>1. /\ DOMAIN T = D
      /\ \A i \in D : v[i] \in Nat /\ T[i] \in Nat /\ T[i] <= v[i]
      /\ \A i \in R : i \in D /\ T[i] = v[i]
  BY TrimmedFacts DEF Shares
<1>2. IsFiniteSet(R) /\ R \in SUBSET D
  BY <1>1, FS_Subset
<1>3. new = IF Total(v, R) = 0 THEN T ELSE Raised(T, freed, R)
  BY DEF Clip
<1>4. Total(v, D) <= Unit /\ Unit \in Nat
  BY SizingAssumption DEF Shares
<1> HIDE DEF D, T, R, new
<1>5. /\ Total(v, D) \in Nat /\ Total(T, D) \in Nat /\ Total(v, R) \in Nat
      /\ Total(T, D) <= Total(v, D)
  <2>1. IsFiniteSet(D)
    BY DEF D
  <2>2. \A i \in R : v[i] \in Nat
    BY <1>1
  <2>3. Total(v, D) \in Nat /\ Total(T, D) \in Nat /\ Total(v, R) \in Nat
    BY <1>1, <1>2, <2>1, <2>2, SumNat DEF Total
  <2>4. \A i \in D : T[i] \in Int /\ T[i] <= v[i]
    BY <1>1
  <2>5. D \in SUBSET D
    OBVIOUS
  <2>6. Total(T, D) <= Total(v, D)
    BY <1>1, <2>1, <2>4, <2>5, SumMonotone DEF Total
  <2> QED BY <2>3, <2>6
<1>6. CASE Total(v, R) = 0
  <2>1. new = T
    BY <1>3, <1>6
  <2> QED BY <1>1, <1>4, <1>5, <2>1 DEF Shares, new
<1>7. CASE Total(v, R) # 0
  <2> DEFINE b == Total(T, R)
             share == [i \in R |-> (freed * T[i]) \div b]
             more == [i \in D |-> IF i \in R THEN share[i] ELSE 0]
  <2>1. b = Total(v, R) /\ b \in Nat \ {0} /\ freed \in Nat
    <3>1. \A i \in R : T[i] \in Nat /\ T[i] = v[i]
      BY <1>1
    <3>2. b = Total(v, R)
      BY <1>2, <3>1, SumSame DEF Total
    <3> QED BY <1>5, <1>7, <3>2
  <2>2. new = [i \in D |-> IF i \in R THEN T[i] + (freed * T[i]) \div b ELSE T[i]]
    BY <1>1, <1>3, <1>7 DEF Raised
  <2> HIDE DEF b, freed
  <2>3. \A i \in R : T[i] \in Nat /\ share[i] = (freed * T[i]) \div b /\ share[i] \in Nat
    <3> SUFFICES ASSUME NEW i \in R PROVE T[i] \in Nat /\ (freed * T[i]) \div b \in Nat
      OBVIOUS
    <3>1. T[i] \in Nat
      BY <1>1
    <3> DEFINE m == freed * T[i]
    <3>2. m \in Nat
      BY <2>1, <3>1
    <3> HIDE DEF m
    <3>3. m \div b \in Nat
      BY <2>1, <3>2, Z3
    <3> QED BY <3>1, <3>3 DEF m
  <2>4. \A i \in D : new[i] = T[i] + more[i] /\ more[i] \in Nat /\ new[i] \in Nat /\ T[i] \in Nat
    <3> SUFFICES ASSUME NEW i \in D
                 PROVE  new[i] = T[i] + more[i] /\ more[i] \in Nat /\ new[i] \in Nat /\ T[i] \in Nat
      OBVIOUS
    <3>1. T[i] \in Nat
      BY <1>1
    <3>2. CASE i \in R
      <4>1. new[i] = T[i] + share[i] /\ more[i] = share[i] /\ share[i] \in Nat
        BY <2>2, <2>3, <3>2
      <4> QED BY <3>1, <4>1
    <3>3. CASE i \notin R
      <4>1. new[i] = T[i] /\ more[i] = 0
        BY <2>2, <3>3
      <4> QED BY <3>1, <4>1
    <3> QED BY <3>2, <3>3
  <2>5. \A i \in D \ R : more[i] = 0
    OBVIOUS
  <2>6. \A i \in R : share[i] \in Nat /\ more[i] = share[i]
    BY <1>2, <2>3
  <2> HIDE DEF share, more
  <2>7. IsFiniteSet(D)
    BY DEF D
  <2>8. SumFunctionOnSet(more, D) = SumFunctionOnSet(share, R)
    BY <1>2, <2>5, <2>6, <2>7, SumOver
  <2>9. SumFunctionOnSet(share, R) <= freed
    <3>1. SumFunctionOnSet(T, R) <= b
      BY <2>1 DEF b, Total
    <3>2. \A i \in R : T[i] \in Nat /\ share[i] = (freed * T[i]) \div b
      BY <2>3
    <3> QED BY <1>2, <2>1, <3>1, <3>2, SumShares
  <2>10. SumFunctionOnSet(new, D) = SumFunctionOnSet(T, D) + SumFunctionOnSet(more, D)
    <3>1. \A i \in D : T[i] \in Int /\ more[i] \in Int /\ new[i] = T[i] + more[i]
      BY <2>4
    <3> QED BY <2>7, <3>1, SumPlus
  <2>11. SumFunctionOnSet(more, D) \in Nat
    BY <2>4, <2>7, SumNat
  <2>12. Total(new, D) <= Total(v, D)
    BY <1>5, <2>8, <2>9, <2>10, <2>11 DEF Total, freed
  <2>13. Total(new, D) \in Nat
    BY <2>4, <2>7, SumNat DEF Total
  <2>14. DOMAIN new = D
    BY <2>2
  <2>15. Total(new, D) <= Unit
    BY <1>4, <1>5, <2>12, <2>13
  <2> QED BY <2>4, <2>14, <2>15 DEF Shares, new
<1> QED BY <1>6, <1>7

-----------------------------------------------------------------------------
(* A sleeve returns a plan that it can afford, and the others keep theirs. *)
LEMMA ReturnAffordable ==
    ASSUME SharesInv, NEW plan, Return(plan), UNCHANGED <<book, geo>>,
           plan # NoPlan => Shares(plan.weights) /\ Affordable(Sleeve, plan.weights)
    PROVE  SharesInv'
<1>1. plans' = [plans EXCEPT ![Sleeve] = plan] /\ ~Trying'
  BY DEF Return, Trying
<1>2. \A s, k : Usable(s)' = Usable(s) /\ Chosen(s, k)' = Chosen(s, k)
                /\ Deployable(s, k)' = Deployable(s, k)
  BY DEF Usable, Better, Chosen, Deployable, SubBudget
<1>3. ASSUME NEW s \in DOMAIN plans', plans'[s] # NoPlan
      PROVE  Shares(plans'[s].weights) /\ Affordable(s, plans'[s].weights)
  <2>1. s \in DOMAIN plans
    BY <1>1
  <2>2. CASE s = Sleeve
    <3>1. plans'[s] = plan
      BY <1>1, <2>1, <2>2
    <3> QED BY <1>3, <2>2, <3>1
  <2>3. CASE s # Sleeve
    <3>1. plans'[s] = plans[s]
      BY <1>1, <2>1, <2>3
    <3> QED BY <1>3, <2>1, <3>1 DEF SharesInv
  <2> QED BY <2>2, <2>3
<1>4. (\A s \in DOMAIN plans : plans[s] # NoPlan =>
          Shares(plans[s].weights) /\ Affordable(s, plans[s].weights))'
  BY <1>2, <1>3 DEF Affordable, Shares, Total
<1> QED BY <1>1, <1>4 DEF SharesInv

(* Steps that leave plans and budget alone keep what was returned.         *)
LEMMA SharesRest ==
    ASSUME SharesInv, UNCHANGED <<book, plans>>, Trying' => Shares(w)'
    PROVE  SharesInv'
<1>1. \A s, k : Usable(s)' = Usable(s) /\ Chosen(s, k)' = Chosen(s, k)
                /\ Deployable(s, k)' = Deployable(s, k)
  BY DEF Usable, Better, Chosen, Deployable, SubBudget
<1>2. (\A s \in DOMAIN plans : plans[s] # NoPlan =>
          Shares(plans[s].weights) /\ Affordable(s, plans[s].weights))'
  BY <1>1 DEF SharesInv, Affordable, Shares, Total
<1> QED BY <1>2 DEF SharesInv

(* The inductive invariant: weights are shares of the whole at every step. *)
THEOREM SharesInvariance == Spec => [](NInv /\ SharesInv)
<1>1. Init => SharesInv
  BY DEF Init, SharesInv, Trying
<1>2. NInv /\ SharesInv /\ [Next]_vars => SharesInv'
  <2> SUFFICES ASSUME NInv, SharesInv, [Next]_vars PROVE SharesInv'
    OBVIOUS
  <2>1. book \in Books
    BY DEF NInv, TurnRight
  <2>2. \A s : Len(Usable(s)) \in Nat
    BY <2>1, FitFacts
  <2>3. CASE BeginSleeve \/ TooMany \/ Shrink
    <3>1. UNCHANGED <<book, plans>> /\ ~Trying'
      BY <2>3 DEF BeginSleeve, TooMany, Shrink, Trying
    <3> QED BY <3>1, SharesRest
  <2>4. CASE GiveUp
    <3>1. Return(NoPlan) /\ UNCHANGED <<book, geo>>
      BY <2>4 DEF GiveUp
    <3> QED BY <3>1, ReturnAffordable
  <2>5. CASE Weigh
    <3>1. /\ UNCHANGED <<book, plans>> /\ w' = Kelly(Chosen(Sleeve, n))
          /\ n > 0 /\ n \in 0..Len(Usable(Sleeve))
      BY <2>5 DEF Weigh, NInv, CountRight
    <3>2. n \in 1..Len(Usable(Sleeve))
      BY <2>2, <3>1
    <3>3. Shares(Kelly(Chosen(Sleeve, n)))
      BY <2>1, <3>2, KellyShares
    <3>4. Shares(w)'
      BY <3>1, <3>3 DEF Shares, Total
    <3> QED BY <3>1, <3>4, SharesRest
  <2>6. CASE ClipTokens \/ ClipPositions
    <3>1. PICK groups, ceiling :
            /\ w' = Clip(w, groups, ceiling) /\ UNCHANGED <<book, plans>> /\ Trying
            /\ \/ groups = ByMint(DOMAIN w) /\ ceiling = TokenCap(DOMAIN w)
               \/ groups = Singles(DOMAIN w) /\ ceiling = PositionCap(DOMAIN w)
      BY <2>6 DEF ClipTokens, ClipPositions, Trying
    <3>2. n \in 1..Len(Usable(Sleeve)) /\ DOMAIN w = Chosen(Sleeve, n)
      BY <2>2, <3>1 DEF NInv, CountRight, WeightsRight
    <3>3. IsFiniteSet(DOMAIN w) /\ Cardinality(DOMAIN w) = n /\ n # 0
      BY <2>1, <2>2, <3>2, ChosenFits
    <3>4. ceiling \in Nat
      BY <3>1, <3>3, CapTypes, FS_EmptySet
    <3>5. Apart(groups, DOMAIN w)
      BY <3>1, GroupsApart
    <3>6. Shares(Clip(w, groups, ceiling))
      BY <3>1, <3>3, <3>4, <3>5, ClipShares DEF SharesInv
    <3>7. Shares(w)'
      BY <3>1, <3>6 DEF Shares, Total
    <3> QED BY <3>1, <3>7, SharesRest
  <2>7. CASE Settle
    <3> DEFINE plan == [weights |-> w, breaches |-> {i \in DOMAIN w : w[i] > PositionCap(DOMAIN w)}]
    <3>1. Return(plan) /\ UNCHANGED <<book, geo>> /\ Trying
      BY <2>7 DEF Settle, Trying
    <3>2. /\ n \in 1..Len(Usable(Sleeve)) /\ DOMAIN w = Chosen(Sleeve, n)
          /\ Deployable(Sleeve, n) >= n * Floor
      BY <2>2, <3>1 DEF NInv, CountRight, WeightsRight
    <3>3. Deployable(Sleeve, n) >= 0
      <4>1. pc # "placed"
        BY <2>7 DEF Settle
      <4>2. SubBudget(Sleeve) \in Int /\ Rent \in Nat /\ Floor \in Nat /\ n \in Nat
        BY <2>2, <3>2, <4>1, SleeveType, SizingAssumption
      <4>3. Deployable(Sleeve, n) \in Int /\ n * Floor \in Nat
        BY <4>2 DEF Deployable
      <4> QED BY <3>2, <4>3
    <3>4. plan.weights = w
      OBVIOUS
    <3>5. Shares(plan.weights) /\ Affordable(Sleeve, plan.weights)
      BY <3>1, <3>2, <3>3, <3>4 DEF SharesInv, Affordable
    <3> HIDE DEF plan
    <3> QED BY <3>1, <3>5, ReturnAffordable
  <2>8. CASE Geometry \/ UNCHANGED vars
    <3>1. UNCHANGED <<book, plans, w, pc>>
      BY <2>8 DEF Geometry, vars
    <3>2. Trying' => Shares(w)'
      BY <3>1 DEF SharesInv, Trying, Shares, Total
    <3> QED BY <3>1, <3>2, SharesRest
  <2> QED BY <2>3, <2>4, <2>5, <2>6, <2>7, <2>8 DEF Next
<1>3. Spec => []SharesInv
  BY <1>1, <1>2, PlanInvariance, PTL DEF Spec
<1> QED BY <1>3, PlanInvariance, PTL

(* What the positions of a sleeve are told to take, with the rent of each, *)
(* is within the sleeve's share of the budget: for any budget, candidates, *)
(* ceilings and number of rounds.                                          *)
THEOREM SpendingCorrect == Spec => []BudgetKept
<1>1. NInv /\ SharesInv => BudgetKept
  <2> SUFFICES ASSUME NInv, SharesInv, NEW s \in DOMAIN plans, plans[s] # NoPlan
               PROVE  Spends(s) <= SubBudget(s)
    BY DEF BudgetKept
  <2> DEFINE v == plans[s].weights
             D == DOMAIN v
  <2>1. book \in Books
    BY DEF NInv, TurnRight
  <2>2. PICK k \in 1..Len(Usable(s)) : D = Chosen(s, k) /\ Deployable(s, k) >= 0
    BY DEF SharesInv, Affordable
  <2>3. (\A i \in D : v[i] \in Nat) /\ SumFunctionOnSet(v, D) <= Unit
    BY DEF SharesInv, Shares, Total
  <2>4. k \in Nat /\ k \in 0..Len(Usable(s))
    BY <2>1, FitFacts
  <2>5. IsFiniteSet(D) /\ Cardinality(D) = k
    BY <2>1, <2>2, <2>4, ChosenFits
  <2>6. SubBudget(s) \in Int /\ Rent \in Nat
    BY SubBudgetType, SizingAssumption DEF NInv, PlansRight
  <2> DEFINE d == Deployable(s, k)
             usd == [i \in D |-> Usd(s, v, i)]
  <2>7. d \in Nat /\ SubBudget(s) = d + k * Rent
    BY <2>2, <2>4, <2>6 DEF Deployable
  <2>8. \A i \in D : v[i] \in Nat /\ usd[i] = (d * v[i]) \div Unit
    BY <2>3, <2>5 DEF Usd
  <2>9. Unit \in Nat \ {0}
    BY SizingAssumption
  <2>10. Spends(s) = SumFunctionOnSet(usd, D) + k * Rent
    BY <2>5 DEF Spends
  <2> HIDE DEF D, d, usd, v
  <2>11. SumFunctionOnSet(usd, D) <= d
    BY <2>3, <2>5, <2>7, <2>8, <2>9, SumShares
  <2>12. SumFunctionOnSet(usd, D) \in Nat
    <3>1. \A i \in D : usd[i] \in Nat
      <4> SUFFICES ASSUME NEW i \in D PROVE (d * v[i]) \div Unit \in Nat
        BY <2>8
      <4> DEFINE m == d * v[i]
      <4>1. m \in Nat
        BY <2>7, <2>8
      <4> HIDE DEF m
      <4>2. m \div Unit \in Nat
        BY <2>9, <4>1, Z3
      <4> QED BY <4>2 DEF m
    <3> QED BY <2>5, <3>1, SumNat
  <2>13. k * Rent \in Nat
    BY <2>4, <2>6
  <2> QED BY <2>7, <2>10, <2>11, <2>12, <2>13
<1> QED BY <1>1, SharesInvariance, PTL
=============================================================================
