------------------------------- MODULE Sizing -------------------------------
(***************************************************************************)
(* The allocator: ingest/sizing.py plan_book, plan and geometry.           *)
(*                                                                         *)
(* plan_book splits a budget over two sleeves and plans each by itself.    *)
(* plan looks for the largest number of positions the budget can carry:    *)
(* it weights the best n candidates by Kelly, trims the weights in turn    *)
(* to a ceiling per token and one per position until neither trims, and    *)
(* starts over with n - 1 when somebody is left below the floor.           *)
(*                                                                         *)
(* Abstracted: weights are whole parts of Unit, not floats; edge, sigma    *)
(* and the profile's exponent are the Kelly number they yield; what drops  *)
(* a candidate before any weighting (edge, sigma, number of observations)  *)
(* is one flag; money is in dollars.                                       *)
(***************************************************************************)
EXTENDS Integers, FiniteSets, Sequences, Functions

CONSTANTS
    Unit,          \* a weight of one
    TokenShare,    \* MAX_TOKEN_WEIGHT, in parts of Unit
    PositionShare, \* MAX_POSITION_WEIGHT, in parts of Unit
    Rounds,        \* the 60 of the clipping loop
    Rent, Floor,   \* rent_usd, min_position
    Cash,          \* GAS_BUFFER_USD / CASH_SOL_SHARE
    Share,         \* percent of each sleeve
    MaxPositions,  \* --max-positions
    Books,         \* inputs: a budget and the candidates of db.tradeable
    Sigmas, Steps, \* inputs of geometry: volatility, width of a bin (0: unknown)
    MaxBins        \* 1400

Sleeves == <<"core", "satellite">>

ASSUME SizingAssumption ==
    /\ Unit \in Nat \ {0} /\ TokenShare \in 0..Unit /\ PositionShare \in 0..Unit
    /\ Rounds \in Nat \ {0}
    /\ Rent \in Nat /\ Floor \in Nat /\ Cash \in Nat
    /\ Share \in [{"core", "satellite"} -> 0..100]
    /\ MaxPositions \in Nat
    /\ \A b \in Books :
         /\ b.budget \in Nat
         /\ IsFiniteSet(DOMAIN b.cands) /\ DOMAIN b.cands \subseteq Nat
         /\ \A i \in DOMAIN b.cands :
              /\ b.cands[i].kelly \in Nat \ {0} /\ b.cands[i].fit \in BOOLEAN
              /\ b.cands[i].sleeve \in {"core", "satellite"}
    /\ Sigmas \subseteq Nat \ {0} /\ Steps \subseteq Nat
    /\ MaxBins \in Nat

VARIABLES
    book,    \* the arguments of plan_book
    turn,    \* the sleeve that is planned
    pc,      \* "sleeve", "count", "tokens", "positions", "settle" or "placed"
    n,       \* the count that is tried
    w,       \* weights: from indices of candidates to parts of Unit
    round, moved,
    plans,   \* what plan returned for each sleeve
    geo      \* what geometry chose for one allocation

vars == <<book, turn, pc, n, w, round, moved, plans, geo>>

NoPlan == [weights |-> << >>, breaches |-> {}]
NoGeo  == [bins |-> 0, shape |-> "none"]

MaxOf(a, b) == IF a >= b THEN a ELSE b
MinOf(a, b) == IF a <= b THEN a ELSE b
Sleeve == Sleeves[turn]

(* plan_book: each sleeve has its share of what is left beside the cash.   *)
SubBudget(s) == (MaxOf(0, book.budget - Cash) * Share[s]) \div 100
SleeveCount(s) == MaxOf(1, (MaxPositions * Share[s] + 50) \div 100)

(* usable, best Kelly first *)
Better(i, j) ==
    \/ book.cands[i].kelly > book.cands[j].kelly
    \/ book.cands[i].kelly = book.cands[j].kelly /\ i < j

Usable(s) ==
    LET fit == {i \in DOMAIN book.cands : book.cands[i].sleeve = s /\ book.cands[i].fit}
    IN  [k \in 1..Cardinality(fit) |->
            CHOOSE i \in fit : Cardinality({j \in fit : Better(j, i)}) = k - 1]

Chosen(s, k) == {Usable(s)[i] : i \in 1..k}
Deployable(s, k) == SubBudget(s) - k * Rent

(* by_mint and singles *)
ByMint(pools) == {{j \in pools : book.cands[j].mint = book.cands[i].mint} : i \in pools}
Singles(pools) == {{i} : i \in pools}

(* "a cap can never bind tighter than 1/n" *)
TokenCapFixed(pools) == TokenShare                     \* variant: it can
TokenCap(pools) == MaxOf(TokenShare, Unit \div Cardinality(ByMint(pools)))

PositionCap(pools) == MaxOf(PositionShare, Unit \div Cardinality(pools))

Total(weights, pools) == SumFunctionOnSet(weights, pools)

Kelly(pools) ==
    LET k == [i \in pools |-> book.cands[i].kelly]
    IN  [i \in pools |-> (Unit * k[i]) \div Total(k, pools)]

(***************************************************************************)
(* clip: groups above the ceiling are trimmed to it, and what they lose    *)
(* goes to the others in proportion to what they have.  With no others the *)
(* weights stay trimmed, and the answer is no.                             *)
(***************************************************************************)
Over(weights, groups, ceiling) == {g \in groups : Total(weights, g) > ceiling}

(* x = excess * weight / share, rounded up *)
Trimmed(weights, groups, ceiling) ==
    [i \in DOMAIN weights |->
        IF \A g \in Over(weights, groups, ceiling) : i \notin g THEN weights[i]
        ELSE LET g == CHOOSE g \in groups : i \in g
                 t == Total(weights, g)
             IN  weights[i] - ((t - ceiling) * weights[i] + t - 1) \div t]

Room(weights, groups, ceiling) == UNION (groups \ Over(weights, groups, ceiling))

(* Variant: what is trimmed goes to the others in equal parts. *)
RaisedEqually(weights, freed, room) ==
    [i \in DOMAIN weights |->
        IF i \in room THEN weights[i] + freed \div Cardinality(room) ELSE weights[i]]

Raised(weights, freed, room) ==
    [i \in DOMAIN weights |->
        IF i \in room THEN weights[i] + (freed * weights[i]) \div Total(weights, room)
        ELSE weights[i]]

Clip(weights, groups, ceiling) ==
    LET trimmed == Trimmed(weights, groups, ceiling)
        room    == Room(weights, groups, ceiling)
        freed   == Total(weights, DOMAIN weights) - Total(trimmed, DOMAIN weights)
    IN  IF Total(weights, room) = 0 THEN trimmed ELSE Raised(trimmed, freed, room)

Clips(weights, groups, ceiling) ==
    /\ Over(weights, groups, ceiling) # {}
    /\ Total(weights, Room(weights, groups, ceiling)) # 0

Usd(s, weights, i) == (Deployable(s, Cardinality(DOMAIN weights)) * weights[i]) \div Unit

-----------------------------------------------------------------------------
Init ==
    /\ book \in Books
    /\ turn = 1 /\ pc = "sleeve"
    /\ n = 0 /\ w = << >> /\ round = 0 /\ moved = FALSE
    /\ plans = [s \in {"core", "satellite"} |-> NoPlan]
    /\ geo = NoGeo

(* The sleeve is done; the next one, or the merged result. *)
Return(plan) ==
    /\ plans' = [plans EXCEPT ![Sleeve] = plan]
    /\ turn' = turn + 1
    /\ pc' = IF turn = Len(Sleeves) THEN "placed" ELSE "sleeve"
    /\ n' = 0 /\ w' = << >> /\ round' = 0 /\ moved' = FALSE

BeginSleeve ==
    /\ pc = "sleeve"
    /\ n' = MinOf(SleeveCount(Sleeve), Len(Usable(Sleeve)))
    /\ pc' = "count"
    /\ UNCHANGED <<book, turn, w, round, moved, plans, geo>>

(* Nothing usable, or the budget cannot carry a position: an empty plan. *)
GiveUp ==
    /\ pc = "count" /\ n = 0
    /\ Return(NoPlan)
    /\ UNCHANGED <<book, geo>>

TooMany ==
    /\ pc = "count" /\ n > 0
    /\ Deployable(Sleeve, n) < n * Floor
    /\ n' = n - 1
    /\ UNCHANGED <<book, turn, pc, w, round, moved, plans, geo>>

Weigh ==
    /\ pc = "count" /\ n > 0
    /\ Deployable(Sleeve, n) >= n * Floor
    /\ w' = Kelly(Chosen(Sleeve, n))
    /\ round' = 0
    /\ pc' = "tokens"
    /\ UNCHANGED <<book, turn, n, moved, plans, geo>>

ClipTokens ==
    /\ pc = "tokens"
    /\ w' = Clip(w, ByMint(DOMAIN w), TokenCap(DOMAIN w))
    /\ moved' = Clips(w, ByMint(DOMAIN w), TokenCap(DOMAIN w))
    /\ pc' = "positions"
    /\ UNCHANGED <<book, turn, n, round, plans, geo>>

(* Variant: one round has to do. *)
AgainOnce(clipped) == FALSE

Again(clipped) == (moved \/ clipped) /\ round + 1 < Rounds

ClipPositions ==
    /\ pc = "positions"
    /\ w' = Clip(w, Singles(DOMAIN w), PositionCap(DOMAIN w))
    /\ round' = round + 1
    /\ pc' = IF Again(Clips(w, Singles(DOMAIN w), PositionCap(DOMAIN w)))
             THEN "tokens" ELSE "settle"
    /\ UNCHANGED <<book, turn, n, moved, plans, geo>>

BelowFloor == {i \in DOMAIN w : Usd(Sleeve, w, i) < Floor}

Shrink ==
    /\ pc = "settle" /\ BelowFloor # {}
    /\ n' = n - 1
    /\ w' = << >>
    /\ pc' = "count"
    /\ UNCHANGED <<book, turn, round, moved, plans, geo>>

Settle ==
    /\ pc = "settle" /\ BelowFloor = {}
    /\ Return([weights |-> w, breaches |-> {i \in DOMAIN w : w[i] > PositionCap(DOMAIN w)}])
    /\ UNCHANGED <<book, geo>>

(***************************************************************************)
(* geometry, for an allocation that cmd_manage is about to open: the width *)
(* that covers the sleeve's target in daily sigmas, and the shape that     *)
(* suits the coverage the width gives.                                     *)
(***************************************************************************)
Target(s) == IF s = "core" THEN 2 ELSE 1

CeilDiv(a, b) == (a + b - 1) \div b

Width(s, sigma, step) ==
    IF step = 0 THEN 69
    ELSE MinOf(2 * MaxOf(1, CeilDiv(sigma * Target(s), step)) + 1, MaxBins)

(* Half the range in units of sigma, against 1.5 and 0.7. *)
HalfWidth(bins, step) == (bins \div 2) * step

(* Variant: the two thresholds in the wrong order. *)
ShapeSwapped(bins, sigma, step, thin) ==
    IF thin /\ 2 * HalfWidth(bins, step) < 3 * sigma THEN "spot"
    ELSE IF 10 * HalfWidth(bins, step) >= 7 * sigma THEN "spot"
    ELSE IF 2 * HalfWidth(bins, step) >= 3 * sigma THEN "curve"
    ELSE "bidask"

Shape(bins, sigma, step, thin) ==
    IF thin /\ 2 * HalfWidth(bins, step) < 3 * sigma THEN "spot"
    ELSE IF 2 * HalfWidth(bins, step) >= 3 * sigma THEN "curve"
    ELSE IF 10 * HalfWidth(bins, step) >= 7 * sigma THEN "spot"
    ELSE "bidask"

Geometry ==
    /\ pc = "placed" /\ geo = NoGeo
    /\ \E s \in DOMAIN plans, sigma \in Sigmas, step \in Steps, thin \in BOOLEAN :
         /\ plans[s] # NoPlan
         /\ geo' = [bins |-> Width(s, sigma, step),
                    shape |-> Shape(Width(s, sigma, step), sigma, step, thin),
                    sleeve |-> s, step |-> step]
    /\ UNCHANGED <<book, turn, pc, n, w, round, moved, plans>>

Next ==
    \/ BeginSleeve \/ GiveUp \/ TooMany \/ Weigh
    \/ ClipTokens \/ ClipPositions \/ Shrink \/ Settle
    \/ Geometry

Spec == Init /\ [][Next]_vars

-----------------------------------------------------------------------------
(* A weight is known up to the rounding of Unit over all rounds. *)
Slack == Unit \div 100

Placed(s) == DOMAIN plans[s].weights
TokenWeight(s, g) == Total(plans[s].weights, g)
MintGroup(s, i) == {j \in Placed(s) : book.cands[j].mint = book.cands[i].mint}

(* Some weights satisfy both ceilings. *)
Compatible(s) ==
    FoldFunction(+, 0, [g \in ByMint(Placed(s)) |->
        MinOf(TokenCap(Placed(s)), Cardinality(g) * PositionCap(Placed(s)))]) >= Unit

(***************************************************************************)
(* "Both ceilings have to be enforced together": although each clip can    *)
(* undo the other one, the loop ends with weights that keep both ceilings  *)
(* whenever any weights do, and that add up to the whole.  (When none do,  *)
(* the comment goes on, "the token cap wins and the breach is reported":   *)
(* it does not, and only positions above their ceiling are reported.)      *)
(***************************************************************************)
CapsKept ==
    \A s \in DOMAIN plans : plans[s] # NoPlan =>
        /\ Total(plans[s].weights, Placed(s)) \in (Unit - Slack)..Unit
        /\ Compatible(s) =>
             /\ \A g \in ByMint(Placed(s)) : TokenWeight(s, g) <= TokenCap(Placed(s)) + Slack
             /\ \A i \in Placed(s) : plans[s].weights[i] <= PositionCap(Placed(s)) + Slack

(***************************************************************************)
(* The ceilings do not throw "away the Kelly ranking the whole exercise    *)
(* exists to apply": among the pools of one token, and among pools that    *)
(* are alone in theirs, the better one never gets less; and two that no    *)
(* ceiling holds down stand in the ratio of their Kelly numbers.           *)
(***************************************************************************)
HeldDown(s, i) ==
    \/ plans[s].weights[i] >= PositionCap(Placed(s)) - Slack
    \/ TokenWeight(s, MintGroup(s, i)) >= TokenCap(Placed(s)) - Slack

Comparable(s, i, j) ==
    \/ book.cands[i].mint = book.cands[j].mint
    \/ MintGroup(s, i) = {i} /\ MintGroup(s, j) = {j}

KellyKept ==
    \A s \in DOMAIN plans : \A i, j \in Placed(s) :
        LET ki == book.cands[i].kelly   wi == plans[s].weights[i]
            kj == book.cands[j].kelly   wj == plans[s].weights[j]
        IN  /\ Comparable(s, i, j) /\ ki >= kj => wi + Slack >= wj
            /\ ~HeldDown(s, i) /\ ~HeldDown(s, j) /\ ki >= kj =>
                 wi * kj - wj * ki \in -(ki * Slack)..(ki * Slack)

(***************************************************************************)
(* Shrinking ends with a plan: where a sleeve's money carries one position *)
(* at the floor, and a candidate is there, somebody is placed.             *)
(***************************************************************************)
NeverEmpty ==
    pc = "placed" =>
        \A s \in DOMAIN plans :
            Usable(s) # << >> /\ SubBudget(s) >= Rent + Floor => plans[s] # NoPlan

(***************************************************************************)
(* "The shape then follows from the geometry": unless the width hits the   *)
(* limit of bins (or the bin step is not known), a core position covers    *)
(* enough to concentrate, and nothing is spread to the edges.              *)
(***************************************************************************)
ShapeFromWidth ==
    geo # NoGeo /\ geo.bins < MaxBins /\ geo.step # 0 =>
        geo.shape # "bidask" /\ (geo.sleeve = "core" => geo.shape = "curve")

=============================================================================
