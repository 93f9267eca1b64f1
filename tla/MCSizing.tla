------------------------------ MODULE MCSizing ------------------------------
(* The ceilings and shares of sizing.py, rent and floor at a SOL price of  *)
(* 100 dollars, and three families of candidates: up to four core pools of *)
(* up to three tokens, three pools in any sleeves, eight core tokens.      *)
EXTENDS Sizing

ShareMC == [s \in {"core", "satellite"} |-> IF s = "core" THEN 85 ELSE 15]

CandOf(m, k, s, f) == [mint |-> m, kelly |-> k, sleeve |-> s, fit |-> f]

Core == UNION {
    {[i \in 1..len |-> CandOf(m[i], k[i], "core", TRUE)] :
        m \in {f \in [1..len -> 1..3] : f[1] = 1 /\ (len > 1 => f[2] < 3)},
        k \in [1..len -> {1, 2, 6}]} : len \in 1..4}

Mixed ==
    {[i \in 1..3 |-> CandOf(m[i], k[i], IF i \in core THEN "core" ELSE "satellite", i # out)] :
        m \in [1..3 -> 1..2], k \in [1..3 -> {1, 4}], core \in SUBSET (1..3), out \in {0, 1}}

Wide ==
    {[i \in 1..8 |-> CandOf(i, k[i], "core", TRUE)] :
        k \in {f \in [1..8 -> {1, 3, 9}] : \A i \in 1..7 : f[i] >= f[i + 1]}}

BooksMC ==
    [budget : {400, 2000}, cands : Core] \cup [budget : {350, 900, 2000}, cands : Mixed]
        \cup [budget : {1100, 3000}, cands : Wide]

=============================================================================
